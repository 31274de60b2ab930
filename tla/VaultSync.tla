------------------------------ MODULE VaultSync ------------------------------
(***************************************************************************)
(* Publication and deletion of media by several devices, each with several *)
(* browser tabs, through the storage Worker onto one Git branch.           *)
(*                                                                         *)
(*   client  src/services/uploadService.js (finalizeUploads),              *)
(*           src/services/deleteService.js, src/services/vaultCommit.js,   *)
(*           src/session/revision.js, src/utils/vaultLock.js               *)
(*   Worker  worker/index.js (commitBatch, deleteMedia, postHfCommit)      *)
(*   storage the branch `main` of the dataset: external, an append-only    *)
(*           list of commits with a compare-and-set on the parent          *)
(*                                                                         *)
(* A tab reads the head, the manifest pinned to it, and sends a request    *)
(* whose commits must extend that head.  Requests outlive the tab that     *)
(* sent them; answers can be lost; what is stored on a device survives a   *)
(* crash of its tabs.                                                      *)
(***************************************************************************)
EXTENDS CommitPlan, FiniteSets

CONSTANTS
    Devices,         \* browser profiles: each has one lock, queue and mark
    Tabs,            \* browsing contexts
    DeviceOf,        \* the device of each tab
    Media,           \* media identities
    InitialMedia,    \* media already published at the start
    Parts,           \* pointers (whole file or chunks) of each medium
    None,            \* no tab
    MetaOps,         \* metadata files in a publication: manifest and pages
    MaxItems,        \* items in one publication (groupPublications)
    MaxPointers,     \* pointers in one publication (groupPublications)
    MaxDeleteOps,    \* MAX_DELETE_OPERATIONS_PER_COMMIT of the Worker
    MaxRebase,       \* MAX_FINALIZE_REBASE
    DeleteAttempts,  \* attempts of deleteMedia
    AttrsAtStart,    \* whether .gitattributes may be, or lack, up to date
    GalleryTabs,     \* bound: tabs that open a gallery
    MaxCommits,      \* bound: no operation starts on a longer history
    MaxFaults        \* bound: crashes, cancellations and network failures

ASSUME TopologyAssumption ==
    /\ DeviceOf \in [Tabs -> Devices]
    /\ None \notin Tabs
    /\ GalleryTabs \subseteq Tabs
    /\ AttrsAtStart \subseteq BOOLEAN

ASSUME MediaAssumption ==
    /\ InitialMedia \subseteq Media
    /\ Parts \in [Media -> Nat \ {0}]

ASSUME LimitAssumption ==
    /\ MetaOps \in 1 .. MaxOps
    /\ {MaxItems, MaxPointers, MaxDeleteOps, DeleteAttempts} \subseteq Nat \ {0}
    /\ {MaxRebase, MaxCommits, MaxFaults} \subseteq Nat

VARIABLES
    commits,    \* the branch: one snapshot per commit
    reqs,       \* mutation requests inside the Worker, or answered
    lock,       \* the Web Lock 'vaultphotos-vault' of each device
    mark,       \* the high-water revision stored on each device
    rows,       \* the upload queue of each device: staged, not yet reported done
    op,         \* what each tab is doing
    \* History, read by the properties alone.
    used,       \* media ever staged for upload
    cancelled,  \* media whose upload the user cancelled
    deleted,    \* media removed by a delete that landed
    alarm,      \* some operation was refused with VAULT_ROLLBACK
    faults      \* failures so far

remote  == <<commits, reqs, deleted>>
stored  == <<mark, rows>>
history == <<used, cancelled>>
vars    == <<remote, stored, history, lock, op, alarm, faults>>

Pointers(m)   == {m} \X (0 .. Parts[m] - 1)
PointersOf(S) == UNION {Pointers(m) : m \in S}
AllPointers   == PointersOf(Media)

\* A snapshot: the manifest's media and revision, the pointers under files/,
\* and whether .gitattributes covers every path the Worker stores.
Commit == [ids : SUBSET Media, rev : Nat, pointers : SUBSET AllPointers,
           attrs : BOOLEAN]

\* The snapshot at the head of the branch `main'.
Main == commits[Len(commits)]

(***************************************************************************)
(* A request carries the parent it was built on, the new manifest (ids and *)
(* rev) and the pointers it adds or deletes.  `todo' are the pointers that *)
(* no commit of the request has staged yet, `batch' the next commit of the *)
(* plan.                                                                   *)
(***************************************************************************)
Live     == {"ensure", "attrs", "batch"}
Answered == {"ok", "stale", "fail"}

Request == [from : Tabs \cup {None}, kind : {"publish", "delete"},
            items : SUBSET Media, ids : SUBSET Media, rev : Nat, parent : Nat,
            pointers : SUBSET AllPointers, todo : SUBSET AllPointers,
            batch : Nat, phase : Live \cup Answered]

(***************************************************************************)
(* A tab's operation.  For a finalize, `items' are the finished uploads,   *)
(* `todo' those whose group is not done, `group' the group being           *)
(* published; for a delete `items' is the one medium.  `base' is the head  *)
(* it read last, `attempt' counts the attempts at this group, `rev' is the *)
(* revision of an acknowledged publication.                                *)
(***************************************************************************)
Phase == {"idle", "wait", "head", "manifest", "commit", "check", "dequeue", "observe"}

Operation == [kind : {"none", "finalize", "delete", "load"}, phase : Phase,
              items : SUBSET Media, todo : SUBSET Media, group : SUBSET Media,
              base : Nat, attempt : Nat, rev : Nat]

NoOp == [kind |-> "none", phase |-> "idle", items |-> {}, todo |-> {},
         group |-> {}, base |-> 0, attempt |-> 0, rev |-> 0]

\* The vault is initialised; an older Worker may have written .gitattributes.
Init ==
    /\ \E attrs \in AttrsAtStart :
         commits = << [ids |-> InitialMedia, rev |-> 0,
                       pointers |-> PointersOf(InitialMedia), attrs |-> attrs] >>
    /\ reqs = {}
    /\ lock = [d \in Devices |-> None]
    /\ mark = [d \in Devices |-> 0]
    /\ rows = [d \in Devices |-> {}]
    /\ op = [t \in Tabs |-> NoOp]
    /\ used = {} /\ cancelled = {} /\ deleted = {}
    /\ alarm = FALSE
    /\ faults = 0

(***************************************************************************)
(* Client: helpers                                                         *)
(***************************************************************************)

Fault == faults < MaxFaults /\ faults' = faults + 1

RequestOf(t) == {r \in reqs : r.from = t}

\* A holder that returns without giving the lock back.
LockKept(t) == lock

\* The lock is released when its holder returns, throws or dies.
Released(t) == [lock EXCEPT ![DeviceOf[t]] = IF @ = t THEN None ELSE @]

EndOp(t) == op' = [op EXCEPT ![t] = NoOp] /\ lock' = Released(t)

Goto(t, phase) == op' = [op EXCEPT ![t].phase = phase]

\* checkManifestRevision: one transaction that refuses a revision below the
\* device's mark and otherwise raises the mark to it.
IsRollback(t, rev) == rev < mark[DeviceOf[t]]

\* The mark raised to the revision that is about to be written.
ObserveNext(t, rev) ==
    /\ ~IsRollback(t, rev)
    /\ mark' = [mark EXCEPT ![DeviceOf[t]] = MaxOf(@, rev + 1)]

Observe(t, rev) ==
    /\ ~IsRollback(t, rev)
    /\ mark' = [mark EXCEPT ![DeviceOf[t]] = MaxOf(@, rev)]

\* The manifest pinned to the head the tab read.
Pinned(t) == commits[op[t].base]

\* The groups groupPublications can cut first from the items left, whatever
\* their order: within the limits, and all that is left unless some next
\* item would exceed them.
FirstGroups(items) ==
    {g \in (SUBSET items) \ {{}} :
        /\ Cardinality(g) <= MaxItems
        /\ Cardinality(PointersOf(g)) <= MaxPointers
        /\ \/ g = items
           \/ Cardinality(g) = MaxItems
           \/ \E m \in items \ g :
                  Cardinality(PointersOf(g)) + Parts[m] > MaxPointers}

\* Retrying an upload whose answer was lost, trusting the retry to be new.
AllPending(group, ids) == group

\* selectPendingItems: the group without what the manifest already lists.
PendingItems(group, ids) == group \ ids

(***************************************************************************)
(* Client: starting an operation                                           *)
(***************************************************************************)

\* An upload's objects are stored and its queue row holds all receipts.  The
\* id is freshly drawn, so no other device ever stages it.
Stage(d) ==
    /\ Len(commits) < MaxCommits
    /\ \E m \in Media \ (used \cup InitialMedia) :
         /\ used' = used \cup {m}
         /\ rows' = [rows EXCEPT ![d] = @ \cup {m}]
    /\ UNCHANGED <<remote, mark, cancelled, lock, op, alarm, faults>>

\* uploadMediaBatch or resumeQueuedUploads reaches finalizeUploads.  A single
\* item beyond the pointer limit makes groupPublications throw.
StartFinalize(t) ==
    /\ op[t].phase = "idle"
    /\ Len(commits) < MaxCommits
    /\ \E S \in (SUBSET rows[DeviceOf[t]]) \ {{}} :
         /\ \A m \in S : Parts[m] <= MaxPointers
         /\ op' = [op EXCEPT ![t] = [NoOp EXCEPT !.kind = "finalize", !.phase = "wait",
                                                !.items = S, !.todo = S]]
    /\ UNCHANGED <<remote, stored, history, lock, alarm, faults>>

\* The viewer's delete button, on a medium some gallery once listed.
StartDelete(t) ==
    /\ op[t].phase = "idle"
    /\ Len(commits) < MaxCommits
    /\ \E m \in UNION {commits[i].ids : i \in DOMAIN commits} :
         op' = [op EXCEPT ![t] = [NoOp EXCEPT !.kind = "delete", !.phase = "wait",
                                            !.items = {m}]]
    /\ UNCHANGED <<remote, stored, history, lock, alarm, faults>>

\* A gallery opens: it fetches the manifest of the branch, without the lock.
StartLoad(t) ==
    /\ t \in GalleryTabs
    /\ op[t].phase = "idle"
    /\ op' = [op EXCEPT ![t] = [NoOp EXCEPT !.kind = "load", !.phase = "observe",
                                           !.base = Len(commits)]]
    /\ UNCHANGED <<remote, stored, history, lock, alarm, faults>>

\* ... and checks the manifest against the mark once it is decrypted.
ObserveLoaded(t) ==
    /\ op[t].phase = "observe"
    /\ Observe(t, Pinned(t).rev)
    /\ EndOp(t)
    /\ UNCHANGED <<remote, rows, history, alarm, faults>>

(***************************************************************************)
(* Client: the transaction, under the lock                                 *)
(***************************************************************************)

\* A lock nobody holds exclusively.
AcquireShared(t) ==
    /\ op[t].phase = "wait"
    /\ lock' = [lock EXCEPT ![DeviceOf[t]] = t]
    /\ Goto(t, "head")
    /\ UNCHANGED <<remote, stored, history, alarm, faults>>

AcquireLock(t) ==
    /\ op[t].phase = "wait"
    /\ lock[DeviceOf[t]] = None
    /\ lock' = [lock EXCEPT ![DeviceOf[t]] = t]
    /\ Goto(t, "head")
    /\ UNCHANGED <<remote, stored, history, alarm, faults>>

\* GET /vault-head.  The group of a finalize stays the same over its attempts.
ReadHead(t) ==
    /\ op[t].phase = "head"
    /\ \E g \in IF op[t].kind = "finalize" /\ op[t].group = {}
                THEN FirstGroups(op[t].todo) ELSE {op[t].group} :
         op' = [op EXCEPT ![t].phase = "manifest", ![t].group = g,
                          ![t].base = Len(commits), ![t].attempt = @ + 1]
    /\ UNCHANGED <<remote, stored, history, lock, alarm, faults>>

\* VAULT_ROLLBACK: the manifest read, or the revision just acknowledged, is
\* below a mark that another tab of the device has raised meanwhile.  It is
\* not a stale-vault error: the whole operation fails.
RefuseRollback(t) ==
    /\ \/ op[t].phase \in {"manifest", "observe"} /\ IsRollback(t, Pinned(t).rev)
       \/ op[t].phase = "check" /\ IsRollback(t, op[t].rev)
    /\ alarm' = TRUE
    /\ EndOp(t)
    /\ UNCHANGED <<remote, stored, history, faults>>

\* A group is done: the next group, or, after the last one, the lock is given
\* back and the rows are ready to be dropped.
NextGroup(t) ==
    /\ op[t].todo # op[t].group
    /\ op' = [op EXCEPT ![t].phase = "head", ![t].todo = @ \ op[t].group,
                        ![t].group = {}, ![t].attempt = 0]
    /\ UNCHANGED lock

LastGroup(t) ==
    /\ op[t].todo = op[t].group
    /\ op' = [op EXCEPT ![t].phase = "dequeue", ![t].todo = {}, ![t].group = {}]
    /\ lock' = Released(t)

GroupDone(t) == NextGroup(t) \/ LastGroup(t)

\* Everything in the group is in the pinned manifest already.
SkipGroup(t) ==
    /\ op[t].kind = "finalize" /\ op[t].phase = "manifest"
    /\ Observe(t, Pinned(t).rev)
    /\ PendingItems(op[t].group, Pinned(t).ids) = {}
    /\ GroupDone(t)
    /\ UNCHANGED <<remote, rows, history, alarm, faults>>

\* The manifest's revision left as it was read, or counted down.
SameRevision(rev) == rev
PreviousRevision(rev) == rev - 1

NextRevision(rev) == rev + 1

Send(t, kind, items, ids, pointers) ==
    reqs' = reqs \cup
        {[from |-> t, kind |-> kind, items |-> items, ids |-> ids,
          rev |-> NextRevision(Pinned(t).rev), parent |-> op[t].base,
          pointers |-> pointers, todo |-> IF kind = "publish" THEN pointers ELSE {},
          batch |-> 0, phase |-> "ensure"]}

\* POST /commit-batch for what the pinned manifest does not list.
SubmitPublish(t) ==
    /\ op[t].kind = "finalize" /\ op[t].phase = "manifest"
    /\ Observe(t, Pinned(t).rev)
    /\ LET pending == PendingItems(op[t].group, Pinned(t).ids)
       IN  /\ pending # {}
           /\ Send(t, "publish", pending, Pinned(t).ids \cup pending, PointersOf(pending))
    /\ Goto(t, "commit")
    /\ UNCHANGED <<commits, deleted, rows, history, lock, alarm, faults>>

\* POST /delete-media.  The Worker refuses a medium with more pointers than
\* one commit can delete beside the manifest.
Deletable(m) == Parts[m] + 1 <= MaxDeleteOps

SubmitDelete(t) ==
    /\ op[t].kind = "delete" /\ op[t].phase = "manifest"
    /\ Observe(t, Pinned(t).rev)
    /\ op[t].items \subseteq Pinned(t).ids
    /\ \A m \in op[t].items : Deletable(m)
    /\ Send(t, "delete", op[t].items, Pinned(t).ids \ op[t].items, PointersOf(op[t].items))
    /\ Goto(t, "commit")
    /\ UNCHANGED <<commits, deleted, rows, history, lock, alarm, faults>>

\* The medium is gone already, or the request is refused.
EndDelete(t) ==
    /\ op[t].kind = "delete" /\ op[t].phase = "manifest"
    /\ Observe(t, Pinned(t).rev)
    /\ \A m \in op[t].items : m \in Pinned(t).ids => ~Deletable(m)
    /\ EndOp(t)
    /\ UNCHANGED <<remote, rows, history, alarm, faults>>

(***************************************************************************)
(* Client: the answer                                                      *)
(***************************************************************************)

\* Every failed commit taken for a conflict.
AnyFailureIsStale(r) == r.phase \in {"stale", "fail"}

IsVaultStale(r) == r.phase = "stale"

MayRetry(t) ==
    IF op[t].kind = "finalize" THEN op[t].attempt <= MaxRebase
                               ELSE op[t].attempt < DeleteAttempts

CommitAcknowledged(t) ==
    /\ op[t].phase = "commit"
    /\ \E r \in RequestOf(t) :
         /\ r.phase = "ok"
         /\ reqs' = reqs \ {r}
         /\ \/ /\ r.kind = "publish"
               /\ op' = [op EXCEPT ![t].phase = "check", ![t].rev = r.rev]
               /\ UNCHANGED lock
            \/ r.kind = "delete" /\ EndOp(t)
    /\ UNCHANGED <<commits, deleted, stored, history, alarm, faults>>

\* The mark is raised to the acknowledged revision, in a step of its own.
ObserveCommitted(t) ==
    /\ op[t].phase = "check"
    /\ Observe(t, op[t].rev)
    /\ GroupDone(t)
    /\ UNCHANGED <<remote, rows, history, alarm, faults>>

\* VAULT_STALE: a fresh head, a fresh manifest, what it lacks, again; up to
\* the bound, beyond which the operation fails.
Rebase(t) ==
    /\ op[t].phase = "commit"
    /\ \E r \in RequestOf(t) : IsVaultStale(r) /\ reqs' = reqs \ {r}
    /\ \/ MayRetry(t) /\ Goto(t, "head") /\ UNCHANGED lock
       \/ ~MayRetry(t) /\ EndOp(t)
    /\ UNCHANGED <<commits, deleted, stored, history, alarm, faults>>

\* A failed publication that cleans up its rows as a finished one does.
FailureDequeues(t) ==
    /\ op[t].phase = "commit"
    /\ \E r \in RequestOf(t) : r.phase = "fail" /\ reqs' = reqs \ {r}
    /\ \/ op[t].kind = "finalize" /\ Goto(t, "dequeue") /\ lock' = Released(t)
       \/ op[t].kind = "delete" /\ EndOp(t)
    /\ UNCHANGED <<commits, deleted, stored, history, alarm, faults>>

\* Any other failure ends the operation; the rows stay for a retry.
CommitFailed(t) ==
    /\ op[t].phase = "commit"
    /\ \E r \in RequestOf(t) : r.phase = "fail" /\ ~IsVaultStale(r) /\ reqs' = reqs \ {r}
    /\ EndOp(t)
    /\ UNCHANGED <<commits, deleted, stored, history, alarm, faults>>

\* Rows are dropped one by one after the lock was given back.
Dequeue(t) ==
    /\ op[t].phase = "dequeue"
    /\ \E m \in op[t].items :
         /\ rows' = [rows EXCEPT ![DeviceOf[t]] = @ \ {m}]
         /\ \/ op[t].items = {m} /\ op' = [op EXCEPT ![t] = NoOp]
            \/ op[t].items # {m} /\ op' = [op EXCEPT ![t].items = @ \ {m}]
    /\ UNCHANGED <<remote, mark, history, lock, alarm, faults>>

(***************************************************************************)
(* Failures at the client.  A request whose tab no longer waits goes on.   *)
(***************************************************************************)

Orphaned(t) == {IF r.from = t THEN [r EXCEPT !.from = None] ELSE r : r \in reqs}

\* The connection fails with the request in any state: the client sees an
\* error that says nothing about the commit.
LoseAnswer(t) ==
    /\ RequestOf(t) # {}
    /\ Fault
    /\ reqs' = Orphaned(t)
    /\ EndOp(t)
    /\ UNCHANGED <<commits, deleted, stored, history, alarm>>

\* The user cancels (the rows of the batch go) or locks the vault (they
\* stay).  The signal is seen before a head is read and during the commit.
Abort(t) ==
    /\ op[t].kind = "finalize" /\ op[t].phase \in {"head", "commit"}
    /\ Fault
    /\ reqs' = Orphaned(t)
    /\ EndOp(t)
    /\ \/ UNCHANGED <<rows, cancelled>>
       \/ /\ rows' = [rows EXCEPT ![DeviceOf[t]] = @ \ op[t].items]
          /\ cancelled' = cancelled \cup op[t].items
    /\ UNCHANGED <<commits, deleted, mark, used, alarm>>

\* The tab is closed or killed; what the device stores survives.
Crash(t) ==
    /\ op[t].phase # "idle"
    /\ Fault
    /\ reqs' = Orphaned(t)
    /\ EndOp(t)
    /\ UNCHANGED <<commits, deleted, stored, history, alarm>>

(***************************************************************************)
(* Worker and storage                                                      *)
(***************************************************************************)

Becomes(r, s) == reqs' = (reqs \ {r}) \cup {s}

\* ensureGitAttributes reads the tree of the branch ...
EnsureAttributes(r) ==
    /\ r.phase = "ensure"
    /\ Becomes(r, [r EXCEPT !.phase = IF Main.attrs THEN "batch" ELSE "attrs"])
    /\ UNCHANGED <<commits, deleted, stored, history, lock, op, alarm, faults>>

\* ... and, when a pattern is missing, commits without naming a parent.
CommitAttributes(r) ==
    /\ r.phase = "attrs"
    /\ commits' = Append(commits, [Main EXCEPT !.attrs = TRUE])
    /\ Becomes(r, [r EXCEPT !.phase = "batch"])
    /\ UNCHANGED <<deleted, stored, history, lock, op, alarm, faults>>

\* A commit header without parentCommit: the storage accepts any parent.
AnyParent(r) == TRUE

\* The storage's compare-and-set on the parent named in the commit header.
ParentIsHead(r) == r.parent = Len(commits)

\* The number of a request's early commits, from the planner.
EarlyBatches(r) ==
    IF r.kind = "publish" THEN EarlyBatchCount(MetaOps, Cardinality(r.pointers)) ELSE 0

\* A commit of the plan that stages pointers only.  Its oid is the parent of
\* the next commit of the request.
LandEarlyBatch(r) ==
    /\ r.phase = "batch" /\ ParentIsHead(r)
    /\ r.batch < EarlyBatches(r)
    /\ \E S \in SUBSET r.todo :
         /\ Cardinality(S) = EarlyTake(MetaOps, Cardinality(r.pointers), r.batch)
         /\ commits' = Append(commits, [Main EXCEPT !.pointers = @ \cup S])
         /\ Becomes(r, [r EXCEPT !.todo = @ \ S, !.batch = @ + 1,
                                 !.parent = Len(commits) + 1])
    /\ UNCHANGED <<deleted, stored, history, lock, op, alarm, faults>>

\* A last commit with the metadata only.
PublishedBare(r, below) == [below EXCEPT !.ids = r.ids, !.rev = r.rev]

\* What the last commit of a request makes of the snapshot below it.
Published(r, below) ==
    [below EXCEPT !.ids = r.ids, !.rev = r.rev, !.pointers = @ \cup r.todo]

Removed(r, below) ==
    [below EXCEPT !.ids = r.ids, !.rev = r.rev, !.pointers = @ \ r.pointers]

Land(r, answer) ==
    /\ r.phase = "batch" /\ ParentIsHead(r)
    /\ r.batch = EarlyBatches(r)
    /\ \/ /\ r.kind = "publish"
          /\ commits' = Append(commits, Published(r, Main))
          /\ UNCHANGED deleted
       \/ /\ r.kind = "delete"
          /\ commits' = Append(commits, Removed(r, Main))
          /\ deleted' = deleted \cup r.items
    /\ Becomes(r, [r EXCEPT !.phase = answer])

\* The last commit of the plan, or the only commit of a delete.
LandFinalBatch(r) ==
    /\ Land(r, "ok")
    /\ UNCHANGED <<stored, history, lock, op, alarm, faults>>

\* It lands, but the storage answers with a 5xx or the connection breaks: a
\* commit that names a parent is not repeated, the request fails.
LandUnconfirmed(r) ==
    /\ Land(r, "fail")
    /\ Fault
    /\ UNCHANGED <<stored, history, lock, op, alarm>>

\* 409 or 412 from the storage.
Conflict(r) ==
    /\ r.phase = "batch" /\ ~ParentIsHead(r)
    /\ Becomes(r, [r EXCEPT !.phase = "stale"])
    /\ UNCHANGED <<commits, deleted, stored, history, lock, op, alarm, faults>>

\* The request dies between two commits or before the first: the storage is
\* unreachable, or the Worker is.
FailRequest(r) ==
    /\ r.phase \in Live
    /\ Fault
    /\ Becomes(r, [r EXCEPT !.phase = "fail"])
    /\ UNCHANGED <<commits, deleted, stored, history, lock, op, alarm>>

(***************************************************************************)
(* Next-state relation                                                     *)
(***************************************************************************)

ClientStep(t) ==
    \/ ReadHead(t) \/ RefuseRollback(t) \/ SkipGroup(t)
    \/ SubmitPublish(t) \/ SubmitDelete(t) \/ EndDelete(t)
    \/ CommitAcknowledged(t) \/ ObserveCommitted(t) \/ Rebase(t) \/ CommitFailed(t)
    \/ Dequeue(t) \/ ObserveLoaded(t)

UserStep(t)   == StartFinalize(t) \/ StartDelete(t) \/ StartLoad(t)
FailStep(t)   == LoseAnswer(t) \/ Abort(t) \/ Crash(t)

WorkerStep(r) ==
    \/ EnsureAttributes(r) \/ CommitAttributes(r)
    \/ LandEarlyBatch(r) \/ LandFinalBatch(r) \/ Conflict(r)

WorkerFailure(r) == LandUnconfirmed(r) \/ FailRequest(r)

Next ==
    \/ \E d \in Devices : Stage(d)
    \/ \E t \in Tabs : UserStep(t) \/ AcquireLock(t) \/ ClientStep(t) \/ FailStep(t)
    \/ \E r \in reqs : WorkerStep(r) \/ WorkerFailure(r)

Spec == Init /\ [][Next]_vars

(***************************************************************************)
(* Fairness: a tab runs, the Worker answers, and the browser grants the    *)
(* lock to waiting tabs in turn.  Users need not start anything, and       *)
(* failures need not happen.                                               *)
(***************************************************************************)
Fairness ==
    \A t \in Tabs :
        /\ WF_vars(ClientStep(t))
        /\ SF_vars(AcquireLock(t))
        /\ WF_vars(\E r \in reqs : r.from = t /\ WorkerStep(r))

FairSpec == Spec /\ Fairness

(***************************************************************************)
(* Properties                                                              *)
(***************************************************************************)

TypeOK ==
    /\ commits \in Seq(Commit) /\ Len(commits) > 0
    /\ reqs \subseteq Request
    /\ lock \in [Devices -> Tabs \cup {None}]
    /\ mark \in [Devices -> Nat]
    /\ rows \in [Devices -> SUBSET Media]
    /\ op \in [Tabs -> Operation]
    /\ used \subseteq Media /\ cancelled \subseteq Media /\ deleted \subseteq Media
    /\ alarm \in BOOLEAN
    /\ faults \in Nat

\* At every commit of the branch, every medium the manifest lists has all of
\* its pointers: a reader pinned to any revision can open what it lists, in
\* spite of publications split over commits, cut short or competing.
EntriesHavePointers ==
    \A i \in DOMAIN commits :
        PointersOf(commits[i].ids) \subseteq commits[i].pointers

NotNewer(c, e) == c.rev <= e.rev /\ (c.rev = e.rev => c.ids = e.ids)

\* The revision orders the history: it never decreases along the branch, and
\* two commits with the same revision list the same media.  So a revision
\* below one seen before does mean an older vault.
RevisionOrdersHistory ==
    \A i, j \in DOMAIN commits : i <= j => NotNewer(commits[i], commits[j])

\* The mark of a device never runs ahead of the branch: whoever reads the
\* current manifest is never refused, whichever requests failed or landed
\* unconfirmed before.
MarkBehindHead == \A d \in Devices : mark[d] <= Main.rev

\* A staged upload is never lost: its row is still queued, or it was
\* cancelled, or it is in the vault or was deleted from it.
StagedNeverLost ==
    \A m \in used :
        \/ \E d \in Devices : m \in rows[d]
        \/ m \in cancelled \cup Main.ids \cup deleted

\* A rebase starts from a head newer than the one that was refused: the
\* bounded attempts are only spent on commits that really competed.
RebaseOnNewerHead ==
    [][\A t \in Tabs :
         (op[t].phase = "head" /\ op[t].attempt > 0 /\ op'[t].phase = "manifest")
             => op'[t].base > op[t].base]_vars

\* The vault changes only by whole publications of media it lacks and single
\* removals of media it has: no update is lost or applied twice.
V == INSTANCE Vault WITH files <- Main.ids, revision <- Main.rev
VaultRefined == V!VaultSpec

\* With .gitattributes in place and no failure, tabs of one device never
\* conflict: the lock spans the whole read-mutate-commit.
TabsNeverConflict == \A r \in reqs : r.phase # "stale"

\* Every operation ends: acknowledged, refused or given up, it gives the lock
\* back and leaves the tab idle.
OperationsEnd == \A t \in Tabs : op[t].phase # "idle" ~> op[t].phase = "idle"

\* The claim of the VAULT_ROLLBACK message: an operation is refused only
\* because the vault is older than one opened before.  The branch never
\* loses a commit here, so no operation should ever be refused.
RefusedOnlyIfRolledBack == ~alarm

\* The claim that a retry is idempotent even if the first commit had landed,
\* for a medium that was deleted in between: what was removed stays removed.
DeletedStaysDeleted ==
    [][\A m \in deleted : m \in Main'.ids => m \in Main.ids]_vars
=============================================================================
