--------------------------- MODULE VaultSyncProofs ---------------------------
(***************************************************************************)
(* Proofs about VaultSync, for any devices, tabs, media and limits, and    *)
(* about two neighbours at work on it (MCVaultPairs).                      *)
(***************************************************************************)
EXTENDS MCVaultPairs, TLAPS

USE DEF Live, Answered

\* What appending one commit to the branch does.
LEMMA AppendCommit ==
    ASSUME NEW s \in Seq(Commit), NEW c \in Commit
    PROVE  /\ Append(s, c) \in Seq(Commit)
           /\ Len(Append(s, c)) = Len(s) + 1
           /\ \A i \in 1 .. Len(s) : Append(s, c)[i] = s[i]
           /\ Append(s, c)[Len(s) + 1] = c
  OBVIOUS

LEMMA PointersType ==
    ASSUME NEW S \in SUBSET Media
    PROVE  PointersOf(S) \in SUBSET AllPointers
  BY DEF PointersOf, AllPointers

LEMMA PointersSplit ==
    ASSUME NEW S, NEW T
    PROVE  PointersOf(S \cup T) = PointersOf(S) \cup PointersOf(T)
  BY DEF PointersOf

\* Two media never share a pointer.
LEMMA PointersDisjoint ==
    ASSUME NEW S, NEW T
    PROVE  PointersOf(S \ T) \cap PointersOf(T) = {}
<1> SUFFICES ASSUME NEW x \in PointersOf(S \ T), x \in PointersOf(T)
             PROVE  FALSE
    OBVIOUS
<1>1. PICK m \in S \ T : x \in Pointers(m)  BY DEF PointersOf
<1>2. PICK n \in T : x \in Pointers(n)      BY DEF PointersOf
<1>3. x[1] = m /\ x[1] = n                  BY <1>1, <1>2 DEF Pointers
<1> QED  BY <1>3

(***************************************************************************)
(* Type correctness.  A tab that has a manifest to read pins a commit that *)
(* exists.                                                                 *)
(***************************************************************************)
BasesExist ==
    \A t \in Tabs : op[t].phase \in {"manifest", "observe"} => op[t].base \in 1 .. Len(commits)

TInv == TypeOK /\ BasesExist

LEMMA MainType ==
    ASSUME TypeOK
    PROVE  /\ Len(commits) \in Nat \ {0} /\ DOMAIN commits = 1 .. Len(commits)
           /\ \A i \in DOMAIN commits : commits[i] \in Commit
           /\ Main \in Commit
  BY DEF TypeOK, Main

LEMMA PinnedType ==
    ASSUME TInv, NEW t \in Tabs, op[t].phase \in {"manifest", "observe"}
    PROVE  Pinned(t) \in Commit
  BY DEF TInv, TypeOK, BasesExist, Pinned

LEMMA TInitially == Init => TInv
<1> SUFFICES ASSUME Init PROVE TInv  OBVIOUS
<1> USE TopologyAssumption, MediaAssumption DEF Init
<1>1. commits \in Seq(Commit) /\ Len(commits) = 1
  <2>1. PICK attrs \in AttrsAtStart :
          commits = << [ids |-> InitialMedia, rev |-> 0,
                        pointers |-> PointersOf(InitialMedia), attrs |-> attrs] >>
    OBVIOUS
  <2>2. [ids |-> InitialMedia, rev |-> 0,
         pointers |-> PointersOf(InitialMedia), attrs |-> attrs] \in Commit
    BY PointersType DEF Commit
  <2> QED  BY <2>1, <2>2
<1>2. op \in [Tabs -> Operation]
  BY DEF NoOp, Operation, Phase
<1>3. BasesExist
  BY DEF BasesExist, NoOp
<1>4. /\ reqs \subseteq Request
      /\ lock \in [Devices -> Tabs \cup {None}]
      /\ mark \in [Devices -> Nat]
      /\ rows \in [Devices -> SUBSET Media]
      /\ used \subseteq Media /\ cancelled \subseteq Media /\ deleted \subseteq Media
      /\ alarm \in BOOLEAN
      /\ faults \in Nat
  OBVIOUS
<1> QED
  <2> HIDE DEF Init
  <2> QED  BY <1>1, <1>2, <1>3, <1>4 DEF TInv, TypeOK

\* Giving up an operation keeps the types and drops its base.
LEMMA TEndOp ==
    ASSUME TInv, NEW t \in Tabs, EndOp(t)
    PROVE  /\ lock' \in [Devices -> Tabs \cup {None}]
           /\ op' \in [Tabs -> Operation]
           /\ op'[t] = NoOp
           /\ \A u \in Tabs \ {t} : op'[u] = op[u]
<1>1. NoOp \in Operation  BY DEF NoOp, Operation, Phase
<1>2. DeviceOf[t] \in Devices  BY TopologyAssumption
<1> QED  BY <1>1, <1>2 DEF TInv, TypeOK, EndOp, Released

LEMMA TGoto ==
    ASSUME TInv, NEW t \in Tabs, NEW ph \in Phase, Goto(t, ph)
    PROVE  /\ op' \in [Tabs -> Operation]
           /\ op'[t].phase = ph /\ op'[t].base = op[t].base
           /\ \A u \in Tabs \ {t} : op'[u] = op[u]
<1>1. op[t] \in Operation  BY DEF TInv, TypeOK
<1>2. [op[t] EXCEPT !.phase = ph] \in Operation
  BY <1>1 DEF Operation
<1>3. op \in [Tabs -> Operation]  BY DEF TInv, TypeOK
<1> DEFINE o == [op[t] EXCEPT !.phase = ph]
<1>4. op' = [op EXCEPT ![t] = o]  BY DEF Goto
<1>5. o.phase = ph /\ o.base = op[t].base BY <1>1 DEF Operation
<1> HIDE DEF o
<1> QED  BY <1>2, <1>3, <1>4, <1>5 DEF o

LEMMA TObserve ==
    ASSUME TInv, NEW t \in Tabs, NEW rev \in Nat, Observe(t, rev)
    PROVE  mark' \in [Devices -> Nat]
<1>1. DeviceOf[t] \in Devices  BY TopologyAssumption
<1> QED  BY <1>1 DEF TInv, TypeOK, Observe, MaxOf

\* The bases survive a step of one tab that pins an existing commit or none.
LEMMA BasesKept ==
    ASSUME TInv, NEW t \in Tabs, TypeOK', commits' = commits,
           \A u \in Tabs \ {t} : op'[u] = op[u],
           op'[t].phase \in {"manifest", "observe"} => op'[t].base \in 1 .. Len(commits)
    PROVE  BasesExist'
  BY DEF TInv, BasesExist

LEMMA TRequestStep ==
    ASSUME TInv, NEW t \in Tabs
    PROVE  /\ reqs \subseteq Request /\ Orphaned(t) \subseteq Request
           /\ \A r \in reqs : reqs \ {r} \subseteq Request
<1>1. \A r \in Request : [r EXCEPT !.from = None] \in Request
  BY DEF Request
<1> QED  BY <1>1 DEF TInv, TypeOK, Orphaned

LEMMA TStarts ==
    ASSUME TInv, NEW t \in Tabs, UserStep(t)
    PROVE  TInv'
<1> USE DEF TInv
<1>0. op[t] \in Operation /\ NoOp \in Operation /\ op \in [Tabs -> Operation]
  BY DEF TypeOK, NoOp, Operation, Phase
<1>1. CASE StartFinalize(t)
  <2>1. PICK S \in (SUBSET rows[DeviceOf[t]]) \ {{}} :
          op' = [op EXCEPT ![t] = [NoOp EXCEPT !.kind = "finalize", !.phase = "wait",
                                               !.items = S, !.todo = S]]
    BY <1>1 DEF StartFinalize
  <2> DEFINE o == [NoOp EXCEPT !.kind = "finalize", !.phase = "wait",
                               !.items = S, !.todo = S]
  <2>2. rows[DeviceOf[t]] \subseteq Media  BY TopologyAssumption DEF TypeOK
  <2>3. o \in Operation /\ o.phase = "wait"  BY <2>2 DEF NoOp, Operation, Phase
  <2> HIDE DEF o
  <2>4. op' \in [Tabs -> Operation] /\ op'[t] = o /\ \A u \in Tabs \ {t} : op'[u] = op[u]
    BY <1>0, <2>1, <2>3 DEF o
  <2>5. TypeOK'
    BY <1>1, <2>4 DEF StartFinalize, TypeOK, remote, stored, history
  <2> QED  BY <1>1, <2>3, <2>4, <2>5, BasesKept DEF StartFinalize, remote
<1>2. CASE StartDelete(t)
  <2>1. PICK m \in UNION {commits[i].ids : i \in DOMAIN commits} :
          op' = [op EXCEPT ![t] = [NoOp EXCEPT !.kind = "delete", !.phase = "wait",
                                               !.items = {m}]]
    BY <1>2 DEF StartDelete
  <2> DEFINE o == [NoOp EXCEPT !.kind = "delete", !.phase = "wait", !.items = {m}]
  <2>a. PICK i \in DOMAIN commits : m \in commits[i].ids  OBVIOUS
  <2>2. m \in Media  BY <2>a, MainType DEF Commit
  <2>3. o \in Operation /\ o.phase = "wait"  BY <2>2 DEF NoOp, Operation, Phase
  <2> HIDE DEF o
  <2>4. op' \in [Tabs -> Operation] /\ op'[t] = o /\ \A u \in Tabs \ {t} : op'[u] = op[u]
    BY <1>0, <2>1, <2>3 DEF o
  <2>5. TypeOK'
    BY <1>2, <2>4 DEF StartDelete, TypeOK, remote, stored, history
  <2> QED  BY <1>2, <2>3, <2>4, <2>5, BasesKept DEF StartDelete, remote
<1>3. CASE StartLoad(t)
  <2> DEFINE o == [NoOp EXCEPT !.kind = "load", !.phase = "observe", !.base = Len(commits)]
  <2>2. Len(commits) \in Nat \ {0}  BY MainType
  <2>3. o \in Operation /\ o.base = Len(commits)  BY <2>2 DEF NoOp, Operation, Phase
  <2>1. op' = [op EXCEPT ![t] = o]  BY <1>3 DEF StartLoad
  <2> HIDE DEF o
  <2>4. op' \in [Tabs -> Operation] /\ op'[t] = o /\ \A u \in Tabs \ {t} : op'[u] = op[u]
    BY <1>0, <2>1, <2>3
  <2>5. TypeOK'
    BY <1>3, <2>4 DEF StartLoad, TypeOK, remote, stored, history
  <2>6. Len(commits) \in 1 .. Len(commits)  BY <2>2
  <2> QED  BY <1>3, <2>3, <2>4, <2>5, <2>6, BasesKept DEF StartLoad, remote
<1> QED  BY <1>1, <1>2, <1>3 DEF UserStep

LEMMA TFailures ==
    ASSUME TInv, NEW t \in Tabs, FailStep(t)
    PROVE  TInv'
<1> USE DEF TInv
<1>1. EndOp(t) /\ commits' = commits /\ reqs' = Orphaned(t)
  BY DEF FailStep, LoseAnswer, Abort, Crash
<1>2. NoOp.phase = "idle"  BY DEF NoOp
<1>3. /\ rows' \in [Devices -> SUBSET Media] /\ cancelled' \subseteq Media
      /\ used' \subseteq Media /\ mark' = mark /\ alarm' = alarm /\ deleted' = deleted
      /\ faults' \in Nat
  <2>1. op[t].items \subseteq Media  BY DEF TypeOK, Operation
  <2>2. DeviceOf[t] \in Devices  BY TopologyAssumption
  <2>3. CASE Abort(t)
    BY <2>1, <2>2, <2>3 DEF Abort, TypeOK, Fault
  <2>4. CASE LoseAnswer(t) \/ Crash(t)
    BY <2>4 DEF LoseAnswer, Crash, TypeOK, Fault, stored, history
  <2> QED  BY <2>3, <2>4 DEF FailStep
<1>4. TypeOK'
  BY <1>1, <1>3, TEndOp, TRequestStep DEF TypeOK
<1> QED  BY <1>1, <1>2, <1>4, TEndOp, BasesKept

\* What a step of a tab has to show: the types of what it may change, and that
\* it pins an existing commit or none.
LEMMA TTabStep ==
    ASSUME TInv, NEW t \in Tabs,
           UNCHANGED <<commits, deleted, history, faults>>,
           lock' \in [Devices -> Tabs \cup {None}],
           mark' \in [Devices -> Nat],
           rows' \in [Devices -> SUBSET Media],
           reqs' \subseteq Request,
           op' \in [Tabs -> Operation],
           alarm' \in BOOLEAN,
           \A u \in Tabs \ {t} : op'[u] = op[u],
           op'[t].phase \in {"manifest", "observe"} => op'[t].base \in 1 .. Len(commits)
    PROVE  TInv'
<1>1. TypeOK'  BY DEF TInv, TypeOK, history
<1> QED  BY <1>1, BasesKept DEF TInv

LEMMA TGroupDone ==
    ASSUME TInv, NEW t \in Tabs, GroupDone(t)
    PROVE  /\ lock' \in [Devices -> Tabs \cup {None}]
           /\ op' \in [Tabs -> Operation]
           /\ op'[t].phase \in {"head", "dequeue"}
           /\ \A u \in Tabs \ {t} : op'[u] = op[u]
<1> USE DEF TInv
<1>0. op[t] \in Operation /\ op \in [Tabs -> Operation] /\ DeviceOf[t] \in Devices
      /\ lock \in [Devices -> Tabs \cup {None}]
  BY TopologyAssumption DEF TypeOK
<1>1. CASE NextGroup(t)
  <2> DEFINE o == [op[t] EXCEPT !.phase = "head", !.todo = @ \ op[t].group,
                                !.group = {}, !.attempt = 0]
  <2>1. o \in Operation /\ o.phase = "head"  BY <1>0 DEF Operation, Phase
  <2>2. op' = [op EXCEPT ![t] = o] /\ lock' = lock  BY <1>1 DEF NextGroup
  <2> HIDE DEF o
  <2> QED  BY <1>0, <2>1, <2>2
<1>2. CASE LastGroup(t)
  <2> DEFINE o == [op[t] EXCEPT !.phase = "dequeue", !.todo = {}, !.group = {}]
  <2>1. o \in Operation /\ o.phase = "dequeue"  BY <1>0 DEF Operation, Phase
  <2>2. op' = [op EXCEPT ![t] = o] /\ lock' = Released(t)  BY <1>2 DEF LastGroup
  <2> HIDE DEF o
  <2>3. lock' \in [Devices -> Tabs \cup {None}]  BY <1>0, <2>2 DEF Released
  <2> QED  BY <1>0, <2>1, <2>2, <2>3
<1> QED  BY <1>1, <1>2 DEF GroupDone

LEMMA TSend ==
    ASSUME TInv, NEW t \in Tabs, op[t].phase = "manifest",
           NEW kind \in {"publish", "delete"},
           NEW items \in SUBSET Media, NEW ids \in SUBSET Media,
           Send(t, kind, items, ids, PointersOf(items))
    PROVE  reqs' \subseteq Request
<1>1. Pinned(t).rev \in Nat  BY PinnedType DEF Commit
<1>2. op[t].base \in Nat  BY DEF TInv, TypeOK, Operation
<1>3. PointersOf(items) \in SUBSET AllPointers  BY PointersType
<1> DEFINE r == [from |-> t, kind |-> kind, items |-> items, ids |-> ids,
                 rev |-> NextRevision(Pinned(t).rev), parent |-> op[t].base,
                 pointers |-> PointersOf(items),
                 todo |-> IF kind = "publish" THEN PointersOf(items) ELSE {},
                 batch |-> 0, phase |-> "ensure"]
<1>4. r \in Request  BY <1>1, <1>2, <1>3 DEF Request, NextRevision
<1>5. reqs' = reqs \cup {r}  BY DEF Send
<1> QED  BY <1>4, <1>5 DEF TInv, TypeOK

LEMMA TReads ==
    ASSUME TInv, NEW t \in Tabs, AcquireLock(t) \/ ReadHead(t)
    PROVE  TInv'
<1>0. op[t] \in Operation /\ op \in [Tabs -> Operation] /\ DeviceOf[t] \in Devices
      /\ lock \in [Devices -> Tabs \cup {None}] /\ Len(commits) \in Nat \ {0}
  BY TopologyAssumption, MainType DEF TInv, TypeOK
<1>1. CASE AcquireLock(t)
  <2>1. Goto(t, "head") /\ lock' = [lock EXCEPT ![DeviceOf[t]] = t]
        /\ UNCHANGED <<remote, stored, history, alarm, faults>>
    BY <1>1 DEF AcquireLock
  <2>2. /\ op' \in [Tabs -> Operation] /\ op'[t].phase = "head"
        /\ \A u \in Tabs \ {t} : op'[u] = op[u]
    BY <2>1, TGoto DEF Phase
  <2>3. lock' \in [Devices -> Tabs \cup {None}]  BY <1>0, <2>1
  <2> QED  BY <2>1, <2>2, <2>3, TTabStep DEF TInv, TypeOK, remote, stored
<1>2. CASE ReadHead(t)
  <2>1. PICK g : /\ g \in IF op[t].kind = "finalize" /\ op[t].group = {}
                          THEN FirstGroups(op[t].todo) ELSE {op[t].group}
                 /\ op' = [op EXCEPT ![t].phase = "manifest", ![t].group = g,
                                     ![t].base = Len(commits), ![t].attempt = @ + 1]
    BY <1>2 DEF ReadHead
  <2>2. g \in SUBSET Media  BY <1>0, <2>1 DEF Operation, FirstGroups
  <2> DEFINE n == op[t].attempt + 1
             o == [op[t] EXCEPT !.phase = "manifest", !.group = g,
                                !.base = Len(commits), !.attempt = n]
  <2>b. n \in Nat  BY <1>0 DEF Operation
  <2> HIDE DEF n
  <2>3. o \in Operation /\ o.base = Len(commits)
    BY <1>0, <2>2, <2>b DEF Operation, Phase
  <2>4. op' = [op EXCEPT ![t] = o]  BY <2>1 DEF n
  <2> HIDE DEF o
  <2>5. /\ op' \in [Tabs -> Operation] /\ op'[t].base \in 1 .. Len(commits)
        /\ \A u \in Tabs \ {t} : op'[u] = op[u]
    BY <1>0, <2>3, <2>4
  <2>6. UNCHANGED <<remote, stored, history, lock, alarm, faults>>  BY <1>2 DEF ReadHead
  <2> QED  BY <1>0, <2>5, <2>6, TTabStep DEF TInv, TypeOK, remote, stored
<1> QED  BY <1>1, <1>2

\* The steps of a tab that read a manifest: each has pinned a commit.
LEMMA TManifest ==
    ASSUME TInv, NEW t \in Tabs,
           SkipGroup(t) \/ SubmitPublish(t) \/ SubmitDelete(t) \/ EndDelete(t) \/ ObserveLoaded(t)
    PROVE  TInv'
<1>0. /\ op[t] \in Operation /\ op[t].phase \in {"manifest", "observe"}
      /\ Observe(t, Pinned(t).rev)
  BY DEF TInv, TypeOK, SkipGroup, SubmitPublish, SubmitDelete, EndDelete, ObserveLoaded
<1>1. Pinned(t) \in Commit  BY <1>0, PinnedType
<1>2. mark' \in [Devices -> Nat]  BY <1>0, <1>1, TObserve DEF Commit
<1>3. CASE SkipGroup(t)
  <2>1. GroupDone(t) /\ UNCHANGED <<remote, rows, history, alarm, faults>>
    BY <1>3 DEF SkipGroup
  <2> QED  BY <1>2, <2>1, TGroupDone, TTabStep DEF TInv, TypeOK, remote
<1>4. CASE SubmitPublish(t)
  <2> DEFINE pending == PendingItems(op[t].group, Pinned(t).ids)
  <2>1. pending \in SUBSET Media /\ Pinned(t).ids \cup pending \in SUBSET Media
    BY <1>0, <1>1 DEF PendingItems, Operation, Commit
  <2>2. /\ op[t].phase = "manifest" /\ Goto(t, "commit")
        /\ Send(t, "publish", pending, Pinned(t).ids \cup pending, PointersOf(pending))
        /\ UNCHANGED <<commits, deleted, rows, history, lock, alarm, faults>>
    BY <1>4 DEF SubmitPublish
  <2> HIDE DEF pending
  <2>3. reqs' \subseteq Request  BY <2>1, <2>2, TSend
  <2>4. /\ op' \in [Tabs -> Operation] /\ op'[t].phase = "commit"
        /\ \A u \in Tabs \ {t} : op'[u] = op[u]
    BY <2>2, TGoto DEF Phase
  <2> QED  BY <1>2, <2>2, <2>3, <2>4, TTabStep DEF TInv, TypeOK
<1>5. CASE SubmitDelete(t)
  <2>1. op[t].items \in SUBSET Media /\ Pinned(t).ids \ op[t].items \in SUBSET Media
    BY <1>0, <1>1 DEF Operation, Commit
  <2>2. /\ op[t].phase = "manifest" /\ Goto(t, "commit")
        /\ Send(t, "delete", op[t].items, Pinned(t).ids \ op[t].items,
                PointersOf(op[t].items))
        /\ UNCHANGED <<commits, deleted, rows, history, lock, alarm, faults>>
    BY <1>5 DEF SubmitDelete
  <2>3. reqs' \subseteq Request  BY <2>1, <2>2, TSend
  <2>4. /\ op' \in [Tabs -> Operation] /\ op'[t].phase = "commit"
        /\ \A u \in Tabs \ {t} : op'[u] = op[u]
    BY <2>2, TGoto DEF Phase
  <2> QED  BY <1>2, <2>2, <2>3, <2>4, TTabStep DEF TInv, TypeOK
<1>6. CASE EndDelete(t) \/ ObserveLoaded(t)
  <2>1. EndOp(t) /\ UNCHANGED <<remote, rows, history, alarm, faults>>
    BY <1>6 DEF EndDelete, ObserveLoaded
  <2>2. NoOp.phase = "idle"  BY DEF NoOp
  <2> QED  BY <1>2, <2>1, <2>2, TEndOp, TTabStep DEF TInv, TypeOK, remote
<1> QED  BY <1>3, <1>4, <1>5, <1>6

\* The steps of a tab that take an answer or wind up an operation.
LEMMA TAnswers ==
    ASSUME TInv, NEW t \in Tabs,
           \/ RefuseRollback(t) \/ CommitAcknowledged(t) \/ ObserveCommitted(t)
           \/ Rebase(t) \/ CommitFailed(t) \/ Dequeue(t)
    PROVE  TInv'
<1>0. /\ op[t] \in Operation /\ op \in [Tabs -> Operation] /\ DeviceOf[t] \in Devices
      /\ rows \in [Devices -> SUBSET Media]
      /\ NoOp \in Operation /\ NoOp.phase = "idle"
  BY TopologyAssumption DEF TInv, TypeOK, NoOp, Operation, Phase
<1>1. CASE RefuseRollback(t)
  <2>1. EndOp(t) /\ alarm' = TRUE /\ UNCHANGED <<remote, stored, history, faults>>
    BY <1>1 DEF RefuseRollback
  <2> QED  BY <1>0, <2>1, TEndOp, TTabStep DEF TInv, TypeOK, remote, stored
<1>2. CASE CommitAcknowledged(t)
  <2>1. PICK r \in RequestOf(t) :
          /\ reqs' = reqs \ {r}
          /\ \/ /\ op' = [op EXCEPT ![t].phase = "check", ![t].rev = r.rev]
                /\ UNCHANGED lock
             \/ EndOp(t)
    BY <1>2 DEF CommitAcknowledged
  <2>2. r \in reqs /\ r \in Request  BY <2>1 DEF RequestOf, TInv, TypeOK
  <2>3. reqs' \subseteq Request  BY <2>1, <2>2, TRequestStep
  <2>4. UNCHANGED <<commits, deleted, stored, history, alarm, faults>>
    BY <1>2 DEF CommitAcknowledged
  <2>5. CASE EndOp(t)
    BY <1>0, <2>3, <2>4, <2>5, TEndOp, TTabStep DEF TInv, TypeOK, stored
  <2>6. CASE op' = [op EXCEPT ![t].phase = "check", ![t].rev = r.rev] /\ lock' = lock
    <3> DEFINE o == [op[t] EXCEPT !.phase = "check", !.rev = r.rev]
    <3>1. o \in Operation /\ o.phase = "check"  BY <1>0, <2>2 DEF Operation, Phase, Request
    <3>2. op' = [op EXCEPT ![t] = o]  BY <2>6
    <3> HIDE DEF o
    <3>3. /\ op' \in [Tabs -> Operation] /\ op'[t].phase = "check"
          /\ \A u \in Tabs \ {t} : op'[u] = op[u]
      BY <1>0, <3>1, <3>2
    <3> QED  BY <2>3, <2>4, <2>6, <3>3, TTabStep DEF TInv, TypeOK, stored
  <2> QED  BY <2>1, <2>5, <2>6
<1>3. CASE ObserveCommitted(t)
  <2>1. /\ Observe(t, op[t].rev) /\ GroupDone(t)
        /\ UNCHANGED <<remote, rows, history, alarm, faults>>
    BY <1>3 DEF ObserveCommitted
  <2>2. mark' \in [Devices -> Nat]  BY <1>0, <2>1, TObserve DEF Operation
  <2> QED  BY <2>1, <2>2, TGroupDone, TTabStep DEF TInv, TypeOK, remote
<1>4. CASE Rebase(t)
  <2>1. PICK r \in RequestOf(t) : reqs' = reqs \ {r}  BY <1>4 DEF Rebase
  <2>2. reqs' \subseteq Request  BY <2>1, TRequestStep DEF RequestOf
  <2>3. UNCHANGED <<commits, deleted, stored, history, alarm, faults>>
        /\ ((Goto(t, "head") /\ UNCHANGED lock) \/ EndOp(t))
    BY <1>4 DEF Rebase
  <2>4. CASE Goto(t, "head") /\ UNCHANGED lock
    <3>1. /\ op' \in [Tabs -> Operation] /\ op'[t].phase = "head"
          /\ \A u \in Tabs \ {t} : op'[u] = op[u]
      BY <2>4, TGoto DEF Phase
    <3> QED  BY <2>2, <2>3, <2>4, <3>1, TTabStep DEF TInv, TypeOK, stored
  <2>5. CASE EndOp(t)
    BY <1>0, <2>2, <2>3, <2>5, TEndOp, TTabStep DEF TInv, TypeOK, stored
  <2> QED  BY <2>3, <2>4, <2>5
<1>5. CASE CommitFailed(t)
  <2>1. PICK r \in RequestOf(t) : reqs' = reqs \ {r}  BY <1>5 DEF CommitFailed
  <2>2. reqs' \subseteq Request  BY <2>1, TRequestStep DEF RequestOf
  <2>3. EndOp(t) /\ UNCHANGED <<commits, deleted, stored, history, alarm, faults>>
    BY <1>5 DEF CommitFailed
  <2> QED  BY <1>0, <2>2, <2>3, TEndOp, TTabStep DEF TInv, TypeOK, stored
<1>6. CASE Dequeue(t)
  <2>1. PICK m \in op[t].items :
          /\ rows' = [rows EXCEPT ![DeviceOf[t]] = @ \ {m}]
          /\ \/ op' = [op EXCEPT ![t] = NoOp]
             \/ op' = [op EXCEPT ![t].items = @ \ {m}]
    BY <1>6 DEF Dequeue
  <2> DEFINE o == [op[t] EXCEPT !.items = @ \ {m}]
  <2>2. op[t].phase = "dequeue"
        /\ UNCHANGED <<remote, mark, history, lock, alarm, faults>>
    BY <1>6 DEF Dequeue
  <2>3. o \in Operation /\ o.phase = "dequeue"  BY <1>0, <2>2 DEF Operation
  <2>5. op' = [op EXCEPT ![t] = o] \/ op' = [op EXCEPT ![t] = NoOp]  BY <2>1
  <2> HIDE DEF o
  <2>6. /\ op' \in [Tabs -> Operation] /\ op'[t].phase \in {"idle", "dequeue"}
        /\ \A u \in Tabs \ {t} : op'[u] = op[u]
    BY <1>0, <2>3, <2>5
  <2>7. rows' \in [Devices -> SUBSET Media]  BY <1>0, <2>1
  <2> QED  BY <2>2, <2>6, <2>7, TTabStep DEF TInv, TypeOK, remote
<1> QED  BY <1>1, <1>2, <1>3, <1>4, <1>5, <1>6

\* The branch only grows: what a tab pinned stays.
LEMMA TWorkerStep ==
    ASSUME TInv,
           UNCHANGED <<stored, history, lock, op, alarm>>,
           faults' \in Nat, deleted' \subseteq Media, reqs' \subseteq Request,
           \/ commits' = commits
           \/ \E c \in Commit : commits' = Append(commits, c)
    PROVE  TInv'
<1>0. commits \in Seq(Commit) /\ Len(commits) \in Nat \ {0}  BY MainType DEF TInv, TypeOK
<1>1. commits' \in Seq(Commit) /\ Len(commits') >= Len(commits) /\ Len(commits') \in Nat
  <2>1. CASE commits' = commits  BY <1>0, <2>1
  <2>2. ASSUME NEW c \in Commit, commits' = Append(commits, c)
        PROVE  /\ commits' \in Seq(Commit) /\ Len(commits') >= Len(commits)
               /\ Len(commits') \in Nat
    BY <1>0, <2>2, AppendCommit
  <2> QED  BY <2>1, <2>2
<1>2. TypeOK'  BY <1>0, <1>1 DEF TInv, TypeOK, stored, history
<1>3. BasesExist'  BY <1>0, <1>1 DEF TInv, BasesExist
<1> QED  BY <1>2, <1>3 DEF TInv

LEMMA TBecomes ==
    ASSUME TInv, NEW r \in reqs, NEW s \in Request, Becomes(r, s)
    PROVE  reqs' \subseteq Request
  BY DEF TInv, TypeOK, Becomes

LEMMA TLand ==
    ASSUME TInv, NEW r \in reqs, NEW answer \in Answered, Land(r, answer)
    PROVE  /\ reqs' \subseteq Request /\ deleted' \subseteq Media
           /\ \E c \in Commit : commits' = Append(commits, c)
<1>0. r \in Request /\ Main \in Commit /\ deleted \subseteq Media
  BY MainType DEF TInv, TypeOK
<1>1. Published(r, Main) \in Commit /\ Removed(r, Main) \in Commit
  BY <1>0 DEF Request, Commit, Published, Removed
<1>2. [r EXCEPT !.phase = answer] \in Request  BY <1>0 DEF Request
<1>3. reqs' \subseteq Request  BY <1>2, TBecomes DEF Land
<1>4. r.items \subseteq Media  BY <1>0 DEF Request
<1> QED  BY <1>0, <1>1, <1>3, <1>4 DEF Land

LEMMA TWorker ==
    ASSUME TInv, NEW r \in reqs, WorkerStep(r) \/ WorkerFailure(r)
    PROVE  TInv'
<1>0. r \in Request /\ Main \in Commit /\ Len(commits) \in Nat \ {0}
      /\ deleted \subseteq Media /\ faults \in Nat
  BY MainType DEF TInv, TypeOK
<1>1. CASE EnsureAttributes(r) \/ Conflict(r) \/ FailRequest(r)
  <2>1. PICK ph \in Live \cup Answered : Becomes(r, [r EXCEPT !.phase = ph])
    BY <1>1 DEF EnsureAttributes, Conflict, FailRequest
  <2>2. [r EXCEPT !.phase = ph] \in Request  BY <1>0 DEF Request
  <2>3. reqs' \subseteq Request  BY <2>1, <2>2, TBecomes
  <2>4. /\ UNCHANGED <<commits, deleted, stored, history, lock, op, alarm>>
        /\ faults' \in Nat
    BY <1>0, <1>1 DEF EnsureAttributes, Conflict, FailRequest, Fault
  <2> QED  BY <1>0, <2>3, <2>4, TWorkerStep
<1>2. CASE CommitAttributes(r)
  <2>1. [Main EXCEPT !.attrs = TRUE] \in Commit  BY <1>0 DEF Commit
  <2>2. [r EXCEPT !.phase = "batch"] \in Request  BY <1>0 DEF Request
  <2>3. reqs' \subseteq Request  BY <1>2, <2>2, TBecomes DEF CommitAttributes
  <2> QED  BY <1>0, <1>2, <2>1, <2>3, TWorkerStep DEF CommitAttributes
<1>3. CASE LandEarlyBatch(r)
  <2>1. PICK S \in SUBSET r.todo :
          /\ commits' = Append(commits, [Main EXCEPT !.pointers = @ \cup S])
          /\ Becomes(r, [r EXCEPT !.todo = @ \ S, !.batch = @ + 1,
                                  !.parent = Len(commits) + 1])
    BY <1>3 DEF LandEarlyBatch
  <2>2. [Main EXCEPT !.pointers = @ \cup S] \in Commit  BY <1>0 DEF Commit, Request
  <2> DEFINE b == r.batch + 1
             p == Len(commits) + 1
  <2>3. b \in Nat /\ p \in Nat  BY <1>0 DEF Request
  <2> HIDE DEF b, p
  <2>4. [r EXCEPT !.todo = @ \ S, !.batch = b, !.parent = p] \in Request
    BY <1>0, <2>3 DEF Request
  <2>5. reqs' \subseteq Request  BY <2>1, <2>4, TBecomes DEF b, p
  <2> QED  BY <1>0, <1>3, <2>1, <2>2, <2>5, TWorkerStep DEF LandEarlyBatch
<1>4. CASE LandFinalBatch(r)
  BY <1>0, <1>4, TLand, TWorkerStep DEF LandFinalBatch
<1>5. CASE LandUnconfirmed(r)
  <2>1. /\ Land(r, "fail") /\ faults' = faults + 1
        /\ UNCHANGED <<stored, history, lock, op, alarm>>
    BY <1>5 DEF LandUnconfirmed, Fault
  <2> QED  BY <1>0, <2>1, TLand, TWorkerStep
<1> QED  BY <1>1, <1>2, <1>3, <1>4, <1>5 DEF WorkerStep, WorkerFailure

LEMMA TStage ==
    ASSUME TInv, NEW d \in Devices, Stage(d)
    PROVE  TInv'
<1>1. PICK m \in Media : /\ used' = used \cup {m}
                         /\ rows' = [rows EXCEPT ![d] = @ \cup {m}]
  BY DEF Stage
<1>2. UNCHANGED <<remote, mark, cancelled, lock, op, alarm, faults>>  BY DEF Stage
<1>3. TypeOK'  BY <1>1, <1>2 DEF TInv, TypeOK, remote
<1>4. BasesExist'  BY <1>2 DEF TInv, BasesExist, remote
<1> QED  BY <1>3, <1>4 DEF TInv

LEMMA TStutter == TInv /\ UNCHANGED vars => TInv'
  BY DEF TInv, TypeOK, BasesExist, vars, remote, stored, history

LEMMA TNext == TInv /\ [Next]_vars => TInv'
<1> SUFFICES ASSUME TInv, [Next]_vars PROVE TInv'  OBVIOUS
<1>1. CASE UNCHANGED vars  BY <1>1, TStutter
<1>2. ASSUME NEW d \in Devices, Stage(d) PROVE TInv'  BY <1>2, TStage
<1>3. ASSUME NEW t \in Tabs, UserStep(t) \/ FailStep(t) PROVE TInv'
  BY <1>3, TStarts, TFailures
<1>4. ASSUME NEW t \in Tabs, AcquireLock(t) \/ ClientStep(t) PROVE TInv'
  BY <1>4, TReads, TManifest, TAnswers DEF ClientStep
<1>5. ASSUME NEW r \in reqs, WorkerStep(r) \/ WorkerFailure(r) PROVE TInv'
  BY <1>5, TWorker
<1> QED  BY <1>1, <1>2, <1>3, <1>4, <1>5 DEF Next

LEMMA TypeInvariant == Spec => []TInv
  BY TInitially, TNext, PTL DEF Spec

\* Every variable keeps its type for any number of devices, tabs and media:
\* in particular every revision is a number and every manifest on the branch
\* lists known media.
THEOREM TypeCorrect == Spec => []TypeOK
  BY TypeInvariant, PTL DEF TInv

(***************************************************************************)
(* The history.  A live request fits the commit it names as its parent:    *)
(* its manifest is that commit's manifest plus or minus its items, one     *)
(* revision later, and the pointers it needs are there or still to stage.  *)
(* The compare-and-set makes that commit the one below when it lands.      *)
(***************************************************************************)
Fits(r, c) ==
    /\ r.rev = c.rev + 1
    /\ r.kind = "publish" =>
         /\ r.items # {} /\ r.items \cap c.ids = {}
         /\ r.ids = c.ids \cup r.items
         /\ PointersOf(r.items) \subseteq c.pointers \cup r.todo
    /\ r.kind = "delete" =>
         /\ \E m \in c.ids : r.items = {m}
         /\ r.ids = c.ids \ r.items
         /\ r.pointers = PointersOf(r.items)

RequestsFit ==
    \A r \in reqs : r.phase \in Live =>
        r.parent \in 1 .. Len(commits) /\ Fits(r, commits[r.parent])

DeletesOne ==
    \A t \in Tabs : op[t].kind = "delete" /\ op[t].phase # "dequeue" =>
        \E m \in Media : op[t].items = {m}

SInv == RequestsFit /\ DeletesOne /\ EntriesHavePointers /\ RevisionOrdersHistory

LEMMA SInitially == Init => SInv
<1> SUFFICES ASSUME Init PROVE SInv  OBVIOUS
<1>1. PICK attrs \in AttrsAtStart :
        commits = << [ids |-> InitialMedia, rev |-> 0,
                      pointers |-> PointersOf(InitialMedia), attrs |-> attrs] >>
  BY DEF Init
<1>2. RequestsFit  BY DEF Init, RequestsFit
<1>3. DeletesOne  BY DEF Init, DeletesOne, NoOp
<1>4. EntriesHavePointers  BY <1>1 DEF EntriesHavePointers
<1>5. RevisionOrdersHistory  BY <1>1 DEF RevisionOrdersHistory, NotNewer
<1> QED  BY <1>2, <1>3, <1>4, <1>5 DEF SInv

\* Steps of a client leave the branch alone: only its requests and its own
\* operation matter.
LEMMA SClient ==
    ASSUME TInv, SInv, NEW t \in Tabs, commits' = commits,
           \A r \in reqs' : r.phase \in Live =>
               r.parent \in 1 .. Len(commits) /\ Fits(r, commits[r.parent]),
           \A u \in Tabs \ {t} : op'[u] = op[u],
           op'[t].kind = "delete" /\ op'[t].phase # "dequeue" =>
               \E m \in Media : op'[t].items = {m}
    PROVE  SInv'
<1>1. RequestsFit'  BY DEF RequestsFit
<1>2. DeletesOne'  BY DEF SInv, DeletesOne
<1>3. EntriesHavePointers' /\ RevisionOrdersHistory'
  BY DEF SInv, EntriesHavePointers, RevisionOrdersHistory
<1> QED  BY <1>1, <1>2, <1>3 DEF SInv

LEMMA FitsOrphaned ==
    ASSUME TInv, SInv, NEW t \in Tabs
    PROVE  \A r \in Orphaned(t) : r.phase \in Live =>
               r.parent \in 1 .. Len(commits) /\ Fits(r, commits[r.parent])
<1> SUFFICES ASSUME NEW q \in reqs, q.phase \in Live,
                    NEW r, r = [q EXCEPT !.from = None]
             PROVE  /\ r.phase \in Live
                    /\ r.parent \in 1 .. Len(commits) /\ Fits(r, commits[r.parent])
  BY DEF Orphaned, SInv, RequestsFit, TInv, TypeOK, Request
<1>1. q \in Request  BY DEF TInv, TypeOK
<1>2. /\ r.rev = q.rev /\ r.kind = q.kind /\ r.items = q.items /\ r.ids = q.ids
      /\ r.todo = q.todo /\ r.pointers = q.pointers /\ r.parent = q.parent
      /\ r.phase = q.phase
  BY <1>1 DEF Request
<1>3. q.parent \in 1 .. Len(commits) /\ Fits(q, commits[q.parent])  BY DEF SInv, RequestsFit
<1> QED  BY <1>2, <1>3 DEF Fits

\* How the steps that only move a tab change its operation.
LEMMA OpGoto ==
    ASSUME TInv, NEW t \in Tabs, NEW ph \in Phase, Goto(t, ph)
    PROVE  /\ op'[t].phase = ph /\ op'[t].kind = op[t].kind /\ op'[t].items = op[t].items
           /\ op'[t].base = op[t].base /\ op'[t].attempt = op[t].attempt
           /\ op'[t].group = op[t].group /\ op'[t].todo = op[t].todo
           /\ op'[t].rev = op[t].rev
           /\ \A u \in Tabs \ {t} : op'[u] = op[u]
<1>1. op[t] \in Operation /\ op \in [Tabs -> Operation]  BY DEF TInv, TypeOK
<1> DEFINE o == [op[t] EXCEPT !.phase = ph]
<1>2. /\ o.phase = ph /\ o.kind = op[t].kind /\ o.items = op[t].items
      /\ o.base = op[t].base /\ o.attempt = op[t].attempt /\ o.group = op[t].group
      /\ o.todo = op[t].todo /\ o.rev = op[t].rev
  BY <1>1 DEF Operation
<1>3. op' = [op EXCEPT ![t] = o]  BY DEF Goto
<1> HIDE DEF o
<1> QED  BY <1>1, <1>2, <1>3

LEMMA OpStarts ==
    ASSUME TInv, NEW t \in Tabs, UserStep(t)
    PROVE  /\ op'[t].phase \in {"wait", "observe"} /\ op'[t].attempt = 0
           /\ op'[t].kind = "delete" => \E m \in Media : op'[t].items = {m}
           /\ op'[t].phase = "observe" => op'[t].kind = "load"
           /\ op'[t].kind = "finalize" => op'[t].items = op'[t].todo
           /\ \A u \in Tabs \ {t} : op'[u] = op[u]
           /\ op[t].phase = "idle"
           /\ UNCHANGED <<remote, stored, history, lock, alarm, faults>>
<1>0. op \in [Tabs -> Operation] /\ DOMAIN commits = 1 .. Len(commits)
      /\ \A i \in DOMAIN commits : commits[i] \in Commit
  BY MainType DEF TInv, TypeOK
<1>1. CASE StartFinalize(t)
  <2>1. PICK S : op' = [op EXCEPT ![t] = [NoOp EXCEPT !.kind = "finalize",
                                         !.phase = "wait", !.items = S, !.todo = S]]
    BY <1>1 DEF StartFinalize
  <2> DEFINE o == [NoOp EXCEPT !.kind = "finalize", !.phase = "wait",
                               !.items = S, !.todo = S]
  <2>2. o.kind = "finalize" /\ o.phase = "wait" /\ o.attempt = 0 /\ o.items = o.todo
    BY DEF NoOp
  <2>3. op' = [op EXCEPT ![t] = o]  BY <2>1
  <2> HIDE DEF o
  <2> QED  BY <1>0, <1>1, <2>2, <2>3 DEF StartFinalize
<1>2. CASE StartDelete(t)
  <2>1. PICK m \in UNION {commits[i].ids : i \in DOMAIN commits} :
          op' = [op EXCEPT ![t] = [NoOp EXCEPT !.kind = "delete", !.phase = "wait",
                                               !.items = {m}]]
    BY <1>2 DEF StartDelete
  <2>2. PICK i \in DOMAIN commits : m \in commits[i].ids  OBVIOUS
  <2>3. m \in Media  BY <1>0, <2>2 DEF Commit
  <2> DEFINE o == [NoOp EXCEPT !.kind = "delete", !.phase = "wait", !.items = {m}]
  <2>4. o.items = {m} /\ o.phase = "wait" /\ o.attempt = 0 /\ o.kind = "delete"
    BY DEF NoOp
  <2>5. op' = [op EXCEPT ![t] = o]  BY <2>1
  <2> HIDE DEF o
  <2> QED  BY <1>0, <1>2, <2>3, <2>4, <2>5 DEF StartDelete
<1>3. CASE StartLoad(t)
  <2> DEFINE o == [NoOp EXCEPT !.kind = "load", !.phase = "observe", !.base = Len(commits)]
  <2>1. o.kind = "load" /\ o.phase = "observe" /\ o.attempt = 0  BY DEF NoOp
  <2>2. op' = [op EXCEPT ![t] = o]  BY <1>3 DEF StartLoad
  <2> HIDE DEF o
  <2> QED  BY <1>0, <1>3, <2>1, <2>2 DEF StartLoad
<1> QED  BY <1>1, <1>2, <1>3 DEF UserStep

LEMMA SStarts ==
    ASSUME TInv, SInv, NEW t \in Tabs, UserStep(t)
    PROVE  SInv'
  BY OpStarts, SClient DEF SInv, RequestsFit, remote

LEMMA SFailures ==
    ASSUME TInv, SInv, NEW t \in Tabs, FailStep(t)
    PROVE  SInv'
<1>1. EndOp(t) /\ commits' = commits /\ reqs' = Orphaned(t)
  BY DEF FailStep, LoseAnswer, Abort, Crash
<1> QED  BY <1>1, FitsOrphaned, TEndOp, SClient DEF NoOp

LEMMA OpGroupDone ==
    ASSUME TInv, NEW t \in Tabs, GroupDone(t)
    PROVE  /\ op'[t].kind = op[t].kind /\ op'[t].items = op[t].items
           /\ op'[t].base = op[t].base
           /\ op'[t].phase \in {"head", "dequeue"}
           /\ op'[t].phase = "head" => op'[t].attempt = 0
           /\ op'[t].todo = op[t].todo \ op[t].group
           /\ op'[t].phase = "dequeue" => op'[t].todo = {}
           /\ \A u \in Tabs \ {t} : op'[u] = op[u]
<1>0. op[t] \in Operation /\ op \in [Tabs -> Operation]  BY DEF TInv, TypeOK
<1>1. CASE NextGroup(t)
  <2> DEFINE o == [op[t] EXCEPT !.phase = "head", !.todo = @ \ op[t].group,
                                !.group = {}, !.attempt = 0]
  <2>1. /\ o.phase = "head" /\ o.kind = op[t].kind /\ o.items = op[t].items
        /\ o.base = op[t].base /\ o.attempt = 0 /\ o.todo = op[t].todo \ op[t].group
    BY <1>0 DEF Operation
  <2>2. op' = [op EXCEPT ![t] = o]  BY <1>1 DEF NextGroup
  <2> HIDE DEF o
  <2> QED  BY <1>0, <2>1, <2>2
<1>2. CASE LastGroup(t)
  <2> DEFINE o == [op[t] EXCEPT !.phase = "dequeue", !.todo = {}, !.group = {}]
  <2>1. /\ o.phase = "dequeue" /\ o.kind = op[t].kind /\ o.items = op[t].items
        /\ o.base = op[t].base /\ o.todo = {}
    BY <1>0 DEF Operation
  <2>2. op' = [op EXCEPT ![t] = o] /\ op[t].todo = op[t].group  BY <1>2 DEF LastGroup
  <2> HIDE DEF o
  <2> QED  BY <1>0, <2>1, <2>2
<1> QED  BY <1>1, <1>2 DEF GroupDone

LEMMA OpReadHead ==
    ASSUME TInv, NEW t \in Tabs, ReadHead(t)
    PROVE  /\ op'[t].kind = op[t].kind /\ op'[t].items = op[t].items
           /\ op'[t].phase = "manifest" /\ op'[t].base = Len(commits)
           /\ op'[t].todo = op[t].todo
           /\ \A u \in Tabs \ {t} : op'[u] = op[u]
<1>0. op[t] \in Operation /\ op \in [Tabs -> Operation]  BY DEF TInv, TypeOK
<1>1. PICK g : op' = [op EXCEPT ![t].phase = "manifest", ![t].group = g,
                                ![t].base = Len(commits), ![t].attempt = @ + 1]
  BY DEF ReadHead
<1> DEFINE n == op[t].attempt + 1
           o == [op[t] EXCEPT !.phase = "manifest", !.group = g,
                              !.base = Len(commits), !.attempt = n]
<1> HIDE DEF n
<1>2. /\ o.kind = op[t].kind /\ o.items = op[t].items /\ o.phase = "manifest"
      /\ o.base = Len(commits) /\ o.todo = op[t].todo
  BY <1>0 DEF Operation
<1>3. op' = [op EXCEPT ![t] = o]  BY <1>1 DEF n
<1> HIDE DEF o
<1> QED  BY <1>0, <1>2, <1>3

\* Sending a request whose manifest fits the pinned one.
LEMMA SSend ==
    ASSUME TInv, SInv, NEW t \in Tabs, op[t].phase = "manifest",
           NEW kind \in {"publish", "delete"}, NEW items, NEW ids, NEW pointers,
           Send(t, kind, items, ids, pointers),
           kind = "publish" =>
               /\ items # {} /\ items \cap Pinned(t).ids = {}
               /\ ids = Pinned(t).ids \cup items /\ pointers = PointersOf(items),
           kind = "delete" =>
               /\ \E m \in Pinned(t).ids : items = {m}
               /\ ids = Pinned(t).ids \ items /\ pointers = PointersOf(items)
    PROVE  \A r \in reqs' : r.phase \in Live =>
               r.parent \in 1 .. Len(commits) /\ Fits(r, commits[r.parent])
<1> DEFINE q == [from |-> t, kind |-> kind, items |-> items, ids |-> ids,
                 rev |-> NextRevision(Pinned(t).rev), parent |-> op[t].base,
                 pointers |-> pointers, todo |-> IF kind = "publish" THEN pointers ELSE {},
                 batch |-> 0, phase |-> "ensure"]
<1>1. reqs' = reqs \cup {q}  BY DEF Send
<1>2. q.parent \in 1 .. Len(commits) /\ Fits(q, commits[q.parent])
  <2>1. q.parent \in 1 .. Len(commits)  BY DEF TInv, BasesExist
  <2>2. commits[q.parent] = Pinned(t)  BY DEF Pinned
  <2>3. Fits(q, Pinned(t))  BY DEF Fits, NextRevision
  <2> QED  BY <2>1, <2>2, <2>3
<1>3. \A r \in reqs : r.phase \in Live =>
          r.parent \in 1 .. Len(commits) /\ Fits(r, commits[r.parent])
  BY DEF SInv, RequestsFit
<1> HIDE DEF q
<1> QED  BY <1>1, <1>2, <1>3

LEMMA SManifest ==
    ASSUME TInv, SInv, NEW t \in Tabs,
           \/ AcquireLock(t) \/ ReadHead(t)
           \/ SkipGroup(t) \/ SubmitPublish(t) \/ SubmitDelete(t)
           \/ EndDelete(t) \/ ObserveLoaded(t)
    PROVE  SInv'
<1>0. /\ RequestsFit /\ commits' = commits
      /\ op[t].kind = "delete" /\ op[t].phase # "dequeue" => \E m \in Media : op[t].items = {m}
  BY DEF SInv, DeletesOne, AcquireLock, ReadHead, SkipGroup, SubmitPublish, SubmitDelete,
         EndDelete, ObserveLoaded, remote
<1>1. CASE AcquireLock(t)
  BY <1>0, <1>1, OpGoto, SClient DEF AcquireLock, Phase, RequestsFit, remote
<1>2. CASE ReadHead(t)
  <2>1. reqs' = reqs /\ op[t].phase = "head"  BY <1>2 DEF ReadHead, remote
  <2> QED  BY <1>0, <1>2, <2>1, OpReadHead, SClient DEF RequestsFit
<1>3. CASE SkipGroup(t)
  <2>1. reqs' = reqs /\ op[t].kind = "finalize" /\ GroupDone(t)
    BY <1>3 DEF SkipGroup, remote
  <2> QED  BY <1>0, <2>1, OpGroupDone, SClient DEF RequestsFit
<1>4. CASE SubmitPublish(t)
  <2> DEFINE pending == PendingItems(op[t].group, Pinned(t).ids)
  <2>1. /\ op[t].kind = "finalize" /\ op[t].phase = "manifest" /\ pending # {}
        /\ Send(t, "publish", pending, Pinned(t).ids \cup pending, PointersOf(pending))
        /\ Goto(t, "commit")
    BY <1>4 DEF SubmitPublish
  <2>2. pending \cap Pinned(t).ids = {}  BY DEF PendingItems
  <2> HIDE DEF pending
  <2>3. \A r \in reqs' : r.phase \in Live =>
            r.parent \in 1 .. Len(commits) /\ Fits(r, commits[r.parent])
    BY <2>1, <2>2, SSend
  <2> QED  BY <1>0, <2>1, <2>3, OpGoto, SClient DEF Phase
<1>5. CASE SubmitDelete(t)
  <2>1. /\ op[t].kind = "delete" /\ op[t].phase = "manifest"
        /\ op[t].items \subseteq Pinned(t).ids
        /\ Send(t, "delete", op[t].items, Pinned(t).ids \ op[t].items,
                PointersOf(op[t].items))
        /\ Goto(t, "commit")
    BY <1>5 DEF SubmitDelete
  <2>2. \E m \in Pinned(t).ids : op[t].items = {m}  BY <1>0, <2>1
  <2>3. \A r \in reqs' : r.phase \in Live =>
            r.parent \in 1 .. Len(commits) /\ Fits(r, commits[r.parent])
    BY <2>1, <2>2, SSend
  <2> QED  BY <1>0, <2>1, <2>3, OpGoto, SClient DEF Phase
<1>6. CASE EndDelete(t) \/ ObserveLoaded(t)
  <2>1. EndOp(t) /\ reqs' = reqs  BY <1>6 DEF EndDelete, ObserveLoaded, remote
  <2> QED  BY <1>0, <2>1, TEndOp, SClient DEF NoOp, RequestsFit
<1> QED  BY <1>1, <1>2, <1>3, <1>4, <1>5, <1>6

LEMMA SAnswers ==
    ASSUME TInv, SInv, NEW t \in Tabs,
           \/ RefuseRollback(t) \/ CommitAcknowledged(t) \/ ObserveCommitted(t)
           \/ Rebase(t) \/ CommitFailed(t) \/ Dequeue(t)
    PROVE  SInv'
<1>0. /\ commits' = commits /\ reqs' \subseteq reqs
      /\ \A r \in reqs : r.phase \in Live =>
             r.parent \in 1 .. Len(commits) /\ Fits(r, commits[r.parent])
  BY DEF SInv, RequestsFit, RefuseRollback, CommitAcknowledged, ObserveCommitted,
         Rebase, CommitFailed, Dequeue, remote
<1>1. /\ op[t] \in Operation /\ op \in [Tabs -> Operation]
      /\ op[t].kind = "delete" /\ op[t].phase # "dequeue" => \E m \in Media : op[t].items = {m}
  BY DEF TInv, TypeOK, SInv, DeletesOne
<1>2. CASE EndOp(t)
  BY <1>0, <1>2, TEndOp, SClient DEF NoOp
<1>3. CASE GroupDone(t) /\ op[t].phase # "dequeue"
  BY <1>0, <1>1, <1>3, OpGroupDone, SClient
<1>4. CASE Goto(t, "head") /\ op[t].phase # "dequeue"
  BY <1>0, <1>1, <1>4, OpGoto, SClient DEF Phase
<1>5. ASSUME NEW r \in reqs, op[t].phase # "dequeue",
             op' = [op EXCEPT ![t].phase = "check", ![t].rev = r.rev]
      PROVE  SInv'
  <2> DEFINE o == [op[t] EXCEPT !.phase = "check", !.rev = r.rev]
  <2>1. o.kind = op[t].kind /\ o.items = op[t].items  BY <1>1 DEF Operation
  <2>2. op' = [op EXCEPT ![t] = o]  BY <1>5
  <2> HIDE DEF o
  <2> QED  BY <1>0, <1>1, <1>5, <2>1, <2>2, SClient
<1>6. CASE Dequeue(t)
  <2>1. PICK m : op' = [op EXCEPT ![t] = NoOp] \/ op' = [op EXCEPT ![t].items = @ \ {m}]
    BY <1>6 DEF Dequeue
  <2> DEFINE o == [op[t] EXCEPT !.items = @ \ {m}]
  <2>2. o.phase = "dequeue"  BY <1>1, <1>6 DEF Operation, Dequeue
  <2>3. op' = [op EXCEPT ![t] = o] \/ op' = [op EXCEPT ![t] = NoOp]  BY <2>1
  <2> HIDE DEF o
  <2>4. NoOp.kind = "none"  BY DEF NoOp
  <2> QED  BY <1>0, <1>1, <2>2, <2>3, <2>4, SClient
<1>7. CASE RefuseRollback(t)  BY <1>2, <1>7 DEF RefuseRollback
<1>8. CASE CommitAcknowledged(t)
  <2>1. PICK r \in RequestOf(t) :
          \/ op' = [op EXCEPT ![t].phase = "check", ![t].rev = r.rev]
          \/ EndOp(t)
    BY <1>8 DEF CommitAcknowledged
  <2>2. r \in reqs /\ op[t].phase = "commit"  BY <1>8 DEF RequestOf, CommitAcknowledged
  <2> QED  BY <1>2, <1>5, <2>1, <2>2
<1>9. CASE ObserveCommitted(t)  BY <1>3, <1>9 DEF ObserveCommitted
<1>10. CASE Rebase(t) \/ CommitFailed(t)
  BY <1>2, <1>4, <1>10 DEF Rebase, CommitFailed
<1> QED  BY <1>6, <1>7, <1>8, <1>9, <1>10

(***************************************************************************)
(* Steps of the Worker: the branch grows by one commit, or stays.          *)
(***************************************************************************)

\* A commit that keeps the manifest, or replaces it by the next revision, and
\* holds the pointers of what it lists, keeps the history in order.
LEMMA SAppend ==
    ASSUME TInv, SInv, NEW c \in Commit, commits' = Append(commits, c),
           \/ c.rev = Main.rev /\ c.ids = Main.ids
           \/ c.rev = Main.rev + 1,
           PointersOf(c.ids) \subseteq c.pointers
    PROVE  EntriesHavePointers' /\ RevisionOrdersHistory'
<1> DEFINE n == Len(commits)
<1>1. /\ commits \in Seq(Commit) /\ n \in Nat \ {0} /\ Main = commits[n]
      /\ Len(commits') = n + 1 /\ commits'[n + 1] = c
      /\ \A i \in 1 .. n : commits'[i] = commits[i]
      /\ commits' \in Seq(Commit)
  BY MainType, AppendCommit DEF TInv, TypeOK, Main
<1>2. DOMAIN commits = 1 .. n /\ DOMAIN commits' = 1 .. (n + 1)
  BY <1>1
<1>3. \A i \in 1 .. n : commits[i].rev \in Nat
  BY <1>2, MainType DEF TInv, Commit
<1>4. \A i, j \in 1 .. n : i <= j => NotNewer(commits[i], commits[j])
  BY <1>2 DEF SInv, RevisionOrdersHistory
<1> HIDE DEF n
<1>5. ASSUME NEW i \in 1 .. n
      PROVE  NotNewer(commits[i], c)
  <2>1. NotNewer(commits[i], commits[n])  BY <1>1, <1>4
  <2>2. commits[i].rev \in Nat /\ commits[n].rev \in Nat  BY <1>1, <1>3
  <2> QED  BY <1>1, <2>1, <2>2 DEF NotNewer
<1>6. ASSUME NEW i \in 1 .. (n + 1), NEW j \in 1 .. (n + 1), i <= j
      PROVE  NotNewer(commits'[i], commits'[j])
  <2>1. CASE j \in 1 .. n
    <3>1. i \in 1 .. n  BY <1>1, <1>6, <2>1
    <3>2. commits'[i] = commits[i] /\ commits'[j] = commits[j]  BY <1>1, <2>1, <3>1
    <3> QED  BY <1>4, <1>6, <2>1, <3>1, <3>2
  <2>2. CASE j = n + 1 /\ i \in 1 .. n
    <3>1. commits'[i] = commits[i] /\ commits'[j] = c  BY <1>1, <2>2
    <3> QED  BY <1>5, <2>2, <3>1
  <2>3. CASE j = n + 1 /\ i = n + 1
    <3>1. commits'[i] = c /\ commits'[j] = c /\ c.rev \in Nat  BY <1>1, <2>3 DEF Commit
    <3> QED  BY <3>1 DEF NotNewer
  <2> QED
    <3>1. n \in Nat  BY <1>1
    <3>2. j \in 1 .. n \/ (j = n + 1 /\ i \in 1 .. n) \/ (j = n + 1 /\ i = n + 1)
      BY <1>6, <3>1
    <3> QED  BY <2>1, <2>2, <2>3, <3>2
<1>7. RevisionOrdersHistory'  BY <1>2, <1>6 DEF RevisionOrdersHistory
<1>8. EntriesHavePointers'
  BY <1>1, <1>2 DEF SInv, EntriesHavePointers
<1> QED  BY <1>7, <1>8

\* What a growing branch leaves of the requests that did not take the step.
LEMMA SOthers ==
    ASSUME TInv, SInv, NEW r \in reqs, NEW s, Becomes(r, s), op' = op,
           \/ commits' = commits
           \/ \E c \in Commit : commits' = Append(commits, c),
           s.phase \in Live =>
               s.parent \in 1 .. Len(commits') /\ Fits(s, commits'[s.parent])
    PROVE  RequestsFit' /\ DeletesOne'
<1>1. commits \in Seq(Commit) /\ Len(commits) \in Nat  BY DEF TInv, TypeOK
<1>2. /\ Len(commits') \in Nat /\ Len(commits') >= Len(commits)
      /\ \A i \in 1 .. Len(commits) : commits'[i] = commits[i]
  <2>1. CASE commits' = commits  BY <1>1, <2>1
  <2>2. ASSUME NEW c \in Commit, commits' = Append(commits, c)
        PROVE  /\ Len(commits') \in Nat /\ Len(commits') >= Len(commits)
               /\ \A i \in 1 .. Len(commits) : commits'[i] = commits[i]
    BY <1>1, <2>2, AppendCommit
  <2> QED  BY <2>1, <2>2
<1>3. \A q \in reqs : q.phase \in Live =>
          q.parent \in 1 .. Len(commits') /\ Fits(q, commits'[q.parent])
  BY <1>1, <1>2 DEF SInv, RequestsFit
<1>4. RequestsFit'  BY <1>3 DEF RequestsFit, Becomes
<1>5. DeletesOne'  BY DEF SInv, DeletesOne
<1> QED  BY <1>4, <1>5

LEMMA SWorkerStays ==
    ASSUME TInv, SInv, NEW r \in reqs, EnsureAttributes(r) \/ Conflict(r) \/ FailRequest(r)
    PROVE  SInv'
<1>1. PICK ph \in Live \cup Answered :
        Becomes(r, [r EXCEPT !.phase = ph]) /\ (ph \in Live => r.phase \in Live)
  BY DEF EnsureAttributes, Conflict, FailRequest
<1> DEFINE s == [r EXCEPT !.phase = ph]
<1>2. /\ s.rev = r.rev /\ s.kind = r.kind /\ s.items = r.items /\ s.ids = r.ids
      /\ s.todo = r.todo /\ s.pointers = r.pointers /\ s.parent = r.parent /\ s.phase = ph
  BY DEF TInv, TypeOK, Request
<1>3. Becomes(r, s)  BY <1>1
<1> HIDE DEF s
<1>4. commits' = commits /\ op' = op
  BY DEF EnsureAttributes, Conflict, FailRequest
<1>5. s.phase \in Live => s.parent \in 1 .. Len(commits') /\ Fits(s, commits'[s.parent])
  <2> HAVE s.phase \in Live
  <2>1. r.parent \in 1 .. Len(commits) /\ Fits(r, commits[r.parent])
    BY <1>1, <1>2 DEF SInv, RequestsFit
  <2> QED  BY <1>2, <1>4, <2>1 DEF Fits
<1>6. RequestsFit' /\ DeletesOne'  BY <1>3, <1>4, <1>5, SOthers
<1>7. EntriesHavePointers' /\ RevisionOrdersHistory'
  BY <1>4 DEF SInv, EntriesHavePointers, RevisionOrdersHistory
<1> QED  BY <1>6, <1>7 DEF SInv

LEMMA SAttributes ==
    ASSUME TInv, SInv, NEW r \in reqs, CommitAttributes(r)
    PROVE  SInv'
<1>0. r \in Request /\ Main \in Commit /\ commits \in Seq(Commit) /\ Len(commits) \in Nat \ {0}
  BY MainType DEF TInv, TypeOK
<1> DEFINE c == [Main EXCEPT !.attrs = TRUE]
           s == [r EXCEPT !.phase = "batch"]
<1>1. /\ c \in Commit /\ c.rev = Main.rev /\ c.ids = Main.ids /\ c.pointers = Main.pointers
  BY <1>0 DEF Commit
<1>2. /\ s.rev = r.rev /\ s.kind = r.kind /\ s.items = r.items /\ s.ids = r.ids
      /\ s.todo = r.todo /\ s.pointers = r.pointers /\ s.parent = r.parent
  BY <1>0 DEF Request
<1>3. commits' = Append(commits, c) /\ Becomes(r, s) /\ op' = op /\ r.phase = "attrs"
  BY DEF CommitAttributes
<1> HIDE DEF c, s
<1>4. PointersOf(Main.ids) \subseteq Main.pointers
  BY <1>0 DEF SInv, EntriesHavePointers, Main
<1>5. r.parent \in 1 .. Len(commits) /\ Fits(r, commits[r.parent])
  BY <1>3 DEF SInv, RequestsFit
<1>6. s.parent \in 1 .. Len(commits') /\ Fits(s, commits'[s.parent])
  BY <1>0, <1>1, <1>2, <1>3, <1>5, AppendCommit DEF Fits
<1>7. RequestsFit' /\ DeletesOne'  BY <1>1, <1>3, <1>6, SOthers
<1>8. EntriesHavePointers' /\ RevisionOrdersHistory'  BY <1>1, <1>3, <1>4, SAppend
<1> QED  BY <1>7, <1>8 DEF SInv

LEMMA SEarlyBatch ==
    ASSUME TInv, SInv, NEW r \in reqs, LandEarlyBatch(r)
    PROVE  SInv'
<1>0. r \in Request /\ Main \in Commit /\ commits \in Seq(Commit) /\ Len(commits) \in Nat \ {0}
  BY MainType DEF TInv, TypeOK
<1>1. PICK S \in SUBSET r.todo :
        /\ commits' = Append(commits, [Main EXCEPT !.pointers = @ \cup S])
        /\ Becomes(r, [r EXCEPT !.todo = @ \ S, !.batch = @ + 1,
                                !.parent = Len(commits) + 1])
  BY DEF LandEarlyBatch
<1> DEFINE c == [Main EXCEPT !.pointers = @ \cup S]
           b == r.batch + 1
           p == Len(commits) + 1
           s == [r EXCEPT !.todo = @ \ S, !.batch = b, !.parent = p]
<1>2. c \in Commit /\ c.rev = Main.rev /\ c.ids = Main.ids /\ c.pointers = Main.pointers \cup S
  BY <1>0 DEF Commit, Request
<1> HIDE DEF b, p
<1>3. /\ s.rev = r.rev /\ s.kind = r.kind /\ s.items = r.items /\ s.ids = r.ids
      /\ s.todo = r.todo \ S /\ s.pointers = r.pointers /\ s.parent = p
  BY <1>0 DEF Request
<1>4. commits' = Append(commits, c) /\ Becomes(r, s)  BY <1>1 DEF b, p
<1>5. op' = op /\ r.parent = Len(commits) /\ r.phase = "batch"
  BY DEF LandEarlyBatch, ParentIsHead
<1> HIDE DEF c, s
<1>6. PointersOf(Main.ids) \subseteq Main.pointers
  BY <1>0 DEF SInv, EntriesHavePointers, Main
<1>7. Fits(r, Main)  BY <1>5 DEF SInv, RequestsFit, Main
<1>8. s.parent \in 1 .. Len(commits') /\ commits'[s.parent] = c
  BY <1>0, <1>2, <1>3, <1>4, AppendCommit DEF p
<1>9. Fits(s, c)  BY <1>2, <1>3, <1>7 DEF Fits
<1>10. RequestsFit' /\ DeletesOne'  BY <1>2, <1>4, <1>5, <1>8, <1>9, SOthers
<1>11. EntriesHavePointers' /\ RevisionOrdersHistory'  BY <1>2, <1>4, <1>6, SAppend
<1> QED  BY <1>10, <1>11 DEF SInv

\* The last commit of a request publishes the manifest that fits the head.
LEMMA SLand ==
    ASSUME TInv, SInv, NEW r \in reqs, NEW answer \in Answered, Land(r, answer), op' = op
    PROVE  SInv'
<1>0. /\ r \in Request /\ Main \in Commit /\ commits \in Seq(Commit)
      /\ Len(commits) \in Nat \ {0}
  BY MainType DEF TInv, TypeOK
<1>1. r.parent = Len(commits) /\ r.phase = "batch" /\ Becomes(r, [r EXCEPT !.phase = answer])
  BY DEF Land, ParentIsHead
<1>2. Fits(r, Main)  BY <1>1 DEF SInv, RequestsFit, Main
<1>3. PointersOf(Main.ids) \subseteq Main.pointers
  BY <1>0 DEF SInv, EntriesHavePointers, Main
<1>4. PICK c \in Commit : /\ commits' = Append(commits, c) /\ c.rev = Main.rev + 1
                          /\ PointersOf(c.ids) \subseteq c.pointers
  <2>1. CASE r.kind = "publish" /\ commits' = Append(commits, Published(r, Main))
    <3> DEFINE c == Published(r, Main)
    <3>1. c \in Commit /\ c.rev = r.rev /\ c.ids = r.ids
          /\ c.pointers = Main.pointers \cup r.todo
      BY <1>0 DEF Published, Commit, Request
    <3>2. c.rev = Main.rev + 1 /\ c.ids = Main.ids \cup r.items
      BY <1>2, <2>1, <3>1 DEF Fits
    <3>3. PointersOf(c.ids) = PointersOf(Main.ids) \cup PointersOf(r.items)
      BY <3>2, PointersSplit
    <3>4. PointersOf(c.ids) \subseteq c.pointers
      BY <1>2, <1>3, <2>1, <3>1, <3>3 DEF Fits
    <3> QED  BY <2>1, <3>1, <3>2, <3>4
  <2>2. CASE r.kind = "delete" /\ commits' = Append(commits, Removed(r, Main))
    <3> DEFINE c == Removed(r, Main)
    <3>1. c \in Commit /\ c.rev = r.rev /\ c.ids = r.ids
          /\ c.pointers = Main.pointers \ r.pointers
      BY <1>0 DEF Removed, Commit, Request
    <3>2. c.rev = Main.rev + 1 /\ c.ids = Main.ids \ r.items /\ r.pointers = PointersOf(r.items)
      BY <1>2, <2>2, <3>1 DEF Fits
    <3>3. PointersOf(c.ids) \subseteq PointersOf(Main.ids)
      BY <3>2 DEF PointersOf
    <3>4. PointersOf(c.ids) \cap PointersOf(r.items) = {}
      BY <3>2, PointersDisjoint
    <3>5. PointersOf(c.ids) \subseteq c.pointers
      BY <1>3, <3>1, <3>2, <3>3, <3>4
    <3> QED  BY <2>2, <3>1, <3>2, <3>5
  <2> QED  BY <2>1, <2>2 DEF Land
<1>5. [r EXCEPT !.phase = answer].phase \notin Live
  BY <1>0 DEF Request
<1>6. RequestsFit' /\ DeletesOne'  BY <1>1, <1>4, <1>5, SOthers
<1>7. EntriesHavePointers' /\ RevisionOrdersHistory'  BY <1>4, SAppend
<1> QED  BY <1>6, <1>7 DEF SInv

LEMMA SNext == TInv /\ SInv /\ [Next]_vars => SInv'
<1> SUFFICES ASSUME TInv, SInv, [Next]_vars PROVE SInv'  OBVIOUS
<1>1. CASE UNCHANGED vars
  BY <1>1 DEF vars, remote, SInv, RequestsFit, DeletesOne, EntriesHavePointers,
              RevisionOrdersHistory
<1>2. ASSUME NEW d \in Devices, Stage(d) PROVE SInv'
  BY <1>2 DEF Stage, remote, SInv, RequestsFit, DeletesOne, EntriesHavePointers,
              RevisionOrdersHistory
<1>3. ASSUME NEW t \in Tabs, UserStep(t) \/ FailStep(t) PROVE SInv'
  BY <1>3, SStarts, SFailures
<1>4. ASSUME NEW t \in Tabs, AcquireLock(t) \/ ClientStep(t) PROVE SInv'
  BY <1>4, SManifest, SAnswers DEF ClientStep
<1>5. ASSUME NEW r \in reqs, WorkerStep(r) \/ WorkerFailure(r) PROVE SInv'
  <2>1. CASE EnsureAttributes(r) \/ Conflict(r) \/ FailRequest(r)  BY <2>1, SWorkerStays
  <2>2. CASE CommitAttributes(r)  BY <2>2, SAttributes
  <2>3. CASE LandEarlyBatch(r)  BY <2>3, SEarlyBatch
  <2>4. CASE LandFinalBatch(r)  BY <2>4, SLand DEF LandFinalBatch
  <2>5. CASE LandUnconfirmed(r)  BY <2>5, SLand DEF LandUnconfirmed
  <2> QED  BY <1>5, <2>1, <2>2, <2>3, <2>4, <2>5 DEF WorkerStep, WorkerFailure
<1> QED  BY <1>1, <1>2, <1>3, <1>4, <1>5 DEF Next

LEMMA SafetyInvariant == Spec => [](TInv /\ SInv)
<1>1. Init => TInv /\ SInv  BY TInitially, SInitially
<1>2. (TInv /\ SInv) /\ [Next]_vars => (TInv /\ SInv)'  BY TNext, SNext
<1> QED  BY <1>1, <1>2, PTL DEF Spec

\* No revision of the vault ever lists a medium whose stored pointers are
\* incomplete, for any number of devices, tabs, commits and batches: the plan
\* stages pointers first and the manifest goes in the last commit, which only
\* lands on the head it was computed from.
THEOREM PublicationsAreWhole == Spec => []EntriesHavePointers
  BY SafetyInvariant, PTL DEF SInv

\* The manifest revision orders the branch, so that comparing a revision with
\* a stored mark can tell an older vault from a newer one.
THEOREM RevisionsAreOrdered == Spec => []RevisionOrdersHistory
  BY SafetyInvariant, PTL DEF SInv

(***************************************************************************)
(* The abstract vault.  Only the last commit of a request changes what the *)
(* vault holds.                                                            *)
(***************************************************************************)
Invariant == TInv /\ SInv

LEMMA BranchGrows ==
    ASSUME Invariant, [Next]_vars
    PROVE  \/ commits' = commits
           \/ \E c \in Commit : commits' = Append(commits, c)
<1>1. CASE UNCHANGED vars  BY <1>1 DEF vars, remote
<1>2. CASE \E d \in Devices : Stage(d)  BY <1>2 DEF Stage, remote
<1>3. ASSUME NEW t \in Tabs, UserStep(t) \/ AcquireLock(t) \/ ClientStep(t) \/ FailStep(t)
      PROVE  commits' = commits
  BY <1>3 DEF UserStep, StartFinalize, StartDelete, StartLoad, AcquireLock, ClientStep,
       ReadHead, RefuseRollback, SkipGroup, SubmitPublish, SubmitDelete, EndDelete,
       CommitAcknowledged, ObserveCommitted, Rebase, CommitFailed, Dequeue,
       ObserveLoaded, FailStep, LoseAnswer, Abort, Crash, remote
<1>4. ASSUME NEW r \in reqs, WorkerStep(r) \/ WorkerFailure(r)
      PROVE  \/ commits' = commits
             \/ \E c \in Commit : commits' = Append(commits, c)
  <2>0. Main \in Commit /\ r \in Request  BY MainType DEF Invariant, TInv, TypeOK
  <2>1. CASE EnsureAttributes(r) \/ Conflict(r) \/ FailRequest(r)
    BY <2>1 DEF EnsureAttributes, Conflict, FailRequest
  <2>2. CASE CommitAttributes(r)
    <3>1. [Main EXCEPT !.attrs = TRUE] \in Commit  BY <2>0 DEF Commit
    <3> QED  BY <2>2, <3>1 DEF CommitAttributes
  <2>3. CASE LandEarlyBatch(r)
    <3>1. PICK S \in SUBSET r.todo :
            commits' = Append(commits, [Main EXCEPT !.pointers = @ \cup S])
      BY <2>3 DEF LandEarlyBatch
    <3>2. [Main EXCEPT !.pointers = @ \cup S] \in Commit  BY <2>0 DEF Commit, Request
    <3> QED  BY <3>1, <3>2
  <2>4. CASE LandFinalBatch(r) \/ LandUnconfirmed(r)
    BY <2>4, TLand DEF LandFinalBatch, LandUnconfirmed, Invariant
  <2> QED  BY <1>4, <2>1, <2>2, <2>3, <2>4 DEF WorkerStep, WorkerFailure
<1> QED  BY <1>1, <1>2, <1>3, <1>4 DEF Next

LEMMA MainAppended ==
    ASSUME TInv, NEW c \in Commit, commits' = Append(commits, c)
    PROVE  Main' = c
  BY AppendCommit, MainType DEF Main, TInv, TypeOK

\* A request that lands publishes media the vault lacks or removes one it has.
LEMMA RLand ==
    ASSUME Invariant, NEW r \in reqs, NEW answer \in Answered, Land(r, answer)
    PROVE  Main'.rev = r.rev /\ V!VaultNext
<1>0. r \in Request /\ Main \in Commit  BY MainType DEF Invariant, TInv, TypeOK
<1>1. Fits(r, Main)
  BY DEF Land, ParentIsHead, Invariant, SInv, RequestsFit, Main
<1>2. CASE r.kind = "publish" /\ commits' = Append(commits, Published(r, Main))
  <2>1. /\ Published(r, Main) \in Commit
        /\ Published(r, Main).rev = r.rev /\ Published(r, Main).ids = r.ids
    BY <1>0 DEF Published, Commit, Request
  <2>2. Main'.rev = r.rev /\ Main'.ids = r.ids
    BY <1>2, <2>1, MainAppended DEF Invariant
  <2>3. /\ r.items # {} /\ r.items \cap Main.ids = {}
        /\ Main'.ids = Main.ids \cup r.items /\ Main'.rev = Main.rev + 1
    BY <1>1, <1>2, <2>2 DEF Fits
  <2>4. r.items \in SUBSET Media  BY <1>0 DEF Request
  <2>5. r.items \in (SUBSET Media) \ {{}}  BY <2>3, <2>4
  <2>6. V!Publish
    <3>1. \E new \in (SUBSET Media) \ {{}} :
             /\ new \cap Main.ids = {}
             /\ Main'.ids = Main.ids \cup new
             /\ Main'.rev = Main.rev + 1
      BY <2>3, <2>5, Zenon
    <3> QED  BY <3>1, Zenon DEF V!Publish
  <2> QED  BY <2>2, <2>6 DEF V!VaultNext
<1>3. CASE r.kind = "delete" /\ commits' = Append(commits, Removed(r, Main))
  <2>1. /\ Removed(r, Main) \in Commit
        /\ Removed(r, Main).rev = r.rev /\ Removed(r, Main).ids = r.ids
    BY <1>0 DEF Removed, Commit, Request
  <2>2. Main'.rev = r.rev /\ Main'.ids = r.ids
    BY <1>3, <2>1, MainAppended DEF Invariant
  <2>3. /\ \E m \in Main.ids : r.items = {m}
        /\ Main'.ids = Main.ids \ r.items /\ Main'.rev = Main.rev + 1
    BY <1>1, <1>3, <2>2 DEF Fits
  <2> QED  BY <2>2, <2>3 DEF V!VaultNext, V!Remove
<1> QED  BY <1>2, <1>3 DEF Land

\* Every other step leaves the collection and its revision as they are.
LEMMA RNext ==
    ASSUME Invariant, [Next]_vars
    PROVE  [V!VaultNext]_(V!vaultVars)
<1>1. CASE commits' = commits  BY <1>1 DEF Main, V!vaultVars
<1>2. CASE UNCHANGED vars  BY <1>1, <1>2 DEF vars, remote
<1>3. CASE \E d \in Devices : Stage(d)  BY <1>1, <1>3 DEF Stage, remote
<1>4. ASSUME NEW t \in Tabs, UserStep(t) \/ AcquireLock(t) \/ ClientStep(t) \/ FailStep(t)
      PROVE  commits' = commits
  BY <1>4 DEF UserStep, StartFinalize, StartDelete, StartLoad, AcquireLock, ClientStep,
       ReadHead, RefuseRollback, SkipGroup, SubmitPublish, SubmitDelete, EndDelete,
       CommitAcknowledged, ObserveCommitted, Rebase, CommitFailed, Dequeue,
       ObserveLoaded, FailStep, LoseAnswer, Abort, Crash, remote
<1>5. ASSUME NEW r \in reqs, WorkerStep(r) \/ WorkerFailure(r)
      PROVE  [V!VaultNext]_(V!vaultVars)
  <2>0. Main \in Commit /\ r \in Request  BY MainType DEF Invariant, TInv, TypeOK
  <2>1. CASE EnsureAttributes(r) \/ Conflict(r) \/ FailRequest(r)
    BY <1>1, <2>1 DEF EnsureAttributes, Conflict, FailRequest
  <2>2. CASE CommitAttributes(r)
    <3> DEFINE c == [Main EXCEPT !.attrs = TRUE]
    <3>1. c \in Commit /\ c.ids = Main.ids /\ c.rev = Main.rev  BY <2>0 DEF Commit
    <3>2. commits' = Append(commits, c)  BY <2>2 DEF CommitAttributes
    <3> HIDE DEF c
    <3>3. Main' = c  BY <3>1, <3>2, MainAppended DEF Invariant
    <3> QED  BY <3>1, <3>3 DEF V!vaultVars
  <2>3. CASE LandEarlyBatch(r)
    <3>1. PICK S \in SUBSET r.todo :
            commits' = Append(commits, [Main EXCEPT !.pointers = @ \cup S])
      BY <2>3 DEF LandEarlyBatch
    <3> DEFINE c == [Main EXCEPT !.pointers = @ \cup S]
    <3>2. c \in Commit /\ c.ids = Main.ids /\ c.rev = Main.rev  BY <2>0 DEF Commit, Request
    <3>3. commits' = Append(commits, c)  BY <3>1
    <3> HIDE DEF c
    <3>4. Main' = c  BY <3>2, <3>3, MainAppended DEF Invariant
    <3> QED  BY <3>2, <3>4 DEF V!vaultVars
  <2>4. CASE LandFinalBatch(r) \/ LandUnconfirmed(r)
    BY <2>4, RLand DEF LandFinalBatch, LandUnconfirmed
  <2> QED  BY <1>5, <2>1, <2>2, <2>3, <2>4 DEF WorkerStep, WorkerFailure
<1> QED  BY <1>1, <1>2, <1>3, <1>4, <1>5 DEF Next

\* Whatever the devices, tabs and requests do, and whatever fails, the vault
\* is one collection that changes by whole publications of media it lacks and
\* removals of a medium it has: no update is lost, none is applied twice.
THEOREM VaultImplemented == Spec => VaultRefined
<1>1. Init => V!VaultInit
  BY DEF Init, Main, V!VaultInit
<1>2. Invariant /\ [Next]_vars => [V!VaultNext]_(V!vaultVars)
  BY RNext
<1>3. Spec => []Invariant
  BY SafetyInvariant, PTL DEF Invariant
<1> QED  BY <1>1, <1>2, <1>3, PTL DEF Spec, VaultRefined, V!VaultSpec

(***************************************************************************)
(* The marks.  A revision a tab is about to store has landed.              *)
(***************************************************************************)
MarksInv ==
    /\ MarkBehindHead
    /\ \A t \in Tabs : op[t].phase = "check" => op[t].rev <= Main.rev
    /\ \A r \in reqs : r.phase = "ok" => r.rev <= Main.rev

LEMMA HeadMonotone ==
    ASSUME Invariant, [Next]_vars
    PROVE  Main.rev <= Main'.rev /\ Main.rev \in Nat /\ Main'.rev \in Nat
<1>1. Main \in Commit /\ commits \in Seq(Commit) /\ Len(commits) \in Nat \ {0}
  BY MainType DEF Invariant, TInv, TypeOK
<1>2. CASE commits' = commits  BY <1>1, <1>2 DEF Main, Commit
<1>3. ASSUME NEW c \in Commit, commits' = Append(commits, c)
      PROVE  Main.rev <= Main'.rev /\ Main'.rev \in Nat
  <2>1. SInv'  BY SNext DEF Invariant
  <2>2. Main' = c  BY <1>3, MainAppended DEF Invariant
  <2>3. /\ commits'[Len(commits)] = Main /\ commits'[Len(commits) + 1] = c
        /\ DOMAIN commits' = 1 .. Len(commits) + 1
    BY <1>1, <1>3, AppendCommit DEF Main
  <2> DEFINE n == Len(commits)
  <2>4. n \in 1 .. (n + 1) /\ n + 1 \in 1 .. (n + 1) /\ n <= n + 1  BY <1>1
  <2>5. \A i, j \in DOMAIN commits' : i <= j => NotNewer(commits'[i], commits'[j])
    BY <2>1 DEF SInv, RevisionOrdersHistory
  <2>6. NotNewer(commits'[n], commits'[n + 1])  BY <2>3, <2>4, <2>5
  <2> QED  BY <2>2, <2>3, <2>6 DEF NotNewer, Commit
<1> QED  BY <1>1, <1>2, <1>3, BranchGrows DEF Commit

\* What a tab pinned is not newer than the head.
LEMMA PinnedOld ==
    ASSUME Invariant, NEW t \in Tabs, op[t].phase \in {"manifest", "observe"}
    PROVE  Pinned(t).rev \in Nat /\ Pinned(t).rev <= Main.rev
<1>1. /\ Len(commits) \in Nat \ {0} /\ DOMAIN commits = 1 .. Len(commits)
      /\ op[t].base \in 1 .. Len(commits)
  BY MainType DEF Invariant, TInv, BasesExist
<1>2. NotNewer(commits[op[t].base], commits[Len(commits)])
  BY <1>1 DEF Invariant, SInv, RevisionOrdersHistory
<1>3. Pinned(t) \in Commit  BY PinnedType DEF Invariant
<1> QED  BY <1>2, <1>3 DEF Pinned, Main, NotNewer, Commit

LEMMA MarksKept ==
    ASSUME Invariant, MarksInv, NEW t \in Tabs, commits' = commits,
           \/ mark' = mark
           \/ \E rev \in Nat : rev <= Main.rev /\ Observe(t, rev),
           \A u \in Tabs \ {t} : op'[u] = op[u],
           op'[t].phase = "check" => op'[t].rev <= Main.rev,
           \A r \in reqs' : r.phase = "ok" => r.rev <= Main.rev
    PROVE  MarksInv'
<1>0. Main' = Main /\ mark \in [Devices -> Nat] /\ Main.rev \in Nat
  BY MainType DEF Main, Invariant, TInv, TypeOK, Commit
<1>1. MarkBehindHead'
  <2>1. CASE mark' = mark  BY <1>0, <2>1 DEF MarksInv, MarkBehindHead
  <2>2. ASSUME NEW rev \in Nat, rev <= Main.rev, Observe(t, rev)
        PROVE  MarkBehindHead'
    <3>1. mark' = [mark EXCEPT ![DeviceOf[t]] = MaxOf(@, rev)]  BY <2>2 DEF Observe
    <3> SUFFICES ASSUME NEW d \in Devices PROVE mark'[d] <= Main.rev
      BY <1>0 DEF MarkBehindHead
    <3>2. mark[d] <= Main.rev /\ mark[d] \in Nat  BY <1>0 DEF MarksInv, MarkBehindHead
    <3>3. mark'[d] = mark[d] \/ mark'[d] = rev  BY <1>0, <3>1 DEF MaxOf
    <3> QED  BY <2>2, <3>2, <3>3
  <2> QED  BY <2>1, <2>2
<1> QED  BY <1>0, <1>1 DEF MarksInv

LEMMA MarksManifest ==
    ASSUME Invariant, MarksInv, NEW t \in Tabs,
           \/ SkipGroup(t) \/ SubmitPublish(t) \/ SubmitDelete(t)
           \/ EndDelete(t) \/ ObserveLoaded(t)
    PROVE  MarksInv'
<1>1. /\ op[t].phase \in {"manifest", "observe"} /\ Observe(t, Pinned(t).rev)
      /\ commits' = commits
  BY DEF SkipGroup, SubmitPublish, SubmitDelete, EndDelete, ObserveLoaded, remote
<1>2. \E rev \in Nat : rev <= Main.rev /\ Observe(t, rev)  BY <1>1, PinnedOld
<1>3. \A r \in reqs : r.phase = "ok" => r.rev <= Main.rev  BY DEF MarksInv
<1>4. CASE SkipGroup(t)
  <2>1. GroupDone(t) /\ reqs' = reqs  BY <1>4 DEF SkipGroup, remote
  <2> QED  BY <1>1, <1>2, <1>3, <2>1, OpGroupDone, MarksKept DEF Invariant
<1>5. CASE SubmitPublish(t) \/ SubmitDelete(t)
  <2>1. /\ Goto(t, "commit")
        /\ \E kind, items, ids, pointers : Send(t, kind, items, ids, pointers)
    BY <1>5 DEF SubmitPublish, SubmitDelete
  <2>2. \A r \in reqs' : r.phase = "ok" => r.rev <= Main.rev
    BY <1>3, <2>1 DEF Send
  <2> QED  BY <1>1, <1>2, <2>1, <2>2, OpGoto, MarksKept DEF Phase, Invariant
<1>6. CASE EndDelete(t) \/ ObserveLoaded(t)
  <2>1. EndOp(t) /\ reqs' = reqs  BY <1>6 DEF EndDelete, ObserveLoaded, remote
  <2> QED  BY <1>1, <1>2, <1>3, <2>1, TEndOp, MarksKept DEF NoOp, Invariant
<1> QED  BY <1>4, <1>5, <1>6

LEMMA MarksTab ==
    ASSUME Invariant, MarksInv, NEW t \in Tabs,
           \/ UserStep(t) \/ AcquireLock(t) \/ ReadHead(t) \/ FailStep(t)
           \/ RefuseRollback(t) \/ CommitAcknowledged(t) \/ ObserveCommitted(t)
           \/ Rebase(t) \/ CommitFailed(t) \/ Dequeue(t)
    PROVE  MarksInv'
<1>0. /\ op[t] \in Operation /\ op \in [Tabs -> Operation]
      /\ \A r \in reqs : r \in Request /\ (r.phase = "ok" => r.rev <= Main.rev)
      /\ TInv
  BY DEF MarksInv, Invariant, TInv, TypeOK
<1>1. CASE UserStep(t)
  BY <1>0, <1>1, OpStarts, MarksKept DEF remote, stored
<1>2. CASE AcquireLock(t)
  BY <1>0, <1>2, OpGoto, MarksKept DEF AcquireLock, Phase, remote, stored
<1>3. CASE ReadHead(t)
  BY <1>0, <1>3, OpReadHead, MarksKept DEF ReadHead, remote, stored
<1>4. CASE FailStep(t)
  <2>1. EndOp(t) /\ commits' = commits /\ mark' = mark /\ reqs' = Orphaned(t)
    BY <1>4 DEF FailStep, LoseAnswer, Abort, Crash, stored
  <2>2. \A r \in reqs : [r EXCEPT !.from = None].phase = r.phase
                        /\ [r EXCEPT !.from = None].rev = r.rev
    BY <1>0 DEF Request
  <2>3. ASSUME NEW q \in reqs', q.phase = "ok" PROVE q.rev <= Main.rev
    <3>1. PICK r \in reqs : q = r \/ q = [r EXCEPT !.from = None]  BY <2>1 DEF Orphaned
    <3>2. q.rev = r.rev /\ q.phase = r.phase  BY <2>2, <3>1
    <3> QED  BY <1>0, <2>3, <3>2
  <2> QED  BY <1>0, <2>1, <2>3, TEndOp, MarksKept DEF NoOp
<1>5. CASE RefuseRollback(t)
  BY <1>0, <1>5, TEndOp, MarksKept DEF RefuseRollback, NoOp, remote, stored
<1>6. CASE CommitAcknowledged(t)
  <2>1. PICK r \in reqs :
          /\ r.phase = "ok" /\ reqs' = reqs \ {r}
          /\ \/ op' = [op EXCEPT ![t].phase = "check", ![t].rev = r.rev]
             \/ EndOp(t)
    BY <1>6 DEF CommitAcknowledged, RequestOf
  <2>2. commits' = commits /\ mark' = mark  BY <1>6 DEF CommitAcknowledged, stored
  <2>3. CASE EndOp(t)
    BY <1>0, <2>1, <2>2, <2>3, TEndOp, MarksKept DEF NoOp
  <2>4. CASE op' = [op EXCEPT ![t].phase = "check", ![t].rev = r.rev]
    <3> DEFINE o == [op[t] EXCEPT !.phase = "check", !.rev = r.rev]
    <3>1. o.rev = r.rev  BY <1>0 DEF Operation
    <3>2. op' = [op EXCEPT ![t] = o]  BY <2>4
    <3> HIDE DEF o
    <3>3. op'[t].rev <= Main.rev /\ \A u \in Tabs \ {t} : op'[u] = op[u]
      BY <1>0, <2>1, <3>1, <3>2
    <3> QED  BY <1>0, <2>1, <2>2, <3>3, MarksKept
  <2> QED  BY <2>1, <2>3, <2>4
<1>7. CASE ObserveCommitted(t)
  <2>1. op[t].rev \in Nat /\ op[t].rev <= Main.rev
    BY <1>0, <1>7 DEF ObserveCommitted, MarksInv, Operation
  <2>2. GroupDone(t) /\ commits' = commits /\ reqs' = reqs /\ Observe(t, op[t].rev)
    BY <1>7 DEF ObserveCommitted, remote
  <2> QED  BY <1>0, <2>1, <2>2, OpGroupDone, MarksKept
<1>8. CASE Rebase(t) \/ CommitFailed(t)
  <2>1. /\ commits' = commits /\ mark' = mark /\ reqs' \subseteq reqs
        /\ (Goto(t, "head") \/ EndOp(t))
    BY <1>8 DEF Rebase, CommitFailed, stored
  <2>2. CASE Goto(t, "head")  BY <1>0, <2>1, <2>2, OpGoto, MarksKept DEF Phase
  <2>3. CASE EndOp(t)  BY <1>0, <2>1, <2>3, TEndOp, MarksKept DEF NoOp
  <2> QED  BY <2>1, <2>2, <2>3
<1>9. CASE Dequeue(t)
  <2>1. PICK m : op' = [op EXCEPT ![t] = NoOp] \/ op' = [op EXCEPT ![t].items = @ \ {m}]
    BY <1>9 DEF Dequeue
  <2> DEFINE o == [op[t] EXCEPT !.items = @ \ {m}]
  <2>2. o.phase = "dequeue"  BY <1>0, <1>9 DEF Operation, Dequeue
  <2>3. op' = [op EXCEPT ![t] = o] \/ op' = [op EXCEPT ![t] = NoOp]  BY <2>1
  <2> HIDE DEF o
  <2>4. NoOp.phase = "idle"  BY DEF NoOp
  <2>5. commits' = commits /\ mark' = mark /\ reqs' = reqs  BY <1>9 DEF Dequeue, remote
  <2>6. op'[t].phase # "check" /\ \A u \in Tabs \ {t} : op'[u] = op[u]
    BY <1>0, <2>2, <2>3, <2>4
  <2> QED  BY <1>0, <2>5, <2>6, MarksKept
<1> QED  BY <1>1, <1>2, <1>3, <1>4, <1>5, <1>6, <1>7, <1>8, <1>9

\* Steps of the Worker: the head's revision only grows.
LEMMA MarksWorker ==
    ASSUME Invariant, MarksInv, [Next]_vars, NEW r \in reqs, NEW s, Becomes(r, s),
           s.phase = "ok" => s.rev <= Main'.rev,
           op' = op, mark' = mark
    PROVE  MarksInv'
<1>1. Main.rev <= Main'.rev /\ Main.rev \in Nat /\ Main'.rev \in Nat  BY HeadMonotone
<1>2. /\ mark \in [Devices -> Nat] /\ op \in [Tabs -> Operation] /\ reqs \subseteq Request
  BY DEF Invariant, TInv, TypeOK
<1>3. MarkBehindHead'  BY <1>1, <1>2 DEF MarksInv, MarkBehindHead
<1>4. ASSUME NEW t \in Tabs, op[t].phase = "check" PROVE op[t].rev <= Main'.rev
  <2>1. op[t].rev \in Nat /\ op[t].rev <= Main.rev  BY <1>2, <1>4 DEF MarksInv, Operation
  <2> QED  BY <1>1, <2>1
<1>5. ASSUME NEW q \in reqs, q.phase = "ok" PROVE q.rev <= Main'.rev
  <2>1. q.rev \in Nat /\ q.rev <= Main.rev  BY <1>2, <1>5 DEF MarksInv, Request
  <2> QED  BY <1>1, <2>1
<1> QED  BY <1>3, <1>4, <1>5 DEF MarksInv, Becomes

LEMMA MarksNext == Invariant /\ MarksInv /\ [Next]_vars => MarksInv'
<1> SUFFICES ASSUME Invariant, MarksInv, [Next]_vars PROVE MarksInv'  OBVIOUS
<1>1. CASE UNCHANGED vars
  BY <1>1 DEF vars, remote, stored, MarksInv, MarkBehindHead, Main
<1>2. ASSUME NEW d \in Devices, Stage(d) PROVE MarksInv'
  BY <1>2 DEF Stage, remote, MarksInv, MarkBehindHead, Main
<1>3. ASSUME NEW t \in Tabs, UserStep(t) \/ FailStep(t) \/ AcquireLock(t) \/ ClientStep(t)
      PROVE MarksInv'
  BY <1>3, MarksManifest, MarksTab DEF ClientStep
<1>4. ASSUME NEW r \in reqs, WorkerStep(r) \/ WorkerFailure(r) PROVE MarksInv'
  <2>0. op' = op /\ mark' = mark /\ r \in Request
    BY <1>4 DEF WorkerStep, WorkerFailure, EnsureAttributes, CommitAttributes, LandEarlyBatch,
           LandFinalBatch, LandUnconfirmed, Conflict, FailRequest, stored,
           Invariant, TInv, TypeOK
  <2>1. ASSUME NEW ph \in {"batch", "attrs", "stale", "fail"},
               Becomes(r, [r EXCEPT !.phase = ph])
        PROVE  MarksInv'
    <3>1. [r EXCEPT !.phase = ph].phase # "ok"  BY <2>0 DEF Request
    <3> QED  BY <2>0, <2>1, <3>1, MarksWorker
  <2>2. CASE EnsureAttributes(r) \/ Conflict(r) \/ FailRequest(r) \/ CommitAttributes(r)
    BY <2>1, <2>2 DEF EnsureAttributes, Conflict, FailRequest, CommitAttributes
  <2>3. CASE LandEarlyBatch(r)
    <3>1. PICK S : Becomes(r, [r EXCEPT !.todo = @ \ S, !.batch = @ + 1,
                                        !.parent = Len(commits) + 1])
      BY <2>3 DEF LandEarlyBatch
    <3> DEFINE b == r.batch + 1
               p == Len(commits) + 1
               s == [r EXCEPT !.todo = @ \ S, !.batch = b, !.parent = p]
    <3> HIDE DEF b, p
    <3>2. s.phase = "batch"  BY <2>0, <2>3 DEF Request, LandEarlyBatch
    <3>3. Becomes(r, s)  BY <3>1 DEF b, p
    <3> QED  BY <2>0, <3>2, <3>3, MarksWorker
  <2>4. ASSUME NEW answer \in Answered, Land(r, answer) PROVE MarksInv'
    <3>1. Main'.rev = r.rev /\ Main'.rev \in Nat  BY <2>4, RLand, HeadMonotone
    <3>2. [r EXCEPT !.phase = answer].rev = r.rev  BY <2>0 DEF Request
    <3>3. Becomes(r, [r EXCEPT !.phase = answer])  BY <2>4 DEF Land
    <3>4. [r EXCEPT !.phase = answer].rev <= Main'.rev  BY <3>1, <3>2
    <3> QED  BY <2>0, <3>3, <3>4, MarksWorker
  <2> QED  BY <1>4, <2>2, <2>3, <2>4
           DEF WorkerStep, WorkerFailure, LandFinalBatch, LandUnconfirmed
<1> QED  BY <1>1, <1>2, <1>3, <1>4 DEF Next

\* The mark of a device never runs ahead of the branch, whichever requests
\* failed or landed without an answer: a reader of the current manifest is
\* never locked out of its own vault.
THEOREM MarksAreBehind == Spec => []MarkBehindHead
<1>1. Init => MarksInv
  BY DEF Init, MarksInv, MarkBehindHead, NoOp, Main
<1>2. Spec => []Invariant  BY SafetyInvariant, PTL DEF Invariant
<1> QED  BY <1>1, <1>2, MarksNext, PTL DEF Spec, MarksInv
(***************************************************************************)
(* Uploads.  A row leaves the queue only for a medium that is settled: the *)
(* vault has it, or had it until a delete, or its upload was cancelled.    *)
(* The invariant follows a medium from the request that was acknowledged,  *)
(* over the group that is done, to the row that is dropped; and it bounds  *)
(* the head a request was built on, which a rebase leaves behind.          *)
(***************************************************************************)
Listed  == Main.ids \cup deleted
Settled == Listed \cup cancelled

\* The branch never listed what is neither listed nor deleted.
HistoryListed == \A i \in DOMAIN commits : commits[i].ids \subseteq Listed

TabKept(t) ==
    /\ op[t].kind = "finalize" => op[t].items \ op[t].todo \subseteq Settled
    /\ op[t].phase = "check" => op[t].kind = "finalize" /\ op[t].group \subseteq Settled
    /\ op[t].phase = "dequeue" => op[t].kind = "finalize" /\ op[t].todo = {}
    /\ op[t].phase = "wait" => op[t].attempt = 0
    /\ op[t].phase = "head" /\ op[t].attempt > 0 => op[t].base < Len(commits)

RequestKept(r) ==
    /\ r.kind = "publish" /\ r.phase = "ok" => r.ids \subseteq Listed
    /\ r.from \in Tabs =>
         /\ op[r.from].phase = "commit"
         /\ r.kind = "publish" => op[r.from].kind = "finalize" /\ op[r.from].group \subseteq r.ids
         /\ r.phase \in Live => op[r.from].base <= r.parent
         /\ r.phase = "stale" => op[r.from].base < Len(commits)

OneRequest == \A q, r \in reqs : q.from \in Tabs /\ q.from = r.from => q = r

UploadsInv ==
    /\ StagedNeverLost
    /\ HistoryListed
    /\ \A t \in Tabs : TabKept(t)
    /\ \A r \in reqs : RequestKept(r)
    /\ OneRequest
\* Steps of a client leave the vault alone: only its requests, its operation
\* and the rows of its device matter.
LEMMA KeptClient ==
    ASSUME Invariant, UploadsInv, NEW t \in Tabs,
           commits' = commits, deleted' = deleted, used' = used,
           cancelled \subseteq cancelled',
           \A d \in Devices : \A m \in rows[d] : m \in rows'[d] \cup Settled',
           \A u \in Tabs \ {t} : op'[u] = op[u],
           TabKept(t)',
           \A r \in reqs' : (r \in reqs /\ r.from # t) \/ RequestKept(r)',
           \A q, r \in reqs' : q.from \in Tabs /\ q.from = r.from => q = r
    PROVE  UploadsInv'
<1>1. Main' = Main /\ Listed' = Listed /\ Settled \subseteq Settled'
  BY DEF Main, Listed, Settled
<1>2. StagedNeverLost'
  BY <1>1 DEF UploadsInv, StagedNeverLost, Settled, Listed
<1>3. HistoryListed'  BY <1>1 DEF UploadsInv, HistoryListed
<1>4. ASSUME NEW u \in Tabs \ {t} PROVE TabKept(u)'
  <2>1. TabKept(u) /\ op'[u] = op[u]  BY DEF UploadsInv
  <2> QED  BY <1>1, <2>1 DEF TabKept
<1>5. ASSUME NEW r \in reqs, r.from # t PROVE RequestKept(r)'
  <2>1. RequestKept(r)  BY DEF UploadsInv
  <2>2. r.from \in Tabs => op'[r.from] = op[r.from]  BY <1>5
  <2> QED  BY <1>1, <2>1, <2>2 DEF RequestKept
<1>6. OneRequest'  BY DEF OneRequest
<1> QED  BY <1>2, <1>3, <1>4, <1>5, <1>6 DEF UploadsInv

\* A tab whose operation is over, or has not read a head, keeps what it must.
LEMMA KeptIdle ==
    ASSUME NEW t, op'[t] = NoOp
    PROVE  TabKept(t)'
  BY DEF TabKept, NoOp

\* Only a tab that waits for an answer has a request, and it has one.
LEMMA RequestsOfOthers ==
    ASSUME UploadsInv, NEW t \in Tabs
    PROVE  /\ op[t].phase # "commit" => \A r \in reqs : r.from # t
           /\ \A q \in RequestOf(t) : \A r \in reqs \ {q} : r.from # t
           /\ \A q, r \in reqs : q.from \in Tabs /\ q.from = r.from => q = r
  BY DEF UploadsInv, RequestKept, OneRequest, RequestOf

LEMMA KeptFailure ==
    ASSUME Invariant, UploadsInv, NEW t \in Tabs, FailStep(t)
    PROVE  UploadsInv'
<1>1. /\ EndOp(t) /\ reqs' = Orphaned(t)
      /\ commits' = commits /\ deleted' = deleted /\ used' = used
  BY DEF FailStep, LoseAnswer, Abort, Crash, history
<1>2. op'[t] = NoOp /\ \A u \in Tabs \ {t} : op'[u] = op[u]
  BY <1>1, TEndOp DEF Invariant
<1>3. TabKept(t)'  BY <1>2, KeptIdle
<1>4. /\ cancelled \subseteq cancelled'
      /\ \A d \in Devices : \A m \in rows[d] : m \in rows'[d] \cup Settled'
  <2>0. rows \in [Devices -> SUBSET Media]  BY DEF Invariant, TInv, TypeOK
  <2>1. CASE rows' = rows /\ cancelled' = cancelled  BY <2>1
  <2>2. CASE /\ rows' = [rows EXCEPT ![DeviceOf[t]] = @ \ op[t].items]
             /\ cancelled' = cancelled \cup op[t].items
    BY <2>0, <2>2 DEF Settled
  <2> QED  BY <2>1, <2>2 DEF FailStep, LoseAnswer, Abort, Crash, stored, history
<1>5. None \notin Tabs /\ reqs \subseteq Request
  BY TopologyAssumption DEF Invariant, TInv, TypeOK
<1>6. \A r \in reqs : LET o == [r EXCEPT !.from = None]
                      IN  o.from = None /\ o.kind = r.kind /\ o.phase = r.phase /\ o.ids = r.ids
  BY <1>5 DEF Request
<1>7. \A q \in reqs' : \/ q \in reqs /\ q.from # t
                       \/ \E r \in reqs : q.from = None /\ q.kind = r.kind
                                          /\ q.phase = r.phase /\ q.ids = r.ids
  <2> TAKE q \in reqs'
  <2>1. PICK r \in reqs : q = IF r.from = t THEN [r EXCEPT !.from = None] ELSE r
    BY <1>1 DEF Orphaned
  <2>2. CASE r.from = t  BY <1>6, <2>1, <2>2
  <2>3. CASE r.from # t  BY <2>1, <2>3
  <2> QED  BY <2>2, <2>3
<1>8. ASSUME NEW q \in reqs', NEW r \in reqs, q.from = None, q.kind = r.kind,
             q.phase = r.phase, q.ids = r.ids
      PROVE  RequestKept(q)'
  <2>1. Listed' = Listed  BY <1>1 DEF Listed, Main
  <2>2. RequestKept(r)  BY DEF UploadsInv
  <2> QED  BY <1>5, <1>8, <2>1, <2>2 DEF RequestKept
<1>9. \A q, r \in reqs' : q.from \in Tabs /\ q.from = r.from => q = r
  BY <1>5, <1>7, RequestsOfOthers
<1>10. \A r \in reqs' : (r \in reqs /\ r.from # t) \/ RequestKept(r)'  BY <1>7, <1>8
<1> QED  BY <1>1, <1>2, <1>3, <1>4, <1>9, <1>10, KeptClient

\* What the branch listed when a tab read it is listed or deleted by now.
LEMMA PinnedListed ==
    ASSUME Invariant, UploadsInv, NEW t \in Tabs, op[t].phase = "manifest"
    PROVE  Pinned(t).ids \subseteq Listed
<1>1. op[t].base \in DOMAIN commits
  BY MainType DEF Invariant, TInv, BasesExist
<1> QED  BY <1>1 DEF Pinned, UploadsInv, HistoryListed

\* A group that is settled leaves the finished items settled.
LEMMA KeptGroupDone ==
    ASSUME Invariant, UploadsInv, NEW t \in Tabs, GroupDone(t),
           op[t].kind = "finalize", op[t].group \subseteq Settled, Settled' = Settled
    PROVE  TabKept(t)' /\ \A u \in Tabs \ {t} : op'[u] = op[u]
<1>1. /\ op'[t].kind = op[t].kind /\ op'[t].items = op[t].items
      /\ op'[t].phase \in {"head", "dequeue"}
      /\ op'[t].phase = "head" => op'[t].attempt = 0
      /\ op'[t].todo = op[t].todo \ op[t].group
      /\ op'[t].phase = "dequeue" => op'[t].todo = {}
      /\ \A u \in Tabs \ {t} : op'[u] = op[u]
  BY OpGroupDone DEF Invariant
<1>2. op[t].items \ op[t].todo \subseteq Settled  BY DEF UploadsInv, TabKept
<1> QED  BY <1>1, <1>2 DEF TabKept

LEMMA KeptStarts ==
    ASSUME Invariant, UploadsInv, NEW t \in Tabs,
           UserStep(t) \/ AcquireLock(t) \/ ReadHead(t)
    PROVE  UploadsInv'
<1>1. /\ UNCHANGED <<commits, reqs, deleted, used, cancelled, rows>>
      /\ op[t].phase # "commit"
  <2>1. CASE UserStep(t)  BY <2>1, OpStarts DEF remote, stored, history, Invariant
  <2>2. CASE AcquireLock(t)  BY <2>2 DEF AcquireLock, remote, stored, history
  <2>3. CASE ReadHead(t)  BY <2>3 DEF ReadHead, remote, stored, history
  <2> QED  BY <2>1, <2>2, <2>3
<1>2. Settled' = Settled  BY <1>1 DEF Settled, Listed, Main
<1>3. TabKept(t)  BY DEF UploadsInv
<1>4. TabKept(t)' /\ \A u \in Tabs \ {t} : op'[u] = op[u]
  <2>1. CASE UserStep(t)  BY <2>1, OpStarts DEF TabKept, Invariant
  <2>2. CASE AcquireLock(t)
    <3>1. Goto(t, "head") /\ op[t].phase = "wait"  BY <2>2 DEF AcquireLock
    <3> QED  BY <1>2, <1>3, <3>1, OpGoto DEF TabKept, Phase, Invariant
  <2>3. CASE ReadHead(t)  BY <1>2, <1>3, <2>3, OpReadHead DEF TabKept, Invariant
  <2> QED  BY <2>1, <2>2, <2>3
<1> QED  BY <1>1, <1>4, RequestsOfOthers, KeptClient

\* A request asks for a group the pinned manifest lacks, on the head read.
LEMMA KeptSubmit ==
    ASSUME Invariant, UploadsInv, NEW t \in Tabs, SubmitPublish(t) \/ SubmitDelete(t)
    PROVE  UploadsInv'
<1>1. /\ UNCHANGED <<commits, deleted, used, cancelled, rows>>
      /\ op[t].phase = "manifest" /\ Goto(t, "commit")
  BY DEF SubmitPublish, SubmitDelete, history
<1>2. /\ op'[t].phase = "commit" /\ op'[t].kind = op[t].kind
      /\ op'[t].items = op[t].items /\ op'[t].todo = op[t].todo
      /\ op'[t].base = op[t].base /\ op'[t].group = op[t].group
      /\ \A u \in Tabs \ {t} : op'[u] = op[u]
  BY <1>1, OpGoto DEF Phase, Invariant
<1>3. Settled' = Settled /\ TabKept(t)
  BY <1>1 DEF Settled, Listed, Main, UploadsInv
<1>4. TabKept(t)'  BY <1>2, <1>3 DEF TabKept
<1>5. PICK q : /\ reqs' = reqs \cup {q}
               /\ q.from = t /\ q.parent = op[t].base /\ q.phase = "ensure"
               /\ q.kind = "publish" => op[t].kind = "finalize" /\ op[t].group \subseteq q.ids
  <2>0. ASSUME NEW kind, NEW items, NEW ids, NEW pointers,
               Send(t, kind, items, ids, pointers)
        PROVE  \E q : /\ reqs' = reqs \cup {q} /\ q.from = t /\ q.parent = op[t].base
                      /\ q.phase = "ensure" /\ q.kind = kind /\ q.ids = ids
    <3> DEFINE q == [from |-> t, kind |-> kind, items |-> items, ids |-> ids,
                     rev |-> NextRevision(Pinned(t).rev), parent |-> op[t].base,
                     pointers |-> pointers, todo |-> IF kind = "publish" THEN pointers ELSE {},
                     batch |-> 0, phase |-> "ensure"]
    <3>1. reqs' = reqs \cup {q}  BY <2>0 DEF Send
    <3>2. /\ q.from = t /\ q.parent = op[t].base
          /\ q.phase = "ensure" /\ q.kind = kind /\ q.ids = ids
      OBVIOUS
    <3> HIDE DEF q
    <3> QED  BY <3>1, <3>2
  <2>1. CASE SubmitPublish(t)
    <3> DEFINE pending == PendingItems(op[t].group, Pinned(t).ids)
               ids == Pinned(t).ids \cup pending
    <3>1. op[t].kind = "finalize" /\ Send(t, "publish", pending, ids, PointersOf(pending))
      BY <2>1 DEF SubmitPublish
    <3>2. op[t].group \subseteq ids  BY DEF PendingItems
    <3> HIDE DEF pending, ids
    <3> QED  BY <2>0, <3>1, <3>2
  <2>2. CASE SubmitDelete(t)
    <3> DEFINE ids == Pinned(t).ids \ op[t].items
    <3>1. Send(t, "delete", op[t].items, ids, PointersOf(op[t].items))
      BY <2>2 DEF SubmitDelete
    <3> HIDE DEF ids
    <3> QED  BY <2>0, <3>1
  <2> QED  BY <2>1, <2>2
<1>6. op[t].base \in Nat  BY DEF Invariant, TInv, TypeOK, Operation
<1>7. RequestKept(q)'  BY <1>2, <1>5, <1>6 DEF RequestKept
<1>8. \A r \in reqs : r.from # t  BY <1>1, RequestsOfOthers
<1>9. \A p, r \in reqs' : p.from \in Tabs /\ p.from = r.from => p = r
  BY <1>5, <1>8, RequestsOfOthers
<1> QED  BY <1>1, <1>2, <1>4, <1>5, <1>7, <1>8, <1>9, KeptClient

\* Without a request, a tab ends or does a group.
LEMMA KeptManifest ==
    ASSUME Invariant, UploadsInv, NEW t \in Tabs,
           \/ SkipGroup(t) \/ EndDelete(t) \/ ObserveLoaded(t)
           \/ RefuseRollback(t) \/ ObserveCommitted(t)
    PROVE  UploadsInv'
<1>1. /\ UNCHANGED <<commits, reqs, deleted, used, cancelled, rows>>
      /\ op[t].phase # "commit"
  BY DEF SkipGroup, EndDelete, ObserveLoaded, RefuseRollback, ObserveCommitted,
         remote, stored, history
<1>2. Settled' = Settled /\ TabKept(t)  BY <1>1 DEF Settled, Listed, Main, UploadsInv
<1>3. TabKept(t)' /\ \A u \in Tabs \ {t} : op'[u] = op[u]
  <2>1. CASE EndOp(t)  BY <2>1, TEndOp, KeptIdle DEF Invariant
  <2>2. CASE SkipGroup(t)
    <3>1. /\ GroupDone(t) /\ op[t].kind = "finalize" /\ op[t].phase = "manifest"
          /\ op[t].group \subseteq Pinned(t).ids
      BY <2>2 DEF SkipGroup, PendingItems
    <3>2. op[t].group \subseteq Settled  BY <3>1, PinnedListed DEF Settled
    <3> QED  BY <1>2, <3>1, <3>2, KeptGroupDone
  <2>3. CASE ObserveCommitted(t)
    <3>1. GroupDone(t) /\ op[t].phase = "check"  BY <2>3 DEF ObserveCommitted
    <3> QED  BY <1>2, <3>1, KeptGroupDone DEF TabKept
  <2> QED  BY <2>1, <2>2, <2>3 DEF EndDelete, ObserveLoaded, RefuseRollback
<1> QED  BY <1>1, <1>3, RequestsOfOthers, KeptClient
\* An acknowledged group is in the vault or deleted from it; a refused request
\* leaves a head that the branch has left behind.
LEMMA KeptAnswer ==
    ASSUME Invariant, UploadsInv, NEW t \in Tabs,
           CommitAcknowledged(t) \/ Rebase(t) \/ CommitFailed(t)
    PROVE  UploadsInv'
<1>1. /\ UNCHANGED <<commits, deleted, used, cancelled, rows>>
      /\ op[t].phase = "commit"
      /\ op[t] \in Operation /\ op \in [Tabs -> Operation]
  BY DEF CommitAcknowledged, Rebase, CommitFailed, stored, history, Invariant, TInv, TypeOK
<1>2. Settled' = Settled /\ TabKept(t) /\ Listed \subseteq Settled
  BY <1>1 DEF Settled, Listed, Main, UploadsInv
<1>3. PICK r \in RequestOf(t) :
        /\ reqs' = reqs \ {r}
        /\ \/ r.phase = "ok" /\ r.kind = "publish"
              /\ op' = [op EXCEPT ![t].phase = "check", ![t].rev = r.rev]
           \/ r.phase = "stale" /\ Goto(t, "head")
           \/ EndOp(t)
  BY DEF CommitAcknowledged, Rebase, CommitFailed, IsVaultStale
<1>4. r \in reqs /\ r.from = t /\ RequestKept(r)  BY <1>3 DEF RequestOf, UploadsInv
<1>5. TabKept(t)' /\ \A u \in Tabs \ {t} : op'[u] = op[u]
  <2>1. CASE EndOp(t)  BY <2>1, TEndOp, KeptIdle DEF Invariant
  <2>2. CASE r.phase = "stale" /\ Goto(t, "head")
    <3>1. op[t].base < Len(commits)  BY <1>4, <2>2 DEF RequestKept
    <3> QED  BY <1>1, <1>2, <2>2, <3>1, OpGoto DEF TabKept, Phase, Invariant
  <2>3. CASE /\ r.phase = "ok" /\ r.kind = "publish"
             /\ op' = [op EXCEPT ![t].phase = "check", ![t].rev = r.rev]
    <3>1. op[t].kind = "finalize" /\ op[t].group \subseteq Settled
      BY <1>2, <1>4, <2>3 DEF RequestKept
    <3> DEFINE o == [op[t] EXCEPT !.phase = "check", !.rev = r.rev]
    <3>2. /\ o.phase = "check" /\ o.kind = op[t].kind /\ o.items = op[t].items
          /\ o.todo = op[t].todo /\ o.group = op[t].group
      BY <1>1 DEF Operation
    <3>3. op' = [op EXCEPT ![t] = o]  BY <2>3
    <3> HIDE DEF o
    <3>4. op'[t] = o /\ \A u \in Tabs \ {t} : op'[u] = op[u]  BY <1>1, <3>3
    <3> QED  BY <1>2, <3>1, <3>2, <3>4 DEF TabKept
  <2> QED  BY <1>3, <2>1, <2>2, <2>3
<1> QED  BY <1>1, <1>3, <1>5, RequestsOfOthers, KeptClient

\* The row that is dropped is a settled one.
LEMMA KeptDequeue ==
    ASSUME Invariant, UploadsInv, NEW t \in Tabs, Dequeue(t)
    PROVE  UploadsInv'
<1>1. /\ UNCHANGED <<commits, reqs, deleted, used, cancelled>>
      /\ op[t].phase = "dequeue"
      /\ op[t] \in Operation /\ op \in [Tabs -> Operation]
      /\ rows \in [Devices -> SUBSET Media]
  BY DEF Dequeue, remote, history, Invariant, TInv, TypeOK
<1>2. Settled' = Settled /\ TabKept(t)  BY <1>1 DEF Settled, Listed, Main, UploadsInv
<1>3. PICK m \in op[t].items :
        /\ rows' = [rows EXCEPT ![DeviceOf[t]] = @ \ {m}]
        /\ op' = [op EXCEPT ![t] = NoOp] \/ op' = [op EXCEPT ![t].items = @ \ {m}]
  BY DEF Dequeue
<1>4. op[t].items \subseteq Settled  BY <1>1, <1>2 DEF TabKept
<1>5. \A d \in Devices : \A n \in rows[d] : n \in rows'[d] \cup Settled'
  BY <1>1, <1>2, <1>3, <1>4
<1> DEFINE o == [op[t] EXCEPT !.items = @ \ {m}]
<1>6. o.phase = op[t].phase /\ o.kind = op[t].kind /\ o.todo = op[t].todo
      /\ o.items \subseteq op[t].items
  BY <1>1 DEF Operation
<1>7. op' = [op EXCEPT ![t] = NoOp] \/ op' = [op EXCEPT ![t] = o]  BY <1>3
<1> HIDE DEF o
<1>8. TabKept(t)' /\ \A u \in Tabs \ {t} : op'[u] = op[u]
  <2>1. CASE op' = [op EXCEPT ![t] = NoOp]  BY <1>1, <2>1, KeptIdle
  <2>2. CASE op' = [op EXCEPT ![t] = o]
    <3>1. op'[t] = o /\ \A u \in Tabs \ {t} : op'[u] = op[u]  BY <1>1, <2>2
    <3> QED  BY <1>1, <1>2, <1>4, <1>6, <3>1 DEF TabKept
  <2> QED  BY <1>7, <2>1, <2>2
<1> QED  BY <1>1, <1>5, <1>8, RequestsOfOthers, KeptClient

LEMMA KeptStage ==
    ASSUME Invariant, UploadsInv, NEW d \in Devices, Stage(d)
    PROVE  UploadsInv'
<1>1. UNCHANGED <<commits, reqs, deleted, cancelled, op>>  BY DEF Stage, remote
<1>2. Listed' = Listed /\ Settled' = Settled /\ rows \in [Devices -> SUBSET Media]
  BY <1>1 DEF Listed, Settled, Main, Invariant, TInv, TypeOK
<1>3. StagedNeverLost'
  <2>1. PICK m : used' = used \cup {m} /\ rows' = [rows EXCEPT ![d] = @ \cup {m}]
    BY DEF Stage
  <2>2. m \in rows'[d] /\ \A e \in Devices : rows[e] \subseteq rows'[e]  BY <1>2, <2>1
  <2>3. \A n \in used : (\E e \in Devices : n \in rows[e]) \/ n \in Settled
    BY DEF UploadsInv, StagedNeverLost, Settled, Listed
  <2>4. \A n \in used' : (\E e \in Devices : n \in rows'[e]) \/ n \in Settled'
    BY <1>2, <2>1, <2>2, <2>3
  <2> QED  BY <2>4 DEF StagedNeverLost, Settled, Listed
<1>4. HistoryListed'  BY <1>1, <1>2 DEF UploadsInv, HistoryListed
<1>5. ASSUME NEW t \in Tabs PROVE TabKept(t)'
  BY <1>1, <1>2 DEF UploadsInv, TabKept
<1>6. ASSUME NEW r \in reqs PROVE RequestKept(r)'
  BY <1>1, <1>2 DEF UploadsInv, RequestKept
<1> QED  BY <1>1, <1>3, <1>4, <1>5, <1>6 DEF UploadsInv, OneRequest

\* Steps of the Worker: what is listed or deleted stays so, the branch only
\* grows, and one request moves on.
LEMMA KeptWorker ==
    ASSUME Invariant, UploadsInv, NEW r \in reqs, NEW s, Becomes(r, s),
           UNCHANGED <<stored, history, op>>, s.from = r.from,
           Listed \subseteq Listed',
           \/ commits' = commits
           \/ \E c \in Commit : commits' = Append(commits, c) /\ c.ids \subseteq Listed',
           RequestKept(s)'
    PROVE  UploadsInv'
<1>1. Settled \subseteq Settled'  BY DEF Settled, history
<1>2. StagedNeverLost'
  <2>1. UNCHANGED <<rows, used>>  BY DEF stored, history
  <2> QED  BY <1>1, <2>1 DEF UploadsInv, StagedNeverLost, Settled, Listed
<1>3. /\ Len(commits) \in Nat /\ Len(commits') \in Nat /\ Len(commits) <= Len(commits')
      /\ HistoryListed'
  <2>0. commits \in Seq(Commit) /\ DOMAIN commits = 1 .. Len(commits) /\ Len(commits) \in Nat
    BY MainType DEF Invariant, TInv, TypeOK
  <2>1. CASE commits' = commits  BY <2>0, <2>1 DEF UploadsInv, HistoryListed
  <2>2. ASSUME NEW c \in Commit, commits' = Append(commits, c), c.ids \subseteq Listed'
        PROVE  /\ Len(commits') \in Nat /\ Len(commits) <= Len(commits')
               /\ HistoryListed'
    <3>0. /\ Len(commits') = Len(commits) + 1 /\ commits' \in Seq(Commit)
          /\ \A i \in 1 .. Len(commits) : commits'[i] = commits[i]
          /\ commits'[Len(commits) + 1] = c
      BY <2>0, <2>2, AppendCommit
    <3>1. /\ Len(commits') = Len(commits) + 1 /\ DOMAIN commits' = 1 .. (Len(commits) + 1)
          /\ \A i \in 1 .. Len(commits) : commits'[i] = commits[i]
          /\ commits'[Len(commits) + 1] = c
      BY <3>0
    <3>2. ASSUME NEW i \in DOMAIN commits' PROVE commits'[i].ids \subseteq Listed'
      <4>1. CASE i \in 1 .. Len(commits)
        BY <2>0, <3>1, <4>1 DEF UploadsInv, HistoryListed
      <4>2. CASE i = Len(commits) + 1  BY <2>2, <3>1, <4>2
      <4> QED  BY <2>0, <3>1, <4>1, <4>2
    <3> QED  BY <2>0, <3>1, <3>2 DEF HistoryListed
  <2> QED  BY <2>0, <2>1, <2>2
<1>4. op \in [Tabs -> Operation]  BY DEF Invariant, TInv, TypeOK
<1>5. ASSUME NEW t \in Tabs PROVE TabKept(t)'
  <2>1. op[t].base \in Nat  BY <1>4 DEF Operation
  <2>2. TabKept(t) /\ op'[t] = op[t]  BY DEF UploadsInv
  <2> QED  BY <1>1, <1>3, <2>1, <2>2 DEF TabKept
<1>6. ASSUME NEW q \in reqs PROVE RequestKept(q)'
  <2>1. q.from \in Tabs => op[q.from].base \in Nat  BY <1>4 DEF Operation
  <2>2. RequestKept(q)  BY DEF UploadsInv
  <2> QED  BY <1>3, <2>1, <2>2 DEF RequestKept
<1>7. OneRequest'  BY DEF UploadsInv, OneRequest, Becomes
<1> QED  BY <1>2, <1>3, <1>5, <1>6, <1>7 DEF UploadsInv, Becomes

\* A request that lands takes nothing off the list but what it deletes.
LEMMA KeptLand ==
    ASSUME Invariant, UploadsInv, NEW r \in reqs, NEW answer \in Answered \ {"stale"},
           Land(r, answer), UNCHANGED <<stored, history, op>>
    PROVE  UploadsInv'
<1>0. r \in Request /\ Main \in Commit /\ RequestKept(r)
  BY MainType DEF Invariant, TInv, TypeOK, UploadsInv
<1>1. Fits(r, Main)
  BY DEF Land, ParentIsHead, Invariant, SInv, RequestsFit, Main
<1>2. PICK c \in Commit : /\ commits' = Append(commits, c) /\ c.ids = r.ids
                          /\ Main.ids \subseteq r.ids \cup deleted' /\ deleted \subseteq deleted'
  <2>1. CASE /\ r.kind = "publish" /\ commits' = Append(commits, Published(r, Main))
             /\ deleted' = deleted
    <3> DEFINE c == Published(r, Main)
    <3>1. c \in Commit /\ c.ids = r.ids  BY <1>0 DEF Published, Commit, Request
    <3> HIDE DEF c
    <3> QED  BY <1>1, <2>1, <3>1 DEF Fits, c
  <2>2. CASE /\ r.kind = "delete" /\ commits' = Append(commits, Removed(r, Main))
             /\ deleted' = deleted \cup r.items
    <3> DEFINE c == Removed(r, Main)
    <3>1. c \in Commit /\ c.ids = r.ids  BY <1>0 DEF Removed, Commit, Request
    <3> HIDE DEF c
    <3> QED  BY <1>1, <2>2, <3>1 DEF Fits, c
  <2> QED  BY <2>1, <2>2 DEF Land
<1>3. Main' = c  BY <1>2, MainAppended DEF Invariant
<1>4. Listed \subseteq Listed' /\ c.ids \subseteq Listed'  BY <1>2, <1>3 DEF Listed
<1> DEFINE s == [r EXCEPT !.phase = answer]
<1>5. s.phase = answer /\ s.from = r.from /\ s.kind = r.kind /\ s.ids = r.ids
  BY <1>0 DEF Request
<1>6. Becomes(r, s)  BY DEF Land
<1> HIDE DEF s
<1>7. RequestKept(s)'  BY <1>0, <1>2, <1>4, <1>5 DEF RequestKept
<1> QED  BY <1>2, <1>4, <1>5, <1>6, <1>7, KeptWorker

LEMMA KeptRequest ==
    ASSUME Invariant, UploadsInv, NEW r \in reqs, WorkerStep(r) \/ WorkerFailure(r)
    PROVE  UploadsInv'
<1>0. /\ UNCHANGED <<stored, history, op>> /\ r \in Request /\ Main \in Commit
      /\ commits \in Seq(Commit) /\ Len(commits) \in Nat
      /\ RequestKept(r) /\ HistoryListed
      /\ r.from \in Tabs => op[r.from].base \in Nat
  BY MainType DEF WorkerStep, WorkerFailure, EnsureAttributes, CommitAttributes,
         LandEarlyBatch, LandFinalBatch, LandUnconfirmed, Conflict, FailRequest,
         Invariant, TInv, TypeOK, UploadsInv, Operation
<1>1. Main.ids \subseteq Listed  BY DEF Listed
<1>2. ASSUME NEW ph \in {"batch", "attrs", "fail"}, r.phase \in Live,
             Becomes(r, [r EXCEPT !.phase = ph]), deleted' = deleted,
             \/ commits' = commits
             \/ \E c \in Commit : commits' = Append(commits, c) /\ c.ids = Main.ids
      PROVE  UploadsInv'
  <2> DEFINE s == [r EXCEPT !.phase = ph]
  <2>1. s.phase = ph /\ s.from = r.from /\ s.kind = r.kind /\ s.ids = r.ids
        /\ s.parent = r.parent
    BY <1>0 DEF Request
  <2>2. Becomes(r, s)  BY <1>2
  <2> HIDE DEF s
  <2>3. Main'.ids = Main.ids
    <3>1. CASE commits' = commits  BY <3>1 DEF Main
    <3>2. CASE \E c \in Commit : commits' = Append(commits, c) /\ c.ids = Main.ids
      BY <3>2, MainAppended DEF Invariant
    <3> QED  BY <1>2, <3>1, <3>2
  <2>4. Listed' = Listed  BY <1>2, <2>3 DEF Listed
  <2>5. RequestKept(s)'  BY <1>0, <1>2, <2>1, <2>4 DEF RequestKept
  <2> QED  BY <1>0, <1>1, <1>2, <2>1, <2>2, <2>4, <2>5, KeptWorker
<1>3. CASE EnsureAttributes(r)  BY <1>2, <1>3 DEF EnsureAttributes
<1>4. CASE FailRequest(r)  BY <1>2, <1>4 DEF FailRequest
<1>5. CASE CommitAttributes(r)
  <2> DEFINE c == [Main EXCEPT !.attrs = TRUE]
  <2>1. c \in Commit /\ c.ids = Main.ids  BY <1>0 DEF Commit
  <2>2. commits' = Append(commits, c)  BY <1>5 DEF CommitAttributes
  <2> HIDE DEF c
  <2> QED  BY <1>2, <1>5, <2>1, <2>2 DEF CommitAttributes
<1>6. CASE LandEarlyBatch(r)
  <2>1. PICK S \in SUBSET r.todo :
          /\ commits' = Append(commits, [Main EXCEPT !.pointers = @ \cup S])
          /\ Becomes(r, [r EXCEPT !.todo = @ \ S, !.batch = @ + 1,
                                  !.parent = Len(commits) + 1])
    BY <1>6 DEF LandEarlyBatch
  <2>2. r.phase = "batch" /\ r.parent = Len(commits) /\ deleted' = deleted
    BY <1>6 DEF LandEarlyBatch, ParentIsHead
  <2> DEFINE c == [Main EXCEPT !.pointers = @ \cup S]
  <2>3. c \in Commit /\ c.ids = Main.ids  BY <1>0 DEF Commit, Request
  <2>4. commits' = Append(commits, c)  BY <2>1
  <2> HIDE DEF c
  <2>5. PICK s : /\ Becomes(r, s) /\ s.phase = "batch" /\ s.from = r.from
                 /\ s.kind = r.kind /\ s.ids = r.ids /\ s.parent = Len(commits) + 1
    <3> DEFINE b == r.batch + 1
               p == Len(commits) + 1
               q == [r EXCEPT !.todo = @ \ S, !.batch = b, !.parent = p]
    <3> HIDE DEF b, p
    <3>1. q.phase = "batch" /\ q.from = r.from /\ q.kind = r.kind /\ q.ids = r.ids
          /\ q.parent = p
      BY <1>0, <2>2 DEF Request
    <3>2. Becomes(r, q)  BY <2>1 DEF b, p
    <3> HIDE DEF q
    <3> QED  BY <3>1, <3>2 DEF p
  <2>7. Main' = c  BY <2>3, <2>4, MainAppended DEF Invariant
  <2>8. Listed' = Listed  BY <2>2, <2>3, <2>7 DEF Listed
  <2>9. s.parent > r.parent /\ s.parent \in Nat /\ r.parent \in Nat  BY <1>0, <2>2, <2>5
  <2>10. RequestKept(s)'  BY <1>0, <2>2, <2>5, <2>8, <2>9 DEF RequestKept
  <2> QED  BY <1>0, <1>1, <2>3, <2>4, <2>5, <2>8, <2>10, KeptWorker
<1>7. CASE LandFinalBatch(r) \/ LandUnconfirmed(r)
  BY <1>0, <1>7, KeptLand DEF LandFinalBatch, LandUnconfirmed
<1>8. CASE Conflict(r)
  <2> DEFINE s == [r EXCEPT !.phase = "stale"]
  <2>1. s.phase = "stale" /\ s.from = r.from /\ s.kind = r.kind /\ s.ids = r.ids
    BY <1>0 DEF Request
  <2>2. /\ Becomes(r, s) /\ r.phase = "batch" /\ r.parent # Len(commits)
        /\ commits' = commits /\ deleted' = deleted
    BY <1>8 DEF Conflict, ParentIsHead
  <2> HIDE DEF s
  <2>3. r.parent \in 1 .. Len(commits)  BY <2>2 DEF Invariant, SInv, RequestsFit
  <2>4. Listed' = Listed  BY <2>2 DEF Listed, Main
  <2>5. r.parent < Len(commits) /\ r.parent \in Nat  BY <1>0, <2>2, <2>3
  <2>6. RequestKept(s)'  BY <1>0, <2>1, <2>2, <2>4, <2>5 DEF RequestKept
  <2> QED  BY <1>0, <2>1, <2>2, <2>4, <2>6, KeptWorker
<1> QED  BY <1>3, <1>4, <1>5, <1>6, <1>7, <1>8 DEF WorkerStep, WorkerFailure

LEMMA UploadsNext == Invariant /\ UploadsInv /\ [Next]_vars => UploadsInv'
<1> SUFFICES ASSUME Invariant, UploadsInv, [Next]_vars PROVE UploadsInv'  OBVIOUS
<1>1. CASE UNCHANGED vars
  BY <1>1 DEF vars, remote, stored, history, UploadsInv, StagedNeverLost, HistoryListed,
              TabKept, RequestKept, OneRequest, Settled, Listed, Main
<1>2. ASSUME NEW d \in Devices, Stage(d) PROVE UploadsInv'  BY <1>2, KeptStage
<1>3. ASSUME NEW t \in Tabs, UserStep(t) \/ FailStep(t) \/ AcquireLock(t) \/ ClientStep(t)
      PROVE  UploadsInv'
  BY <1>3, KeptStarts, KeptFailure, KeptSubmit, KeptManifest, KeptAnswer, KeptDequeue
     DEF ClientStep
<1>4. ASSUME NEW r \in reqs, WorkerStep(r) \/ WorkerFailure(r) PROVE UploadsInv'
  BY <1>4, KeptRequest
<1> QED  BY <1>1, <1>2, <1>3, <1>4 DEF Next

LEMMA UploadsInvariant == Spec => [](Invariant /\ UploadsInv)
<1>1. Init => UploadsInv
  <2> SUFFICES ASSUME Init PROVE UploadsInv  OBVIOUS
  <2>1. PICK attrs \in AttrsAtStart :
          commits = << [ids |-> InitialMedia, rev |-> 0,
                        pointers |-> PointersOf(InitialMedia), attrs |-> attrs] >>
    BY DEF Init
  <2>2. HistoryListed  BY <2>1 DEF HistoryListed, Listed, Main
  <2>3. \A t \in Tabs : TabKept(t)  BY DEF Init, TabKept, NoOp
  <2> QED  BY <2>2, <2>3 DEF Init, UploadsInv, StagedNeverLost, OneRequest
<1>2. Spec => []Invariant  BY SafetyInvariant, PTL DEF Invariant
<1> QED  BY <1>1, <1>2, UploadsNext, PTL DEF Spec

\* A tab at a head gets to a manifest by reading the head alone.
LEMMA HeadLeft ==
    ASSUME Invariant, Next, NEW t \in Tabs,
           op[t].phase = "head", op'[t].phase = "manifest"
    PROVE  ReadHead(t)
<1>0. op \in [Tabs -> Operation] /\ TInv  BY DEF Invariant, TInv, TypeOK
<1>1. op'[t] # op[t]  OBVIOUS
<1>2. \A d \in Devices : ~Stage(d)  BY <1>1 DEF Stage
<1>3. \A r \in reqs : ~WorkerStep(r) /\ ~WorkerFailure(r)
  BY <1>1 DEF WorkerStep, WorkerFailure, EnsureAttributes, CommitAttributes, LandEarlyBatch,
         LandFinalBatch, LandUnconfirmed, Conflict, FailRequest
<1>4. ASSUME NEW u \in Tabs, UserStep(u) \/ FailStep(u) \/ AcquireLock(u) \/ ClientStep(u)
      PROVE  ReadHead(t)
  <2>1. \E o : op' = [op EXCEPT ![u] = o]
    <3>1. CASE UserStep(u)
      BY <3>1 DEF UserStep, StartFinalize, StartDelete, StartLoad
    <3>2. CASE FailStep(u)  BY <3>2 DEF FailStep, LoseAnswer, Abort, Crash, EndOp
    <3>3. CASE AcquireLock(u)  BY <3>3 DEF AcquireLock, Goto
    <3>4. CASE ReadHead(u)
      <4>1. PICK g : op' = [op EXCEPT ![u].phase = "manifest", ![u].group = g,
                                      ![u].base = Len(commits), ![u].attempt = @ + 1]
        BY <3>4 DEF ReadHead
      <4> QED  BY <4>1
    <3>5. CASE Dequeue(u)  BY <3>5 DEF Dequeue
    <3>6. CASE SkipGroup(u) \/ ObserveCommitted(u)
      BY <3>6 DEF SkipGroup, ObserveCommitted, GroupDone, NextGroup, LastGroup
    <3>7. CASE SubmitPublish(u) \/ SubmitDelete(u)
      BY <3>7 DEF SubmitPublish, SubmitDelete, Goto
    <3>8. CASE EndDelete(u) \/ ObserveLoaded(u) \/ RefuseRollback(u) \/ CommitFailed(u)
               \/ Rebase(u) \/ CommitAcknowledged(u)
      BY <3>8 DEF EndDelete, ObserveLoaded, RefuseRollback, CommitFailed, Rebase,
                  CommitAcknowledged, EndOp, Goto
    <3> QED  BY <1>4, <3>1, <3>2, <3>3, <3>4, <3>5, <3>6, <3>7, <3>8 DEF ClientStep
  <2>2. u = t  BY <1>0, <1>1, <2>1
  <2>3. ~UserStep(t) /\ ~AcquireLock(t)
    BY DEF UserStep, StartFinalize, StartDelete, StartLoad, AcquireLock
  <2>4. ~FailStep(t)
    <3>1. FailStep(t) => EndOp(t)  BY DEF FailStep, LoseAnswer, Abort, Crash
    <3> QED  BY <1>0, <3>1, TEndOp DEF NoOp
  <2> QED  BY <1>4, <2>2, <2>3, <2>4
           DEF ClientStep, RefuseRollback, SkipGroup, SubmitPublish, SubmitDelete, EndDelete,
               CommitAcknowledged, ObserveCommitted, Rebase, CommitFailed, Dequeue,
               ObserveLoaded
<1> QED  BY <1>2, <1>3, <1>4 DEF Next

\* A staged upload is never lost, whatever crashes, answers and competitors
\* come between: while its row is gone and no cancel took it, the vault lists
\* it or a delete removed it from there.
THEOREM StagedUploadsAreKept == Spec => []StagedNeverLost
  BY UploadsInvariant, PTL DEF UploadsInv

\* A rebase starts from a newer head than the one that was refused, so that
\* the bounded attempts are spent on commits that really competed.
THEOREM RebasesAdvance == Spec => RebaseOnNewerHead
<1> DEFINE Advance == \A t \in Tabs :
               (op[t].phase = "head" /\ op[t].attempt > 0 /\ op'[t].phase = "manifest")
                   => op'[t].base > op[t].base
<1>1. Invariant /\ UploadsInv /\ [Next]_vars => [Advance]_vars
  <2> SUFFICES ASSUME Invariant, UploadsInv, Next, NEW t \in Tabs,
                      op[t].phase = "head", op[t].attempt > 0, op'[t].phase = "manifest"
               PROVE  op'[t].base > op[t].base
    OBVIOUS
  <2>1. ReadHead(t)  BY HeadLeft
  <2>2. op'[t].base = Len(commits)  BY <2>1, OpReadHead DEF Invariant
  <2>3. op[t].base < Len(commits)  BY DEF UploadsInv, TabKept
  <2>4. op[t].base \in Nat /\ Len(commits) \in Nat
    BY MainType DEF Invariant, TInv, TypeOK, Operation
  <2> QED  BY <2>2, <2>3, <2>4
<1> HIDE DEF Advance
<1>2. Spec => [][Advance]_vars  BY <1>1, UploadsInvariant, PTL DEF Spec
<1> QED  BY <1>2 DEF Advance, RebaseOnNewerHead
-----------------------------------------------------------------------------
(***************************************************************************)
(* Tabs of one device.  Whoever works on the vault holds the lock of its   *)
(* device, so of two neighbours one works at a time: no other request      *)
(* moves the head between the read of a tab and its last commit, and a     *)
(* request in the Worker names the head as its parent at every step.       *)
(***************************************************************************)
Working == {"head", "manifest", "commit", "check"}

LockInv == \A t \in Tabs : op[t].phase \in Working => lock[DeviceOf[t]] = t

\* What a step of a tab does to its lock.
LockMove(t) ==
    \/ lock' = lock /\ (op'[t].phase \in Working => op[t].phase \in Working)
    \/ lock' = Released(t) /\ op'[t].phase \notin Working
    \/ lock[DeviceOf[t]] = None /\ lock' = [lock EXCEPT ![DeviceOf[t]] = t]

\* What a step of a tab does to its requests, when nothing fails.
RequestMove(t) ==
    \/ reqs' \subseteq reqs
    \/ /\ op[t].phase = "manifest"
       /\ \E s : /\ reqs' = reqs \cup {s}
                 /\ s.from = t /\ s.phase = "ensure" /\ s.parent = op[t].base
    \/ faults' = faults + 1

TabMove(t) ==
    /\ \A u \in Tabs \ {t} : op'[u] = op[u]
    /\ commits' = commits
    /\ op[t].phase = "idle" => op'[t].phase # "idle"
    /\ op'[t].phase = "manifest" => op'[t].base = Len(commits)
    /\ LockMove(t) /\ RequestMove(t)

LEMMA MoveEnds ==
    ASSUME TInv, NEW t \in Tabs, EndOp(t), op[t].phase # "idle"
    PROVE  /\ \A u \in Tabs \ {t} : op'[u] = op[u]
           /\ op[t].phase = "idle" => op'[t].phase # "idle"
           /\ op'[t].phase = "manifest" => op'[t].base = Len(commits)
           /\ LockMove(t)
<1>1. op'[t].phase = "idle" /\ \A u \in Tabs \ {t} : op'[u] = op[u]
  BY TEndOp DEF NoOp
<1>2. LockMove(t)  BY <1>1 DEF EndOp, LockMove, Working
<1> QED  BY <1>1, <1>2

LEMMA MoveGoes ==
    ASSUME TInv, NEW t \in Tabs, NEW ph \in Phase, Goto(t, ph), ph \notin {"idle", "manifest"},
           \/ lock' = lock /\ op[t].phase \in Working
           \/ lock[DeviceOf[t]] = None /\ lock' = [lock EXCEPT ![DeviceOf[t]] = t]
    PROVE  /\ \A u \in Tabs \ {t} : op'[u] = op[u]
           /\ op[t].phase = "idle" => op'[t].phase # "idle"
           /\ op'[t].phase = "manifest" => op'[t].base = Len(commits)
           /\ LockMove(t)
<1>1. op'[t].phase = ph /\ \A u \in Tabs \ {t} : op'[u] = op[u]  BY OpGoto
<1> QED  BY <1>1 DEF LockMove

LEMMA MoveGroupDone ==
    ASSUME TInv, NEW t \in Tabs, GroupDone(t), op[t].phase \in Working
    PROVE  /\ \A u \in Tabs \ {t} : op'[u] = op[u]
           /\ op[t].phase = "idle" => op'[t].phase # "idle"
           /\ op'[t].phase = "manifest" => op'[t].base = Len(commits)
           /\ LockMove(t)
<1>1. op'[t].phase \in {"head", "dequeue"} /\ \A u \in Tabs \ {t} : op'[u] = op[u]
  BY OpGroupDone
<1>2. CASE NextGroup(t)  BY <1>1, <1>2 DEF NextGroup, LockMove
<1>3. CASE LastGroup(t)
  <2>1. op'[t].phase = "dequeue"
    <3>1. op[t] \in Operation /\ op \in [Tabs -> Operation]  BY DEF TInv, TypeOK
    <3> DEFINE o == [op[t] EXCEPT !.phase = "dequeue", !.todo = {}, !.group = {}]
    <3>2. o.phase = "dequeue"  BY <3>1 DEF Operation
    <3>3. op' = [op EXCEPT ![t] = o]  BY <1>3 DEF LastGroup
    <3> HIDE DEF o
    <3> QED  BY <3>1, <3>2, <3>3
  <2> QED  BY <1>1, <1>3, <2>1 DEF LastGroup, LockMove, Working
<1> QED  BY <1>1, <1>2, <1>3 DEF GroupDone

LEMMA MoveSends ==
    ASSUME TInv, NEW t \in Tabs, op[t].phase = "manifest", NEW kind, NEW items, NEW ids,
           NEW pointers, Send(t, kind, items, ids, pointers)
    PROVE  RequestMove(t)
<1> DEFINE s == [from |-> t, kind |-> kind, items |-> items, ids |-> ids,
                 rev |-> NextRevision(Pinned(t).rev), parent |-> op[t].base,
                 pointers |-> pointers, todo |-> IF kind = "publish" THEN pointers ELSE {},
                 batch |-> 0, phase |-> "ensure"]
<1>1. reqs' = reqs \cup {s}  BY DEF Send
<1>2. s.from = t /\ s.phase = "ensure" /\ s.parent = op[t].base  OBVIOUS
<1> HIDE DEF s
<1> QED  BY <1>1, <1>2 DEF RequestMove

LEMMA MoveOf ==
    ASSUME Invariant, UploadsInv, NEW t \in Tabs,
           UserStep(t) \/ AcquireLock(t) \/ ClientStep(t) \/ FailStep(t)
    PROVE  TabMove(t)
<1>0. TInv  BY DEF Invariant
<1> USE DEF Working
<1>1. CASE UserStep(t)
  <2>1. /\ op'[t].phase \in {"wait", "observe"} /\ \A u \in Tabs \ {t} : op'[u] = op[u]
        /\ lock' = lock /\ reqs' = reqs /\ commits' = commits
    BY <1>0, <1>1, OpStarts DEF remote
  <2>2. op'[t].phase \notin Working /\ op'[t].phase # "idle" /\ op'[t].phase # "manifest"
    BY <2>1
  <2>3. LockMove(t) /\ RequestMove(t)  BY <2>1, <2>2 DEF LockMove, RequestMove
  <2> QED  BY <2>1, <2>2, <2>3 DEF TabMove
<1>2. CASE AcquireLock(t)
  <2>1. Goto(t, "head") /\ lock[DeviceOf[t]] = None /\ lock' = [lock EXCEPT ![DeviceOf[t]] = t]
        /\ reqs' = reqs /\ commits' = commits
    BY <1>2 DEF AcquireLock, remote
  <2> QED  BY <1>0, <2>1, MoveGoes DEF TabMove, RequestMove, Phase
<1>3. CASE FailStep(t)
  <2>1. EndOp(t) /\ commits' = commits /\ faults' = faults + 1
    BY <1>3 DEF FailStep, LoseAnswer, Abort, Crash, Fault
  <2>2. op[t].phase # "idle"
    <3>1. RequestOf(t) # {} => op[t].phase = "commit"
      BY DEF RequestOf, UploadsInv, RequestKept
    <3> QED  BY <1>3, <3>1 DEF FailStep, LoseAnswer, Abort, Crash
  <2> QED  BY <1>0, <2>1, <2>2, MoveEnds DEF TabMove, RequestMove
<1>4. CASE ReadHead(t)
  <2>1. op'[t].phase = "manifest" /\ op'[t].base = Len(commits)
        /\ \A u \in Tabs \ {t} : op'[u] = op[u]
    BY <1>0, <1>4, OpReadHead
  <2>2. op[t].phase = "head" /\ lock' = lock /\ commits' = commits /\ reqs' = reqs
    BY <1>4 DEF ReadHead, remote
  <2> QED  BY <2>1, <2>2 DEF TabMove, LockMove, RequestMove
<1>5. CASE RefuseRollback(t) \/ EndDelete(t) \/ ObserveLoaded(t)
  <2>1. EndOp(t) /\ op[t].phase # "idle" /\ commits' = commits /\ reqs' = reqs
    BY <1>5 DEF RefuseRollback, EndDelete, ObserveLoaded, remote
  <2> QED  BY <1>0, <2>1, MoveEnds DEF TabMove, RequestMove
<1>6. CASE SkipGroup(t) \/ ObserveCommitted(t)
  <2>1. GroupDone(t) /\ op[t].phase \in Working /\ commits' = commits /\ reqs' = reqs
    BY <1>6 DEF SkipGroup, ObserveCommitted, remote
  <2> QED  BY <1>0, <2>1, MoveGroupDone DEF TabMove, RequestMove
<1>7. CASE SubmitPublish(t) \/ SubmitDelete(t)
  <2>1. Goto(t, "commit") /\ op[t].phase = "manifest" /\ commits' = commits /\ lock' = lock
    BY <1>7 DEF SubmitPublish, SubmitDelete
  <2>2. RequestMove(t)
    BY <1>0, <1>7, MoveSends DEF SubmitPublish, SubmitDelete
  <2>3. "commit" \in Phase  BY DEF Phase
  <2> QED  BY <1>0, <2>1, <2>2, <2>3, MoveGoes DEF TabMove
<1>8. CASE CommitAcknowledged(t) \/ Rebase(t) \/ CommitFailed(t)
  <2>1. /\ op[t].phase = "commit" /\ commits' = commits /\ reqs' \subseteq reqs
        /\ \/ EndOp(t)
           \/ Goto(t, "head") /\ lock' = lock
           \/ /\ \E n : op' = [op EXCEPT ![t].phase = "check", ![t].rev = n]
              /\ lock' = lock
    BY <1>8 DEF CommitAcknowledged, Rebase, CommitFailed
  <2>2. RequestMove(t)  BY <2>1 DEF RequestMove
  <2>3. CASE EndOp(t)  BY <1>0, <2>1, <2>2, <2>3, MoveEnds DEF TabMove
  <2>4. CASE Goto(t, "head") /\ lock' = lock
    <3>1. "head" \in Phase  BY DEF Phase
    <3> QED  BY <1>0, <2>1, <2>2, <2>4, <3>1, MoveGoes DEF TabMove
  <2>5. CASE (\E n : op' = [op EXCEPT ![t].phase = "check", ![t].rev = n]) /\ lock' = lock
    <3>1. PICK n : op' = [op EXCEPT ![t].phase = "check", ![t].rev = n]  BY <2>5
    <3>2. op[t] \in Operation /\ op \in [Tabs -> Operation]  BY <1>0 DEF TInv, TypeOK
    <3> DEFINE o == [op[t] EXCEPT !.phase = "check", !.rev = n]
    <3>3. o.phase = "check"  BY <3>2 DEF Operation
    <3>4. op' = [op EXCEPT ![t] = o]  BY <3>1
    <3> HIDE DEF o
    <3>5. op'[t].phase = "check" /\ \A u \in Tabs \ {t} : op'[u] = op[u]
      BY <3>2, <3>3, <3>4
    <3> QED  BY <2>1, <2>2, <2>5, <3>5 DEF TabMove, LockMove
  <2> QED  BY <2>1, <2>3, <2>4, <2>5
<1>9. CASE Dequeue(t)
  <2>1. PICK m : \/ op[t].items = {m} /\ op' = [op EXCEPT ![t] = NoOp]
                 \/ op[t].items # {m} /\ op' = [op EXCEPT ![t].items = @ \ {m}]
    BY <1>9 DEF Dequeue
  <2>2. op[t].phase = "dequeue" /\ lock' = lock /\ commits' = commits /\ reqs' = reqs
    BY <1>9 DEF Dequeue, remote
  <2>3. op[t] \in Operation /\ op \in [Tabs -> Operation]  BY <1>0 DEF TInv, TypeOK
  <2> DEFINE rest == op[t].items \ {m}
             o == [op[t] EXCEPT !.items = rest]
  <2>4. o.phase = "dequeue" /\ NoOp.phase = "idle"  BY <2>2, <2>3 DEF Operation, NoOp
  <2>5. op' = [op EXCEPT ![t] = NoOp] \/ op' = [op EXCEPT ![t] = o]  BY <2>1
  <2> HIDE DEF o
  <2>6. op'[t].phase \in {"dequeue", "idle"} /\ \A u \in Tabs \ {t} : op'[u] = op[u]
    BY <2>3, <2>4, <2>5
  <2> QED  BY <2>2, <2>6 DEF TabMove, LockMove, RequestMove
<1> QED  BY <1>1, <1>2, <1>3, <1>4, <1>5, <1>6, <1>7, <1>8, <1>9 DEF ClientStep
\* A step of a tab that keeps the locks right.
LEMMA LockKeptBy ==
    ASSUME TInv, LockInv, NEW t \in Tabs, TabMove(t)
    PROVE  LockInv'
<1>0. /\ lock \in [Devices -> Tabs \cup {None}] /\ None \notin Tabs
      /\ DeviceOf \in [Tabs -> Devices]
  BY TopologyAssumption DEF TInv, TypeOK
<1> SUFFICES ASSUME NEW u \in Tabs, op'[u].phase \in Working
             PROVE  lock'[DeviceOf[u]] = u
  BY DEF LockInv
<1>1. DeviceOf[u] \in Devices /\ DeviceOf[t] \in Devices  BY <1>0
<1>2. u # t => op[u].phase \in Working /\ lock[DeviceOf[u]] = u
  <2>1. u # t => op'[u] = op[u]  BY DEF TabMove
  <2> QED  BY <2>1 DEF LockInv
<1>3. CASE lock' = lock /\ (op'[t].phase \in Working => op[t].phase \in Working)
  BY <1>2, <1>3 DEF LockInv
<1>4. CASE lock' = Released(t) /\ op'[t].phase \notin Working
  <2>1. u # t  BY <1>4
  <2>2. lock' = [lock EXCEPT ![DeviceOf[t]] = IF @ = t THEN None ELSE @]
    BY <1>4 DEF Released
  <2> QED  BY <1>0, <1>1, <1>2, <2>1, <2>2
<1>5. CASE lock[DeviceOf[t]] = None /\ lock' = [lock EXCEPT ![DeviceOf[t]] = t]
  <2>1. u # t => DeviceOf[u] # DeviceOf[t]  BY <1>0, <1>2, <1>5
  <2> QED  BY <1>0, <1>1, <1>2, <1>5, <2>1
<1> QED  BY <1>3, <1>4, <1>5 DEF TabMove, LockMove

LEMMA LockNext == Invariant /\ UploadsInv /\ LockInv /\ [Next]_vars => LockInv'
<1> SUFFICES ASSUME Invariant, UploadsInv, LockInv, [Next]_vars PROVE LockInv'  OBVIOUS
<1>1. CASE UNCHANGED vars  BY <1>1 DEF vars, LockInv
<1>2. ASSUME NEW d \in Devices, Stage(d) PROVE LockInv'  BY <1>2 DEF Stage, LockInv
<1>3. ASSUME NEW t \in Tabs, UserStep(t) \/ AcquireLock(t) \/ ClientStep(t) \/ FailStep(t)
      PROVE  LockInv'
  BY <1>3, MoveOf, LockKeptBy DEF Invariant
<1>4. ASSUME NEW r \in reqs, WorkerStep(r) \/ WorkerFailure(r) PROVE LockInv'
  <2>1. op' = op /\ lock' = lock
    BY <1>4 DEF WorkerStep, WorkerFailure, EnsureAttributes, CommitAttributes,
                LandEarlyBatch, LandFinalBatch, Conflict, LandUnconfirmed, FailRequest
  <2> QED  BY <2>1 DEF LockInv
<1> QED  BY <1>1, <1>2, <1>3, <1>4 DEF Next

\* Between neighbours, a request is on its way or was acknowledged.
OnItsWay(r) ==
    /\ r.from \in Tabs /\ r.phase \in {"ensure", "batch", "ok"}
    /\ r.phase \in {"ensure", "batch"} => r.parent = Len(commits)

NeighboursInv ==
    /\ Main.attrs
    /\ \A t \in Tabs \ Neighbours : op[t].phase = "idle"
    /\ \A t \in Tabs : op[t].phase = "manifest" => op[t].base = Len(commits)
    /\ \A r \in reqs : OnItsWay(r)

\* Of two neighbours one works at a time.
LEMMA OneWorks ==
    ASSUME LockInv, NeighboursInv
    PROVE  \A t, u \in Tabs : op[t].phase \in Working /\ op[u].phase \in Working => t = u
<1> SUFFICES ASSUME NEW t \in Tabs, NEW u \in Tabs,
                    op[t].phase \in Working, op[u].phase \in Working
             PROVE  t = u
  OBVIOUS
<1>1. t \in Neighbours /\ u \in Neighbours  BY DEF NeighboursInv, Working
<1>2. DeviceOf[t] = DeviceOf[u]  BY <1>1, PairsAssumption DEF Neighbours
<1> QED  BY <1>2 DEF LockInv

LEMMA NeighbourMoves ==
    ASSUME Invariant, UploadsInv, LockInv, NeighboursInv, faults' = faults,
           \A u \in Tabs \ Neighbours : op'[u] = op[u],
           NEW t \in Tabs, TabMove(t)
    PROVE  NeighboursInv'
<1>1. /\ \A u \in Tabs \ {t} : op'[u] = op[u]
      /\ commits' = commits
      /\ op'[t].phase = "manifest" => op'[t].base = Len(commits)
  BY DEF TabMove
<1>2. Main'.attrs  BY <1>1 DEF Main, NeighboursInv
<1>3. \A u \in Tabs \ Neighbours : op'[u].phase = "idle"  BY DEF NeighboursInv
<1>4. \A u \in Tabs : op'[u].phase = "manifest" => op'[u].base = Len(commits')
  <2> TAKE u \in Tabs
  <2>1. CASE u = t  BY <1>1, <2>1
  <2>2. CASE u # t  BY <1>1, <2>2 DEF NeighboursInv
  <2> QED  BY <2>1, <2>2
<1>5. ASSUME NEW r \in reqs PROVE OnItsWay(r)'
  BY <1>1 DEF NeighboursInv, OnItsWay
<1>6. \A r \in reqs' : OnItsWay(r)'
  <2>1. CASE reqs' \subseteq reqs  BY <1>5, <2>1
  <2>2. CASE /\ op[t].phase = "manifest"
             /\ \E s : /\ reqs' = reqs \cup {s}
                       /\ s.from = t /\ s.phase = "ensure" /\ s.parent = op[t].base
    <3>1. PICK s : /\ reqs' = reqs \cup {s}
                   /\ s.from = t /\ s.phase = "ensure" /\ s.parent = op[t].base
      BY <2>2
    <3>2. op[t].base = Len(commits)  BY <2>2 DEF NeighboursInv
    <3>3. OnItsWay(s)'  BY <1>1, <3>1, <3>2 DEF OnItsWay
    <3> QED  BY <1>5, <3>1, <3>3
  <2>3. faults' # faults + 1  BY DEF Invariant, TInv, TypeOK
  <2> QED  BY <2>1, <2>2, <2>3 DEF TabMove, RequestMove
<1> QED  BY <1>2, <1>3, <1>4, <1>6 DEF NeighboursInv

\* A step of the request of the one that works.
LEMMA NeighbourLands ==
    ASSUME Invariant, UploadsInv, LockInv, NeighboursInv, faults' = faults,
           NEW r \in reqs, WorkerStep(r) \/ WorkerFailure(r)
    PROVE  NeighboursInv'
<1>0. /\ r \in Request /\ Main \in Commit /\ commits \in Seq(Commit)
      /\ Len(commits) \in Nat \ {0} /\ faults \in Nat
  BY MainType DEF Invariant, TInv, TypeOK
<1>1. OnItsWay(r) /\ r.from \in Tabs /\ op[r.from].phase = "commit"
  BY DEF NeighboursInv, OnItsWay, UploadsInv, RequestKept
<1>2. reqs = {r}
  <2>1. ASSUME NEW q \in reqs PROVE q = r
    <3>1. q.from \in Tabs /\ op[q.from].phase = "commit"
      BY DEF NeighboursInv, OnItsWay, UploadsInv, RequestKept
    <3>2. q.from = r.from  BY <1>1, <3>1, OneWorks DEF Working
    <3> QED  BY <3>1, <3>2 DEF UploadsInv, OneRequest
  <2> QED  BY <2>1
<1>3. \A t \in Tabs : op[t].phase # "manifest"
  <2> SUFFICES ASSUME NEW t \in Tabs, op[t].phase = "manifest" PROVE FALSE  OBVIOUS
  <2>1. t = r.from  BY <1>1, OneWorks DEF Working
  <2> QED  BY <1>1, <2>1
<1>4. \E s : Becomes(r, s) /\ OnItsWay(s)' /\ op' = op /\ Main'.attrs
  <2>1. CASE EnsureAttributes(r)
    <3> DEFINE s == [r EXCEPT !.phase = "batch"]
    <3>1. s.phase = "batch" /\ s.from = r.from /\ s.parent = r.parent  BY <1>0 DEF Request
    <3>2. Becomes(r, s) /\ commits' = commits /\ op' = op /\ r.phase = "ensure"
      BY <2>1 DEF EnsureAttributes, NeighboursInv
    <3> HIDE DEF s
    <3>3. OnItsWay(s)'  BY <1>1, <3>1, <3>2 DEF OnItsWay
    <3>4. Main'.attrs  BY <3>2 DEF NeighboursInv, Main
    <3> QED  BY <3>2, <3>3, <3>4
  <2>2. CASE LandEarlyBatch(r)
    <3>1. PICK S : /\ commits' = Append(commits, [Main EXCEPT !.pointers = @ \cup S])
                   /\ Becomes(r, [r EXCEPT !.todo = @ \ S, !.batch = @ + 1,
                                           !.parent = Len(commits) + 1])
      BY <2>2 DEF LandEarlyBatch
    <3> DEFINE c == [Main EXCEPT !.pointers = @ \cup S]
               b == r.batch + 1
               p == Len(commits) + 1
               s == [r EXCEPT !.todo = @ \ S, !.batch = b, !.parent = p]
    <3>2. c.attrs  BY <1>0 DEF Commit, NeighboursInv
    <3> HIDE DEF b, p
    <3>3. s.from = r.from /\ s.phase = r.phase /\ s.parent = p  BY <1>0 DEF Request
    <3>4. commits' = Append(commits, c) /\ Becomes(r, s)  BY <3>1 DEF b, p
    <3>5. op' = op /\ r.phase = "batch"  BY <2>2 DEF LandEarlyBatch
    <3> HIDE DEF c, s
    <3>6. Len(commits') = p /\ Main' = c  BY <1>0, <3>4 DEF p, Main
    <3>7. \E q : Becomes(r, q) /\ q.from = r.from /\ q.phase = "batch" /\ q.parent = p
      BY <3>3, <3>4, <3>5
    <3>8. PICK q : Becomes(r, q) /\ q.from = r.from /\ q.phase = "batch" /\ q.parent = p
      BY <3>7
    <3>9. OnItsWay(q)'  BY <1>1, <3>6, <3>8 DEF OnItsWay
    <3> QED  BY <3>2, <3>5, <3>6, <3>8, <3>9
  <2>3. CASE LandFinalBatch(r)
    <3> DEFINE s == [r EXCEPT !.phase = "ok"]
    <3>1. s.phase = "ok" /\ s.from = r.from  BY <1>0 DEF Request
    <3>2. Becomes(r, s) /\ op' = op  BY <2>3 DEF LandFinalBatch, Land
    <3>3. PICK c : commits' = Append(commits, c) /\ c.attrs
      <4>1. Published(r, Main).attrs /\ Removed(r, Main).attrs
        BY <1>0 DEF Published, Removed, Commit, NeighboursInv
      <4> QED  BY <2>3, <4>1 DEF LandFinalBatch, Land
    <3> HIDE DEF s
    <3>4. Main' = c  BY <1>0, <3>3 DEF Main
    <3>5. OnItsWay(s)'  BY <1>1, <3>1 DEF OnItsWay
    <3> QED  BY <3>2, <3>3, <3>4, <3>5
  <2>4. ~CommitAttributes(r) /\ ~Conflict(r)
    BY <1>1 DEF OnItsWay, CommitAttributes, Conflict, ParentIsHead
  <2>5. ~WorkerFailure(r)
    BY <1>0 DEF WorkerFailure, LandUnconfirmed, FailRequest, Fault
  <2> QED  BY <2>1, <2>2, <2>3, <2>4, <2>5 DEF WorkerStep
<1>5. PICK s : Becomes(r, s) /\ OnItsWay(s)' /\ op' = op /\ Main'.attrs  BY <1>4
<1>6. reqs' = {s}  BY <1>2, <1>5 DEF Becomes
<1>7. \A q \in reqs' : OnItsWay(q)'  BY <1>5, <1>6
<1> QED  BY <1>3, <1>5, <1>7 DEF NeighboursInv

LEMMA PairsStep ==
    ASSUME Invariant, UploadsInv, LockInv, pair = Neighbours => NeighboursInv,
           [PairsNext]_<<vars, pair>>
    PROVE  (pair = Neighbours => NeighboursInv)'
<1>1. CASE UNCHANGED <<vars, pair>>
  BY <1>1 DEF vars, remote, NeighboursInv, OnItsWay, Main
<1>2. CASE PairsNext /\ pair = Neighbours
  <2>1. /\ NeighboursInv /\ Next /\ faults' = faults
        /\ \A u \in Tabs \ Neighbours : op'[u] = op[u]
    BY <1>2, Zenon DEF PairsNext
  <2>2. ASSUME NEW d \in Devices, Stage(d) PROVE NeighboursInv'
    BY <2>1, <2>2 DEF Stage, remote, NeighboursInv, OnItsWay, Main
  <2>3. ASSUME NEW t \in Tabs, UserStep(t) \/ AcquireLock(t) \/ ClientStep(t) \/ FailStep(t)
        PROVE  NeighboursInv'
    BY <2>1, <2>3, MoveOf, NeighbourMoves
  <2>4. ASSUME NEW r \in reqs, WorkerStep(r) \/ WorkerFailure(r) PROVE NeighboursInv'
    BY <2>1, <2>4, NeighbourLands
  <2> QED  BY <2>1, <2>2, <2>3, <2>4 DEF Next
<1>3. CASE PairsNext /\ pair # Neighbours  BY <1>3 DEF PairsNext
<1> QED  BY <1>1, <1>2, <1>3

\* Tabs of one device that nothing but each other can disturb never conflict,
\* whatever they publish and delete: no request of theirs is refused as stale.
\* The tabs share the lock of withVaultLock, and each reads the head in it.
THEOREM NeighboursStayInStep == PairsSpec => []NeighboursAgree
<1>1. PairsInit => Init /\ LockInv /\ (pair = Neighbours => NeighboursInv)
  <2> SUFFICES ASSUME PairsInit PROVE LockInv /\ (pair = Neighbours => NeighboursInv)
    BY DEF PairsInit
  <2>1. Init /\ (pair = Neighbours => Main.attrs)  BY DEF PairsInit
  <2>2. \A t \in Tabs : op[t].phase = "idle"  BY <2>1 DEF Init, NoOp
  <2>3. reqs = {}  BY <2>1 DEF Init
  <2> QED  BY <2>1, <2>2, <2>3 DEF LockInv, Working, NeighboursInv
<1>2. [PairsNext]_<<vars, pair>> => [Next]_vars  BY DEF PairsNext
<1>3. PairsSpec => Spec  BY <1>1, <1>2, PTL DEF PairsSpec, Spec
<1>4. PairsSpec => []LockInv
  <2>1. Spec => [](Invariant /\ UploadsInv)  BY UploadsInvariant
  <2> QED  BY <1>1, <1>2, <1>3, <2>1, LockNext, PTL DEF PairsSpec
<1> DEFINE Agree == pair = Neighbours => NeighboursInv
<1>5. Invariant /\ UploadsInv /\ LockInv /\ Agree /\ [PairsNext]_<<vars, pair>> => Agree'
  BY PairsStep
<1>6. Agree => NeighboursAgree
  BY DEF NeighboursInv, OnItsWay, NeighboursAgree, TabsNeverConflict
<1>7. PairsInit => Agree  BY <1>1
<1> HIDE DEF Agree
<1> QED  BY <1>3, <1>4, <1>5, <1>6, <1>7, UploadsInvariant, PTL DEF PairsSpec
=============================================================================
