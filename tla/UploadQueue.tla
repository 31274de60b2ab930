----------------------------- MODULE UploadQueue ----------------------------
(***************************************************************************)
(* The durable upload queue: rows of IndexedDB (src/src/session/cache.js), *)
(* the uploads that create, resume and finish them                         *)
(* (src/src/services/uploadService.js), the source files a tab remembers   *)
(* (src/src/context/UploadContext.jsx) and the background sync of the      *)
(* service worker (src/public/sw.js).                                      *)
(*                                                                         *)
(* A file is uploaded in parts: the chunks of a large one, part 0 of a     *)
(* small one, whose ciphertext the row itself keeps.  A part's content,    *)
(* its plaintext hash and its receipt are all named by the file it was cut *)
(* from: two files differ in every part.  How the entry reaches the vault  *)
(* is the subject of VaultSync; here a publication is one step.            *)
(***************************************************************************)
EXTENDS Naturals, FiniteSets

CONSTANTS
    Ids,                        \* media ids, one per file chosen
    Chunked,                    \* those of large files
    ChunkCount,                 \* chunks of a large file
    Tabs,                       \* tabs of the device
    Procs,                      \* uploads under way at once (bound)
    Sources,                    \* files a user may pick
    Original,                   \* the file an id was created for
    None,                       \* null
    Syncs,                      \* runs of the background sync at once (bound)
    CHUNK_UPLOAD_CONCURRENCY,
    MAX_BACKGROUND_ATTEMPTS,
    Faults,                     \* kinds of faults that may happen
    MaxFaults                   \* bound on how many do

ASSUME QueueAssumption ==
    /\ Chunked \subseteq Ids
    /\ ChunkCount \in Nat \ {0}
    /\ Original \in Sources
    /\ None \notin Sources \cup Ids \cup Tabs
    /\ CHUNK_UPLOAD_CONCURRENCY \in Nat \ {0}
    /\ MAX_BACKGROUND_ATTEMPTS \in Nat
    /\ Faults \subseteq {"failure", "crash", "cancel", "lock", "discard"}
    /\ MaxFaults \in Nat

VARIABLES
    row,         \* the rows of the store uploadQueue
    fate,        \* per id: "new", "queued" while it has a row, "gone"
    proc,        \* the uploads of the tabs
    sources,     \* sourceFilesRef of each tab
    receipts,    \* markChunkUploaded calls nobody waits for
    late,        \* saveChunkPlaintextHash calls of uploads that were stopped
    clearing,    \* ids clearUploadQueue is about to delete
    sync,        \* the runs of processUploadQueue
    published,   \* per id: the parts its entry in the vault points to
    faults,      \* faults so far
    calledOff,   \* history: ids the user cancelled or discarded
    bgPuts,      \* history: background uploads of each id
    tried        \* history: the hashes of other files than the original, by
                 \* id and part, that an upload saved and went no further

vars == <<row, fate, proc, sources, receipts, late, clearing, sync,
          published, faults, calledOff, bgPuts, tried>>

Parts(id) == IF id \in Chunked THEN 0..(ChunkCount - 1) ELSE {0}
MaybeSource == Sources \cup {None}

\* null is no map of parts.
ASSUME NullAssumption == \A id \in Ids : None \notin [Parts(id) -> MaybeSource]

\* What is compared with a picked file: the hash of every part.
NewRow(id) == [receipts |-> [k \in Parts(id) |-> None],
               hashes |-> [k \in Parts(id) |-> Original],
               attempts |-> IF id \in Chunked THEN MAX_BACKGROUND_ATTEMPTS
                            ELSE 0]

Stages == {"todo", "hashing", "put", "done"}
Phases == {"idle", "prepare", "queued", "reading", "upload", "finalize",
           "dequeue"}
Idle == [phase |-> "idle", id |-> None, tab |-> None, fresh |-> FALSE,
         announced |-> FALSE, stop |-> "none", src |-> None,
         expect |-> <<>>, have |-> <<>>, stage |-> <<>>]

RowType(id) == [receipts : [Parts(id) -> MaybeSource],
                hashes : [Parts(id) -> Sources],
                attempts : 0..MAX_BACKGROUND_ATTEMPTS]

TypeOK ==
    /\ \A id \in Ids : IF fate[id] = "queued" THEN row[id] \in RowType(id)
                       ELSE row[id] = None
    /\ fate \in [Ids -> {"new", "queued", "gone"}]
    /\ \A p \in Procs : \/ proc[p] = Idle
                        \/ /\ proc[p].phase \in Phases \ {"idle"}
                           /\ proc[p].id \in Ids
                           /\ proc[p].tab \in Tabs
                           /\ proc[p].src \in MaybeSource
                           /\ proc[p].stop \in {"none", "cancel", "lock"}
                           /\ proc[p].have \in
                                [Parts(proc[p].id) -> MaybeSource]
                           /\ proc[p].stage \in [Parts(proc[p].id) -> Stages]
    /\ sources \in [Tabs -> [Ids -> MaybeSource]]
    /\ receipts \subseteq Ids \X (0..ChunkCount) \X Sources
    /\ late \subseteq Ids \X (0..ChunkCount) \X Sources
    /\ clearing \subseteq Ids
    /\ sync \in [Syncs -> [phase : {"idle", "put", "mark"},
                           id : Ids \cup {None}]]
    /\ \A id \in Ids : \/ published[id] = None
                       \/ published[id] \in [Parts(id) -> MaybeSource]
    /\ faults \in 0..MaxFaults
    /\ calledOff \subseteq Ids
    /\ tried \subseteq Ids \X (0..ChunkCount) \X (Sources \ {Original})

Init ==
    /\ row = [id \in Ids |-> None]
    /\ fate = [id \in Ids |-> "new"]
    /\ proc = [p \in Procs |-> Idle]
    /\ sources = [t \in Tabs |-> [id \in Ids |-> None]]
    /\ receipts = {}
    /\ late = {}
    /\ clearing = {}
    /\ sync = [s \in Syncs |-> [phase |-> "idle", id |-> None]]
    /\ published = [id \in Ids |-> None]
    /\ faults = 0
    /\ calledOff = {}
    /\ bgPuts = [id \in Ids |-> 0]
    /\ tried = {}

-----------------------------------------------------------------------------
(* The store: every call is one readwrite transaction. *)

HasRow(id) == fate[id] = "queued"

\* dequeueUpload, clearUploadQueue: no error when there is no row.
Delete(S) ==
    /\ row' = [id \in Ids |-> IF id \in S THEN None ELSE row[id]]
    /\ fate' = [id \in Ids |-> IF id \in S /\ HasRow(id) THEN "gone"
                               ELSE fate[id]]

PutRow(id, r) ==
    /\ row' = [row EXCEPT ![id] = r]
    /\ fate' = [fate EXCEPT ![id] = "queued"]

\* Mutant of Update: a row that was deleted meanwhile is put back.
UpdateBlindly(id, r) == PutRow(id, r)

\* get, merge and put in one transaction; a row that is gone stays gone.
Update(id, r) ==
    IF HasRow(id) THEN PutRow(id, r) ELSE UNCHANGED <<row, fate>>

WithReceipt(id, k, s) ==
    [IF HasRow(id) THEN row[id] ELSE NewRow(id) EXCEPT !.receipts[k] = s]

\* Mutant of WithHash: the digest is stored before it is there.
HashNotAwaited(id, k, s) ==
    [IF HasRow(id) THEN row[id] ELSE NewRow(id) EXCEPT !.hashes[k] = None]

WithHash(id, k, s) ==
    [IF HasRow(id) THEN row[id] ELSE NewRow(id) EXCEPT !.hashes[k] = s]

\* A receipt nobody waited for is written.
MarkChunkUploaded ==
    \E w \in receipts :
        /\ Update(w[1], WithReceipt(w[1], w[2], w[3]))
        /\ receipts' = receipts \ {w}
        /\ UNCHANGED <<proc, sources, late, clearing, sync, published, faults,
                       calledOff, bgPuts, tried>>

\* Remembers a hash that was saved in vain.
Try(w) == tried' = IF w[3] = Original THEN tried ELSE tried \cup {w}

\* So is the hash a stopped upload was about to save.
SaveLateHash ==
    \E w \in late :
        /\ Update(w[1], WithHash(w[1], w[2], w[3]))
        /\ late' = late \ {w}
        /\ Try(w)
        /\ UNCHANGED <<proc, sources, receipts, clearing, sync, published,
                       faults, calledOff, bgPuts>>

\* clearUploadQueue of a cancel or a discard.  Its message to the service
\* worker aborts an upload there: a failure of RetryUploadAnswered.
ClearUploadQueue ==
    /\ clearing # {}
    /\ Delete(clearing)
    /\ clearing' = {}
    /\ UNCHANGED <<proc, sources, receipts, late, sync, published, faults,
                   calledOff, bgPuts, tried>>

-----------------------------------------------------------------------------
Missing(have) == {k \in DOMAIN have : have[k] = None}

Live(p) == proc[p].phase # "idle" /\ proc[p].stop = "none"
LiveIn(t) == {p \in Procs : Live(p) /\ proc[p].tab = t}

Set(p, r) == proc' = [proc EXCEPT ![p] = r]
Goto(p, phase) == Set(p, [proc[p] EXCEPT !.phase = phase])

(* One batch of a tab: all fresh, as many as the windows bring, or all     *)
(* resumed, which are read before the first one goes on.                   *)
MayStart(p, t, id, fresh) ==
    /\ proc[p] = Idle
    /\ \A q \in LiveIn(t) :
          /\ proc[q].id # id
          /\ proc[q].fresh = fresh
          /\ proc[q].phase \in IF fresh THEN {"prepare", "queued", "upload"}
                               ELSE {"reading"}

(* A file is chosen: processFile begins, with a new id. *)
StartUpload(p, t, id) ==
    /\ MayStart(p, t, id, TRUE)
    /\ fate[id] = "new"
    /\ \A q \in Procs : proc[q].id # id
    /\ id \notin calledOff
    /\ Set(p, [phase |-> "prepare", id |-> id, tab |-> t, fresh |-> TRUE,
               announced |-> FALSE, stop |-> "none", src |-> Original,
               expect |-> NewRow(id).hashes, have |-> NewRow(id).receipts,
               stage |-> [k \in Parts(id) |-> "todo"]])
    /\ UNCHANGED <<row, fate, sources, receipts, late, clearing, sync,
                   published, faults, calledOff, bgPuts, tried>>

(* queueChunkedUploadPending after the preflight of all hashes, queueUpload *)
(* after the encryption.  The signal is not looked at right before.        *)
QueueRow(p) ==
    /\ proc[p].phase = "prepare"
    /\ PutRow(proc[p].id, NewRow(proc[p].id))
    /\ Goto(p, "queued")
    /\ UNCHANGED <<sources, receipts, late, clearing, sync, published, faults,
                   calledOff, bgPuts, tried>>

(* addOptimisticEntry: a cancel will know the id, and the tab keeps the    *)
(* source of a fresh upload.                                               *)
Announce(p) ==
    /\ proc[p].phase \in {"queued", "reading"}
    /\ Live(p)
    /\ Set(p, [proc[p] EXCEPT !.phase = "upload", !.announced = TRUE,
                 !.src = IF proc[p].fresh THEN @
                         ELSE sources[proc[p].tab][proc[p].id]])
    /\ sources' = IF proc[p].fresh
                  THEN [sources EXCEPT ![proc[p].tab][proc[p].id] = Original]
                  ELSE sources
    /\ UNCHANGED <<row, fate, receipts, late, clearing, sync, published,
                   faults, calledOff, bgPuts, tried>>

(* resumeQueuedUploads takes what the row says at this moment. *)
ResumeQueuedUpload(p, t, id) ==
    /\ MayStart(p, t, id, FALSE)
    /\ HasRow(id)
    /\ Set(p, [phase |-> "reading", id |-> id, tab |-> t, fresh |-> FALSE,
               announced |-> FALSE, stop |-> "none", src |-> None,
               expect |-> row[id].hashes, have |-> row[id].receipts,
               stage |-> [k \in Parts(id) |->
                            IF row[id].receipts[k] = None THEN "todo"
                            ELSE "done"]])
    /\ UNCHANGED <<row, fate, sources, receipts, late, clearing, sync,
                   published, faults, calledOff, bgPuts, tried>>

(* The user picks a source for a row that has none in this tab: any file.  *)
ReselectSource(t, id, s) ==
    /\ id \in Chunked
    /\ HasRow(id)
    /\ LiveIn(t) = {}
    /\ sources[t][id] = None
    /\ sources' = [sources EXCEPT ![t][id] = s]
    /\ UNCHANGED <<row, fate, proc, receipts, late, clearing, sync, published,
                   faults, calledOff, bgPuts, tried>>

-----------------------------------------------------------------------------
(* uploadOne, resumeMissingChunks and uploadChunkIndexes. *)

\* A resumed batch begins when all its rows have been read.
Uploading(p) ==
    /\ proc[p].phase = "upload"
    /\ Live(p)
    /\ \A q \in LiveIn(proc[p].tab) : proc[q].phase # "reading"

InFlight(p) == {k \in DOMAIN proc[p].stage : proc[p].stage[k] \in
                                                 {"hashing", "put"}}

\* An upload that stops leaves the hashes it is saving behind.
Leftover(p) ==
    {<<proc[p].id, k, proc[p].src>> :
        k \in {l \in DOMAIN proc[p].stage : proc[p].stage[l] = "hashing"}}

(* The next part in order; a chunk is hashed before it is encrypted. *)
TakePart(p, k) ==
    LET id == proc[p].id IN
    /\ Uploading(p)
    /\ proc[p].stage[k] = "todo"
    /\ \A l \in Parts(id) : l < k => proc[p].stage[l] # "todo"
    /\ Cardinality(InFlight(p)) < CHUNK_UPLOAD_CONCURRENCY
    /\ id \in Chunked => proc[p].src # None
    /\ Set(p, [proc[p] EXCEPT !.stage[k] =
                 IF id \in Chunked THEN "hashing" ELSE "put"])
    /\ UNCHANGED <<row, fate, sources, receipts, late, clearing, sync,
                   published, faults, calledOff, bgPuts, tried>>

\* Mutant of Matches: the row is read again, after the hash was saved in it.
MatchesSaved(p, k) ==
    proc[p].src = IF HasRow(proc[p].id) THEN row'[proc[p].id].hashes[k]
                  ELSE proc[p].expect[k]

(* What the row said when the upload began is what is compared.            *)
Matches(p, k) == proc[p].expect[k] = proc[p].src

(* The hash is saved in the row, then compared with the expected one; a    *)
(* mismatch fails the upload.                                              *)
SaveChunkPlaintextHash(p, k) ==
    LET id == proc[p].id IN
    /\ Uploading(p)
    /\ proc[p].stage[k] = "hashing"
    /\ Update(id, WithHash(id, k, proc[p].src))
    /\ IF Matches(p, k)
       THEN /\ Set(p, [proc[p] EXCEPT !.stage[k] = "put"])
            /\ UNCHANGED <<late, tried>>
       ELSE /\ Set(p, Idle)
            /\ late' = late \cup (Leftover(p) \ {<<id, k, proc[p].src>>})
            /\ Try(<<id, k, proc[p].src>>)
    /\ UNCHANGED <<sources, receipts, clearing, sync, published, faults,
                   calledOff, bgPuts>>

(* The Worker staged the part.  The receipt of a chunk is written without  *)
(* waiting, that of a whole file before going on.                          *)
PartUploaded(p, k) ==
    LET id == proc[p].id
        s == IF id \in Chunked THEN proc[p].src ELSE Original
    IN  /\ Uploading(p)
        /\ proc[p].stage[k] = "put"
        /\ Set(p, [proc[p] EXCEPT !.stage[k] = "done", !.have[k] = s])
        /\ IF id \in Chunked
           THEN /\ receipts' = receipts \cup {<<id, k, s>>}
                /\ UNCHANGED <<row, fate>>
           ELSE Update(id, WithReceipt(id, k, s)) /\ UNCHANGED receipts
        /\ UNCHANGED <<sources, late, clearing, sync, published, faults,
                       calledOff, bgPuts, tried>>

(* The upload of a part fails for good, or the commit does: the row stays. *)
Fault(kind) ==
    /\ kind \in Faults
    /\ faults < MaxFaults
    /\ faults' = faults + 1

UploadFails(p) ==
    /\ Uploading(p)
    /\ \E k \in Parts(proc[p].id) : proc[p].stage[k] = "put"
    /\ Fault("failure")
    /\ Set(p, Idle)
    /\ late' = late \cup Leftover(p)
    /\ UNCHANGED <<row, fate, sources, receipts, clearing, sync, published,
                   calledOff, bgPuts, tried>>

(* Chunks are missing and the tab has no source: the row waits for one. *)
NeedsSource(p) ==
    /\ Uploading(p)
    /\ proc[p].id \in Chunked
    /\ proc[p].src = None
    /\ Missing(proc[p].have) # {}
    /\ Set(p, Idle)
    /\ UNCHANGED <<row, fate, sources, receipts, late, clearing, sync,
                   published, faults, calledOff, bgPuts, tried>>

\* Mutant of Covered: nothing is under way any more.
NothingInFlight(p) == InFlight(p) = {}

\* Mutant of Covered: the row is asked, not the upload.
CoveredInRow(p) ==
    HasRow(proc[p].id) /\ Missing(row[proc[p].id].receipts) = {}

(* Every part has a receipt. *)
Covered(p) == Missing(proc[p].have) = {}

(* All uploads of the batch have settled: publish those that are covered. *)
StartFinalize(p) ==
    /\ Uploading(p)
    /\ Covered(p)
    /\ \A q \in LiveIn(proc[p].tab) :
           proc[q].phase \in {"finalize", "dequeue"} \/
           (proc[q].phase = "upload" /\ Covered(q))
    /\ Goto(p, "finalize")
    /\ UNCHANGED <<row, fate, sources, receipts, late, clearing, sync,
                   published, faults, calledOff, bgPuts, tried>>

(* The entry reaches the vault, unless another attempt was first. *)
Published(p) ==
    published' = IF published[proc[p].id] = None
                 THEN [published EXCEPT ![proc[p].id] = proc[p].have]
                 ELSE published

FinalizeUpload(p) ==
    /\ proc[p].phase = "finalize"
    /\ Live(p)
    /\ Published(p)
    /\ Goto(p, "dequeue")
    /\ UNCHANGED <<row, fate, sources, receipts, late, clearing, sync, faults,
                   calledOff, bgPuts, tried>>

(* The commit fails, or lands although its answer says it failed. *)
FinalizeFails(p) ==
    /\ proc[p].phase = "finalize"
    /\ Live(p)
    /\ Fault("failure")
    /\ Published(p) \/ UNCHANGED published
    /\ Set(p, Idle)
    /\ UNCHANGED <<row, fate, sources, receipts, late, clearing, sync,
                   calledOff, bgPuts, tried>>

(* dequeueUpload of what was published. *)
DequeueUpload(p) ==
    /\ proc[p].phase = "dequeue"
    /\ Delete({proc[p].id})
    /\ Set(p, Idle)
    /\ UNCHANGED <<sources, receipts, late, clearing, sync, published, faults,
                   calledOff, bgPuts, tried>>

-----------------------------------------------------------------------------
(* Cancel, lock, discard and crash. *)

StopAll(t, how) ==
    proc' = [p \in Procs |-> IF p \in LiveIn(t)
                             THEN [proc[p] EXCEPT !.stop = how] ELSE proc[p]]

ForgetSources(t) == sources' = [sources EXCEPT ![t] = [id \in Ids |-> None]]

(* cancelBatch: the announced rows are deleted here, those of files still  *)
(* being prepared by the unwinding upload.                                 *)
CancelBatch(t) ==
    LET ids(S) == {proc[p].id : p \in S} IN
    /\ LiveIn(t) # {}
    /\ Fault("cancel")
    /\ StopAll(t, "cancel")
    /\ ForgetSources(t)
    /\ clearing' = clearing \cup ids({p \in LiveIn(t) : proc[p].announced})
    /\ calledOff' = calledOff \cup ids({p \in LiveIn(t) : \/ proc[p].announced
                                                          \/ proc[p].fresh})
    /\ UNCHANGED <<row, fate, receipts, late, sync, published, bgPuts, tried>>

(* lockUploadSession: the rows are kept for the next unlock. *)
LockUploadSession(t) ==
    /\ Fault("lock")
    /\ StopAll(t, "lock")
    /\ ForgetSources(t)
    /\ UNCHANGED <<row, fate, receipts, late, clearing, sync, published,
                   calledOff, bgPuts, tried>>

\* Mutant of Dequeues: a lock is taken for a cancel.
DequeuesAlways(p) == proc[p].fresh

\* Mutant of Dequeues: only an upload the tab announced.
DequeuesAnnounced(p) ==
    proc[p].announced /\ proc[p].fresh /\ proc[p].stop = "cancel"

(* An aborted fresh upload deletes its row, if it was not aborted by a     *)
(* lock.                                                                   *)
Dequeues(p) == proc[p].fresh /\ proc[p].stop = "cancel"

(* The aborted upload unwinds.  A commit on its way may have landed; after *)
(* it the signal is not looked at and the row is dropped.                  *)
Unwind(p) ==
    /\ proc[p].stop # "none"
    /\ proc[p].phase # "dequeue"
    /\ \/ proc[p].phase = "finalize" /\ Published(p)
       \/ UNCHANGED published
    /\ IF Dequeues(p) THEN Delete({proc[p].id}) ELSE UNCHANGED <<row, fate>>
    /\ Set(p, Idle)
    /\ late' = late \cup Leftover(p)
    /\ UNCHANGED <<sources, receipts, clearing, sync, faults, calledOff,
                   bgPuts, tried>>

(* discardPendingUploads of one row, offered while the tab does nothing. *)
DiscardPendingUpload(t, id) ==
    /\ LiveIn(t) = {}
    /\ HasRow(id)
    /\ Fault("discard")
    /\ clearing' = clearing \cup {id}
    /\ calledOff' = calledOff \cup {id}
    /\ sources' = [sources EXCEPT ![t][id] = None]
    /\ UNCHANGED <<row, fate, proc, receipts, late, sync, published, bgPuts, tried>>

(* The tab is closed or killed. *)
Crash(t) ==
    /\ Fault("crash")
    /\ proc' = [p \in Procs |-> IF proc[p].tab = t THEN Idle ELSE proc[p]]
    /\ ForgetSources(t)
    /\ receipts' \in SUBSET receipts
    /\ late' \in SUBSET late
    /\ clearing' \in SUBSET clearing
    /\ UNCHANGED <<row, fate, sync, published, calledOff, bgPuts, tried>>

-----------------------------------------------------------------------------
(* The background sync of the service worker. *)

CanClaimQueueAttempt(id) ==
    /\ HasRow(id)
    /\ id \notin Chunked
    /\ row[id].receipts[0] = None
    /\ row[id].attempts < MAX_BACKGROUND_ATTEMPTS

\* Mutant of ClaimQueueAttempt: the attempt is not written down.
ClaimUnrecorded(s, id) ==
    /\ sync[s].phase = "idle"
    /\ CanClaimQueueAttempt(id)
    /\ sync' = [sync EXCEPT ![s] = [phase |-> "put", id |-> id]]
    /\ bgPuts' = [bgPuts EXCEPT ![id] =
                    IF @ > MAX_BACKGROUND_ATTEMPTS THEN @ ELSE @ + 1]
    /\ UNCHANGED <<row, fate, proc, sources, receipts, late, clearing,
                   published, faults, calledOff, tried>>

(* The row is looked at and counted up in one transaction, then uploaded. *)
ClaimQueueAttempt(s, id) ==
    /\ sync[s].phase = "idle"
    /\ CanClaimQueueAttempt(id)
    /\ PutRow(id, [row[id] EXCEPT !.attempts = @ + 1])
    /\ sync' = [sync EXCEPT ![s] = [phase |-> "put", id |-> id]]
    /\ bgPuts' = [bgPuts EXCEPT ![id] = @ + 1]
    /\ UNCHANGED <<proc, sources, receipts, late, clearing, published, faults,
                   calledOff, tried>>

RetryUploadAnswered(s) ==
    /\ sync[s].phase = "put"
    /\ \/ sync' = [sync EXCEPT ![s].phase = "mark"]
       \/ sync' = [sync EXCEPT ![s] = [phase |-> "idle", id |-> None]]
    /\ UNCHANGED <<row, fate, proc, sources, receipts, late, clearing,
                   published, faults, calledOff, bgPuts, tried>>

MarkQueueItemUploaded(s) ==
    LET id == sync[s].id IN
    /\ sync[s].phase = "mark"
    /\ Update(id, WithReceipt(id, 0, Original))
    /\ sync' = [sync EXCEPT ![s] = [phase |-> "idle", id |-> None]]
    /\ UNCHANGED <<proc, sources, receipts, late, clearing, published, faults,
                   calledOff, bgPuts, tried>>

-----------------------------------------------------------------------------
UserStep ==
    \/ \E p \in Procs, t \in Tabs, id \in Ids :
           StartUpload(p, t, id) \/ ResumeQueuedUpload(p, t, id)
    \/ \E t \in Tabs, id \in Ids :
           \/ \E s \in Sources : ReselectSource(t, id, s)
           \/ DiscardPendingUpload(t, id)
    \/ \E t \in Tabs : CancelBatch(t) \/ LockUploadSession(t) \/ Crash(t)

ProcStep(p) ==
    \/ QueueRow(p)
    \/ Announce(p)
    \/ \E k \in 0..(ChunkCount - 1) :
           /\ k \in DOMAIN proc[p].stage
           /\ TakePart(p, k) \/ SaveChunkPlaintextHash(p, k)
                             \/ PartUploaded(p, k)
    \/ UploadFails(p)
    \/ NeedsSource(p)
    \/ StartFinalize(p)
    \/ FinalizeUpload(p)
    \/ FinalizeFails(p)
    \/ DequeueUpload(p)
    \/ Unwind(p)

StoreStep == MarkChunkUploaded \/ SaveLateHash \/ ClearUploadQueue

SyncStep(s) ==
    \/ \E id \in Ids : ClaimQueueAttempt(s, id)
    \/ RetryUploadAnswered(s)
    \/ MarkQueueItemUploaded(s)

Next ==
    \/ UserStep
    \/ \E p \in Procs : ProcStep(p)
    \/ StoreStep
    \/ \E s \in Syncs : SyncStep(s)

Spec == Init /\ [][Next]_vars

(* Transactions and requests are answered; the user need not do anything. *)
FairSpec ==
    /\ Spec
    /\ \A p \in Procs : WF_vars(ProcStep(p))
    /\ WF_vars(StoreStep)

-----------------------------------------------------------------------------
(* uploadService.js:796: what an entry points to was cut from the file the *)
(* upload was started with; chunks of two files never meet under one id,   *)
(* whatever is picked, retried, cancelled or interrupted.                  *)
PublishedIsOriginal ==
    \A id \in Ids : published[id] # None =>
        \A k \in Parts(id) : published[id][k] \in {Original, None}

(* No entry lacks a part. *)
PublishedIsWhole ==
    \A id \in Ids : published[id] # None => Missing(published[id]) = {}

(* A wrong file is not taken at its first try: a row records another       *)
(* file's hash, and an entry points to a part of another file, only if an  *)
(* earlier upload saved this hash and went no further, as one does that    *)
(* finds it different from what the row said when it began.  More the code *)
(* does not promise, since nobody compares what is picked                  *)
(* (Gallery.jsx:254) and the hash is saved before it is compared: the      *)
(* second try is taken, and the original may then be refused.              *)
WrongFileNeedsTwoTries ==
    \A id \in Chunked : \A k \in Parts(id) :
        \A s \in Sources \ {Original} :
            \/ HasRow(id) /\ row[id].hashes[k] = s
            \/ published[id] # None /\ published[id][k] = s
            => <<id, k, s>> \in tried

(* A row that was dequeued, cancelled or discarded never comes back,       *)
(* whatever receipt, hash or background upload is still on its way.        *)
GoneStaysGone ==
    [][\A id \in Ids : fate[id] = "gone" => fate'[id] = "gone"]_vars

(* UploadContext.jsx:14: locking, failing and dying preserve the queue: a  *)
(* row leaves it only when its entry is in the vault or the user called    *)
(* the upload off.                                                         *)
RowsKeptUntilPublished ==
    \A id \in Ids : fate[id] = "gone" =>
        published[id] # None \/ id \in calledOff

(* The service worker uploads a row at most MAX_BACKGROUND_ATTEMPTS times, *)
(* however its runs overlap each other and the page.                       *)
BackgroundBounded == \A id \in Ids : bgPuts[id] <= MAX_BACKGROUND_ATTEMPTS

(* An upload does not hang: it ends, published, failed, stopped or waiting *)
(* for a source.                                                           *)
UploadsEnd ==
    \A p \in Procs : proc[p].phase # "idle" ~> proc[p].phase = "idle"

(* A cancel or a discard empties the queue of the ids it names. *)
CalledOffLeaves ==
    \A id \in Ids : id \in calledOff ~> ~HasRow(id)
=============================================================================
