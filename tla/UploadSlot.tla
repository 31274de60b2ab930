----------------------------- MODULE UploadSlot -----------------------------
(***************************************************************************)
(* The upload slot of src/src/context/UploadContext.jsx: one upload runs   *)
(* at a time, clicks made meanwhile are queued, a cancel or a lock starts  *)
(* a new generation and makes the callbacks of the old one inert.          *)
(*                                                                         *)
(* A task is one chain of asynchronous calls: startBatch,                  *)
(* resumePendingUploads, retryOptimistic or the effect that drains the     *)
(* queue.  Between two awaits it is one step.  An item is what one click   *)
(* asks for (a file or a queued row); every item is clicked once.          *)
(***************************************************************************)
EXTENDS Naturals, FiniteSets, SequencesExt

CONSTANTS
    Items,               \* what the user can click
    Tasks,               \* call chains that may exist at once (bound)
    None,                \* the null of a reference
    RETRY_QUEUE_LIMIT,   \* bound of the retry queue
    MaxStops,            \* bound on cancels and locks
    MaxShows,            \* bound on the times the hidden page is shown again
    WakeLockSupported    \* navigator.wakeLock exists in this browser

ASSUME SlotAssumption ==
    /\ IsFiniteSet(Items)
    /\ None \notin Tasks
    /\ RETRY_QUEUE_LIMIT \in Nat \ {0}
    /\ MaxStops \in Nat
    /\ MaxShows \in Nat
    /\ WakeLockSupported \in BOOLEAN

VARIABLES
    generation,    \* uploadGenerationRef
    running,       \* uploadRunningRef
    controller,    \* activeControllerRef: the task an abort would reach
    isUploading,   \* React state of the same name
    retryQueue,    \* retryQueueRef
    active,        \* activeUploadIdsRef: the rows a cancel deletes
    deleting,      \* generations whose cancel is still deleting its rows:
                   \* their queueCleanupRef promise is pending
    wakeLock,      \* wakeLockRef: the sentinel the page believes it holds
    held,          \* sentinels the browser has not released
    shows,         \* re-acquisitions of the wake lock by onVisibilityChange
    task,          \* the call chains
    clicked,       \* items already clicked
    worked,        \* history: items a live upload took on
    revoked,       \* history: items a cancel or lock called off
    lost           \* history: items refused by a full queue

refs == <<running, controller, isUploading, active>>
locks == <<wakeLock, held, shows>>
history == <<clicked, worked, revoked, lost>>
vars == <<generation, running, controller, isUploading, retryQueue, active,
          deleting, wakeLock, held, shows, task, clicked, worked, revoked, lost>>

Shows == 1..MaxShows
Sentinels == Tasks \cup Shows
Phases == {"idle", "lookup", "cleanup", "lock", "body", "release", "release2"}

\* What the queue keeps of a click.
QueuedAction == [type : {"file", "resume"}, items : SUBSET Items]

Idle == [phase |-> "idle", gen |-> 0, items |-> {}, rest |-> {},
         added |-> {}, aborted |-> FALSE]

TypeOK ==
    /\ generation \in 0..MaxStops
    /\ running \in BOOLEAN
    /\ controller \in Tasks \cup {None}
    /\ isUploading \in BOOLEAN
    /\ retryQueue \in Seq(QueuedAction)
    /\ active \subseteq Items
    /\ deleting \subseteq 1..MaxStops
    /\ wakeLock \in Sentinels \cup {None}
    /\ held \subseteq Sentinels
    /\ shows \in [Shows -> [phase : {"new", "asked", "done"}, gen : 0..MaxStops]]
    /\ task \in [Tasks -> [phase : Phases, gen : 0..MaxStops,
                           items : SUBSET Items, rest : SUBSET Items,
                           added : SUBSET Items, aborted : BOOLEAN]]
    /\ clicked \subseteq Items
    /\ worked \subseteq Items
    /\ revoked \subseteq Items
    /\ lost \subseteq Items

Init ==
    /\ generation = 0
    /\ running = FALSE
    /\ controller = None
    /\ isUploading = FALSE
    /\ retryQueue = <<>>
    /\ active = {}
    /\ deleting = {}
    /\ wakeLock = None
    /\ held = {}
    /\ shows = [k \in Shows |-> [phase |-> "new", gen |-> 0]]
    /\ task = [t \in Tasks |-> Idle]
    /\ clicked = {}
    /\ worked = {}
    /\ revoked = {}
    /\ lost = {}

-----------------------------------------------------------------------------
(* The promise queueCleanupRef a startBatch waits for is settled. *)
CleanedUp(t) == task[t].phase = "cleanup" /\ task[t].gen \notin deleting

(* A settled promise is followed before any other event of the page.  So   *)
(* is the wake lock where the browser has none to give; where it has, the  *)
(* request and the release take their time.                                *)
Settled ==
    /\ \A t \in Tasks : ~CleanedUp(t)
    /\ \/ WakeLockSupported
       \/ \A t \in Tasks : task[t].phase \notin {"lock", "release"}

FileActions(S) == SetToSeq({[type |-> "file", items |-> {i}] : i \in S})
ResumeAction(S) == <<[type |-> "resume", items |-> S]>>

(* Items of a sequence of queued actions. *)
ItemsOf(q) == UNION {q[n].items : n \in DOMAIN q}

(* startBatch when the slot is taken: one look at the limit for the whole  *)
(* batch.                                                                  *)
PushBatch(q, S) ==
    IF Len(q) < RETRY_QUEUE_LIMIT THEN q \o FileActions(S) ELSE q

(* startBatch when the slot was taken while it waited: the limit is looked *)
(* at for every file.                                                      *)
PushEach(q, S) ==
    q \o SubSeq(FileActions(S), 1,
                Min({Cardinality(S), RETRY_QUEUE_LIMIT - Len(q)}))

PushResume(q, S) ==
    IF Len(q) < RETRY_QUEUE_LIMIT THEN q \o ResumeAction(S) ELSE q

(* The queue becomes q; what was asked for and is not in it is lost. *)
Enqueue(q, asked) ==
    /\ retryQueue' = q
    /\ lost' = lost \cup (asked \ ItemsOf(q))

SetTask(t, r) == task' = [task EXCEPT ![t] = r]

(* Mutant of Claim: the generation is taken one step ahead. *)
ClaimAhead(t, S, rest) ==
    /\ running' = TRUE
    /\ controller' = t
    /\ isUploading' = TRUE
    /\ SetTask(t, [Idle EXCEPT !.phase = "lock", !.gen = generation + 1,
                               !.items = S, !.rest = rest])
    /\ UNCHANGED active

(* runUploadSlot up to its first await, by a task that then wants rest. *)
Claim(t, S, rest) ==
    /\ running' = TRUE
    /\ controller' = t
    /\ isUploading' = TRUE
    /\ SetTask(t, [Idle EXCEPT !.phase = "lock", !.gen = generation,
                               !.items = S, !.rest = rest])
    /\ UNCHANGED active

(* startBatch up to its first await: wait for the deletion of the rows of  *)
(* the last cancel, or queue the files when the slot is taken.             *)
StartBatch(t, S, q) ==
    /\ UNCHANGED refs
    /\ IF running
       THEN Enqueue(PushBatch(q, S), S) /\ SetTask(t, Idle)
       ELSE Enqueue(q, {}) /\ SetTask(t, [Idle EXCEPT !.phase = "cleanup",
                                                      !.gen = generation,
                                                      !.items = S])

(* resumePendingUploads(S), after which the drain wants to start rest. *)
ResumePendingUploads(t, S, rest, q) ==
    IF running
    THEN LET q1 == PushResume(q, S)
             q2 == IF rest = {} THEN q1 ELSE PushBatch(q1, rest)
         IN  Enqueue(q2, S \cup rest) /\ SetTask(t, Idle) /\ UNCHANGED refs
    ELSE Enqueue(q, {}) /\ Claim(t, S, rest)

-----------------------------------------------------------------------------
(* The user's clicks. *)

Click(S) ==
    /\ Settled
    /\ S # {} /\ S \cap clicked = {}
    /\ clicked' = clicked \cup S

(* Files are chosen, dropped or pasted on the upload page. *)
ChooseFiles(t, S) ==
    /\ task[t].phase = "idle"
    /\ Click(S)
    /\ StartBatch(t, S, retryQueue)
    /\ UNCHANGED <<generation, deleting, locks, worked, revoked>>

(* Resume on a row of the gallery's recovery list, shown only while        *)
(* nothing uploads.                                                        *)
ResumeRow(t, i) ==
    /\ task[t].phase = "idle"
    /\ ~isUploading
    /\ Click({i})
    /\ ResumePendingUploads(t, {i}, {}, retryQueue)
    /\ UNCHANGED <<generation, deleting, locks, worked, revoked>>

(* Retry on a failed card. *)
RetryOptimistic(t, i) ==
    /\ task[t].phase = "idle"
    /\ Click({i})
    /\ UNCHANGED refs
    /\ IF running
       THEN Enqueue(PushResume(retryQueue, {i}), {i}) /\ UNCHANGED task
       ELSE /\ Enqueue(retryQueue, {})
            /\ SetTask(t, [Idle EXCEPT !.phase = "lookup", !.items = {i}])
    /\ UNCHANGED <<generation, deleting, locks, worked, revoked>>

(* The retried row was looked up: resume it, or start over from the source *)
(* file this session still has, or give up.                                *)
RetryLookedUp(t) ==
    /\ Settled
    /\ task[t].phase = "lookup"
    /\ \/ ResumePendingUploads(t, task[t].items, {}, retryQueue)
       \/ /\ running
          /\ Enqueue(retryQueue \o FileActions(task[t].items), {})
          /\ SetTask(t, Idle)
          /\ UNCHANGED refs
       \/ ~running /\ StartBatch(t, task[t].items, retryQueue)
       \/ /\ Enqueue(retryQueue, {})
          /\ SetTask(t, Idle)
          /\ UNCHANGED refs
    /\ UNCHANGED <<generation, deleting, locks, clicked, worked, revoked>>

-----------------------------------------------------------------------------
(* The life of a task. *)

(* Mutant of CleanupDone: the slot is not looked at again after the wait. *)
CleanupDoneUnchecked(t) ==
    /\ CleanedUp(t)
    /\ Enqueue(retryQueue, {})
    /\ Claim(t, task[t].items, {})
    /\ UNCHANGED <<generation, deleting, locks, clicked, worked, revoked>>

(* startBatch after the cleanup of the last cancel. *)
CleanupDone(t) ==
    /\ CleanedUp(t)
    /\ IF running
       THEN /\ Enqueue(PushEach(retryQueue, task[t].items), task[t].items)
            /\ SetTask(t, Idle)
            /\ UNCHANGED refs
       ELSE Enqueue(retryQueue, {}) /\ Claim(t, task[t].items, {})
    /\ UNCHANGED <<generation, deleting, locks, clicked, worked, revoked>>

(* Where a task goes when its slot is over: the drain starts its files. *)
Continue(t, taken) ==
    LET rest == task[t].rest IN
    IF rest = {} THEN SetTask(t, Idle) /\ UNCHANGED <<retryQueue, lost>>
    ELSE IF taken
    THEN Enqueue(PushBatch(retryQueue, rest), rest) /\ SetTask(t, Idle)
    ELSE /\ SetTask(t, [Idle EXCEPT !.phase = "cleanup", !.gen = generation,
                                !.items = rest])
         /\ UNCHANGED <<retryQueue, lost>>

(* The wake lock arrives and the generation is still the task's. *)
WakeLockGranted(t) ==
    /\ task[t].phase = "lock"
    /\ task[t].gen = generation
    /\ wakeLock' = IF WakeLockSupported THEN t ELSE None
    /\ held' = IF WakeLockSupported THEN held \cup {t} ELSE held
    /\ SetTask(t, [task[t] EXCEPT !.phase = "body"])
    /\ worked' = worked \cup task[t].items
    /\ UNCHANGED <<generation, refs, deleting, retryQueue, shows, clicked,
                   revoked, lost>>

(* The wake lock arrives for an older generation. *)
WakeLockTooLate(t) ==
    /\ task[t].phase = "lock"
    /\ task[t].gen # generation
    /\ running' = FALSE
    /\ controller' = None
    /\ isUploading' = FALSE
    /\ Continue(t, FALSE)
    /\ UNCHANGED <<generation, active, deleting, locks, clicked, worked,
                   revoked>>

(* addOptimisticEntry through the guard of makeOptimisticBridge. *)
AddOptimisticEntry(t, i) ==
    /\ Settled
    /\ task[t].phase = "body"
    /\ task[t].gen = generation
    /\ i \in task[t].items \ task[t].added
    /\ active' = IF running THEN active \cup {i} ELSE active
    /\ SetTask(t, [task[t] EXCEPT !.added = @ \cup {i}])
    /\ UNCHANGED <<generation, running, controller, isUploading, deleting,
                   retryQueue, locks, history>>

(* The body ends, by itself, by an error or by an abort; the tail begins   *)
(* to release the wake lock.                                               *)
BodyEnds(t) ==
    /\ Settled
    /\ task[t].phase = "body"
    /\ held' = held \ {t}
    /\ SetTask(t, [task[t] EXCEPT !.phase = "release"])
    /\ UNCHANGED <<generation, refs, deleting, retryQueue, wakeLock, shows,
                   history>>

(* Mutant of FreeSlot: the tail does not compare generations. *)
FreeSlotAlways(t) ==
    /\ running' = FALSE
    /\ active' = {}
    /\ controller' = IF controller = t THEN None ELSE controller
    /\ isUploading' = FALSE
    /\ Continue(t, FALSE)

(* The tail after its awaits: a task of the current generation frees the   *)
(* slot.                                                                   *)
FreeSlot(t) ==
    IF task[t].gen = generation
    THEN /\ running' = FALSE
         /\ active' = {}
         /\ controller' = IF controller = t THEN None ELSE controller
         /\ isUploading' = FALSE
         /\ Continue(t, FALSE)
    ELSE Continue(t, running) /\ UNCHANGED refs

(* The wake lock was re-acquired meanwhile: release that one too. *)
HoldsAnother(t) ==
    /\ task[t].gen = generation
    /\ wakeLock # None
    /\ wakeLock # t

WakeLockReleased(t) ==
    /\ task[t].phase = "release"
    /\ IF HoldsAnother(t)
       THEN /\ held' = held \ {wakeLock}
            /\ SetTask(t, [task[t] EXCEPT !.phase = "release2"])
            /\ UNCHANGED <<refs, retryQueue, lost, wakeLock>>
       ELSE /\ wakeLock' = IF wakeLock = t THEN None ELSE wakeLock
            /\ FreeSlot(t)
            /\ UNCHANGED held
    /\ UNCHANGED <<generation, deleting, shows, clicked, worked, revoked>>

OtherReleased(t) ==
    /\ task[t].phase = "release2"
    /\ wakeLock' = None
    /\ FreeSlot(t)
    /\ UNCHANGED <<generation, deleting, held, shows, clicked, worked,
                   revoked>>

(* Mutant of Drain: files queued beside a resume are thrown away. *)
DrainResumes(t) ==
    LET acts == {retryQueue[n] : n \in DOMAIN retryQueue}
        resumes == UNION {a.items : a \in {b \in acts : b.type = "resume"}}
        files == UNION {a.items : a \in {b \in acts : b.type = "file"}}
    IN  /\ Settled
        /\ task[t].phase = "idle"
        /\ ~isUploading
        /\ retryQueue # <<>>
        /\ IF resumes # {} THEN ResumePendingUploads(t, resumes, {}, <<>>)
           ELSE StartBatch(t, files, <<>>)
        /\ UNCHANGED <<generation, deleting, locks, clicked, worked, revoked>>

(* The effect on isUploading: resume actions first, then a batch of the    *)
(* files.                                                                  *)
Drain(t) ==
    LET acts == {retryQueue[n] : n \in DOMAIN retryQueue}
        resumes == UNION {a.items : a \in {b \in acts : b.type = "resume"}}
        files == UNION {a.items : a \in {b \in acts : b.type = "file"}}
    IN  /\ Settled
        /\ task[t].phase = "idle"
        /\ ~isUploading
        /\ retryQueue # <<>>
        /\ IF resumes # {} THEN ResumePendingUploads(t, resumes, files, <<>>)
           ELSE StartBatch(t, files, <<>>)
        /\ UNCHANGED <<generation, deleting, locks, clicked, worked, revoked>>

-----------------------------------------------------------------------------
(* Cancel and lock. *)

Asked(t) == task[t].items \cup task[t].rest

StopUploads ==
    /\ Settled
    /\ generation < MaxStops
    /\ generation' = generation + 1
    /\ task' = [t \in Tasks |->
                  IF t = controller THEN [task[t] EXCEPT !.aborted = TRUE]
                  ELSE task[t]]
    /\ controller' = None
    /\ running' = FALSE
    /\ active' = {}
    /\ retryQueue' = <<>>
    /\ held' = held \ {wakeLock}
    /\ wakeLock' = None
    /\ isUploading' = FALSE
    /\ revoked' = revoked \cup ItemsOf(retryQueue)
                          \cup UNION {Asked(t) : t \in Tasks}
    /\ UNCHANGED <<shows, clicked, worked, lost>>

(* A cancel, whose button exists while something uploads, deletes the rows *)
(* of the upload from the queue; a lock keeps them.                        *)
CancelBatch ==
    /\ isUploading
    /\ StopUploads
    /\ deleting' = IF active = {} THEN deleting
                   ELSE deleting \cup {generation + 1}

LockUploadSession == StopUploads /\ UNCHANGED deleting

(* clearUploadQueue of the cancel that began generation g is done. *)
RowsDeleted(g) ==
    /\ Settled
    /\ g \in deleting
    /\ deleting' = deleting \ {g}
    /\ UNCHANGED <<generation, refs, retryQueue, locks, task, history>>

(* The hidden page lost its wake locks and is shown again; it asks for a   *)
(* new one while an upload runs.                                           *)
PageShown(k) ==
    /\ Settled
    /\ shows[k].phase = "new"
    /\ held' = {}
    /\ shows' = [shows EXCEPT ![k] =
                   [phase |-> IF running /\ WakeLockSupported THEN "asked"
                              ELSE "done",
                    gen |-> generation]]
    /\ UNCHANGED <<generation, refs, deleting, retryQueue, wakeLock, task,
                   history>>

(* The re-acquired wake lock arrives. *)
PageLockGranted(k) ==
    /\ Settled
    /\ shows[k].phase = "asked"
    /\ shows' = [shows EXCEPT ![k].phase = "done"]
    /\ IF shows[k].gen # generation \/ ~running THEN UNCHANGED <<wakeLock, held>>
       ELSE wakeLock' = k /\ held' = held \cup {k}
    /\ UNCHANGED <<generation, refs, deleting, retryQueue, task, history>>

-----------------------------------------------------------------------------
UserStep ==
    \/ \E t \in Tasks, S \in SUBSET Items : ChooseFiles(t, S)
    \/ \E t \in Tasks, i \in Items : ResumeRow(t, i) \/ RetryOptimistic(t, i)
    \/ CancelBatch
    \/ LockUploadSession
    \/ \E k \in Shows : PageShown(k)

(* What the page does by itself for one task. *)
TaskStep(t) ==
    \/ RetryLookedUp(t)
    \/ CleanupDone(t)
    \/ WakeLockGranted(t)
    \/ WakeLockTooLate(t)
    \/ \E i \in Items : AddOptimisticEntry(t, i)
    \/ BodyEnds(t)
    \/ WakeLockReleased(t)
    \/ OtherReleased(t)

Next ==
    \/ UserStep
    \/ \E t \in Tasks : TaskStep(t) \/ Drain(t)
    \/ \E k \in Shows : PageLockGranted(k)
    \/ \E g \in 1..MaxStops : RowsDeleted(g)

Spec == Init /\ [][Next]_vars

(* Every await is answered and React runs its effects; nobody has to       *)
(* click.  Fairness is per task because each chain is a promise of its     *)
(* own.                                                                    *)
FairSpec ==
    /\ Spec
    /\ \A t \in Tasks : WF_vars(TaskStep(t))
    /\ WF_vars(\E t \in Tasks : Drain(t))
    /\ WF_vars(\E g \in 1..MaxStops : RowsDeleted(g))
-----------------------------------------------------------------------------
Holding == {"lock", "body", "release", "release2"}

(* The task has the slot and no cancel or lock called it off. *)
Live(t) ==
    /\ task[t].phase \in Holding
    /\ task[t].gen = generation
    /\ ~task[t].aborted

(* Two uploads of one generation never run side by side, however starts,   *)
(* retries, drains, cancels and locks interleave.                          *)
OneUpload == \A t, u \in Tasks : Live(t) /\ Live(u) => t = u

(* A cancel is authoritative: it reaches the upload that runs, and the     *)
(* rows this upload announced are the rows it deletes.                     *)
CancelReaches ==
    \A t \in Tasks : Live(t) =>
        /\ running
        /\ controller = t
        /\ task[t].added \subseteq active

(* report.md:752: after a lock late async callbacks become inert: a task   *)
(* of an older generation leaves the references of the slot alone.         *)
LateCallbacksInert ==
    [][\A t \in Tasks :
         /\ task[t].phase \in Holding
         /\ task[t].gen # generation
         /\ task'[t] # task[t]
         /\ generation' = generation
         => UNCHANGED refs]_vars

(* A queued click is not forgotten: an upload takes it on, unless a cancel *)
(* or a lock called it off or a full queue refused it.                     *)
ClicksServed ==
    \A i \in Items :
        i \in ItemsOf(retryQueue) ~> i \in worked \cup revoked \cup lost
=============================================================================
