-------------------------- MODULE UploadSlotProofs --------------------------
(***************************************************************************)
(* Proofs about UploadSlot, for any number of clicks, call chains, cancels *)
(* and locks.                                                              *)
(***************************************************************************)
EXTENDS UploadSlot, FiniteSetTheorems, SequenceTheorems, TLAPS

TaskType == [phase : Phases, gen : 0..MaxStops, items : SUBSET Items,
             rest : SUBSET Items, added : SUBSET Items, aborted : BOOLEAN]

RefsType ==
    /\ running \in BOOLEAN
    /\ controller \in Tasks \cup {None}
    /\ isUploading \in BOOLEAN
    /\ active \subseteq Items

QueueType == retryQueue \in Seq(QueuedAction) /\ lost \subseteq Items

(***************************************************************************)
(* A call chain that has not been overtaken by a cancel or a lock has the  *)
(* slot, and every row it announced is one a cancel would delete.          *)
(***************************************************************************)
SlotInv ==
    /\ wakeLock = None
    /\ \A k \in Shows : shows[k].phase # "asked"
    /\ \A t \in Tasks :
          /\ task[t].phase # "release2"
          /\ task[t].phase \in Holding => task[t].gen <= generation
          /\ task[t].phase = "lock" => task[t].gen = generation
          /\ task[t].phase \in Holding /\ task[t].gen = generation =>
                 /\ running
                 /\ controller = t
                 /\ task[t].added \subseteq active

-----------------------------------------------------------------------------
(***************************************************************************)
(* The retry queue holds queued actions, however it is filled.             *)
(***************************************************************************)

\* SetToSeq lists a finite set.
LEMMA SetListed ==
    ASSUME NEW T, IsFiniteSet(T)
    PROVE  SetToSeq(T) \in [1..Cardinality(T) -> T] /\ Cardinality(T) \in Nat
<1>1. Cardinality(T) \in Nat /\ ExistsBijection(1..Cardinality(T), T)
  BY FS_CardinalityType
<1>2. \E f \in [1..Cardinality(T) -> T] : IsInjective(f)
  BY <1>1 DEF ExistsBijection, Bijection, Injection
<1> QED  BY <1>1, <1>2 DEF SetToSeq

LEMMA FileActionsListed ==
    ASSUME NEW S \in SUBSET Items
    PROVE  /\ FileActions(S) \in Seq(QueuedAction)
           /\ FileActions(S) \in [1..Cardinality(S) -> QueuedAction]
           /\ Cardinality(S) \in Nat
<1> DEFINE A(i) == [type |-> "file", items |-> {i}]
           T == {A(i) : i \in S}
           f == [i \in S |-> A(i)]
<1>1. IsFiniteSet(S)  BY FS_Subset, SlotAssumption DEF SlotAssumption
<1>2. f \in Bijection(S, T)
  <2>1. \A i, j \in S : A(i) = A(j) => i = j
    <3> SUFFICES ASSUME NEW i \in S, NEW j \in S, A(i) = A(j) PROVE i = j  OBVIOUS
    <3>1. A(i).items = A(j).items  OBVIOUS
    <3> QED  BY <3>1
  <2>2. f \in [S -> T] /\ \A x \in T : \E i \in S : f[i] = x  OBVIOUS
  <2>3. \A i, j \in S : f[i] = f[j] => i = j  BY <2>1
  <2> HIDE DEF f, T
  <2>4. f \in Injection(S, T)  BY <2>2, <2>3 DEF Injection, IsInjective
  <2>5. f \in Surjection(S, T)  BY <2>2 DEF Surjection
  <2> QED  BY <2>4, <2>5 DEF Bijection
<1>3. IsFiniteSet(T) /\ Cardinality(T) = Cardinality(S)
  BY <1>1, <1>2, FS_Bijection DEF ExistsBijection
<1>4. T \subseteq QueuedAction  BY DEF QueuedAction
<1>5. FileActions(S) = SetToSeq(T)  BY DEF FileActions
<1> HIDE DEF T
<1>6. FileActions(S) \in [1..Cardinality(S) -> T] /\ Cardinality(S) \in Nat
  BY <1>3, <1>5, SetListed
<1>7. FileActions(S) \in [1..Cardinality(S) -> QueuedAction]
  BY <1>4, <1>6
<1> QED  BY <1>6, <1>7, SeqDef

LEMMA Pushed ==
    ASSUME NEW S \in SUBSET Items, NEW q \in Seq(QueuedAction)
    PROVE  /\ q \o FileActions(S) \in Seq(QueuedAction)
           /\ PushBatch(q, S) \in Seq(QueuedAction)
           /\ PushEach(q, S) \in Seq(QueuedAction)
           /\ PushResume(q, S) \in Seq(QueuedAction)
<1>1. FileActions(S) \in Seq(QueuedAction)  BY FileActionsListed
<1>2. q \o FileActions(S) \in Seq(QueuedAction)  BY <1>1, ConcatProperties
<1>3. PushBatch(q, S) \in Seq(QueuedAction)  BY <1>2 DEF PushBatch
<1>4. PushEach(q, S) \in Seq(QueuedAction)
  <2> DEFINE a == Cardinality(S)
             b == RETRY_QUEUE_LIMIT - Len(q)
             n == Min({a, b})
  <2>1. a \in Int /\ b \in Int
    BY FileActionsListed, SlotAssumption, LenProperties DEF SlotAssumption
  <2> HIDE DEF a, b
  <2>2. n \in Int /\ n <= a
    <3>1. \E x \in {a, b} : \A y \in {a, b} : x =< y  BY <2>1
    <3> QED  BY <2>1, <3>1 DEF Min
  <2> HIDE DEF n
  <2>3. \A i \in 1..n : i \in 1..a  BY <2>1, <2>2
  <2>4. \A i \in 1..n : FileActions(S)[i] \in QueuedAction
    BY <2>3, FileActionsListed DEF a
  <2>5. SubSeq(FileActions(S), 1, n) \in Seq(QueuedAction)
    BY <2>2, <2>4, SubSeqProperties
  <2>6. q \o SubSeq(FileActions(S), 1, n) \in Seq(QueuedAction)
    BY <2>5, ConcatProperties
  <2> QED  BY <2>6 DEF PushEach, n, a, b
<1>5. PushResume(q, S) \in Seq(QueuedAction)
  <2>1. ResumeAction(S) \in Seq(QueuedAction)
    BY DEF ResumeAction, QueuedAction
  <2> QED  BY <2>1, ConcatProperties DEF PushResume
<1> QED  BY <1>2, <1>3, <1>4, <1>5

LEMMA ItemsOfQueue ==
    ASSUME NEW q \in Seq(QueuedAction)
    PROVE  ItemsOf(q) \subseteq Items
<1>1. \A n \in DOMAIN q : q[n] \in QueuedAction
  BY LenProperties, ElementOfSeq
<1>2. \A n \in DOMAIN q : q[n].items \subseteq Items  BY <1>1 DEF QueuedAction
<1> QED  BY <1>2 DEF ItemsOf

-----------------------------------------------------------------------------
(***************************************************************************)
(* Types.                                                                  *)
(***************************************************************************)

Moved == RefsType' /\ QueueType' /\ (task \in [Tasks -> TaskType])'

LEMMA Known ==
    ASSUME TypeOK
    PROVE  /\ RefsType /\ QueueType /\ task \in [Tasks -> TaskType]
           /\ generation \in 0..MaxStops
           /\ MaxStops \in Nat
           /\ Idle \in TaskType
           /\ \A t \in Tasks : task[t] \in TaskType
  BY SlotAssumption DEF TypeOK, RefsType, QueueType, TaskType, SlotAssumption, Idle, Phases

LEMMA ClaimType ==
    ASSUME TypeOK, NEW t \in Tasks, NEW S \in SUBSET Items, NEW rest \in SUBSET Items,
           Claim(t, S, rest)
    PROVE  RefsType' /\ (task \in [Tasks -> TaskType])'
<1>1. [Idle EXCEPT !.phase = "lock", !.gen = generation, !.items = S, !.rest = rest]
          \in TaskType
  BY Known DEF TaskType, Phases
<1> QED  BY <1>1, Known DEF Claim, SetTask, RefsType

LEMMA WaitType ==
    ASSUME TypeOK, NEW S \in SUBSET Items
    PROVE  [Idle EXCEPT !.phase = "cleanup", !.gen = generation, !.items = S] \in TaskType
  BY Known DEF TaskType, Phases

LEMMA StartBatchType ==
    ASSUME TypeOK, NEW t \in Tasks, NEW S \in SUBSET Items,
           NEW q \in Seq(QueuedAction), StartBatch(t, S, q)
    PROVE  Moved
<1>1. UNCHANGED refs /\ RefsType'  BY Known DEF StartBatch, refs, RefsType
<1>2. CASE running
  <2>1. Enqueue(PushBatch(q, S), S) /\ SetTask(t, Idle)  BY <1>2 DEF StartBatch
  <2> QED  BY <1>1, <2>1, Known, Pushed DEF Enqueue, SetTask, QueueType, Moved
<1>3. CASE ~running
  <2>1. Enqueue(q, {}) /\ SetTask(t, [Idle EXCEPT !.phase = "cleanup",
                                                  !.gen = generation, !.items = S])
    BY <1>3 DEF StartBatch
  <2> QED  BY <1>1, <2>1, Known, WaitType DEF Enqueue, SetTask, QueueType, Moved
<1> QED  BY <1>2, <1>3

LEMMA ResumeType ==
    ASSUME TypeOK, NEW t \in Tasks, NEW S \in SUBSET Items, NEW rest \in SUBSET Items,
           NEW q \in Seq(QueuedAction), ResumePendingUploads(t, S, rest, q)
    PROVE  Moved
<1>1. CASE running
  <2> DEFINE q1 == PushResume(q, S)
             q2 == IF rest = {} THEN q1 ELSE PushBatch(q1, rest)
  <2>1. Enqueue(q2, S \cup rest) /\ SetTask(t, Idle) /\ UNCHANGED refs
    BY <1>1 DEF ResumePendingUploads
  <2>2. q1 \in Seq(QueuedAction)  BY Pushed
  <2> HIDE DEF q1
  <2>3. q2 \in Seq(QueuedAction)  BY <2>2, Pushed
  <2> HIDE DEF q2
  <2> QED  BY <2>1, <2>3, Known DEF Enqueue, SetTask, QueueType, Moved, refs, RefsType
<1>2. CASE ~running
  <2>1. Enqueue(q, {}) /\ Claim(t, S, rest)  BY <1>2 DEF ResumePendingUploads
  <2> QED  BY <2>1, Known, ClaimType DEF Enqueue, QueueType, Moved
<1> QED  BY <1>1, <1>2

LEMMA ContinueType ==
    ASSUME TypeOK, NEW t \in Tasks, NEW taken, Continue(t, taken)
    PROVE  QueueType' /\ (task \in [Tasks -> TaskType])'
<1> DEFINE rest == task[t].rest
<1>1. rest \in SUBSET Items  BY Known DEF TaskType
<1>2. CASE rest = {}
  BY <1>2, Known DEF Continue, SetTask, QueueType
<1>3. CASE rest # {} /\ taken
  <2>1. Enqueue(PushBatch(retryQueue, rest), rest) /\ SetTask(t, Idle)
    BY <1>3 DEF Continue
  <2> QED  BY <1>1, <2>1, Known, Pushed DEF Enqueue, SetTask, QueueType
<1>4. CASE rest # {} /\ ~taken
  <2>1. /\ SetTask(t, [Idle EXCEPT !.phase = "cleanup", !.gen = generation,
                                   !.items = rest])
        /\ UNCHANGED <<retryQueue, lost>>
    BY <1>4 DEF Continue
  <2> QED  BY <1>1, <2>1, Known, WaitType DEF SetTask, QueueType
<1> QED  BY <1>2, <1>3, <1>4

LEMMA FreeSlotType ==
    ASSUME TypeOK, NEW t \in Tasks, FreeSlot(t)
    PROVE  Moved
<1>1. RefsType'
  BY Known DEF FreeSlot, RefsType, refs
<1> QED  BY <1>1, ContinueType DEF FreeSlot, Moved

\* What is left of the state.
OthersType ==
    /\ generation \in 0..MaxStops
    /\ deleting \subseteq 1..MaxStops
    /\ wakeLock \in Sentinels \cup {None}
    /\ held \subseteq Sentinels
    /\ shows \in [Shows -> [phase : {"new", "asked", "done"}, gen : 0..MaxStops]]
    /\ clicked \subseteq Items
    /\ worked \subseteq Items
    /\ revoked \subseteq Items

LEMMA TypeSplit == TypeOK <=> OthersType /\ RefsType /\ QueueType
                                /\ task \in [Tasks -> TaskType]
  BY DEF TypeOK, OthersType, RefsType, QueueType, TaskType

LEMMA Together ==
    ASSUME OthersType', Moved
    PROVE  TypeOK'
  BY TypeSplit, PTL DEF Moved

LEMMA ClicksType ==
    ASSUME TypeOK, NEW t \in Tasks,
           \/ \E S \in SUBSET Items : ChooseFiles(t, S)
           \/ \E i \in Items : ResumeRow(t, i) \/ RetryOptimistic(t, i)
    PROVE  TypeOK'
<1>0. OthersType /\ retryQueue \in Seq(QueuedAction)  BY Known, TypeSplit DEF QueueType
<1>1. OthersType'
  BY <1>0 DEF OthersType, ChooseFiles, ResumeRow, RetryOptimistic, Click, locks
<1>2. ASSUME NEW S \in SUBSET Items, ChooseFiles(t, S) PROVE Moved
  BY <1>0, <1>2, StartBatchType DEF ChooseFiles
<1>3. ASSUME NEW i \in Items, ResumeRow(t, i) PROVE Moved
  <2>1. ResumePendingUploads(t, {i}, {}, retryQueue)  BY <1>3 DEF ResumeRow
  <2>2. {i} \in SUBSET Items /\ {} \in SUBSET Items  OBVIOUS
  <2> QED  BY <1>0, <2>1, <2>2, ResumeType
<1>4. ASSUME NEW i \in Items, RetryOptimistic(t, i) PROVE Moved
  <2>1. {i} \in SUBSET Items  OBVIOUS
  <2>2. RefsType'  BY <1>4, Known DEF RetryOptimistic, refs, RefsType
  <2>3. CASE running
    <3>1. Enqueue(PushResume(retryQueue, {i}), {i}) /\ UNCHANGED task
      BY <1>4, <2>3 DEF RetryOptimistic
    <3> QED  BY <1>0, <2>1, <2>2, <3>1, Known, Pushed DEF Enqueue, QueueType, Moved
  <2>4. CASE ~running
    <3>1. /\ Enqueue(retryQueue, {})
          /\ SetTask(t, [Idle EXCEPT !.phase = "lookup", !.items = {i}])
      BY <1>4, <2>4 DEF RetryOptimistic
    <3>2. [Idle EXCEPT !.phase = "lookup", !.items = {i}] \in TaskType
      BY Known DEF TaskType, Phases
    <3> QED  BY <2>2, <3>1, <3>2, Known DEF Enqueue, SetTask, QueueType, Moved
  <2> QED  BY <2>3, <2>4
<1> QED  BY <1>1, <1>2, <1>3, <1>4, Together

LEMMA TasksType ==
    ASSUME TypeOK, NEW t \in Tasks, TaskStep(t)
    PROVE  TypeOK'
<1>0. OthersType /\ retryQueue \in Seq(QueuedAction) /\ task[t] \in TaskType
      /\ task[t].items \in SUBSET Items
  BY Known, TypeSplit DEF QueueType, TaskType
<1>1. CASE RetryLookedUp(t)
  <2>1. OthersType'  BY <1>0, <1>1 DEF OthersType, RetryLookedUp, locks
  <2>2. Moved
    <3>1. CASE ResumePendingUploads(t, task[t].items, {}, retryQueue)
      <4>1. {} \in SUBSET Items  OBVIOUS
      <4> QED  BY <1>0, <3>1, <4>1, ResumeType
    <3>2. CASE Enqueue(retryQueue \o FileActions(task[t].items), {}) /\ SetTask(t, Idle)
               /\ UNCHANGED refs
      BY <1>0, <3>2, Known, Pushed
      DEF Enqueue, SetTask, QueueType, Moved, refs, RefsType
    <3>3. CASE StartBatch(t, task[t].items, retryQueue)  BY <1>0, <3>3, StartBatchType
    <3>4. CASE Enqueue(retryQueue, {}) /\ SetTask(t, Idle) /\ UNCHANGED refs
      BY <1>0, <3>4, Known DEF Enqueue, SetTask, QueueType, Moved, refs, RefsType
    <3> QED  BY <1>1, <3>1, <3>2, <3>3, <3>4 DEF RetryLookedUp
  <2> QED  BY <2>1, <2>2, Together
<1>2. CASE CleanupDone(t)
  <2>1. OthersType'  BY <1>0, <1>2 DEF OthersType, CleanupDone, locks
  <2>2. CASE running
    <3>1. Enqueue(PushEach(retryQueue, task[t].items), task[t].items)
          /\ SetTask(t, Idle) /\ UNCHANGED refs
      BY <1>2, <2>2 DEF CleanupDone
    <3>2. Moved
      BY <1>0, <3>1, Known, Pushed DEF Enqueue, SetTask, QueueType, Moved, refs, RefsType
    <3> QED  BY <2>1, <3>2, Together
  <2>3. CASE ~running
    <3>1. Enqueue(retryQueue, {}) /\ Claim(t, task[t].items, {})
      BY <1>2, <2>3 DEF CleanupDone
    <3>2. {} \in SUBSET Items  OBVIOUS
    <3>3. Moved  BY <1>0, <3>1, <3>2, Known, ClaimType DEF Enqueue, QueueType, Moved
    <3> QED  BY <2>1, <3>3, Together
  <2> QED  BY <2>2, <2>3
<1>3. CASE WakeLockGranted(t)
  <2>1. OthersType'  BY <1>0, <1>3 DEF OthersType, WakeLockGranted, Sentinels
  <2>2. [task[t] EXCEPT !.phase = "body"] \in TaskType  BY <1>0 DEF TaskType, Phases
  <2>3. Moved
    BY <1>3, <2>2, Known
    DEF WakeLockGranted, SetTask, Moved, refs, RefsType, QueueType
  <2> QED  BY <2>1, <2>3, Together
<1>4. CASE WakeLockTooLate(t)
  <2>1. OthersType'  BY <1>0, <1>4 DEF OthersType, WakeLockTooLate, locks
  <2>2. RefsType'  BY <1>4, Known DEF WakeLockTooLate, RefsType
  <2>3. Moved  BY <1>4, <2>2, ContinueType DEF WakeLockTooLate, Moved
  <2> QED  BY <2>1, <2>3, Together
<1>5. ASSUME NEW i \in Items, AddOptimisticEntry(t, i) PROVE TypeOK'
  <2>1. OthersType' /\ QueueType' /\ RefsType'
    BY <1>0, <1>5, Known
    DEF OthersType, AddOptimisticEntry, locks, history, QueueType, RefsType
  <2>2. [task[t] EXCEPT !.added = @ \cup {i}] \in TaskType  BY <1>0 DEF TaskType
  <2>3. Moved  BY <1>5, <2>1, <2>2, Known DEF AddOptimisticEntry, SetTask, Moved
  <2> QED  BY <2>1, <2>3, Together
<1>6. CASE BodyEnds(t)
  <2>1. OthersType' /\ QueueType' /\ RefsType'
    BY <1>0, <1>6, Known DEF OthersType, BodyEnds, refs, history, QueueType, RefsType
  <2>2. [task[t] EXCEPT !.phase = "release"] \in TaskType  BY <1>0 DEF TaskType, Phases
  <2>3. Moved  BY <1>6, <2>1, <2>2, Known DEF BodyEnds, SetTask, Moved
  <2> QED  BY <2>1, <2>3, Together
<1>7. CASE WakeLockReleased(t)
  <2>1. OthersType'  BY <1>0, <1>7 DEF OthersType, WakeLockReleased
  <2>2. CASE HoldsAnother(t)
    <3>1. [task[t] EXCEPT !.phase = "release2"] \in TaskType  BY <1>0 DEF TaskType, Phases
    <3>2. Moved
      BY <1>7, <2>2, <3>1, Known
      DEF WakeLockReleased, SetTask, Moved, refs, RefsType, QueueType
    <3> QED  BY <2>1, <3>2, Together
  <2>3. CASE ~HoldsAnother(t)
    BY <1>7, <2>1, <2>3, FreeSlotType, Together DEF WakeLockReleased
  <2> QED  BY <2>2, <2>3
<1>8. CASE OtherReleased(t)
  <2>1. OthersType'  BY <1>0, <1>8 DEF OthersType, OtherReleased
  <2> QED  BY <1>8, <2>1, FreeSlotType, Together DEF OtherReleased
<1> QED  BY <1>1, <1>2, <1>3, <1>4, <1>5, <1>6, <1>7, <1>8 DEF TaskStep

LEMMA DrainType ==
    ASSUME TypeOK, NEW t \in Tasks, Drain(t)
    PROVE  TypeOK'
<1> DEFINE acts == {retryQueue[n] : n \in DOMAIN retryQueue}
           resumes == UNION {a.items : a \in {b \in acts : b.type = "resume"}}
           files == UNION {a.items : a \in {b \in acts : b.type = "file"}}
<1>0. OthersType /\ retryQueue \in Seq(QueuedAction)  BY Known, TypeSplit DEF QueueType
<1>1. acts \subseteq QueuedAction  BY <1>0, LenProperties, ElementOfSeq
<1>2. resumes \in SUBSET Items /\ files \in SUBSET Items  BY <1>1 DEF QueuedAction
<1>3. \/ ResumePendingUploads(t, resumes, files, <<>>)
      \/ StartBatch(t, files, <<>>)
  BY DEF Drain
<1>4. <<>> \in Seq(QueuedAction)  BY EmptySeq
<1> HIDE DEF resumes, files
<1>5. Moved  BY <1>2, <1>3, <1>4, ResumeType, StartBatchType
<1>6. OthersType'  BY <1>0 DEF OthersType, Drain, locks
<1> QED  BY <1>5, <1>6, Together

LEMMA StopType ==
    ASSUME TypeOK, CancelBatch \/ LockUploadSession
    PROVE  TypeOK'
<1>0. OthersType /\ StopUploads  BY TypeSplit DEF CancelBatch, LockUploadSession
<1>1. /\ generation \in Nat /\ generation < MaxStops /\ MaxStops \in Nat
      /\ generation' = generation + 1
      /\ deleting' \subseteq deleting \cup {generation + 1}
  BY <1>0, Known DEF StopUploads, CancelBatch, LockUploadSession
<1>2. revoked' \subseteq Items
  <2>1. ItemsOf(retryQueue) \subseteq Items  BY Known, ItemsOfQueue DEF QueueType
  <2>2. \A t \in Tasks : Asked(t) \subseteq Items  BY Known DEF Asked, TaskType
  <2> QED  BY <1>0, <2>1, <2>2 DEF StopUploads, OthersType
<1>3. OthersType'
  BY <1>0, <1>1, <1>2 DEF OthersType, StopUploads
<1>4. \A t \in Tasks : [task[t] EXCEPT !.aborted = TRUE] \in TaskType
  BY Known DEF TaskType
<1>5. RefsType' /\ QueueType'
  BY <1>0, Known, EmptySeq DEF StopUploads, RefsType, QueueType
<1>6. Moved  BY <1>0, <1>4, <1>5, Known DEF StopUploads, Moved
<1> QED  BY <1>3, <1>6, Together

LEMMA PageType ==
    ASSUME TypeOK,
           \/ \E k \in Shows : PageShown(k) \/ PageLockGranted(k)
           \/ \E g \in 1..MaxStops : RowsDeleted(g)
           \/ UNCHANGED vars
    PROVE  TypeOK'
<1>0. OthersType  BY TypeSplit
<1>1. OthersType'
  BY <1>0 DEF OthersType, PageShown, PageLockGranted, RowsDeleted, locks, history, vars,
              Sentinels
<1>2. Moved
  BY Known DEF PageShown, PageLockGranted, RowsDeleted, refs, history, vars, RefsType,
               QueueType, Moved
<1> QED  BY <1>1, <1>2, Together

LEMMA TypeInit == Init => TypeOK
<1> SUFFICES ASSUME Init PROVE TypeOK  OBVIOUS
<1>1. 0 \in 0..MaxStops  BY SlotAssumption DEF SlotAssumption
<1>2. Idle \in TaskType  BY <1>1 DEF Idle, TaskType, Phases
<1>3. shows \in [Shows -> [phase : {"new", "asked", "done"}, gen : 0..MaxStops]]
  BY <1>1 DEF Init
<1>4. retryQueue \in Seq(QueuedAction)  BY EmptySeq DEF Init
<1>5. OthersType  BY <1>1, <1>3 DEF Init, OthersType
<1> QED  BY <1>2, <1>4, <1>5, TypeSplit DEF Init, RefsType, QueueType

LEMMA TypeNext == TypeOK /\ [Next]_vars => TypeOK'
<1> SUFFICES ASSUME TypeOK, [Next]_vars PROVE TypeOK'  OBVIOUS
<1>1. CASE UserStep  BY <1>1, ClicksType, StopType, PageType DEF UserStep
<1>2. CASE \E t \in Tasks : TaskStep(t) \/ Drain(t)  BY <1>2, TasksType, DrainType
<1> QED  BY <1>1, <1>2, PageType DEF Next

\* The references of the slot, the call chains and the retry queue keep their
\* types: what the queue holds are clicks.
THEOREM SlotTypeCorrect == Spec => []TypeOK
  BY TypeInit, TypeNext, PTL DEF Spec

-----------------------------------------------------------------------------
(***************************************************************************)
(* The slot, in a browser without wake locks.                              *)
(***************************************************************************)

\* The call chain t becomes one that has no slot.
Rests(t) == \E r : r.phase \notin Holding /\ SetTask(t, r)

LEMMA IdleRests == Idle.phase \notin Holding
  BY DEF Idle, Holding

LEMMA WaitRests ==
    ASSUME NEW phase \in {"cleanup", "lookup"}, NEW g, NEW S
    PROVE  /\ [Idle EXCEPT !.phase = phase, !.gen = g, !.items = S].phase \notin Holding
           /\ [Idle EXCEPT !.phase = phase, !.items = S].phase \notin Holding
  BY DEF Idle, Holding

LEMMA StartBatchRests ==
    ASSUME NEW t \in Tasks, NEW S, NEW q, StartBatch(t, S, q)
    PROVE  UNCHANGED refs /\ Rests(t)
<1>1. CASE running  BY <1>1, IdleRests DEF StartBatch, Rests
<1>2. CASE ~running  BY <1>2, WaitRests DEF StartBatch, Rests
<1> QED  BY <1>1, <1>2

LEMMA ResumeRestsOrClaims ==
    ASSUME NEW t \in Tasks, NEW S, NEW rest, NEW q, ResumePendingUploads(t, S, rest, q)
    PROVE  \/ UNCHANGED refs /\ Rests(t)
           \/ ~running /\ Claim(t, S, rest)
<1>1. CASE running  BY <1>1, IdleRests DEF ResumePendingUploads, Rests
<1>2. CASE ~running  BY <1>2 DEF ResumePendingUploads
<1> QED  BY <1>1, <1>2

LEMMA ContinueRests ==
    ASSUME NEW t \in Tasks, NEW taken, Continue(t, taken)
    PROVE  Rests(t)
<1> DEFINE rest == task[t].rest
<1>1. CASE SetTask(t, Idle)  BY <1>1, IdleRests DEF Rests
<1>2. CASE SetTask(t, [Idle EXCEPT !.phase = "cleanup", !.gen = generation, !.items = rest])
  BY <1>2, WaitRests DEF Rests
<1> QED  BY <1>1, <1>2 DEF Continue

\* What another call chain's step leaves alone.
LEMMA TaskSet ==
    ASSUME TypeOK, NEW t \in Tasks, NEW r, SetTask(t, r)
    PROVE  task'[t] = r /\ \A u \in Tasks \ {t} : task'[u] = task[u]
  BY Known DEF SetTask

\* A call chain without a slot stays without one, or finds it free.
LEMMA InvOutside ==
    ASSUME TypeOK, SlotInv, NEW t \in Tasks, task[t].phase \notin Holding,
           UNCHANGED <<generation, wakeLock, shows>>,
           \/ UNCHANGED refs /\ (Rests(t) \/ UNCHANGED task)
           \/ ~running /\ \E S, rest : Claim(t, S, rest)
    PROVE  SlotInv'
<1>1. CASE UNCHANGED refs /\ UNCHANGED task  BY <1>1 DEF SlotInv, refs
<1>2. CASE UNCHANGED refs /\ Rests(t)
  <2>1. PICK r : r.phase \notin Holding /\ SetTask(t, r)  BY <1>2 DEF Rests
  <2>2. task'[t] = r /\ \A u \in Tasks \ {t} : task'[u] = task[u]  BY <2>1, TaskSet
  <2> QED  BY <1>2, <2>1, <2>2 DEF SlotInv, refs, Holding
<1>3. ASSUME ~running, NEW S, NEW rest, Claim(t, S, rest) PROVE SlotInv'
  <2> DEFINE r == [Idle EXCEPT !.phase = "lock", !.gen = generation, !.items = S,
                               !.rest = rest]
  <2>1. SetTask(t, r) /\ running' = TRUE /\ controller' = t /\ active' = active
    BY <1>3 DEF Claim
  <2>2. r.phase = "lock" /\ r.gen = generation /\ r.added = {}  BY DEF Idle
  <2> HIDE DEF r
  <2>3. task'[t] = r /\ \A u \in Tasks \ {t} : task'[u] = task[u]  BY <2>1, TaskSet
  <2>4. generation \in Nat  BY Known
  <2>5. \A u \in Tasks : task[u].phase \in Holding => task[u].gen # generation
    BY <1>3 DEF SlotInv
  <2> QED  BY <2>1, <2>2, <2>3, <2>4, <2>5 DEF SlotInv, Holding
<1> QED  BY <1>1, <1>2, <1>3

\* A call chain that holds the slot goes on holding it.
LEMMA InvHolding ==
    ASSUME TypeOK, SlotInv, NEW t \in Tasks, task[t].phase \in Holding,
           UNCHANGED <<generation, wakeLock, shows, running, controller>>,
           active \subseteq active', NEW r, SetTask(t, r),
           r.phase \in {"body", "release"}, r.gen = task[t].gen,
           r.gen = generation => r.added \subseteq active'
    PROVE  SlotInv'
<1>1. task'[t] = r /\ \A u \in Tasks \ {t} : task'[u] = task[u]  BY TaskSet
<1> QED  BY <1>1 DEF SlotInv, Holding

\* The slot of the current generation is freed by the chain that has it; the
\* tail of an older one leaves the slot alone.
LEMMA InvFreed ==
    ASSUME TypeOK, SlotInv, NEW t \in Tasks, task[t].phase \in Holding, FreeSlot(t),
           UNCHANGED <<generation, wakeLock, shows>>
    PROVE  /\ SlotInv'
           /\ task[t].gen # generation => UNCHANGED refs
<1>1. Rests(t)  BY ContinueRests DEF FreeSlot
<1>2. PICK r : r.phase \notin Holding /\ SetTask(t, r)  BY <1>1 DEF Rests
<1>3. task'[t] = r /\ \A u \in Tasks \ {t} : task'[u] = task[u]  BY <1>2, TaskSet
<1>4. CASE task[t].gen # generation
  <2>1. UNCHANGED refs  BY <1>4 DEF FreeSlot
  <2> QED  BY <1>2, <1>3, <1>4, <2>1 DEF SlotInv, refs, Holding
<1>5. CASE task[t].gen = generation
  <2>1. controller = t  BY <1>5 DEF SlotInv
  <2>2. \A u \in Tasks \ {t} : task[u].phase \in Holding => task[u].gen # generation
    BY <2>1 DEF SlotInv
  <2> QED  BY <1>2, <1>3, <1>5, <2>2 DEF SlotInv, Holding
<1> QED  BY <1>4, <1>5

LEMMA InvClicks ==
    ASSUME TypeOK, SlotInv, NEW t \in Tasks,
           \/ \E S \in SUBSET Items : ChooseFiles(t, S)
           \/ \E i \in Items : ResumeRow(t, i) \/ RetryOptimistic(t, i)
           \/ Drain(t)
    PROVE  SlotInv' /\ task[t].phase \notin Holding
<1>1. task[t].phase \notin Holding /\ UNCHANGED <<generation, wakeLock, shows>>
  BY DEF ChooseFiles, ResumeRow, RetryOptimistic, Drain, locks, Holding
<1>2. ASSUME NEW S, NEW q, StartBatch(t, S, q) PROVE SlotInv'
  BY <1>1, <1>2, StartBatchRests, InvOutside
<1>3. ASSUME NEW S, NEW rest, NEW q, ResumePendingUploads(t, S, rest, q) PROVE SlotInv'
  BY <1>1, <1>3, ResumeRestsOrClaims, InvOutside
<1>4. ASSUME NEW i \in Items, RetryOptimistic(t, i) PROVE SlotInv'
  <2>1. UNCHANGED refs /\ (Rests(t) \/ UNCHANGED task)
    BY <1>4, WaitRests DEF RetryOptimistic, Rests
  <2> QED  BY <1>1, <2>1, InvOutside
<1>5. CASE Drain(t)
  <2> DEFINE acts == {retryQueue[n] : n \in DOMAIN retryQueue}
             resumes == UNION {a.items : a \in {b \in acts : b.type = "resume"}}
             files == UNION {a.items : a \in {b \in acts : b.type = "file"}}
  <2>1. \/ ResumePendingUploads(t, resumes, files, <<>>)
        \/ StartBatch(t, files, <<>>)
    BY <1>5 DEF Drain
  <2> HIDE DEF resumes, files
  <2>2. ASSUME ResumePendingUploads(t, resumes, files, <<>>) PROVE SlotInv'
    BY <1>3, <2>2
  <2>3. ASSUME StartBatch(t, files, <<>>) PROVE SlotInv'  BY <1>2, <2>3
  <2> QED  BY <1>1, <2>1, <2>2, <2>3
<1> QED  BY <1>1, <1>2, <1>3, <1>4, <1>5 DEF ChooseFiles, ResumeRow

\* A step of a call chain: the invariant stays, and a chain of an older
\* generation leaves the references alone.
LEMMA InvTask ==
    ASSUME ~WakeLockSupported, TypeOK, SlotInv, NEW t \in Tasks, TaskStep(t)
    PROVE  /\ SlotInv'
           /\ task[t].phase \in Holding /\ task[t].gen # generation => UNCHANGED refs
<1>1. CASE RetryLookedUp(t)
  <2>1. task[t].phase \notin Holding /\ UNCHANGED <<generation, wakeLock, shows>>
    BY <1>1 DEF RetryLookedUp, locks, Holding
  <2>2. \/ UNCHANGED refs /\ Rests(t)
        \/ ~running /\ \E S, rest : Claim(t, S, rest)
    <3>1. CASE ResumePendingUploads(t, task[t].items, {}, retryQueue)
      BY <3>1, ResumeRestsOrClaims
    <3>2. CASE StartBatch(t, task[t].items, retryQueue)  BY <3>2, StartBatchRests
    <3>3. CASE SetTask(t, Idle) /\ UNCHANGED refs  BY <3>3, IdleRests DEF Rests
    <3> QED  BY <1>1, <3>1, <3>2, <3>3 DEF RetryLookedUp
  <2> QED  BY <2>1, <2>2, InvOutside
<1>2. CASE CleanupDone(t)
  <2>1. task[t].phase \notin Holding /\ UNCHANGED <<generation, wakeLock, shows>>
    BY <1>2 DEF CleanupDone, CleanedUp, locks, Holding
  <2>2. \/ UNCHANGED refs /\ Rests(t)
        \/ ~running /\ \E S, rest : Claim(t, S, rest)
    BY <1>2, IdleRests DEF CleanupDone, Rests
  <2> QED  BY <2>1, <2>2, InvOutside
<1>3. CASE WakeLockGranted(t)
  <2> DEFINE r == [task[t] EXCEPT !.phase = "body"]
  <2>1. /\ task[t].phase = "lock" /\ task[t].gen = generation /\ SetTask(t, r)
        /\ wakeLock' = None /\ UNCHANGED <<generation, refs, shows>>
    BY <1>3 DEF WakeLockGranted
  <2>2. wakeLock = None  BY DEF SlotInv
  <2>3. r.phase = "body" /\ r.gen = task[t].gen /\ r.added = task[t].added
    BY Known DEF TaskType
  <2> HIDE DEF r
  <2>4. task[t].added \subseteq active  BY <2>1 DEF SlotInv, Holding
  <2> QED  BY <2>1, <2>2, <2>3, <2>4, InvHolding DEF refs, Holding
<1>4. CASE WakeLockTooLate(t)  BY <1>4 DEF WakeLockTooLate, SlotInv
<1>5. ASSUME NEW i \in Items, AddOptimisticEntry(t, i)
      PROVE  SlotInv' /\ task[t].gen = generation
  <2> DEFINE a == task[t].added \cup {i}
             r == [task[t] EXCEPT !.added = a]
  <2>1. /\ task[t].phase = "body" /\ task[t].gen = generation /\ SetTask(t, r)
        /\ active' = (IF running THEN active \cup {i} ELSE active)
        /\ UNCHANGED <<generation, running, controller, wakeLock, shows>>
    BY <1>5 DEF AddOptimisticEntry, locks
  <2>2. running /\ task[t].added \subseteq active  BY <2>1 DEF SlotInv, Holding
  <2>3. r.phase = "body" /\ r.gen = generation /\ r.added = a
    BY <2>1, Known DEF TaskType
  <2>4. a \subseteq active' /\ active \subseteq active'  BY <2>1, <2>2
  <2> HIDE DEF r, a
  <2> QED  BY <2>1, <2>3, <2>4, InvHolding DEF Holding
<1>6. CASE BodyEnds(t)
  <2> DEFINE r == [task[t] EXCEPT !.phase = "release"]
  <2>1. /\ task[t].phase = "body" /\ SetTask(t, r)
        /\ UNCHANGED <<generation, refs, wakeLock, shows>>
    BY <1>6 DEF BodyEnds
  <2>2. r.phase = "release" /\ r.gen = task[t].gen /\ r.added = task[t].added
    BY Known DEF TaskType
  <2> HIDE DEF r
  <2>3. task[t].gen = generation => task[t].added \subseteq active
    BY <2>1 DEF SlotInv, Holding
  <2> QED  BY <2>1, <2>2, <2>3, InvHolding DEF refs, Holding
<1>7. CASE WakeLockReleased(t)
  <2>1. wakeLock = None /\ ~HoldsAnother(t)  BY DEF SlotInv, HoldsAnother
  <2>2. /\ task[t].phase \in Holding /\ FreeSlot(t)
        /\ UNCHANGED <<generation, wakeLock, shows>>
    BY <1>7, <2>1 DEF WakeLockReleased, Holding
  <2> QED  BY <2>2, InvFreed
<1>8. CASE OtherReleased(t)  BY <1>8 DEF OtherReleased, SlotInv
<1> QED  BY <1>1, <1>2, <1>3, <1>4, <1>5, <1>6, <1>7, <1>8 DEF TaskStep

\* A cancel or a lock leaves no call chain of the new generation.
LEMMA InvStop ==
    ASSUME ~WakeLockSupported, TypeOK, SlotInv, CancelBatch \/ LockUploadSession
    PROVE  SlotInv' /\ generation' # generation
<1>1. StopUploads /\ Settled  BY DEF CancelBatch, LockUploadSession, StopUploads
<1>2. /\ generation' = generation + 1 /\ generation \in Nat
      /\ wakeLock' = None /\ UNCHANGED shows
      /\ task' = [t \in Tasks |-> IF t = controller THEN [task[t] EXCEPT !.aborted = TRUE]
                                  ELSE task[t]]
  BY <1>1, Known DEF StopUploads
<1>3. ASSUME NEW t \in Tasks
      PROVE  /\ task'[t].phase = task[t].phase /\ task'[t].gen = task[t].gen
             /\ task[t].gen \in Nat
  BY <1>2, Known DEF TaskType
<1>4. \A t \in Tasks : task[t].phase # "lock"  BY <1>1 DEF Settled
<1> QED  BY <1>2, <1>3, <1>4 DEF SlotInv

LEMMA InvPage ==
    ASSUME ~WakeLockSupported, TypeOK, SlotInv,
           \/ \E k \in Shows : PageShown(k) \/ PageLockGranted(k)
           \/ \E g \in 1..MaxStops : RowsDeleted(g)
           \/ UNCHANGED vars
    PROVE  SlotInv' /\ UNCHANGED refs
<1>1. CASE (\E g \in 1..MaxStops : RowsDeleted(g)) \/ UNCHANGED vars
  BY <1>1 DEF RowsDeleted, vars, locks, refs, SlotInv
<1>2. ASSUME NEW k \in Shows, PageShown(k) PROVE SlotInv' /\ UNCHANGED refs
  <2>1. shows' = [shows EXCEPT ![k] = [phase |-> "done", gen |-> generation]]
    BY <1>2 DEF PageShown
  <2>2. \A j \in Shows : shows'[j].phase # "asked"  BY <2>1 DEF SlotInv, TypeOK
  <2> QED  BY <1>2, <2>2 DEF PageShown, refs, SlotInv
<1>3. ASSUME NEW k \in Shows, PageLockGranted(k) PROVE FALSE
  BY <1>3 DEF PageLockGranted, SlotInv
<1> QED  BY <1>1, <1>2, <1>3

\* A step of a call chain is a step of no other.
LEMMA OneChain ==
    ASSUME TypeOK, NEW u \in Tasks,
           \/ TaskStep(u)
           \/ \E S \in SUBSET Items : ChooseFiles(u, S)
           \/ \E i \in Items : ResumeRow(u, i) \/ RetryOptimistic(u, i)
           \/ Drain(u),
           NEW t \in Tasks, task'[t] # task[t]
    PROVE  u = t
<1> DEFINE One == UNCHANGED task \/ \E r : SetTask(u, r)
<1>1. ASSUME One PROVE u = t  BY <1>1, TaskSet
<1>2. ASSUME NEW S, NEW rest, Claim(u, S, rest) PROVE One  BY <1>2 DEF Claim
<1>3. ASSUME Rests(u) PROVE One  BY <1>3 DEF Rests
<1>4. ASSUME NEW S, NEW q, StartBatch(u, S, q) PROVE One
  BY <1>3, <1>4, StartBatchRests
<1>5. ASSUME NEW S, NEW rest, NEW q, ResumePendingUploads(u, S, rest, q) PROVE One
  BY <1>2, <1>3, <1>5, ResumeRestsOrClaims
<1>6. ASSUME NEW taken, Continue(u, taken) PROVE One  BY <1>3, <1>6, ContinueRests
<1>7. ASSUME FreeSlot(u) PROVE One  BY <1>6, <1>7 DEF FreeSlot
<1> HIDE DEF One
<1>8. ASSUME NEW r, SetTask(u, r) PROVE One  BY <1>8 DEF One
<1>9. ASSUME UNCHANGED task PROVE One  BY <1>9 DEF One
<1>10. CASE Drain(u)
  <2> DEFINE acts == {retryQueue[n] : n \in DOMAIN retryQueue}
             resumes == UNION {a.items : a \in {b \in acts : b.type = "resume"}}
             files == UNION {a.items : a \in {b \in acts : b.type = "file"}}
  <2>1. \/ ResumePendingUploads(u, resumes, files, <<>>)
        \/ StartBatch(u, files, <<>>)
    BY <1>10 DEF Drain
  <2> HIDE DEF resumes, files
  <2> QED  BY <1>1, <1>4, <1>5, <2>1
<1>11. ASSUME NEW i \in Items, RetryOptimistic(u, i) PROVE One
  <2>1. CASE running  BY <1>9, <1>11, <2>1 DEF RetryOptimistic
  <2>2. CASE ~running  BY <1>8, <1>11, <2>2 DEF RetryOptimistic
  <2> QED  BY <2>1, <2>2
<1>12. CASE TaskStep(u)
  <2>1. CASE RetryLookedUp(u)  BY <1>1, <1>4, <1>5, <1>8, <2>1 DEF RetryLookedUp
  <2>2. CASE CleanupDone(u)  BY <1>1, <1>2, <1>8, <2>2 DEF CleanupDone
  <2>3. CASE WakeLockGranted(u) \/ BodyEnds(u) \/ \E i \in Items : AddOptimisticEntry(u, i)
    BY <1>1, <1>8, <2>3 DEF WakeLockGranted, BodyEnds, AddOptimisticEntry
  <2>4. CASE WakeLockTooLate(u)  BY <1>1, <1>6, <2>4 DEF WakeLockTooLate
  <2>5. CASE WakeLockReleased(u) \/ OtherReleased(u)
    BY <1>1, <1>7, <1>8, <2>5 DEF WakeLockReleased, OtherReleased
  <2> QED  BY <1>12, <2>1, <2>2, <2>3, <2>4, <2>5 DEF TaskStep
<1>13. ASSUME NEW S \in SUBSET Items, ChooseFiles(u, S) PROVE One
  BY <1>4, <1>13 DEF ChooseFiles
<1>14. ASSUME NEW i \in Items, ResumeRow(u, i) PROVE One
  BY <1>5, <1>14 DEF ResumeRow
<1> QED  BY <1>1, <1>10, <1>11, <1>12, <1>13, <1>14

LEMMA SlotInvariant ==
    ASSUME ~WakeLockSupported
    PROVE  Spec => []SlotInv
<1>1. Init => SlotInv
  BY DEF Init, SlotInv, Idle, Holding
<1>2. TypeOK /\ SlotInv /\ [Next]_vars => SlotInv'
  <2> SUFFICES ASSUME TypeOK, SlotInv, [Next]_vars PROVE SlotInv'  OBVIOUS
  <2>1. CASE UserStep  BY <2>1, InvClicks, InvStop, InvPage DEF UserStep
  <2>2. CASE \E t \in Tasks : TaskStep(t) \/ Drain(t)  BY <2>2, InvTask, InvClicks
  <2> QED  BY <2>1, <2>2, InvPage DEF Next
<1> QED  BY <1>1, <1>2, SlotTypeCorrect, PTL DEF Spec

\* Two uploads of one generation never run side by side, however many starts,
\* retries, drains, cancels and locks interleave.
THEOREM OneUploadAtATime ==
    ASSUME ~WakeLockSupported
    PROVE  Spec => []OneUpload
<1>1. SlotInv => OneUpload  BY DEF SlotInv, OneUpload, Live
<1> QED  BY <1>1, SlotInvariant, PTL

\* A cancel reaches the upload that runs and deletes every row it announced.
THEOREM CancelAlwaysReaches ==
    ASSUME ~WakeLockSupported
    PROVE  Spec => []CancelReaches
<1>1. SlotInv => CancelReaches  BY DEF SlotInv, CancelReaches, Live
<1> QED  BY <1>1, SlotInvariant, PTL

\* A call chain a cancel or a lock has overtaken leaves the slot of its
\* successor alone, whichever of its callbacks comes late.
THEOREM LateCallbacksStayInert ==
    ASSUME ~WakeLockSupported
    PROVE  Spec => LateCallbacksInert
<1> DEFINE Inert == \A t \in Tasks :
                       /\ task[t].phase \in Holding
                       /\ task[t].gen # generation
                       /\ task'[t] # task[t]
                       /\ generation' = generation
                       => UNCHANGED refs
<1>1. TypeOK /\ SlotInv /\ [Next]_vars => [Inert]_vars
  <2> SUFFICES ASSUME TypeOK, SlotInv, [Next]_vars, NEW t \in Tasks,
                      task[t].phase \in Holding, task[t].gen # generation,
                      task'[t] # task[t], generation' = generation
               PROVE  UNCHANGED refs
    OBVIOUS
  <2>1. CASE CancelBatch \/ LockUploadSession  BY <2>1, InvStop
  <2>2. CASE \/ \E k \in Shows : PageShown(k) \/ PageLockGranted(k)
             \/ \E g \in 1..MaxStops : RowsDeleted(g)
             \/ UNCHANGED vars
    BY <2>2, InvPage
  <2>3. ASSUME NEW u \in Tasks, TaskStep(u) PROVE UNCHANGED refs
    <3>1. u = t  BY <2>3, OneChain
    <3> QED  BY <2>3, <3>1, InvTask
  <2>4. ASSUME NEW u \in Tasks,
               \/ \E S \in SUBSET Items : ChooseFiles(u, S)
               \/ \E i \in Items : ResumeRow(u, i) \/ RetryOptimistic(u, i)
               \/ Drain(u)
        PROVE  FALSE
    <3>1. u = t  BY <2>4, OneChain
    <3> QED  BY <2>4, <3>1, InvClicks
  <2> QED  BY <2>1, <2>2, <2>3, <2>4 DEF Next, UserStep
<1> QED  BY <1>1, SlotTypeCorrect, SlotInvariant, PTL DEF Spec, LateCallbacksInert
=============================================================================
