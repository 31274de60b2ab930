----------------------------- MODULE CryptoPool -----------------------------
(***************************************************************************)
(* The pool of Web Workers that encrypts, decrypts and draws thumbnails    *)
(* (workers/cryptoWorkerPool.js), and the handler of a worker              *)
(* (workers/cryptoWorker.js).                                              *)
(*                                                                         *)
(* A handler of the pool runs to its end.  What interleaves is the calls   *)
(* of dispatch, the answers and crashes of the workers, a microtask, and   *)
(* the shutdown at a lock, after which the next dispatch builds a new pool *)
(* while events of the old one may still come.                             *)
(***************************************************************************)
EXTENDS Integers, Sequences, FiniteSets

CONSTANTS
    CryptoTasks,   \* the tasks; each is dispatched once
    POOL_SIZE,     \* workers of a pool
    MaxShutdowns,  \* bound: how often the pool is shut down
    NoTask         \* slot.task = null

ASSUME PoolAssumption ==
    /\ POOL_SIZE \in Nat \ {0}
    /\ MaxShutdowns \in Nat
    /\ NoTask \notin CryptoTasks

VARIABLES
    slots,        \* the task of each slot; empty when there is no pool
    queue,        \* tasks that wait for a slot
    terminated,   \* the flag of that name
    microtasks,   \* pumps put off by queueMicrotask
    promise,      \* what each task's promise has come to
    shutdowns     \* how often the pool was shut down

poolVars == <<slots, queue, terminated, microtasks, promise, shutdowns>>

PoolTypeOK ==
    /\ slots \in {<<>>} \cup [1 .. POOL_SIZE -> CryptoTasks \cup {NoTask}]
    /\ queue \in Seq(CryptoTasks)
    /\ terminated \in BOOLEAN
    /\ microtasks \in Nat
    /\ promise \in [CryptoTasks -> {"none", "pending", "result", "error"}]
    /\ shutdowns \in 0 .. MaxShutdowns

PoolInit ==
    /\ slots = <<>>
    /\ queue = <<>>
    /\ terminated = FALSE
    /\ microtasks = 0
    /\ promise = [t \in CryptoTasks |-> "none"]
    /\ shutdowns = 0

-----------------------------------------------------------------------------
FreshSlots == [i \in 1 .. POOL_SIZE |-> NoTask]

IdleUpTo(s, i) == Cardinality({j \in 1 .. i : s[j] = NoTask})

(* The i-th slot takes the first task that the idle slots before it leave. *)
TakenBy(s, q, i) ==
    IF s[i] = NoTask /\ IdleUpTo(s, i) <= Len(q) THEN q[IdleUpTo(s, i)] ELSE NoTask

(* pumpQueue, with the slots s, the queue q and the promises p.  Some of   *)
(* the messages may not be posted: their tasks fail, their slots stay      *)
(* idle, and a microtask pumps again.                                      *)
PumpQueue(s, q, p, m) ==
    LET taken == {TakenBy(s, q, i) : i \in DOMAIN s} \ {NoTask}
    IN  \E refused \in SUBSET taken :
            /\ slots' = [i \in DOMAIN s |->
                            IF TakenBy(s, q, i) \notin refused \cup {NoTask}
                            THEN TakenBy(s, q, i) ELSE s[i]]
            /\ queue' = SubSeq(q, Cardinality(taken) + 1, Len(q))
            /\ promise' = [t \in DOMAIN p |-> IF t \in refused THEN "error" ELSE p[t]]
            /\ microtasks' = m + Cardinality(refused)

(* dispatch: a missing pool is built first.                                *)
Dispatch(t) ==
    /\ promise[t] = "none"
    /\ terminated' = IF slots = <<>> THEN FALSE ELSE terminated
    /\ PumpQueue(IF slots = <<>> THEN FreshSlots ELSE slots,
                 Append(queue, t), [promise EXCEPT ![t] = "pending"], microtasks)
    /\ UNCHANGED shutdowns

(* A worker answers its task: with a result, or with the error it caught.  *)
Answer(i, type) ==
    /\ i \in DOMAIN slots
    /\ slots[i] # NoTask
    /\ PumpQueue([slots EXCEPT ![i] = NoTask], queue,
                 [promise EXCEPT ![slots[i]] = type], microtasks)
    /\ UNCHANGED <<terminated, shutdowns>>

(* Mutant of Crash: the queue is not pumped after a crash.                 *)
CrashQuietly(i) ==
    /\ i \in DOMAIN slots
    /\ promise' = [t \in CryptoTasks |-> IF t = slots[i] THEN "error" ELSE promise[t]]
    /\ slots' = [slots EXCEPT ![i] = NoTask]
    /\ UNCHANGED <<queue, microtasks, terminated, shutdowns>>

(* A worker crashes, idle or not, and another one takes its slot.          *)
Crash(i) ==
    /\ i \in DOMAIN slots
    /\ PumpQueue([slots EXCEPT ![i] = NoTask], queue,
                 [t \in CryptoTasks |-> IF t = slots[i] THEN "error" ELSE promise[t]],
                 microtasks)
    /\ UNCHANGED <<terminated, shutdowns>>

(* The microtask, and a late event of a worker of a pool that is gone: its *)
(* task was rejected at the shutdown, and its slot is in no pool.          *)
PumpAgain(m) ==
    /\ IF terminated
       THEN UNCHANGED <<slots, queue, promise>> /\ microtasks' = m
       ELSE PumpQueue(slots, queue, promise, m)
    /\ UNCHANGED <<terminated, shutdowns>>

Microtask == microtasks > 0 /\ PumpAgain(microtasks - 1)
LateEvent == shutdowns > 0 /\ PumpAgain(microtasks)

(* Mutant of ShutdownPool: only the queued tasks are rejected.             *)
ShutdownQueued ==
    /\ shutdowns < MaxShutdowns
    /\ shutdowns' = shutdowns + 1
    /\ terminated' = TRUE
    /\ promise' = [t \in CryptoTasks |->
                      IF \E i \in DOMAIN queue : queue[i] = t THEN "error" ELSE promise[t]]
    /\ queue' = <<>>
    /\ slots' = <<>>
    /\ UNCHANGED microtasks

(* shutdownPool: every task that is queued or at work is rejected.         *)
ShutdownPool ==
    /\ shutdowns < MaxShutdowns
    /\ shutdowns' = shutdowns + 1
    /\ terminated' = TRUE
    /\ promise' = [t \in CryptoTasks |->
                      IF \/ \E i \in DOMAIN queue : queue[i] = t
                         \/ \E i \in DOMAIN slots : slots[i] = t
                      THEN "error" ELSE promise[t]]
    /\ queue' = <<>>
    /\ slots' = <<>>
    /\ UNCHANGED microtasks

Finishes(i) == Crash(i) \/ \E type \in {"result", "error"} : Answer(i, type)

PoolNext ==
    \/ \E t \in CryptoTasks : Dispatch(t)
    \/ \E i \in 1 .. POOL_SIZE : Finishes(i)
    \/ Microtask
    \/ LateEvent
    \/ ShutdownPool

(* A microtask runs, and a worker that was given a task answers or crashes.*)
PoolFairness ==
    /\ WF_poolVars(Microtask)
    /\ \A i \in 1 .. POOL_SIZE :
          WF_poolVars(\E type \in {"result", "error"} : Answer(i, type))

PoolSpec == PoolInit /\ [][PoolNext]_poolVars /\ PoolFairness

-----------------------------------------------------------------------------
(***************************************************************************)
(* Properties.                                                             *)
(***************************************************************************)

Places(t) == {<<"queue", i>> : i \in {j \in DOMAIN queue : queue[j] = t}}
                \cup {<<"slot", i>> : i \in {j \in DOMAIN slots : slots[j] = t}}

\* A task whose promise is open is in exactly one place, queued or with one
\* worker, and no other task is anywhere: no crash, refused message,
\* shutdown or late event of an old pool strands a caller, or has a buffer
\* posted twice.
TasksAccountedFor ==
    \A t \in CryptoTasks :
        Cardinality(Places(t)) = IF promise[t] = "pending" THEN 1 ELSE 0

\* A task is queued only while all the workers are busy or a pump is due, so
\* the pool is never at rest with work to do.
NoneIdleWhileQueued ==
    queue # <<>> =>
        /\ ~terminated /\ slots # <<>>
        /\ microtasks > 0 \/ \A i \in DOMAIN slots : slots[i] # NoTask

PoolIsJust == TasksAccountedFor /\ NoneIdleWhileQueued
=============================================================================
