-------------------------- MODULE UploadQueueProofs -------------------------
(***************************************************************************)
(* Proofs about UploadQueue, for any number of files, parts, tabs, uploads *)
(* and background syncs and any number of faults.                          *)
(***************************************************************************)
EXTENDS UploadQueue, TLAPS

(***************************************************************************)
(* The inductive invariant.                                                *)
(***************************************************************************)

\* An upload of id.
Upload(id) ==
    [phase : Phases \ {"idle"}, id : {id}, tab : Tabs, fresh : BOOLEAN,
     announced : BOOLEAN, stop : {"none", "cancel", "lock"}, src : MaybeSource,
     expect : [Parts(id) -> Sources], have : [Parts(id) -> MaybeSource],
     stage : [Parts(id) -> Stages]]

\* What the store, the vault and the counter say of an id.
RowOK(id) ==
    /\ fate[id] \in {"new", "queued", "gone"}
    /\ IF HasRow(id) THEN row[id] \in RowType(id) ELSE row[id] = None
    /\ published[id] \in [Parts(id) -> MaybeSource] \cup {None}
    /\ published[id] # None => Missing(published[id]) = {}
    /\ fate[id] = "gone" => published[id] # None \/ id \in calledOff
    /\ bgPuts[id] \in 0..MAX_BACKGROUND_ATTEMPTS
    /\ fate[id] = "new" => bgPuts[id] = 0
    /\ HasRow(id) => bgPuts[id] <= row[id].attempts

\* An upload owns its new id until it queues it; it has all parts when it
\* publishes them; it has a source for every chunk under way; the user called
\* off what a cancel will take from the queue.
UploadOK(w) ==
    /\ w.phase = "prepare" => w.fresh
    /\ w.phase \in {"prepare", "queued", "reading"} =>
           \A k \in Parts(w.id) : w.stage[k] \in {"todo", "done"}
    /\ w.phase \in {"finalize", "dequeue"} => Missing(w.have) = {}
    /\ \A k \in Parts(w.id) :
           /\ w.stage[k] = "hashing" => w.id \in Chunked
           /\ w.stage[k] \in {"hashing", "put"} /\ w.id \in Chunked => w.src # None

ProcOK(p) ==
    \/ proc[p] = Idle
    \/ /\ proc[p].id \in Ids
       /\ proc[p] \in Upload(proc[p].id)
       /\ UploadOK(proc[p])
       /\ proc[p].phase = "prepare" =>
              /\ fate[proc[p].id] = "new"
              /\ \A q \in Procs \ {p} : proc[q].id # proc[p].id
       /\ proc[p].phase = "dequeue" => published[proc[p].id] # None
       /\ proc[p].fresh /\ proc[p].stop = "cancel" => proc[p].id \in calledOff

\* A write on its way: a part of a large file.
Writes == {w \in Chunked \X (0..ChunkCount) \X Sources : w[2] \in Parts(w[1])}

RestOK ==
    /\ sources \in [Tabs -> [Ids -> MaybeSource]]
    /\ receipts \subseteq Writes
    /\ late \subseteq Writes
    /\ calledOff \subseteq Ids
    /\ clearing \subseteq calledOff
    /\ sync \in [Syncs -> [phase : {"idle", "put", "mark"}, id : Ids \cup {None}]]
    /\ \A s \in Syncs : sync[s].phase # "idle" => sync[s].id \in Ids \ Chunked
    /\ faults \in 0..MaxFaults
    /\ tried \subseteq Ids \X (0..ChunkCount) \X (Sources \ {Original})

RowsOK ==
    /\ row = [id \in Ids |-> row[id]]
    /\ fate = [id \in Ids |-> fate[id]]
    /\ published = [id \in Ids |-> published[id]]
    /\ bgPuts = [id \in Ids |-> bgPuts[id]]
    /\ \A id \in Ids : RowOK(id)

ProcsOK ==
    /\ proc = [p \in Procs |-> proc[p]]
    /\ \A p \in Procs : ProcOK(p)

QueueInv == RowsOK /\ ProcsOK /\ RestOK

\* Part k of id may be this file's: the original's, or one that was tried in
\* vain before.
Known(id, k, s) == s \in {Original, None} \/ <<id, k, s>> \in tried

\* The same after a step.
KnownNext(id, k, s) == s \in {Original, None} \/ <<id, k, s>> \in tried'

AllKnownNext(id, f) == \A k \in Parts(id) : KnownNext(id, k, f[k])
AllKnown(id, f) == \A k \in Parts(id) : Known(id, k, f[k])

\* What is compared with a source is known, and so is what was compared.
UploadKnown(w) ==
    /\ AllKnown(w.id, w.have) /\ AllKnown(w.id, w.expect)
    /\ w.id \in Chunked =>
           \A k \in Parts(w.id) : w.stage[k] = "put" => Known(w.id, k, w.src)

TriedInv ==
    /\ \A id \in Ids : HasRow(id) =>
           AllKnown(id, row[id].receipts) /\ AllKnown(id, row[id].hashes)
    /\ \A id \in Ids : published[id] # None => AllKnown(id, published[id])
    /\ \A p \in Procs : proc[p].phase # "idle" => UploadKnown(proc[p])
    /\ \A w \in receipts : Known(w[1], w[2], w[3])

-----------------------------------------------------------------------------
(***************************************************************************)
(* Lemmas on the store, the vault and the uploads.                         *)
(***************************************************************************)

LEMMA PartsRange ==
    ASSUME NEW id \in Ids
    PROVE  /\ 0 \in Parts(id) /\ Parts(id) \subseteq 0..ChunkCount
           /\ id \notin Chunked => Parts(id) = {0}
           /\ id \in Chunked => Parts(id) = 0..(ChunkCount - 1)
  BY QueueAssumption DEF Parts, QueueAssumption

LEMMA NewRowType ==
    ASSUME NEW id \in Ids
    PROVE  NewRow(id) \in RowType(id)
  BY QueueAssumption DEF QueueAssumption, NewRow, RowType, MaybeSource

\* An attempt to publish gives an id all parts of its upload, or nothing.
PublishedStep ==
    /\ published' = [id \in Ids |-> published'[id]]
    /\ \A id \in Ids :
          \/ published'[id] = published[id]
          \/ /\ published[id] = None
             /\ published'[id] \in [Parts(id) -> MaybeSource]
             /\ Missing(published'[id]) = {}

LEMMA PublishedStays ==
    ASSUME PublishedStep, NEW id \in Ids, published[id] # None
    PROVE  published'[id] # None
  BY NullAssumption DEF PublishedStep, NullAssumption

LEMMA PublishedSame ==
    ASSUME RowsOK, UNCHANGED published
    PROVE  PublishedStep
  BY DEF RowsOK, PublishedStep

\* The rows stay, whatever is published or called off.
LEMMA RowsKept ==
    ASSUME RowsOK, UNCHANGED <<row, fate, bgPuts>>, PublishedStep,
           calledOff \subseteq calledOff'
    PROVE  RowsOK'
<1>1. ASSUME NEW id \in Ids PROVE RowOK(id)'
  <2>1. RowOK(id)  BY DEF RowsOK
  <2>2. CASE published'[id] = published[id]  BY <2>1, <2>2 DEF RowOK, HasRow
  <2>3. CASE /\ published[id] = None
             /\ published'[id] \in [Parts(id) -> MaybeSource]
             /\ Missing(published'[id]) = {}
    <3>1. published'[id] # None  BY <2>3, NullAssumption DEF NullAssumption
    <3> QED  BY <2>1, <2>3, <3>1 DEF RowOK, HasRow
  <2> QED  BY <2>2, <2>3 DEF PublishedStep
<1> QED  BY <1>1 DEF RowsOK, PublishedStep

\* One transaction that merges something into a row that is there.
LEMMA RowsUpdated ==
    ASSUME RowsOK, NEW id \in Ids, NEW r \in RowType(id), Update(id, r),
           HasRow(id) => r.attempts = row[id].attempts,
           UNCHANGED <<published, calledOff, bgPuts>>
    PROVE  RowsOK' /\ UNCHANGED fate
<1>1. UNCHANGED fate  BY DEF Update, PutRow, RowsOK, HasRow
<1>2. /\ row' = [i \in Ids |-> row'[i]]
      /\ \A i \in Ids : row'[i] = IF i = id /\ HasRow(i) THEN r ELSE row[i]
  BY DEF Update, PutRow, RowsOK
<1>3. ASSUME NEW i \in Ids PROVE RowOK(i)'
  BY <1>1, <1>2 DEF RowsOK, RowOK, HasRow
<1> QED  BY <1>1, <1>2, <1>3 DEF RowsOK

\* Rows are deleted: of ids that are in the vault or called off.
LEMMA RowsDeleted ==
    ASSUME RowsOK, NEW S, Delete(S), PublishedStep, UNCHANGED <<calledOff, bgPuts>>,
           \A id \in S : id \in Ids => published'[id] # None \/ id \in calledOff
    PROVE  /\ RowsOK'
           /\ \A id \in Ids : fate[id] = "new" => fate'[id] = "new"
<1>1. /\ row' = [id \in Ids |-> row'[id]] /\ fate' = [id \in Ids |-> fate'[id]]
      /\ \A id \in Ids : row'[id] = IF id \in S THEN None ELSE row[id]
      /\ \A id \in Ids : fate'[id] = IF id \in S /\ HasRow(id) THEN "gone" ELSE fate[id]
  BY DEF Delete
<1>2. \A id \in Ids : fate[id] = "new" => fate'[id] = "new"  BY <1>1 DEF HasRow
<1>3. ASSUME NEW id \in Ids PROVE RowOK(id)'
  <2>1. RowOK(id)  BY DEF RowsOK
  <2>2. /\ published'[id] \in [Parts(id) -> MaybeSource] \cup {None}
        /\ published'[id] # None => Missing(published'[id]) = {}
        /\ published[id] # None => published'[id] # None
    BY <2>1, PublishedStays DEF RowOK, PublishedStep
  <2> QED  BY <1>1, <2>1, <2>2 DEF RowOK, HasRow
<1> QED  BY <1>1, <1>2, <1>3 DEF RowsOK, PublishedStep

-----------------------------------------------------------------------------
LEMMA SetProc ==
    ASSUME ProcsOK, NEW p \in Procs, NEW r, Set(p, r)
    PROVE  /\ proc' = [q \in Procs |-> proc'[q]]
           /\ proc'[p] = r
           /\ \A q \in Procs \ {p} : proc'[q] = proc[q]
  BY DEF ProcsOK, Set

\* An upload that is not Idle is typed and under control.
LEMMA Busy ==
    ASSUME ProcsOK, NEW p \in Procs, proc[p].phase # "idle"
    PROVE  /\ proc[p].id \in Ids
           /\ proc[p] \in Upload(proc[p].id)
           /\ UploadOK(proc[p])
           /\ proc[p].phase = "prepare" =>
                  /\ fate[proc[p].id] = "new"
                  /\ \A q \in Procs \ {p} : proc[q].id # proc[p].id
           /\ proc[p].phase = "dequeue" => published[proc[p].id] # None
           /\ proc[p].fresh /\ proc[p].stop = "cancel" => proc[p].id \in calledOff
  BY DEF ProcsOK, ProcOK, Idle

\* The uploads stay.
LEMMA ProcsKept ==
    ASSUME ProcsOK, UNCHANGED proc, PublishedStep, calledOff \subseteq calledOff',
           \A id \in Ids : fate[id] = "new" => fate'[id] = "new"
    PROVE  ProcsOK'
<1>1. ASSUME NEW p \in Procs PROVE ProcOK(p)'
  <2>1. CASE proc[p] = Idle  BY <2>1 DEF ProcOK
  <2>2. CASE proc[p] # Idle
    <3>1. ProcOK(p)  BY DEF ProcsOK
    <3>2. proc[p].id \in Ids  BY <2>2, <3>1 DEF ProcOK
    <3>3. proc[p].phase = "dequeue" => published'[proc[p].id] # None
      BY <2>2, <3>1, <3>2, PublishedStays DEF ProcOK
    <3> QED  BY <2>2, <3>1, <3>3 DEF ProcOK
  <2> QED  BY <2>1, <2>2
<1> QED  BY <1>1 DEF ProcsOK

\* One upload ends.
LEMMA ProcEnds ==
    ASSUME ProcsOK, NEW p \in Procs, Set(p, Idle), PublishedStep,
           calledOff \subseteq calledOff',
           \A id \in Ids : fate[id] = "new" => fate'[id] = "new"
    PROVE  ProcsOK'
<1>1. /\ proc' = [q \in Procs |-> proc'[q]] /\ proc'[p] = Idle
      /\ \A q \in Procs \ {p} : proc'[q] = proc[q]
  BY SetProc
<1>2. ASSUME NEW q \in Procs PROVE ProcOK(q)'
  <2>1. CASE proc'[q] = Idle  BY <2>1 DEF ProcOK
  <2>2. CASE proc'[q] # Idle
    <3>1. ProcOK(q) /\ proc'[q] = proc[q] /\ q # p  BY <1>1, <2>2 DEF ProcsOK
    <3>2. proc[q].id \in Ids  BY <2>2, <3>1 DEF ProcOK
    <3>3. proc[q].phase = "dequeue" => published'[proc[q].id] # None
      BY <2>2, <3>1, <3>2, PublishedStays DEF ProcOK
    <3>4. None \notin Ids  BY QueueAssumption DEF QueueAssumption
    <3>5. \A o \in Procs : proc'[o].id = proc[o].id \/ proc'[o].id \notin Ids
      BY <1>1, <3>4 DEF Idle
    <3> QED  BY <2>2, <3>1, <3>2, <3>3, <3>5 DEF ProcOK
  <2> QED  BY <2>1, <2>2
<1> QED  BY <1>1, <1>2 DEF ProcsOK

\* One upload goes on as r, with its id or a new one.
LEMMA ProcGoesOn ==
    ASSUME ProcsOK, NEW p \in Procs, NEW id \in Ids, NEW r \in Upload(id), Set(p, r),
           UploadOK(r), PublishedStep, UNCHANGED calledOff,
           \A i \in Ids : fate[i] = "new" => fate'[i] = "new" \/ i = id,
           \A q \in Procs \ {p} : proc[q].phase = "prepare" => proc[q].id # id,
           r.phase = "prepare" =>
               fate'[id] = "new" /\ \A q \in Procs \ {p} : proc[q].id # id,
           r.phase = "dequeue" => published'[id] # None,
           r.fresh /\ r.stop = "cancel" => id \in calledOff
    PROVE  ProcsOK'
<1>1. /\ proc' = [q \in Procs |-> proc'[q]] /\ proc'[p] = r
      /\ \A q \in Procs \ {p} : proc'[q] = proc[q]
  BY SetProc
<1>2. r.id = id  BY DEF Upload
<1>3. ProcOK(p)'  BY <1>1, <1>2 DEF ProcOK
<1>4. ASSUME NEW q \in Procs \ {p} PROVE ProcOK(q)'
  <2>1. CASE proc[q] = Idle  BY <1>1, <2>1 DEF ProcOK
  <2>2. CASE proc[q] # Idle
    <3>1. ProcOK(q) /\ proc'[q] = proc[q]  BY <1>1 DEF ProcsOK
    <3>2. proc[q].id \in Ids  BY <2>2, <3>1 DEF ProcOK
    <3>3. proc[q].phase = "dequeue" => published'[proc[q].id] # None
      BY <2>2, <3>1, <3>2, PublishedStays DEF ProcOK
    <3>4. proc[q].phase = "prepare" =>
              /\ fate'[proc[q].id] = "new"
              /\ \A o \in Procs \ {q} : proc'[o].id # proc[q].id
      BY <1>1, <1>2, <2>2, <3>1, <3>2 DEF ProcOK
    <3> QED  BY <2>2, <3>1, <3>3, <3>4 DEF ProcOK
  <2> QED  BY <2>1, <2>2
<1> QED  BY <1>1, <1>3, <1>4 DEF ProcsOK

\* Some uploads are told to stop or die.
LEMMA ProcsStopped ==
    ASSUME ProcsOK, UNCHANGED <<fate, published>>, calledOff \subseteq calledOff',
           NEW how \in {"cancel", "lock"},
           proc' = [p \in Procs |-> proc'[p]],
           \A p \in Procs :
              \/ proc'[p] = proc[p]
              \/ proc'[p] = Idle
              \/ /\ proc[p] # Idle
                 /\ proc'[p] = [proc[p] EXCEPT !.stop = how]
                 /\ how = "cancel" /\ proc[p].fresh => proc[p].id \in calledOff'
    PROVE  ProcsOK'
<1>0. ASSUME NEW p \in Procs, proc[p] # Idle
      PROVE  LET w == [proc[p] EXCEPT !.stop = how] IN
             /\ w \in Upload(proc[p].id) /\ w.stop = how /\ w.id = proc[p].id
             /\ w.phase = proc[p].phase /\ w.fresh = proc[p].fresh /\ UploadOK(w)
  <2>1. proc[p] \in Upload(proc[p].id) /\ UploadOK(proc[p])
    BY <1>0 DEF ProcsOK, ProcOK
  <2> QED  BY <2>1 DEF Upload, UploadOK
<1>1. \A p \in Procs : proc'[p].id = proc[p].id \/ proc'[p].id \notin Ids
  <2>1. Idle.id \notin Ids  BY QueueAssumption DEF Idle, QueueAssumption
  <2> QED  BY <1>0, <2>1
<1>2. ASSUME NEW p \in Procs PROVE ProcOK(p)'
  <2>1. CASE proc'[p] = Idle  BY <2>1 DEF ProcOK
  <2>2. CASE proc'[p] = proc[p] /\ proc[p] # Idle
    BY <1>1, <2>2 DEF ProcsOK, ProcOK
  <2>3. CASE /\ proc[p] # Idle
             /\ proc'[p] = [proc[p] EXCEPT !.stop = how]
             /\ how = "cancel" /\ proc[p].fresh => proc[p].id \in calledOff'
    BY <1>0, <1>1, <2>3 DEF ProcsOK, ProcOK
  <2> QED  BY <2>1, <2>2, <2>3
<1> QED  BY <1>2 DEF ProcsOK

\* The parts of the record a step may change, typed.
LEMMA GotoType ==
    ASSUME NEW id \in Ids, NEW w \in Upload(id), NEW phase \in Phases \ {"idle"}
    PROVE  LET r == [w EXCEPT !.phase = phase] IN
           /\ r \in Upload(id) /\ r.phase = phase /\ r.stage = w.stage /\ r.have = w.have
           /\ r.src = w.src /\ r.id = w.id /\ r.fresh = w.fresh /\ r.stop = w.stop
  BY DEF Upload

-----------------------------------------------------------------------------
(***************************************************************************)
(* Every action keeps the invariant.                                       *)
(***************************************************************************)

LEMMA QStart ==
    ASSUME QueueInv, NEW p \in Procs, NEW t \in Tabs, NEW id \in Ids,
           StartUpload(p, t, id) \/ ResumeQueuedUpload(p, t, id)
    PROVE  QueueInv'
<1> USE DEF QueueInv
<1>1. UNCHANGED <<row, fate, published, calledOff, bgPuts>>
  BY DEF StartUpload, ResumeQueuedUpload
<1>2. PublishedStep /\ RowsOK'  BY <1>1, PublishedSame, RowsKept
<1>3. RestOK'  BY DEF StartUpload, ResumeQueuedUpload, RestOK
<1>4. ProcsOK'
  <2>1. CASE StartUpload(p, t, id)
    <3> DEFINE r == [phase |-> "prepare", id |-> id, tab |-> t, fresh |-> TRUE,
                     announced |-> FALSE, stop |-> "none", src |-> Original,
                     expect |-> NewRow(id).hashes, have |-> NewRow(id).receipts,
                     stage |-> [k \in Parts(id) |-> "todo"]]
    <3>1. r \in Upload(id)
      BY NewRowType, QueueAssumption
      DEF QueueAssumption, Upload, Phases, Stages, RowType, MaybeSource
    <3>2. UploadOK(r)  BY DEF UploadOK
    <3>3. Set(p, r) /\ fate[id] = "new" /\ \A q \in Procs : proc[q].id # id
      BY <2>1 DEF StartUpload
    <3>4. r.phase = "prepare" /\ r.stop = "none"  OBVIOUS
    <3> HIDE DEF r
    <3> QED  BY <1>1, <1>2, <3>1, <3>2, <3>3, <3>4, ProcGoesOn
  <2>2. CASE ResumeQueuedUpload(p, t, id)
    <3> DEFINE r == [phase |-> "reading", id |-> id, tab |-> t, fresh |-> FALSE,
                     announced |-> FALSE, stop |-> "none", src |-> None,
                     expect |-> row[id].hashes, have |-> row[id].receipts,
                     stage |-> [k \in Parts(id) |->
                                  IF row[id].receipts[k] = None THEN "todo"
                                  ELSE "done"]]
    <3>0. HasRow(id) /\ row[id] \in RowType(id)  BY <2>2 DEF ResumeQueuedUpload, RowsOK, RowOK
    <3>1. r \in Upload(id)
      BY <3>0 DEF Upload, Phases, Stages, RowType, MaybeSource
    <3>2. UploadOK(r)  BY DEF UploadOK
    <3>3. Set(p, r)  BY <2>2 DEF ResumeQueuedUpload
    <3>4. r.phase = "reading" /\ r.stop = "none"  OBVIOUS
    <3> HIDE DEF r
    <3>5. \A q \in Procs : proc[q].phase = "prepare" => proc[q].id # id
      BY <3>0, Busy DEF HasRow
    <3> QED  BY <1>1, <1>2, <3>1, <3>2, <3>3, <3>4, <3>5, ProcGoesOn
  <2> QED  BY <2>1, <2>2
<1> QED  BY <1>2, <1>3, <1>4

LEMMA QQueueRow ==
    ASSUME QueueInv, NEW p \in Procs, QueueRow(p)
    PROVE  QueueInv'
<1> USE DEF QueueInv
<1> DEFINE id == proc[p].id
           r == [proc[p] EXCEPT !.phase = "queued"]
<1>1. /\ proc[p].phase = "prepare" /\ PutRow(id, NewRow(id)) /\ Set(p, r)
      /\ UNCHANGED <<sources, receipts, late, clearing, sync, published, faults,
                     calledOff, bgPuts, tried>>
  BY DEF QueueRow, Goto
<1>2. /\ id \in Ids /\ proc[p] \in Upload(id) /\ UploadOK(proc[p]) /\ fate[id] = "new"
      /\ \A q \in Procs \ {p} : proc[q].id # id
      /\ proc[p].fresh /\ proc[p].stop = "cancel" => id \in calledOff
  BY <1>1, Busy
<1>3. /\ r \in Upload(id) /\ r.phase = "queued" /\ r.stage = proc[p].stage
      /\ r.src = proc[p].src /\ r.fresh = proc[p].fresh /\ r.stop = proc[p].stop
      /\ r.id = id
  BY <1>2, GotoType DEF Phases
<1> HIDE DEF id
<1>4. UploadOK(r)  BY <1>1, <1>2, <1>3 DEF UploadOK, id
<1>5. PublishedStep  BY <1>1, PublishedSame
<1>6. /\ row' = [i \in Ids |-> row'[i]] /\ fate' = [i \in Ids |-> fate'[i]]
      /\ \A i \in Ids : row'[i] = IF i = id THEN NewRow(id) ELSE row[i]
      /\ \A i \in Ids : fate'[i] = IF i = id THEN "queued" ELSE fate[i]
  BY <1>1, <1>2 DEF PutRow, RowsOK
<1>7. RowsOK'
  <2>1. ASSUME NEW i \in Ids, i # id PROVE RowOK(i)'
    BY <1>1, <1>6, <2>1 DEF RowsOK, RowOK, HasRow
  <2>2. ASSUME NEW i \in Ids, i = id PROVE RowOK(i)'
    <3>1. /\ RowOK(id) /\ NewRow(id) \in RowType(id)
          /\ NewRow(id).attempts \in Nat
      BY <1>2, NewRowType, QueueAssumption DEF RowsOK, NewRow, QueueAssumption
    <3>2. bgPuts[id] = 0  BY <1>2, <3>1 DEF RowOK
    <3>3. /\ 0 <= NewRow(id).attempts /\ row'[id] = NewRow(id) /\ fate'[id] = "queued"
          /\ 0 \in 0..MAX_BACKGROUND_ATTEMPTS
      BY <1>2, <1>6, <3>1, QueueAssumption DEF NewRow, QueueAssumption
    <3>4. UNCHANGED <<published, calledOff, bgPuts>>  BY <1>1
    <3> QED  BY <2>2, <3>1, <3>2, <3>3, <3>4 DEF RowOK, HasRow
  <2> QED  BY <1>1, <1>6, <2>1, <2>2 DEF RowsOK
<1>8. ProcsOK'
  <2>1. \A i \in Ids : fate[i] = "new" => fate'[i] = "new" \/ i = id  BY <1>6
  <2> HIDE DEF r
  <2> QED  BY <1>1, <1>2, <1>3, <1>4, <1>5, <2>1, ProcGoesOn
<1>9. RestOK'  BY <1>1 DEF RestOK
<1> QED  BY <1>7, <1>8, <1>9

\* Steps of one upload that leave the store and the vault alone.
LEMMA QAlone ==
    ASSUME QueueInv, NEW p \in Procs, proc[p].phase # "idle", proc[p].phase # "prepare",
           UNCHANGED <<row, fate, published, calledOff, bgPuts>>, RestOK',
           NEW r, Set(p, r),
           \/ r = Idle
           \/ /\ r \in Upload(proc[p].id) /\ UploadOK(r)
              /\ r.phase \notin {"prepare", "dequeue"}
              /\ r.fresh = proc[p].fresh /\ r.stop = proc[p].stop
    PROVE  QueueInv'
<1> USE DEF QueueInv
<1>1. PublishedStep /\ RowsOK'  BY PublishedSame, RowsKept
<1>2. /\ proc[p].id \in Ids
      /\ proc[p].fresh /\ proc[p].stop = "cancel" => proc[p].id \in calledOff
  BY Busy
<1>3. \A q \in Procs \ {p} : proc[q].phase = "prepare" => proc[q].id # proc[p].id
  BY Busy
<1>4. CASE r = Idle  BY <1>1, <1>4, ProcEnds
<1>5. CASE r # Idle
  BY <1>1, <1>2, <1>3, <1>5, ProcGoesOn
<1> QED  BY <1>4, <1>5

LEMMA QAnnounce ==
    ASSUME QueueInv, NEW p \in Procs, Announce(p)
    PROVE  QueueInv'
<1> DEFINE w == proc[p]
           id == w.id
           src == IF w.fresh THEN w.src ELSE sources[w.tab][id]
           r == [w EXCEPT !.phase = "upload", !.announced = TRUE, !.src = src]
<1>1. /\ w.phase \in {"queued", "reading"} /\ Set(p, r)
      /\ UNCHANGED <<row, fate, receipts, late, clearing, sync, published, faults,
                     calledOff, bgPuts, tried>>
  <2>1. r = [w EXCEPT !.phase = "upload", !.announced = TRUE,
                      !.src = IF w.fresh THEN @ ELSE sources[w.tab][w.id]]
    OBVIOUS
  <2> QED  BY <2>1 DEF Announce
<1>2. id \in Ids /\ w \in Upload(id) /\ UploadOK(w)
  BY <1>1, Busy DEF QueueInv
<1>3. src \in MaybeSource  BY <1>2 DEF QueueInv, RestOK, Upload
<1>4. r \in Upload(id) /\ UploadOK(r) /\ r.phase = "upload" /\ r.fresh = w.fresh
      /\ r.stop = w.stop
  BY <1>1, <1>2, <1>3 DEF Upload, UploadOK, Phases
<1>5. RestOK'
  <2>1. sources' \in [Tabs -> [Ids -> MaybeSource]]
    <3>1. w.tab \in Tabs /\ Original \in MaybeSource
      BY <1>2, QueueAssumption DEF Upload, MaybeSource, QueueAssumption
    <3> QED  BY <1>2, <3>1 DEF Announce, QueueInv, RestOK
  <2> QED  BY <1>1, <2>1 DEF QueueInv, RestOK
<1> QED  BY <1>1, <1>4, <1>5, QAlone

LEMMA QTakePart ==
    ASSUME QueueInv, NEW p \in Procs, NEW k \in DOMAIN proc[p].stage, TakePart(p, k)
    PROVE  QueueInv'
<1> DEFINE w == proc[p]
           id == w.id
           s == IF id \in Chunked THEN "hashing" ELSE "put"
           r == [w EXCEPT !.stage[k] = s]
<1>1. /\ w.phase = "upload" /\ Set(p, r)
      /\ id \in Chunked => w.src # None
      /\ UNCHANGED <<row, fate, sources, receipts, late, clearing, sync, published,
                     faults, calledOff, bgPuts, tried>>
  BY DEF TakePart, Uploading
<1>2. id \in Ids /\ w \in Upload(id) /\ UploadOK(w)
  BY <1>1, Busy DEF QueueInv
<1>3. k \in Parts(id)  BY <1>2 DEF Upload
<1>4. /\ r \in Upload(id) /\ r.phase = "upload" /\ r.fresh = w.fresh /\ r.id = id
      /\ r.stop = w.stop /\ r.src = w.src /\ r.stage = [w.stage EXCEPT ![k] = s]
  BY <1>1, <1>2 DEF Upload, Stages
<1>5. UploadOK(r)
  BY <1>1, <1>2, <1>3, <1>4 DEF Upload, UploadOK
<1>6. RestOK'  BY <1>1 DEF QueueInv, RestOK
<1> QED  BY <1>1, <1>4, <1>5, <1>6, QAlone

\* What a stopped upload leaves behind is a write of a part of a large file.
LEMMA LeftoverWrites ==
    ASSUME QueueInv, NEW p \in Procs, proc[p].phase # "idle"
    PROVE  Leftover(p) \subseteq Writes
<1>1. /\ proc[p].id \in Ids /\ proc[p] \in Upload(proc[p].id) /\ UploadOK(proc[p])
  BY Busy DEF QueueInv
<1>2. ASSUME NEW k \in DOMAIN proc[p].stage, proc[p].stage[k] = "hashing"
      PROVE  <<proc[p].id, k, proc[p].src>> \in Writes
  <2>1. k \in Parts(proc[p].id)  BY <1>1 DEF Upload
  <2>2. proc[p].id \in Chunked /\ proc[p].src # None  BY <1>1, <1>2, <2>1 DEF UploadOK
  <2>3. proc[p].src \in Sources  BY <1>1, <2>2 DEF Upload, MaybeSource
  <2>4. k \in 0..ChunkCount  BY <1>1, <2>1, PartsRange
  <2> QED  BY <2>1, <2>2, <2>3, <2>4 DEF Writes
<1> QED  BY <1>2 DEF Leftover

LEMMA WithHashType ==
    ASSUME RowsOK, NEW id \in Ids, NEW k \in Parts(id), NEW s \in Sources
    PROVE  /\ WithHash(id, k, s) \in RowType(id)
           /\ HasRow(id) => WithHash(id, k, s).attempts = row[id].attempts
<1>1. HasRow(id) => row[id] \in RowType(id)  BY DEF RowsOK, RowOK
<1> QED  BY <1>1, NewRowType DEF WithHash, RowType

LEMMA WithReceiptType ==
    ASSUME RowsOK, NEW id \in Ids, NEW k \in Parts(id), NEW s \in Sources
    PROVE  /\ WithReceipt(id, k, s) \in RowType(id)
           /\ HasRow(id) => WithReceipt(id, k, s).attempts = row[id].attempts
<1>1. HasRow(id) => row[id] \in RowType(id)  BY DEF RowsOK, RowOK
<1> QED  BY <1>1, NewRowType DEF WithReceipt, RowType, MaybeSource

\* Steps of one upload that merge something into a row.
LEMMA QMerge ==
    ASSUME QueueInv, NEW p \in Procs, proc[p].phase # "idle", proc[p].phase # "prepare",
           NEW m \in RowType(proc[p].id),
           HasRow(proc[p].id) => m.attempts = row[proc[p].id].attempts,
           Update(proc[p].id, m),
           UNCHANGED <<published, calledOff, bgPuts>>, RestOK',
           NEW r, Set(p, r),
           \/ r = Idle
           \/ /\ r \in Upload(proc[p].id) /\ UploadOK(r)
              /\ r.phase \notin {"prepare", "dequeue"}
              /\ r.fresh = proc[p].fresh /\ r.stop = proc[p].stop
    PROVE  QueueInv'
<1> USE DEF QueueInv
<1>1. /\ proc[p].id \in Ids
      /\ proc[p].fresh /\ proc[p].stop = "cancel" => proc[p].id \in calledOff
  BY Busy
<1>2. RowsOK' /\ UNCHANGED fate  BY <1>1, RowsUpdated
<1>3. PublishedStep  BY PublishedSame
<1>4. \A q \in Procs \ {p} : proc[q].phase = "prepare" => proc[q].id # proc[p].id
  BY Busy
<1>5. CASE r = Idle  BY <1>2, <1>3, <1>5, ProcEnds
<1>6. CASE r # Idle  BY <1>1, <1>2, <1>3, <1>4, <1>6, ProcGoesOn
<1> QED  BY <1>2, <1>5, <1>6

\* What is remembered of a try is a part of another file.
LEMMA TryIsOther ==
    ASSUME NEW id \in Ids, NEW k \in 0..ChunkCount, NEW s \in Sources,
           tried \subseteq Ids \X (0..ChunkCount) \X (Sources \ {Original}),
           Try(<<id, k, s>>)
    PROVE  tried' \subseteq Ids \X (0..ChunkCount) \X (Sources \ {Original})
  BY DEF Try

LEMMA QSaveHash ==
    ASSUME QueueInv, NEW p \in Procs, NEW k \in DOMAIN proc[p].stage,
           SaveChunkPlaintextHash(p, k)
    PROVE  QueueInv'
<1> DEFINE w == proc[p]
           id == w.id
           r == [w EXCEPT !.stage[k] = "put"]
<1>1. /\ w.phase = "upload" /\ w.stage[k] = "hashing"
      /\ Update(id, WithHash(id, k, w.src))
      /\ \/ Set(p, r) /\ UNCHANGED late
         \/ Set(p, Idle) /\ late' \subseteq late \cup Leftover(p)
      /\ UNCHANGED tried \/ Try(<<id, k, w.src>>)
      /\ UNCHANGED <<sources, receipts, clearing, sync, published, faults,
                     calledOff, bgPuts>>
  BY DEF SaveChunkPlaintextHash, Uploading
<1>2. id \in Ids /\ w \in Upload(id) /\ UploadOK(w)
  BY <1>1, Busy DEF QueueInv
<1>3. k \in Parts(id)  BY <1>2 DEF Upload
<1>4. /\ r \in Upload(id) /\ r.phase = "upload" /\ r.fresh = w.fresh /\ r.id = id
      /\ r.stop = w.stop /\ r.src = w.src /\ r.stage = [w.stage EXCEPT ![k] = "put"]
  BY <1>1, <1>2 DEF Upload, Stages
<1>5. w.src \in Sources /\ w.src # None
  BY <1>1, <1>2, <1>3 DEF Upload, UploadOK, MaybeSource
<1>6. UploadOK(r)
  BY <1>1, <1>2, <1>3, <1>4, <1>5 DEF Upload, UploadOK
<1>7. RestOK'
  <2>1. late' \subseteq Writes  BY <1>1, LeftoverWrites DEF QueueInv, RestOK
  <2>2. tried' \subseteq Ids \X (0..ChunkCount) \X (Sources \ {Original})
    BY <1>1, <1>2, <1>3, <1>5, PartsRange, TryIsOther DEF QueueInv, RestOK
  <2> QED  BY <1>1, <2>1, <2>2 DEF QueueInv, RestOK
<1>8. /\ WithHash(id, k, w.src) \in RowType(id)
      /\ HasRow(id) => WithHash(id, k, w.src).attempts = row[id].attempts
  BY <1>2, <1>3, <1>5, WithHashType DEF QueueInv
<1>9. Idle = Idle  OBVIOUS
<1> DEFINE m == WithHash(id, k, w.src)
<1> HIDE DEF r, m
<1>10. CASE Set(p, r)
  BY <1>1, <1>4, <1>6, <1>7, <1>8, <1>10, QMerge DEF m
<1>11. CASE Set(p, Idle)
  BY <1>1, <1>7, <1>8, <1>9, <1>11, QMerge DEF m
<1> QED  BY <1>1, <1>10, <1>11

LEMMA QPartUploaded ==
    ASSUME QueueInv, NEW p \in Procs, NEW k \in DOMAIN proc[p].stage, PartUploaded(p, k)
    PROVE  QueueInv'
<1> DEFINE w == proc[p]
           id == w.id
           s == IF id \in Chunked THEN w.src ELSE Original
           r == [w EXCEPT !.stage[k] = "done", !.have[k] = s]
<1>1. /\ w.phase = "upload" /\ w.stage[k] = "put" /\ Set(p, r)
      /\ UNCHANGED <<sources, late, clearing, sync, published, faults, calledOff,
                     bgPuts, tried>>
      /\ IF id \in Chunked
         THEN receipts' = receipts \cup {<<id, k, s>>} /\ UNCHANGED <<row, fate>>
         ELSE Update(id, WithReceipt(id, k, s)) /\ UNCHANGED receipts
  BY DEF PartUploaded, Uploading
<1>2. id \in Ids /\ w \in Upload(id) /\ UploadOK(w)
  BY <1>1, Busy DEF QueueInv
<1>3. k \in Parts(id) /\ k \in 0..ChunkCount  BY <1>2, PartsRange DEF Upload
<1>4. s \in Sources
  BY <1>1, <1>2, <1>3, QueueAssumption DEF Upload, UploadOK, MaybeSource, QueueAssumption
<1>5. /\ r \in Upload(id) /\ r.phase = "upload" /\ r.fresh = w.fresh /\ r.id = id
      /\ r.stop = w.stop /\ r.src = w.src /\ r.stage = [w.stage EXCEPT ![k] = "done"]
  BY <1>1, <1>2, <1>4 DEF Upload, Stages, MaybeSource
<1>6. UploadOK(r)
  BY <1>1, <1>2, <1>3, <1>5 DEF Upload, UploadOK
<1>7. RestOK'
  <2>1. receipts' \subseteq Writes
    BY <1>1, <1>2, <1>3, <1>4 DEF QueueInv, RestOK, Writes
  <2> QED  BY <1>1, <2>1 DEF QueueInv, RestOK
<1>8. /\ WithReceipt(id, k, s) \in RowType(id)
      /\ HasRow(id) => WithReceipt(id, k, s).attempts = row[id].attempts
  BY <1>2, <1>3, <1>4, WithReceiptType DEF QueueInv
<1> DEFINE m == WithReceipt(id, k, s)
<1> HIDE DEF r, s, m
<1>9. CASE id \in Chunked
  BY <1>1, <1>5, <1>6, <1>7, <1>9, QAlone
<1>10. CASE id \notin Chunked
  BY <1>1, <1>5, <1>6, <1>7, <1>8, <1>10, QMerge DEF m
<1> QED  BY <1>9, <1>10

LEMMA QGivesUp ==
    ASSUME QueueInv, NEW p \in Procs, UploadFails(p) \/ NeedsSource(p)
    PROVE  QueueInv'
<1>1. /\ proc[p].phase = "upload" /\ Set(p, Idle) /\ faults' \in 0..MaxFaults
      /\ late' \subseteq late \cup Leftover(p)
      /\ UNCHANGED <<row, fate, sources, receipts, clearing, sync, published,
                     calledOff, bgPuts, tried>>
  BY QueueAssumption
  DEF UploadFails, NeedsSource, Uploading, Fault, QueueInv, RestOK, QueueAssumption
<1>2. RestOK'
  <2>1. late' \subseteq Writes  BY <1>1, LeftoverWrites DEF QueueInv, RestOK
  <2> QED  BY <1>1, <2>1 DEF QueueInv, RestOK
<1> QED  BY <1>1, <1>2, QAlone

LEMMA QStartFinalize ==
    ASSUME QueueInv, NEW p \in Procs, StartFinalize(p)
    PROVE  QueueInv'
<1> DEFINE r == [proc[p] EXCEPT !.phase = "finalize"]
<1>1. /\ proc[p].phase = "upload" /\ Missing(proc[p].have) = {} /\ Set(p, r)
      /\ UNCHANGED <<row, fate, sources, receipts, late, clearing, sync, published,
                     faults, calledOff, bgPuts, tried>>
  BY DEF StartFinalize, Uploading, Covered, Goto
<1>2. proc[p].id \in Ids /\ proc[p] \in Upload(proc[p].id) /\ UploadOK(proc[p])
  BY <1>1, Busy DEF QueueInv
<1>3. /\ r \in Upload(proc[p].id) /\ r.phase = "finalize" /\ r.stage = proc[p].stage
      /\ r.have = proc[p].have /\ r.src = proc[p].src /\ r.id = proc[p].id
      /\ r.fresh = proc[p].fresh /\ r.stop = proc[p].stop
  BY <1>2, GotoType DEF Phases
<1>4. UploadOK(r)  BY <1>1, <1>2, <1>3 DEF UploadOK
<1>5. RestOK'  BY <1>1 DEF QueueInv, RestOK
<1> HIDE DEF r
<1> QED  BY <1>1, <1>3, <1>4, <1>5, QAlone

\* An entry made of all parts of an upload reaches the vault.
LEMMA PublishedByUpload ==
    ASSUME QueueInv, NEW p \in Procs, proc[p].phase = "finalize", Published(p)
    PROVE  PublishedStep /\ published'[proc[p].id] # None
<1>1. /\ proc[p].id \in Ids /\ proc[p] \in Upload(proc[p].id) /\ UploadOK(proc[p])
  BY Busy DEF QueueInv
<1>2. /\ proc[p].have \in [Parts(proc[p].id) -> MaybeSource]
      /\ Missing(proc[p].have) = {} /\ proc[p].have # None
  BY <1>1, NullAssumption DEF Upload, UploadOK, NullAssumption
<1> QED  BY <1>1, <1>2 DEF Published, PublishedStep, QueueInv, RowsOK

LEMMA QFinalize ==
    ASSUME QueueInv, NEW p \in Procs, FinalizeUpload(p)
    PROVE  QueueInv'
<1> USE DEF QueueInv
<1> DEFINE r == [proc[p] EXCEPT !.phase = "dequeue"]
<1>1. /\ proc[p].phase = "finalize" /\ Published(p) /\ Set(p, r)
      /\ UNCHANGED <<row, fate, sources, receipts, late, clearing, sync, faults,
                     calledOff, bgPuts, tried>>
  BY DEF FinalizeUpload, Goto
<1>2. /\ proc[p].id \in Ids /\ proc[p] \in Upload(proc[p].id) /\ UploadOK(proc[p])
      /\ proc[p].fresh /\ proc[p].stop = "cancel" => proc[p].id \in calledOff
  BY <1>1, Busy
<1>3. PublishedStep /\ published'[proc[p].id] # None
  BY <1>1, PublishedByUpload
<1>4. RowsOK'  BY <1>1, <1>3, RowsKept
<1>5. /\ r \in Upload(proc[p].id) /\ r.phase = "dequeue" /\ r.stage = proc[p].stage
      /\ r.have = proc[p].have /\ r.src = proc[p].src /\ r.id = proc[p].id
      /\ r.fresh = proc[p].fresh /\ r.stop = proc[p].stop
  BY <1>2, GotoType DEF Phases
<1>6. UploadOK(r)  BY <1>1, <1>2, <1>5 DEF UploadOK
<1>7. \A q \in Procs \ {p} : proc[q].phase = "prepare" => proc[q].id # proc[p].id
  BY Busy
<1> HIDE DEF r
<1>8. ProcsOK'  BY <1>1, <1>2, <1>3, <1>5, <1>6, <1>7, ProcGoesOn
<1>9. RestOK'  BY <1>1 DEF RestOK
<1> QED  BY <1>4, <1>8, <1>9

LEMMA QFinalizeFails ==
    ASSUME QueueInv, NEW p \in Procs, FinalizeFails(p)
    PROVE  QueueInv'
<1> USE DEF QueueInv
<1>1. /\ proc[p].phase = "finalize"
      /\ Published(p) \/ UNCHANGED published
      /\ Set(p, Idle) /\ faults' \in 0..MaxFaults
      /\ UNCHANGED <<row, fate, sources, receipts, late, clearing, sync,
                     calledOff, bgPuts, tried>>
  BY QueueAssumption DEF FinalizeFails, Fault, RestOK, QueueAssumption
<1>2. PublishedStep  BY <1>1, PublishedByUpload, PublishedSame
<1>3. RowsOK' /\ ProcsOK'  BY <1>1, <1>2, RowsKept, ProcEnds
<1>4. RestOK'  BY <1>1 DEF RestOK
<1> QED  BY <1>3, <1>4

LEMMA QDequeue ==
    ASSUME QueueInv, NEW p \in Procs, DequeueUpload(p)
    PROVE  QueueInv'
<1> USE DEF QueueInv
<1>1. /\ proc[p].phase = "dequeue" /\ Delete({proc[p].id}) /\ Set(p, Idle)
      /\ UNCHANGED <<sources, receipts, late, clearing, sync, published, faults,
                     calledOff, bgPuts, tried>>
  BY DEF DequeueUpload
<1>2. PublishedStep /\ published[proc[p].id] # None  BY <1>1, PublishedSame, Busy
<1>3. RowsOK' /\ \A id \in Ids : fate[id] = "new" => fate'[id] = "new"
  BY <1>1, <1>2, RowsDeleted
<1>4. ProcsOK'  BY <1>1, <1>2, <1>3, ProcEnds
<1>5. RestOK'  BY <1>1 DEF RestOK
<1> QED  BY <1>3, <1>4, <1>5

LEMMA QUnwind ==
    ASSUME QueueInv, NEW p \in Procs, Unwind(p)
    PROVE  QueueInv'
<1> USE DEF QueueInv
<1>0. Idle.stop = "none"  BY DEF Idle
<1>1. /\ proc[p].phase # "idle"
      /\ \/ proc[p].phase = "finalize" /\ Published(p)
         \/ UNCHANGED published
      /\ \/ Delete({proc[p].id}) /\ proc[p].fresh /\ proc[p].stop = "cancel"
         \/ UNCHANGED <<row, fate>>
      /\ Set(p, Idle)
      /\ late' = late \cup Leftover(p)
      /\ UNCHANGED <<sources, receipts, clearing, sync, faults, calledOff, bgPuts, tried>>
  <2>1. proc[p] # Idle  BY <1>0 DEF Unwind
  <2>2. proc[p].phase # "idle"  BY <2>1 DEF ProcsOK, ProcOK, Upload
  <2> QED  BY <2>2 DEF Unwind, Dequeues
<1>2. PublishedStep  BY <1>1, PublishedByUpload, PublishedSame
<1>3. RowsOK' /\ \A id \in Ids : fate[id] = "new" => fate'[id] = "new"
  <2>1. CASE UNCHANGED <<row, fate>>  BY <1>1, <1>2, <2>1, RowsKept
  <2>2. CASE Delete({proc[p].id}) /\ proc[p].fresh /\ proc[p].stop = "cancel"
    <3>1. proc[p].id \in calledOff  BY <1>1, <2>2, Busy
    <3> QED  BY <1>1, <1>2, <2>2, <3>1, RowsDeleted
  <2> QED  BY <1>1, <2>1, <2>2
<1>4. ProcsOK'  BY <1>1, <1>2, <1>3, ProcEnds
<1>5. RestOK'
  <2>1. late' \subseteq Writes  BY <1>1, LeftoverWrites DEF RestOK
  <2> QED  BY <1>1, <2>1 DEF RestOK
<1> QED  BY <1>3, <1>4, <1>5

\* Steps that change neither the uploads nor the store.
LEMMA QOutside ==
    ASSUME QueueInv, UNCHANGED <<row, fate, proc, published, bgPuts>>,
           calledOff \subseteq calledOff', RestOK'
    PROVE  QueueInv'
<1> USE DEF QueueInv
<1>1. PublishedStep  BY PublishedSame
<1>2. RowsOK'  BY <1>1, RowsKept
<1>3. ProcsOK'  BY <1>1, ProcsKept
<1> QED  BY <1>2, <1>3

\* Steps that only merge something into a row.
LEMMA QOutsideMerge ==
    ASSUME QueueInv, NEW id \in Ids, NEW m \in RowType(id), Update(id, m),
           HasRow(id) => m.attempts = row[id].attempts,
           UNCHANGED <<proc, published, calledOff, bgPuts>>, RestOK'
    PROVE  QueueInv'
<1> USE DEF QueueInv
<1>1. RowsOK' /\ UNCHANGED fate  BY RowsUpdated
<1>2. PublishedStep  BY PublishedSame
<1>3. ProcsOK'  BY <1>1, <1>2, ProcsKept
<1> QED  BY <1>1, <1>3

LEMMA QStore ==
    ASSUME QueueInv, StoreStep
    PROVE  QueueInv'
<1>1. CASE MarkChunkUploaded
  <2>1. PICK w \in receipts :
          /\ Update(w[1], WithReceipt(w[1], w[2], w[3]))
          /\ receipts' = receipts \ {w}
          /\ UNCHANGED <<proc, sources, late, clearing, sync, published, faults,
                         calledOff, bgPuts, tried>>
    BY <1>1 DEF MarkChunkUploaded
  <2>2. w[1] \in Ids /\ w[2] \in Parts(w[1]) /\ w[3] \in Sources
    BY QueueAssumption DEF QueueInv, RestOK, Writes, QueueAssumption
  <2>3. /\ WithReceipt(w[1], w[2], w[3]) \in RowType(w[1])
        /\ HasRow(w[1]) => WithReceipt(w[1], w[2], w[3]).attempts = row[w[1]].attempts
    BY <2>2, WithReceiptType DEF QueueInv
  <2>4. RestOK'  BY <2>1 DEF QueueInv, RestOK
  <2> DEFINE id == w[1]
             m == WithReceipt(w[1], w[2], w[3])
  <2> HIDE DEF id, m
  <2>5. /\ id \in Ids /\ m \in RowType(id) /\ Update(id, m)
        /\ HasRow(id) => m.attempts = row[id].attempts
    BY <2>1, <2>2, <2>3 DEF id, m
  <2> QED  BY <2>1, <2>4, <2>5, QOutsideMerge
<1>2. CASE SaveLateHash
  <2>1. PICK w \in late :
          /\ Update(w[1], WithHash(w[1], w[2], w[3]))
          /\ late' = late \ {w}
          /\ Try(w)
          /\ UNCHANGED <<proc, sources, receipts, clearing, sync, published,
                         faults, calledOff, bgPuts>>
    BY <1>2 DEF SaveLateHash
  <2>2. w[1] \in Ids /\ w[2] \in Parts(w[1]) /\ w[3] \in Sources
    BY QueueAssumption DEF QueueInv, RestOK, Writes, QueueAssumption
  <2>3. /\ WithHash(w[1], w[2], w[3]) \in RowType(w[1])
        /\ HasRow(w[1]) => WithHash(w[1], w[2], w[3]).attempts = row[w[1]].attempts
    BY <2>2, WithHashType DEF QueueInv
  <2>4. RestOK'
    <3>1. w = <<w[1], w[2], w[3]>> /\ w[2] \in 0..ChunkCount
      BY <2>2, PartsRange DEF QueueInv, RestOK, Writes
    <3>2. tried' \subseteq Ids \X (0..ChunkCount) \X (Sources \ {Original})
      BY <2>1, <2>2, <3>1, TryIsOther DEF QueueInv, RestOK
    <3> QED  BY <2>1, <3>2 DEF QueueInv, RestOK
  <2> DEFINE id == w[1]
             m == WithHash(w[1], w[2], w[3])
  <2> HIDE DEF id, m
  <2>5. /\ id \in Ids /\ m \in RowType(id) /\ Update(id, m)
        /\ HasRow(id) => m.attempts = row[id].attempts
    BY <2>1, <2>2, <2>3 DEF id, m
  <2> QED  BY <2>1, <2>4, <2>5, QOutsideMerge
<1>3. CASE ClearUploadQueue
  <2>1. /\ Delete(clearing) /\ clearing' = {}
        /\ UNCHANGED <<proc, sources, receipts, late, sync, published, faults,
                       calledOff, bgPuts, tried>>
    BY <1>3 DEF ClearUploadQueue
  <2>2. PublishedStep  BY <2>1, PublishedSame DEF QueueInv
  <2>3. RowsOK' /\ \A id \in Ids : fate[id] = "new" => fate'[id] = "new"
    BY <2>1, <2>2, RowsDeleted DEF QueueInv, RestOK
  <2>4. ProcsOK'  BY <2>1, <2>2, <2>3, ProcsKept DEF QueueInv
  <2>5. RestOK'  BY <2>1 DEF QueueInv, RestOK
  <2> QED  BY <2>3, <2>4, <2>5 DEF QueueInv
<1> QED  BY <1>1, <1>2, <1>3 DEF StoreStep

LEMMA QSource ==
    ASSUME QueueInv, NEW t \in Tabs, NEW id \in Ids,
           \/ \E s \in Sources : ReselectSource(t, id, s)
           \/ DiscardPendingUpload(t, id)
    PROVE  QueueInv'
<1>1. /\ UNCHANGED <<row, fate, proc, published, bgPuts, receipts, late, sync, tried>>
      /\ \/ faults' = faults
         \/ faults < MaxFaults /\ faults' = faults + 1
      /\ \/ clearing' = clearing \cup {id} /\ calledOff' = calledOff \cup {id}
         \/ UNCHANGED <<clearing, calledOff>>
      /\ \E s \in MaybeSource : sources' = [sources EXCEPT ![t][id] = s]
  BY DEF ReselectSource, DiscardPendingUpload, Fault, MaybeSource
<1>2. sources' \in [Tabs -> [Ids -> MaybeSource]]
  BY <1>1 DEF QueueInv, RestOK
<1>3. faults' \in 0..MaxFaults
  BY <1>1, QueueAssumption DEF QueueInv, RestOK, QueueAssumption
<1>4. RestOK'  BY <1>1, <1>2, <1>3 DEF QueueInv, RestOK
<1> QED  BY <1>1, <1>4, QOutside

LEMMA StopAllType ==
    ASSUME QueueInv, NEW t, NEW how, StopAll(t, how)
    PROVE  /\ proc' = [p \in Procs |-> proc'[p]]
           /\ \A p \in Procs :
                 \/ proc'[p] = proc[p]
                 \/ p \in LiveIn(t) /\ proc[p] # Idle
                    /\ proc'[p] = [proc[p] EXCEPT !.stop = how]
  BY DEF StopAll, LiveIn, Live, Idle

LEMMA QStop ==
    ASSUME QueueInv, NEW t \in Tabs, CancelBatch(t) \/ LockUploadSession(t) \/ Crash(t)
    PROVE  QueueInv'
<1> USE DEF QueueInv
<1>0. /\ ForgetSources(t) /\ faults' \in 0..MaxFaults
      /\ UNCHANGED <<row, fate, published, bgPuts, sync, tried>>
  BY QueueAssumption
  DEF CancelBatch, LockUploadSession, Crash, Fault, RestOK, QueueAssumption
<1>1. sources' \in [Tabs -> [Ids -> MaybeSource]]
  BY <1>0 DEF ForgetSources, RestOK, MaybeSource
<1>2. PublishedStep  BY <1>0, PublishedSame
<1>3. CASE CancelBatch(t)
  <2> DEFINE ids(S) == {proc[p].id : p \in S}
             ann == ids({p \in LiveIn(t) : proc[p].announced})
             off == ids({p \in LiveIn(t) : \/ proc[p].announced
                                           \/ proc[p].fresh})
  <2>1. /\ StopAll(t, "cancel") /\ clearing' = clearing \cup ann
        /\ calledOff' = calledOff \cup off /\ UNCHANGED <<receipts, late>>
    BY <1>3 DEF CancelBatch
  <2>2. ann \subseteq off  OBVIOUS
  <2>3. off \subseteq Ids
    <3>1. \A p \in LiveIn(t) : proc[p].id \in Ids  BY Busy DEF LiveIn, Live
    <3> QED  BY <3>1
  <2>4. RestOK'  BY <1>0, <1>1, <2>1, <2>2, <2>3 DEF RestOK
  <2>5. RowsOK'  BY <1>0, <1>2, <2>1, RowsKept
  <2>6. \A p \in LiveIn(t) : proc[p].fresh => proc[p].id \in calledOff'
    BY <2>1
  <2>7. ProcsOK'
    <3>1. calledOff \subseteq calledOff'  BY <2>1
    <3> QED  BY <1>0, <2>1, <2>6, <3>1, StopAllType, ProcsStopped
  <2> QED  BY <2>4, <2>5, <2>7
<1>4. CASE LockUploadSession(t)
  <2>1. StopAll(t, "lock") /\ UNCHANGED <<receipts, late, clearing, calledOff>>
    BY <1>4 DEF LockUploadSession
  <2>2. RestOK'  BY <1>0, <1>1, <2>1 DEF RestOK
  <2>3. RowsOK'  BY <1>0, <1>2, <2>1, RowsKept
  <2>4. ProcsOK'  BY <1>0, <2>1, StopAllType, ProcsStopped
  <2> QED  BY <2>2, <2>3, <2>4
<1>5. CASE Crash(t)
  <2>1. /\ proc' = [p \in Procs |-> IF proc[p].tab = t THEN Idle ELSE proc[p]]
        /\ receipts' \subseteq receipts /\ late' \subseteq late
        /\ clearing' \subseteq clearing /\ UNCHANGED calledOff
    BY <1>5 DEF Crash
  <2>2. RestOK'  BY <1>0, <1>1, <2>1 DEF RestOK
  <2>3. RowsOK'  BY <1>0, <1>2, <2>1, RowsKept
  <2>4. proc' = [p \in Procs |-> proc'[p]]  BY <2>1
  <2>5. \A p \in Procs : proc'[p] = proc[p] \/ proc'[p] = Idle  BY <2>1
  <2>6. ProcsOK'  BY <1>0, <2>1, <2>4, <2>5, ProcsStopped
  <2> QED  BY <2>2, <2>3, <2>6
<1> QED  BY <1>3, <1>4, <1>5

LEMMA QSync ==
    ASSUME QueueInv, NEW s \in Syncs, SyncStep(s)
    PROVE  QueueInv'
<1> USE DEF QueueInv
<1>1. ASSUME NEW id \in Ids, ClaimQueueAttempt(s, id) PROVE QueueInv'
  <2>1. /\ HasRow(id) /\ id \notin Chunked /\ row[id].attempts < MAX_BACKGROUND_ATTEMPTS
        /\ PutRow(id, [row[id] EXCEPT !.attempts = @ + 1])
        /\ sync' = [sync EXCEPT ![s] = [phase |-> "put", id |-> id]]
        /\ bgPuts' = [bgPuts EXCEPT ![id] = @ + 1]
        /\ UNCHANGED <<proc, sources, receipts, late, clearing, published, faults,
                       calledOff, tried>>
    BY <1>1 DEF ClaimQueueAttempt, CanClaimQueueAttempt
  <2>2. RowOK(id) /\ row[id] \in RowType(id)  BY <2>1 DEF RowsOK, RowOK
  <2> DEFINE m == [row[id] EXCEPT !.attempts = @ + 1]
  <2>3. m \in RowType(id) /\ m.attempts = row[id].attempts + 1
    BY <2>1, <2>2, QueueAssumption DEF RowType, QueueAssumption
  <2> HIDE DEF m
  <2>4. /\ row' = [i \in Ids |-> row'[i]] /\ fate' = [i \in Ids |-> fate'[i]]
        /\ bgPuts' = [i \in Ids |-> bgPuts'[i]]
        /\ \A i \in Ids : row'[i] = IF i = id THEN m ELSE row[i]
        /\ \A i \in Ids : fate'[i] = fate[i]
        /\ \A i \in Ids : bgPuts'[i] = IF i = id THEN bgPuts[id] + 1 ELSE bgPuts[i]
    BY <2>1 DEF PutRow, RowsOK, HasRow, m
  <2>5. RowOK(id)'
    <3>1. /\ bgPuts[id] \in Nat /\ row[id].attempts \in Nat
          /\ bgPuts[id] <= row[id].attempts
      BY <2>1, <2>2 DEF RowOK, RowType
    <3>2. bgPuts'[id] \in 0..MAX_BACKGROUND_ATTEMPTS /\ bgPuts'[id] <= m.attempts
      BY <2>1, <2>3, <2>4, <3>1, QueueAssumption DEF QueueAssumption
    <3> QED  BY <2>1, <2>2, <2>3, <2>4, <3>2 DEF RowOK, HasRow
  <2>6. ASSUME NEW i \in Ids, i # id PROVE RowOK(i)'
    BY <2>1, <2>4, <2>6 DEF RowsOK, RowOK, HasRow
  <2>7. RowsOK'
    <3>1. published' = [i \in Ids |-> published'[i]]  BY <2>1 DEF RowsOK
    <3>2. \A i \in Ids : RowOK(i)'  BY <2>5, <2>6
    <3> QED  BY <2>4, <3>1, <3>2 DEF RowsOK
  <2>8. PublishedStep  BY <2>1, PublishedSame
  <2>9. ProcsOK'  BY <2>1, <2>4, <2>8, ProcsKept
  <2>10. RestOK'  BY <2>1 DEF RestOK
  <2> QED  BY <2>7, <2>9, <2>10
<1>2. CASE RetryUploadAnswered(s)
  <2>1. /\ sync[s].phase = "put"
        /\ UNCHANGED <<row, fate, proc, sources, receipts, late, clearing,
                       published, faults, calledOff, bgPuts, tried>>
        /\ \/ sync' = [sync EXCEPT ![s].phase = "mark"]
           \/ sync' = [sync EXCEPT ![s] = [phase |-> "idle", id |-> None]]
    BY <1>2 DEF RetryUploadAnswered
  <2>2. RestOK'  BY <2>1 DEF RestOK
  <2> QED  BY <2>1, <2>2, QOutside
<1>3. CASE MarkQueueItemUploaded(s)
  <2> DEFINE id == sync[s].id
             m == WithReceipt(id, 0, Original)
  <2>1. /\ sync[s].phase = "mark" /\ Update(id, m)
        /\ sync' = [sync EXCEPT ![s] = [phase |-> "idle", id |-> None]]
        /\ UNCHANGED <<proc, sources, receipts, late, clearing, published, faults,
                       calledOff, bgPuts, tried>>
    BY <1>3 DEF MarkQueueItemUploaded
  <2>2. id \in Ids  BY <2>1 DEF RestOK
  <2>3. /\ m \in RowType(id)
        /\ HasRow(id) => m.attempts = row[id].attempts
    BY <2>2, PartsRange, WithReceiptType, QueueAssumption DEF QueueAssumption
  <2>4. RestOK'  BY <2>1 DEF RestOK
  <2> HIDE DEF id, m
  <2> QED  BY <2>1, <2>2, <2>3, <2>4, QOutsideMerge
<1> QED  BY <1>1, <1>2, <1>3 DEF SyncStep

LEMMA QInit == Init => QueueInv
<1> SUFFICES ASSUME Init PROVE QueueInv  OBVIOUS
<1>1. RowsOK  BY QueueAssumption DEF Init, RowsOK, RowOK, HasRow, QueueAssumption
<1>2. ProcsOK  BY DEF Init, ProcsOK, ProcOK
<1>3. RestOK
  BY QueueAssumption DEF Init, RestOK, MaybeSource, QueueAssumption
<1> QED  BY <1>1, <1>2, <1>3 DEF QueueInv

LEMMA QNext == QueueInv /\ [Next]_vars => QueueInv'
<1> SUFFICES ASSUME QueueInv, [Next]_vars PROVE QueueInv'  OBVIOUS
<1>1. CASE UserStep  BY <1>1, QStart, QSource, QStop DEF UserStep
<1>2. ASSUME NEW p \in Procs, ProcStep(p) PROVE QueueInv'
  BY <1>2, QQueueRow, QAnnounce, QTakePart, QSaveHash, QPartUploaded, QGivesUp,
     QStartFinalize, QFinalize, QFinalizeFails, QDequeue, QUnwind
  DEF ProcStep
<1>3. CASE StoreStep  BY <1>3, QStore
<1>4. ASSUME NEW s \in Syncs, SyncStep(s) PROVE QueueInv'  BY <1>4, QSync
<1>5. CASE UNCHANGED vars
  <2>1. RestOK'  BY <1>5 DEF vars, QueueInv, RestOK
  <2> QED  BY <1>5, <2>1, QOutside DEF vars
<1> QED  BY <1>1, <1>2, <1>3, <1>4, <1>5 DEF Next

LEMMA QueueInvariant == Spec => []QueueInv
  BY QInit, QNext, PTL DEF Spec

(***************************************************************************)
(* The theorems.                                                           *)
(***************************************************************************)

\* The store, the uploads and the background syncs keep their types: a row is
\* there exactly while its id is queued.
THEOREM QueueTypeCorrect == Spec => []TypeOK
<1>1. QueueInv => TypeOK
  <2> SUFFICES ASSUME QueueInv PROVE TypeOK  OBVIOUS
  <2>1. \A id \in Ids : IF fate[id] = "queued" THEN row[id] \in RowType(id)
                        ELSE row[id] = None
    BY DEF QueueInv, RowsOK, RowOK, HasRow
  <2>2. fate \in [Ids -> {"new", "queued", "gone"}]
    BY DEF QueueInv, RowsOK, RowOK
  <2>3. ASSUME NEW p \in Procs
        PROVE  \/ proc[p] = Idle
               \/ /\ proc[p].phase \in Phases \ {"idle"}
                  /\ proc[p].id \in Ids
                  /\ proc[p].tab \in Tabs
                  /\ proc[p].src \in MaybeSource
                  /\ proc[p].stop \in {"none", "cancel", "lock"}
                  /\ proc[p].have \in [Parts(proc[p].id) -> MaybeSource]
                  /\ proc[p].stage \in [Parts(proc[p].id) -> Stages]
    <3>1. ProcOK(p)  BY DEF QueueInv, ProcsOK
    <3> QED  BY <3>1 DEF ProcOK, Upload
  <2>4. \A id \in Ids : \/ published[id] = None
                        \/ published[id] \in [Parts(id) -> MaybeSource]
    BY DEF QueueInv, RowsOK, RowOK
  <2>5. Writes \subseteq Ids \X (0..ChunkCount) \X Sources
    BY QueueAssumption DEF Writes, QueueAssumption
  <2> QED  BY <2>1, <2>2, <2>3, <2>4, <2>5 DEF TypeOK, QueueInv, RestOK
<1> QED  BY <1>1, QueueInvariant, PTL

\* No entry lacks a part, whatever failed, was resumed or was picked again.
THEOREM PublishedStaysWhole == Spec => []PublishedIsWhole
<1>1. QueueInv => PublishedIsWhole
  BY DEF QueueInv, RowsOK, RowOK, PublishedIsWhole
<1> QED  BY <1>1, QueueInvariant, PTL

\* A row leaves the queue only when its entry is in the vault or the user
\* called the upload off.
THEOREM RowsStayKept == Spec => []RowsKeptUntilPublished
<1>1. QueueInv => RowsKeptUntilPublished
  BY DEF QueueInv, RowsOK, RowOK, RowsKeptUntilPublished
<1> QED  BY <1>1, QueueInvariant, PTL

\* The background sync uploads a row no more often than it may.
THEOREM BackgroundStaysBounded == Spec => []BackgroundBounded
<1>1. QueueInv => BackgroundBounded
  BY QueueAssumption DEF QueueInv, RowsOK, RowOK, BackgroundBounded, QueueAssumption
<1> QED  BY <1>1, QueueInvariant, PTL

-----------------------------------------------------------------------------
(***************************************************************************)
(* What a step may write into the store.                                   *)
(***************************************************************************)

\* A row that is written is new, or the row that is there with more attempts
\* or with the receipt or the hash of one part, which is known from now on.
Writable(id, r) ==
    \/ fate[id] = "new" /\ r = NewRow(id)
    \/ /\ HasRow(id)
       /\ \/ r.receipts = row[id].receipts /\ r.hashes = row[id].hashes
          \/ \E k \in Parts(id), s \in Sources :
                 KnownNext(id, k, s) /\ (r = WithReceipt(id, k, s) \/ r = WithHash(id, k, s))

StoreWrite == \E id \in Ids : \E r : PutRow(id, r) /\ Writable(id, r)

LEMMA TriedGrows ==
    ASSUME [Next]_vars
    PROVE  tried \subseteq tried'
<1>1. CASE UserStep
  BY <1>1 DEF UserStep, StartUpload, ResumeQueuedUpload, ReselectSource,
              DiscardPendingUpload, CancelBatch, LockUploadSession, Crash
<1>2. ASSUME NEW p \in Procs, ProcStep(p) PROVE tried \subseteq tried'
  BY <1>2 DEF ProcStep, QueueRow, Announce, TakePart, SaveChunkPlaintextHash, Try,
     PartUploaded, UploadFails, NeedsSource, StartFinalize, FinalizeUpload,
     FinalizeFails, DequeueUpload, Unwind
<1>3. CASE StoreStep
  BY <1>3 DEF StoreStep, MarkChunkUploaded, SaveLateHash, ClearUploadQueue, Try
<1>4. ASSUME NEW s \in Syncs, SyncStep(s) PROVE tried \subseteq tried'
  BY <1>4 DEF SyncStep, ClaimQueueAttempt, RetryUploadAnswered, MarkQueueItemUploaded
<1>5. CASE UNCHANGED vars  BY <1>5 DEF vars
<1> QED  BY <1>1, <1>2, <1>3, <1>4, <1>5 DEF Next

\* A hash that is saved is known: it is the expected one, or tried in vain.
LEMMA SavedIsKnown ==
    ASSUME QueueInv, TriedInv, NEW p \in Procs, proc[p].phase # "idle",
           NEW k \in Parts(proc[p].id), SaveChunkPlaintextHash(p, k)
    PROVE  KnownNext(proc[p].id, k, proc[p].src)
<1>1. CASE Matches(p, k)
  <2>1. Known(proc[p].id, k, proc[p].src) /\ tried' = tried
    BY <1>1 DEF TriedInv, UploadKnown, AllKnown, Matches, SaveChunkPlaintextHash
  <2> QED  BY <2>1 DEF Known, KnownNext
<1>2. CASE ~Matches(p, k)
  BY <1>2 DEF SaveChunkPlaintextHash, Try, KnownNext
<1> QED  BY <1>1, <1>2

LEMMA UpdateWrites ==
    ASSUME QueueInv, NEW id \in Ids, NEW k \in Parts(id), NEW s \in Sources, KnownNext(id, k, s),
           Update(id, WithReceipt(id, k, s)) \/ Update(id, WithHash(id, k, s))
    PROVE  StoreWrite \/ UNCHANGED <<row, fate>>
<1>1. CASE ~HasRow(id)  BY <1>1 DEF Update
<1>2. ASSUME HasRow(id), NEW m, m = WithReceipt(id, k, s) \/ m = WithHash(id, k, s),
             Update(id, m)
      PROVE  StoreWrite
  <2>1. PutRow(id, m)  BY <1>2 DEF Update
  <2>2. Writable(id, m)  BY <1>2 DEF Writable
  <2> QED  BY <2>1, <2>2 DEF StoreWrite
<1> QED  BY <1>1, <1>2

LEMMA ProcStores ==
    ASSUME QueueInv, TriedInv, NEW p \in Procs, ProcStep(p)
    PROVE  UNCHANGED <<row, fate>> \/ StoreWrite \/ \E S : Delete(S)
<1>1. CASE QueueRow(p)
  <2>1. proc[p].phase = "prepare" /\ PutRow(proc[p].id, NewRow(proc[p].id))
    BY <1>1 DEF QueueRow
  <2>2. proc[p].id \in Ids /\ fate[proc[p].id] = "new"  BY <2>1, Busy DEF QueueInv
  <2> QED  BY <2>1, <2>2 DEF StoreWrite, Writable
<1>2. ASSUME NEW k \in DOMAIN proc[p].stage,
             SaveChunkPlaintextHash(p, k) \/ PartUploaded(p, k)
      PROVE  UNCHANGED <<row, fate>> \/ StoreWrite
  <2> DEFINE id == proc[p].id
             src == proc[p].src
  <2>1. proc[p].phase = "upload" /\ proc[p].stage[k] \in {"hashing", "put"}
    BY <1>2 DEF SaveChunkPlaintextHash, PartUploaded, Uploading
  <2>2. id \in Ids /\ proc[p] \in Upload(id) /\ UploadOK(proc[p])
    BY <2>1, Busy DEF QueueInv
  <2>3. k \in Parts(id)  BY <2>2 DEF Upload
  <2>4. id \in Chunked => src # None /\ src \in Sources
    BY <2>1, <2>2, <2>3 DEF Upload, UploadOK, MaybeSource
  <2>5. Original \in Sources /\ KnownNext(id, k, Original)
    BY QueueAssumption DEF QueueAssumption, KnownNext
  <2>6. CASE SaveChunkPlaintextHash(p, k)
    <3>1. Update(id, WithHash(id, k, src)) /\ id \in Chunked
      BY <2>2, <2>3, <2>6 DEF SaveChunkPlaintextHash, UploadOK
    <3>2. KnownNext(id, k, src)
      BY <2>1, <2>2, <2>3, <2>6, SavedIsKnown
    <3> QED  BY <2>2, <2>3, <2>4, <3>1, <3>2, UpdateWrites
  <2>7. CASE PartUploaded(p, k)
    <3>1. UNCHANGED <<row, fate>> \/ Update(id, WithReceipt(id, k, Original))
      BY <2>7 DEF PartUploaded
    <3> QED  BY <2>2, <2>3, <2>5, <3>1, UpdateWrites
  <2> QED  BY <1>2, <2>6, <2>7
<1>3. ASSUME Announce(p) \/ UploadFails(p) \/ NeedsSource(p) \/ StartFinalize(p)
             \/ FinalizeUpload(p) \/ FinalizeFails(p)
             \/ \E k \in DOMAIN proc[p].stage : TakePart(p, k)
      PROVE  UNCHANGED <<row, fate>>
  BY <1>3 DEF Announce, UploadFails, NeedsSource, StartFinalize, FinalizeUpload,
              FinalizeFails, TakePart
<1>4. CASE DequeueUpload(p) \/ Unwind(p)  BY <1>4 DEF DequeueUpload, Unwind
<1> QED  BY <1>1, <1>2, <1>3, <1>4 DEF ProcStep

LEMMA StepStores ==
    ASSUME QueueInv, TriedInv, [Next]_vars
    PROVE  UNCHANGED <<row, fate>> \/ StoreWrite \/ \E S : Delete(S)
<1>1. CASE UserStep
  BY <1>1 DEF UserStep, StartUpload, ResumeQueuedUpload, ReselectSource,
              DiscardPendingUpload, CancelBatch, LockUploadSession, Crash
<1>2. CASE \E p \in Procs : ProcStep(p)  BY <1>2, ProcStores
<1>3. CASE StoreStep
  <2>1. CASE MarkChunkUploaded
    <3>1. PICK w \in receipts : Update(w[1], WithReceipt(w[1], w[2], w[3]))
      BY <2>1 DEF MarkChunkUploaded
    <3>2. w[1] \in Ids /\ w[2] \in Parts(w[1]) /\ w[3] \in Sources
      BY QueueAssumption DEF QueueInv, RestOK, Writes, QueueAssumption
    <3>3. KnownNext(w[1], w[2], w[3])
      BY <2>1 DEF TriedInv, Known, KnownNext, MarkChunkUploaded
    <3> QED  BY <3>1, <3>2, <3>3, UpdateWrites
  <2>2. CASE SaveLateHash
    <3>1. PICK w \in late : Update(w[1], WithHash(w[1], w[2], w[3])) /\ Try(w)
      BY <2>2 DEF SaveLateHash
    <3>2. w[1] \in Ids /\ w[2] \in Parts(w[1]) /\ w[3] \in Sources
      BY QueueAssumption DEF QueueInv, RestOK, Writes, QueueAssumption
    <3>3. w = <<w[1], w[2], w[3]>>
      BY DEF QueueInv, RestOK, Writes
    <3>4. KnownNext(w[1], w[2], w[3])
      BY <3>1, <3>3 DEF KnownNext, Try
    <3> QED  BY <3>1, <3>2, <3>4, UpdateWrites
  <2> QED  BY <1>3, <2>1, <2>2 DEF StoreStep, ClearUploadQueue
<1>4. ASSUME NEW s \in Syncs, SyncStep(s)
      PROVE  UNCHANGED <<row, fate>> \/ StoreWrite
  <2>1. ASSUME NEW id \in Ids, ClaimQueueAttempt(s, id) PROVE StoreWrite
    <3> DEFINE m == [row[id] EXCEPT !.attempts = @ + 1]
    <3>1. HasRow(id) /\ PutRow(id, m)
      BY <2>1 DEF ClaimQueueAttempt, CanClaimQueueAttempt
    <3>2. m.receipts = row[id].receipts /\ m.hashes = row[id].hashes
      BY <3>1 DEF QueueInv, RowsOK, RowOK, RowType
    <3> HIDE DEF m
    <3> QED  BY <3>1, <3>2 DEF StoreWrite, Writable
  <2>2. CASE MarkQueueItemUploaded(s)
    <3>1. /\ sync[s].id \in Ids
          /\ Update(sync[s].id, WithReceipt(sync[s].id, 0, Original))
      BY <2>2 DEF MarkQueueItemUploaded, QueueInv, RestOK
    <3>2. 0 \in Parts(sync[s].id) /\ Original \in Sources
          /\ KnownNext(sync[s].id, 0, Original)
      BY <3>1, PartsRange, QueueAssumption DEF QueueAssumption, KnownNext
    <3> QED  BY <3>1, <3>2, UpdateWrites
  <2> QED  BY <1>4, <2>1, <2>2 DEF SyncStep, RetryUploadAnswered
<1>5. CASE UNCHANGED vars  BY <1>5 DEF vars
<1> QED  BY <1>1, <1>2, <1>3, <1>4, <1>5 DEF Next

-----------------------------------------------------------------------------
(***************************************************************************)
(* A file that is not the original is not taken at its first try.          *)
(***************************************************************************)

\* What is known stays so.
LEMMA KnownStays ==
    ASSUME [Next]_vars
    PROVE  /\ \A id, k, s : Known(id, k, s) => KnownNext(id, k, s)
           /\ \A id, f : AllKnown(id, f) => AllKnownNext(id, f)
  BY TriedGrows DEF Known, KnownNext, AllKnown, AllKnownNext

LEMMA NewRowKnown ==
    ASSUME NEW id \in Ids
    PROVE  /\ AllKnown(id, NewRow(id).hashes) /\ AllKnown(id, NewRow(id).receipts)
           /\ AllKnownNext(id, NewRow(id).hashes) /\ AllKnownNext(id, NewRow(id).receipts)
  BY DEF AllKnown, AllKnownNext, Known, KnownNext, NewRow

\* What the store keeps is known.
LEMMA KnownRows ==
    ASSUME QueueInv, TriedInv, [Next]_vars
    PROVE  \A id \in Ids : fate'[id] = "queued" =>
               AllKnownNext(id, row'[id].receipts) /\ AllKnownNext(id, row'[id].hashes)
<1>1. CASE UNCHANGED <<row, fate>>  BY <1>1, KnownStays DEF TriedInv, HasRow
<1>2. CASE \E S : Delete(S)
  BY <1>2, KnownStays DEF Delete, TriedInv, HasRow
<1>3. CASE StoreWrite
  <2>0. PICK i \in Ids : \E r : PutRow(i, r) /\ Writable(i, r)  BY <1>3 DEF StoreWrite
  <2>1. PICK r : PutRow(i, r) /\ Writable(i, r)  BY <2>0
  <2>2. AllKnownNext(i, r.receipts) /\ AllKnownNext(i, r.hashes)
    <3>1. CASE r = NewRow(i)  BY <3>1, NewRowKnown
    <3>2. CASE HasRow(i) /\ r.receipts = row[i].receipts /\ r.hashes = row[i].hashes
      BY <3>2, KnownStays DEF TriedInv
    <3>3. ASSUME HasRow(i), NEW k \in Parts(i), NEW s \in Sources, KnownNext(i, k, s),
                 r = WithReceipt(i, k, s) \/ r = WithHash(i, k, s)
          PROVE  AllKnownNext(i, r.receipts) /\ AllKnownNext(i, r.hashes)
      <4>1. /\ AllKnownNext(i, row[i].receipts) /\ AllKnownNext(i, row[i].hashes)
            /\ row[i] \in RowType(i)
        BY <3>3, KnownStays DEF TriedInv, QueueInv, RowsOK, RowOK
      <4>3. CASE r = WithReceipt(i, k, s)
        <5>1. /\ r.receipts = [row[i].receipts EXCEPT ![k] = s]
              /\ r.hashes = row[i].hashes
          BY <3>3, <4>1, <4>3 DEF WithReceipt, RowType
        <5> QED  BY <3>3, <4>1, <5>1 DEF AllKnownNext, RowType
      <4>4. CASE r = WithHash(i, k, s)
        <5>1. /\ r.hashes = [row[i].hashes EXCEPT ![k] = s]
              /\ r.receipts = row[i].receipts
          BY <3>3, <4>1, <4>4 DEF WithHash, RowType
        <5> QED  BY <3>3, <4>1, <5>1 DEF AllKnownNext, RowType
      <4> QED  BY <3>3, <4>3, <4>4
    <3> QED  BY <2>1, <3>1, <3>2, <3>3 DEF Writable
  <2>3. \A id \in Ids : row'[id] = IF id = i THEN r ELSE row[id]
    BY <2>1 DEF PutRow, QueueInv, RowsOK
  <2>4. \A id \in Ids : id # i => fate'[id] = fate[id]
    BY <2>1 DEF PutRow
  <2> QED  BY <2>2, <2>3, <2>4, KnownStays DEF TriedInv, HasRow
<1> QED  BY <1>1, <1>2, <1>3, StepStores

\* What is known of an upload after a step.
UploadKnownNext(w) ==
    /\ AllKnownNext(w.id, w.have) /\ AllKnownNext(w.id, w.expect)
    /\ w.id \in Chunked =>
           \A k \in Parts(w.id) : w.stage[k] = "put" => KnownNext(w.id, k, w.src)

LEMMA KnownSet ==
    ASSUME QueueInv, TriedInv, [Next]_vars, NEW p \in Procs, NEW r, Set(p, r),
           r = Idle \/ UploadKnownNext(r)
    PROVE  \A q \in Procs : proc'[q].phase # "idle" => UploadKnownNext(proc'[q])
<1>1. /\ proc' = [q \in Procs |-> proc'[q]] /\ proc'[p] = r
      /\ \A q \in Procs \ {p} : proc'[q] = proc[q]
  BY SetProc DEF QueueInv
<1>2. Idle.phase = "idle"  BY DEF Idle
<1>3. \A q \in Procs : proc[q].phase # "idle" => UploadKnownNext(proc[q])
  BY KnownStays DEF TriedInv, UploadKnown, UploadKnownNext
<1> QED  BY <1>1, <1>2, <1>3

\* A record that agrees with a known one in what counts is known.
LEMMA KnownAlike ==
    ASSUME NEW w, NEW r, UploadKnownNext(w), r.id = w.id, r.have = w.have,
           r.expect = w.expect,
           w.id \in Chunked =>
               \A k \in Parts(w.id) : r.stage[k] = "put" =>
                   \/ w.stage[k] = "put" /\ r.src = w.src
                   \/ KnownNext(w.id, k, r.src)
    PROVE  UploadKnownNext(r)
  BY DEF UploadKnownNext

LEMMA KnownUploads ==
    ASSUME QueueInv, TriedInv, [Next]_vars
    PROVE  \A p \in Procs : proc'[p].phase # "idle" => UploadKnownNext(proc'[p])
<1> DEFINE Goal == \A p \in Procs : proc'[p].phase # "idle" => UploadKnownNext(proc'[p])
<1>K. \A q \in Procs : proc[q].phase # "idle" => UploadKnownNext(proc[q])
  BY KnownStays DEF TriedInv, UploadKnown, UploadKnownNext
<1>0. CASE UNCHANGED proc  BY <1>0, <1>K
<1>1. ASSUME NEW p \in Procs, NEW t \in Tabs, NEW id \in Ids,
             StartUpload(p, t, id) \/ ResumeQueuedUpload(p, t, id)
      PROVE  Goal
  <2>2. CASE StartUpload(p, t, id)
    <3> DEFINE r == [phase |-> "prepare", id |-> id, tab |-> t, fresh |-> TRUE,
                     announced |-> FALSE, stop |-> "none", src |-> Original,
                     expect |-> NewRow(id).hashes, have |-> NewRow(id).receipts,
                     stage |-> [k \in Parts(id) |-> "todo"]]
    <3>1. UploadKnownNext(r) /\ Set(p, r)
      BY <2>2, NewRowKnown DEF StartUpload, UploadKnownNext
    <3> HIDE DEF r
    <3> QED  BY <3>1, KnownSet
  <2>3. CASE ResumeQueuedUpload(p, t, id)
    <3> DEFINE r == [phase |-> "reading", id |-> id, tab |-> t, fresh |-> FALSE,
                     announced |-> FALSE, stop |-> "none", src |-> None,
                     expect |-> row[id].hashes, have |-> row[id].receipts,
                     stage |-> [k \in Parts(id) |->
                                  IF row[id].receipts[k] = None THEN "todo"
                                  ELSE "done"]]
    <3>1. HasRow(id) /\ Set(p, r)  BY <2>3 DEF ResumeQueuedUpload
    <3>2. AllKnownNext(id, row[id].receipts) /\ AllKnownNext(id, row[id].hashes)
      BY <3>1, KnownStays DEF TriedInv
    <3>3. UploadKnownNext(r)  BY <3>2 DEF UploadKnownNext
    <3> HIDE DEF r
    <3> QED  BY <3>1, <3>3, KnownSet
  <2> QED  BY <1>1, <2>2, <2>3
<1>2. ASSUME NEW t \in Tabs, CancelBatch(t) \/ LockUploadSession(t) \/ Crash(t)
      PROVE  Goal
  <2>1. ASSUME NEW how, StopAll(t, how) PROVE Goal
    <3>1. ASSUME NEW p \in Procs, proc'[p].phase # "idle" PROVE UploadKnownNext(proc'[p])
      <4>1. CASE proc'[p] = proc[p]  BY <1>K, <3>1, <4>1
      <4>2. CASE p \in LiveIn(t) /\ proc'[p] = [proc[p] EXCEPT !.stop = how]
        <5>1. proc[p].phase # "idle"  BY <4>2 DEF LiveIn, Live
        <5>2. proc[p] \in Upload(proc[p].id)  BY <5>1, Busy DEF QueueInv
        <5>3. /\ proc'[p].src = proc[p].src /\ proc'[p].have = proc[p].have
              /\ proc'[p].id = proc[p].id /\ proc'[p].expect = proc[p].expect
              /\ proc'[p].stage = proc[p].stage
          BY <4>2, <5>2 DEF Upload
        <5> QED  BY <1>K, <5>1, <5>3 DEF UploadKnownNext
      <4> QED  BY <2>1, <4>1, <4>2, StopAllType
    <3> QED  BY <3>1
  <2>2. CASE Crash(t)
    <3>1. \A p \in Procs : proc'[p] = Idle \/ proc'[p] = proc[p]  BY <2>2 DEF Crash
    <3> QED  BY <1>K, <3>1 DEF Idle
  <2> QED  BY <1>2, <2>1, <2>2 DEF CancelBatch, LockUploadSession
<1>3. ASSUME NEW p \in Procs, ProcStep(p) PROVE Goal
  <2> DEFINE w == proc[p]
  <2>1. ASSUME w.phase # "idle"
        PROVE  w \in Upload(w.id) /\ w.id \in Ids /\ UploadOK(w) /\ UploadKnownNext(w)
    BY <1>K, <2>1, Busy DEF QueueInv
  <2>2. ASSUME w.phase # "idle", NEW phase \in Phases, Goto(p, phase) PROVE Goal
    <3> DEFINE r == [w EXCEPT !.phase = phase]
    <3>1. /\ r.id = w.id /\ r.have = w.have /\ r.expect = w.expect
          /\ r.stage = w.stage /\ r.src = w.src
      BY <2>1, <2>2 DEF Upload
    <3>2. Set(p, r)  BY <2>2 DEF Goto
    <3> HIDE DEF r
    <3>3. UploadKnownNext(r)  BY <2>1, <2>2, <3>1 DEF UploadKnownNext
    <3> QED  BY <3>2, <3>3, KnownSet
  <2>3. CASE QueueRow(p) \/ StartFinalize(p) \/ FinalizeUpload(p)
    BY <2>2, <2>3 DEF QueueRow, StartFinalize, FinalizeUpload, Uploading, Phases
  <2>4. CASE Set(p, Idle)  BY <2>4, KnownSet
  <2>5. CASE Announce(p)
    <3>1. w.phase # "idle" /\ w.phase \in {"queued", "reading"}  BY <2>5 DEF Announce
    <3> DEFINE r == [w EXCEPT !.phase = "upload", !.announced = TRUE,
                              !.src = IF w.fresh THEN @ ELSE sources[w.tab][w.id]]
    <3>2. /\ r.id = w.id /\ r.have = w.have /\ r.expect = w.expect
          /\ r.stage = w.stage
      BY <2>1, <3>1 DEF Upload
    <3>3. \A k \in Parts(w.id) : w.stage[k] # "put"
      BY <2>1, <3>1 DEF UploadOK
    <3>4. Set(p, r)  BY <2>5 DEF Announce
    <3> HIDE DEF r
    <3>5. UploadKnownNext(r)  BY <2>1, <3>1, <3>2, <3>3, KnownAlike
    <3> QED  BY <3>4, <3>5, KnownSet
  <2>6. ASSUME NEW k \in DOMAIN w.stage, w.phase # "idle",
               NEW s, s = "put" => (w.id \in Chunked => KnownNext(w.id, k, w.src)),
               Set(p, [w EXCEPT !.stage[k] = s])
        PROVE  Goal
    <3> DEFINE r == [w EXCEPT !.stage[k] = s]
    <3>1. /\ r.id = w.id /\ r.have = w.have /\ r.expect = w.expect /\ r.src = w.src
          /\ r.stage = [w.stage EXCEPT ![k] = s]
          /\ w.stage \in [Parts(w.id) -> Stages]
      BY <2>1, <2>6 DEF Upload
    <3>2. Set(p, r)  BY <2>6
    <3> HIDE DEF r
    <3>3. \A l \in Parts(w.id) : r.stage[l] = IF l = k THEN s ELSE w.stage[l]
      BY <3>1
    <3>4. UploadKnownNext(r)  BY <2>1, <2>6, <3>1, <3>3, KnownAlike
    <3> QED  BY <3>2, <3>4, KnownSet
  <2>7. ASSUME NEW k \in DOMAIN w.stage, PartUploaded(p, k) PROVE Goal
    <3> DEFINE s == IF w.id \in Chunked THEN w.src ELSE Original
               r == [w EXCEPT !.stage[k] = "done", !.have[k] = s]
    <3>1. w.phase # "idle" /\ w.stage[k] = "put" /\ Set(p, r)
      BY <2>7 DEF PartUploaded, Uploading
    <3>2. w.stage \in [Parts(w.id) -> Stages] /\ w.have \in [Parts(w.id) -> MaybeSource]
      BY <2>1, <3>1 DEF Upload
    <3>3. k \in Parts(w.id)  BY <3>2
    <3>4. KnownNext(w.id, k, s)
      BY <2>1, <3>1, <3>3 DEF UploadKnownNext, KnownNext
    <3>5. /\ r.id = w.id /\ r.expect = w.expect /\ r.src = w.src
          /\ r.have = [w.have EXCEPT ![k] = s]
          /\ r.stage = [w.stage EXCEPT ![k] = "done"]
      BY <2>1, <3>1 DEF Upload
    <3> HIDE DEF r, s
    <3>6. AllKnownNext(w.id, r.have)
      BY <2>1, <3>1, <3>2, <3>4, <3>5 DEF UploadKnownNext, AllKnownNext
    <3>7. \A l \in Parts(w.id) : r.stage[l] = "put" => w.stage[l] = "put"
      BY <3>2, <3>5
    <3>8. UploadKnownNext(r)
      BY <2>1, <3>1, <3>5, <3>6, <3>7 DEF UploadKnownNext
    <3> QED  BY <3>1, <3>8, KnownSet
  <2>8. ASSUME NEW k \in DOMAIN w.stage, TakePart(p, k) PROVE Goal
    <3>1. /\ w.phase # "idle"
          /\ Set(p, [w EXCEPT !.stage[k] = IF w.id \in Chunked THEN "hashing" ELSE "put"])
      BY <2>8 DEF TakePart, Uploading
    <3> QED  BY <2>6, <3>1
  <2>9. ASSUME NEW k \in DOMAIN w.stage, SaveChunkPlaintextHash(p, k) PROVE Goal
    <3>1. w.phase # "idle" /\ k \in Parts(w.id)
      BY <2>1, <2>9 DEF SaveChunkPlaintextHash, Uploading, Upload
    <3>2. KnownNext(w.id, k, w.src)  BY <2>9, <3>1, SavedIsKnown
    <3>3. Set(p, Idle) \/ Set(p, [w EXCEPT !.stage[k] = "put"])
      BY <2>9 DEF SaveChunkPlaintextHash
    <3> QED  BY <2>4, <2>6, <3>1, <3>2, <3>3
  <2>10. CASE UploadFails(p) \/ NeedsSource(p) \/ FinalizeFails(p) \/ DequeueUpload(p)
              \/ Unwind(p)
    BY <2>4, <2>10 DEF UploadFails, NeedsSource, FinalizeFails, DequeueUpload, Unwind
  <2> QED  BY <1>3, <2>3, <2>5, <2>7, <2>8, <2>9, <2>10 DEF ProcStep
<1>4. ASSUME StoreStep \/ (\E s \in Syncs : SyncStep(s)) \/ UNCHANGED vars
      PROVE  UNCHANGED proc
  BY <1>4 DEF StoreStep, MarkChunkUploaded, SaveLateHash, ClearUploadQueue, SyncStep,
     ClaimQueueAttempt, RetryUploadAnswered, MarkQueueItemUploaded, vars
<1>5. ASSUME NEW t \in Tabs, NEW id \in Ids,
             \/ \E s \in Sources : ReselectSource(t, id, s)
             \/ DiscardPendingUpload(t, id)
      PROVE  UNCHANGED proc
  BY <1>5 DEF ReselectSource, DiscardPendingUpload
<1> HIDE DEF Goal
<1>6. ASSUME UNCHANGED proc PROVE Goal  BY <1>0, <1>6 DEF Goal
<1>7. ASSUME UserStep PROVE Goal
  <2>1. \/ \E t \in Tabs, id \in Ids : \/ \E s \in Sources : ReselectSource(t, id, s)
                                     \/ DiscardPendingUpload(t, id)
        \/ \E q \in Procs, t \in Tabs, id \in Ids :
              StartUpload(q, t, id) \/ ResumeQueuedUpload(q, t, id)
        \/ \E t \in Tabs : CancelBatch(t) \/ LockUploadSession(t) \/ Crash(t)
    BY <1>7 DEF UserStep
  <2> QED  BY <1>1, <1>2, <1>5, <1>6, <2>1
<1>8. Goal  BY <1>3, <1>4, <1>6, <1>7 DEF Next
<1> QED  BY <1>8 DEF Goal

\* An entry is made of what an upload holds.
LEMMA KnownPublished ==
    ASSUME QueueInv, TriedInv, [Next]_vars
    PROVE  \A id \in Ids : published'[id] # None => AllKnownNext(id, published'[id])
<1>1. CASE UNCHANGED published  BY <1>1, KnownStays DEF TriedInv
<1>2. ASSUME NEW p \in Procs, proc[p].phase = "finalize", Published(p)
      PROVE  \A id \in Ids : published'[id] # None => AllKnownNext(id, published'[id])
  <2>1. proc[p].id \in Ids /\ AllKnownNext(proc[p].id, proc[p].have)
    BY <1>2, Busy, KnownStays DEF QueueInv, TriedInv, UploadKnown
  <2>2. \A id \in Ids :
            \/ published'[id] = published[id]
            \/ id = proc[p].id /\ published'[id] = proc[p].have
    BY <1>2, <2>1 DEF Published, QueueInv, RowsOK
  <2> QED  BY <2>1, <2>2, KnownStays DEF TriedInv
<1>3. ASSUME NEW p \in Procs, ProcStep(p)
      PROVE  \/ UNCHANGED published
             \/ proc[p].phase = "finalize" /\ Published(p)
  <2>1. CASE FinalizeUpload(p) \/ FinalizeFails(p) \/ Unwind(p)
    BY <2>1 DEF FinalizeUpload, FinalizeFails, Unwind
  <2>2. ASSUME QueueRow(p) \/ Announce(p) \/ UploadFails(p) \/ NeedsSource(p)
               \/ StartFinalize(p) \/ DequeueUpload(p)
        PROVE  UNCHANGED published
    BY <2>2 DEF QueueRow, Announce, UploadFails, NeedsSource, StartFinalize, DequeueUpload
  <2>3. ASSUME NEW k \in DOMAIN proc[p].stage,
               TakePart(p, k) \/ SaveChunkPlaintextHash(p, k) \/ PartUploaded(p, k)
        PROVE  UNCHANGED published
    BY <2>3 DEF TakePart, SaveChunkPlaintextHash, PartUploaded
  <2> QED  BY <1>3, <2>1, <2>2, <2>3 DEF ProcStep
<1>4. ASSUME UserStep \/ StoreStep \/ (\E s \in Syncs : SyncStep(s)) \/ UNCHANGED vars
      PROVE  UNCHANGED published
  BY <1>4 DEF UserStep, StartUpload, ResumeQueuedUpload, ReselectSource,
     DiscardPendingUpload, CancelBatch, LockUploadSession, Crash, StoreStep,
     MarkChunkUploaded, SaveLateHash, ClearUploadQueue, SyncStep, ClaimQueueAttempt,
     RetryUploadAnswered, MarkQueueItemUploaded, vars
<1> QED  BY <1>1, <1>2, <1>3, <1>4 DEF Next

\* A receipt nobody waits for names the source of the upload that began it.
LEMMA KnownReceipts ==
    ASSUME QueueInv, TriedInv, [Next]_vars
    PROVE  \A w \in receipts' : KnownNext(w[1], w[2], w[3])
<1>1. CASE receipts' \subseteq receipts  BY <1>1, KnownStays DEF TriedInv
<1>2. ASSUME NEW p \in Procs, ProcStep(p)
      PROVE  \A w \in receipts' : KnownNext(w[1], w[2], w[3])
  <2>1. ASSUME NEW k \in DOMAIN proc[p].stage, PartUploaded(p, k)
        PROVE  \A w \in receipts' : KnownNext(w[1], w[2], w[3])
    <3>1. /\ proc[p].phase = "upload" /\ proc[p].stage[k] = "put"
          /\ \/ receipts' = receipts
             \/ /\ proc[p].id \in Chunked
                /\ receipts' = receipts \cup {<<proc[p].id, k, proc[p].src>>}
      BY <2>1 DEF PartUploaded, Uploading
    <3>2. CASE receipts' = receipts  BY <1>1, <3>2
    <3>3. CASE /\ proc[p].id \in Chunked
               /\ receipts' = receipts \cup {<<proc[p].id, k, proc[p].src>>}
      <4>1. k \in Parts(proc[p].id)
        BY <3>1, Busy DEF QueueInv, Upload
      <4>2. KnownNext(proc[p].id, k, proc[p].src)
        BY <3>1, <3>3, <4>1, KnownStays DEF TriedInv, UploadKnown
      <4> QED  BY <3>3, <4>2, KnownStays DEF TriedInv
    <3> QED  BY <3>1, <3>2, <3>3
  <2>2. ASSUME QueueRow(p) \/ Announce(p) \/ StartFinalize(p) \/ FinalizeUpload(p)
               \/ FinalizeFails(p) \/ DequeueUpload(p) \/ NeedsSource(p)
               \/ UploadFails(p) \/ Unwind(p)
        PROVE  receipts' = receipts
    BY <2>2 DEF QueueRow, Announce, StartFinalize, FinalizeUpload, FinalizeFails,
       DequeueUpload, NeedsSource, UploadFails, Unwind
  <2>3. ASSUME NEW k \in DOMAIN proc[p].stage,
               TakePart(p, k) \/ SaveChunkPlaintextHash(p, k)
        PROVE  receipts' = receipts
    BY <2>3 DEF TakePart, SaveChunkPlaintextHash
  <2> QED  BY <1>1, <1>2, <2>1, <2>2, <2>3 DEF ProcStep
<1>3. CASE UserStep
  BY <1>1, <1>3 DEF UserStep, StartUpload, ResumeQueuedUpload, ReselectSource,
     DiscardPendingUpload, CancelBatch, LockUploadSession, Crash
<1>4. CASE StoreStep \/ (\E s \in Syncs : SyncStep(s)) \/ UNCHANGED vars
  BY <1>1, <1>4 DEF StoreStep, MarkChunkUploaded, SaveLateHash, ClearUploadQueue, SyncStep,
     ClaimQueueAttempt, RetryUploadAnswered, MarkQueueItemUploaded, vars
<1> QED  BY <1>2, <1>3, <1>4 DEF Next

LEMMA TriedInvariant == Spec => [](QueueInv /\ TriedInv)
<1>1. Init => TriedInv
  BY DEF Init, TriedInv, HasRow, Idle
<1>2. QueueInv /\ TriedInv /\ [Next]_vars => TriedInv'
  <2> SUFFICES ASSUME QueueInv, TriedInv, [Next]_vars PROVE TriedInv'  OBVIOUS
  <2> QED  BY KnownRows, KnownPublished, KnownUploads, KnownReceipts
           DEF TriedInv, UploadKnown, UploadKnownNext, AllKnown, AllKnownNext, Known,
               KnownNext, HasRow
<1> QED  BY <1>1, <1>2, QueueInvariant, PTL DEF Spec

\* A hash or a published part of a file that is not the original means that
\* this file was tried before, and that the try went no further: whatever is
\* picked, retried, cancelled or interrupted.
THEOREM WrongFilesAreTriedTwice == Spec => []WrongFileNeedsTwoTries
<1>1. QueueInv /\ TriedInv => WrongFileNeedsTwoTries
  <2> SUFFICES ASSUME QueueInv, TriedInv, NEW id \in Chunked, NEW k \in Parts(id),
                      NEW s \in Sources \ {Original},
                      \/ HasRow(id) /\ row[id].hashes[k] = s
                      \/ published[id] # None /\ published[id][k] = s
               PROVE  <<id, k, s>> \in tried
    BY DEF WrongFileNeedsTwoTries
  <2>1. id \in Ids /\ s # None  BY QueueAssumption DEF QueueAssumption
  <2> QED  BY <2>1 DEF TriedInv, AllKnown, Known
<1> QED  BY <1>1, TriedInvariant, PTL

\* A row that left the queue never comes back, whatever is still on its way.
THEOREM GoneRowsStayGone == Spec => GoneStaysGone
<1>1. QueueInv /\ TriedInv /\ [Next]_vars
          => [\A id \in Ids : fate[id] = "gone" => fate'[id] = "gone"]_vars
  <2> SUFFICES ASSUME QueueInv, TriedInv, [Next]_vars, NEW id \in Ids, fate[id] = "gone"
               PROVE  fate'[id] = "gone"
    OBVIOUS
  <2>1. CASE StoreWrite
    <3>1. \E i \in Ids : fate[i] # "gone" /\ \E r : PutRow(i, r)
      BY <2>1 DEF StoreWrite, Writable, HasRow
    <3> QED  BY <3>1 DEF PutRow, QueueInv, RowsOK
  <2>2. CASE \E S : Delete(S)  BY <2>2 DEF Delete, HasRow
  <2> QED  BY <2>1, <2>2, StepStores
<1> QED  BY <1>1, TriedInvariant, PTL DEF Spec, GoneStaysGone
=============================================================================
