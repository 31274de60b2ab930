------------------------- MODULE StreamWorkerProofs -------------------------
(***************************************************************************)
(* Proofs about StreamWorker, for any number of sessions, bodies, chunks,  *)
(* permits and requests.                                                   *)
(***************************************************************************)
EXTENDS StreamWorker, Sums, FiniteSetTheorems, TLAPS

(***************************************************************************)
(* Permits and the queue for them.                                         *)
(***************************************************************************)
PermitsInv ==
    /\ load \in [Loads -> LoadPhases]
    /\ ahead \in [Loads -> SUBSET Loads]
    /\ PermitsConserved
    /\ Waiting # {} => streamFetchSlots = MAX_CONCURRENT_STREAM_FETCHES
    /\ \A l \in Waiting : ahead[l] \subseteq Waiting \ {l}
    /\ \A l, k \in Waiting : l # k => (l \in ahead[k] <=> k \notin ahead[l])

LEMMA LoadsFinite ==
    /\ IsFiniteSet(Loads)
    /\ IsFiniteSet(Holding)
    /\ Cardinality(Holding) \in Nat
<1>1. IsFiniteSet(SessionObjects)
    BY StreamAssumption, FS_Interval DEF SessionObjects, StreamAssumption
<1>2. LastChunk \in Int
    BY StreamAssumption DEF LastChunk, StreamAssumption
<1>3. IsFiniteSet(Chunks)
    BY <1>2, FS_Interval DEF Chunks
<1>4. IsFiniteSet(Loads)
    BY <1>1, <1>3, FS_Product DEF Loads
<1>5. Holding \in SUBSET Loads
    BY DEF Holding
<1>6. IsFiniteSet(Holding)
    BY <1>4, <1>5, FS_Subset
<1> QED  BY <1>4, <1>6, FS_CardinalityType

LEMMA MaxZero ==
    ASSUME NEW n \in Int
    PROVE  Max({0, n}) = IF n > 0 THEN n ELSE 0
  BY DEF Max

\* A cleanup only takes loads out of the queue, the rest keep their order.
LEMMA CleanupPermits ==
    ASSUME PermitsInv, NEW S, Cleanup(S)
    PROVE  /\ PermitsInv'
           /\ Waiting' = {l \in Waiting : l[1] \notin S}
           /\ Holding' = Holding
<1>1. /\ load' \in [Loads -> LoadPhases]
      /\ ahead' \in [Loads -> SUBSET Loads]
    BY DEF PermitsInv, Cleanup, LoadPhases
<1>2. Waiting' = {l \in Waiting : l[1] \notin S}
    BY DEF PermitsInv, Cleanup, Waiting
<1>3. Holding' = Holding
    BY DEF PermitsInv, Cleanup, Waiting, Holding
<1>4. \A l \in Waiting' : ahead'[l] = ahead[l] \cap Waiting'
    BY <1>2 DEF PermitsInv, Cleanup, Waiting
<1>5. PermitsConserved'
    BY <1>3 DEF PermitsInv, PermitsConserved, Cleanup
<1>6. streamFetchSlots' = streamFetchSlots
    BY DEF Cleanup
<1> QED  BY <1>1, <1>2, <1>3, <1>4, <1>5, <1>6 DEF PermitsInv

\* A load starts at once if there is a permit, and goes to the end of the
\* queue if there is none.
LEMMA StartPermits ==
    ASSUME PermitsInv, NEW b \in Bodies, PullStarts(b),
           <<body[b].of, body[b].next>> \in Loads
    PROVE  /\ PermitsInv'
           /\ Waiting' \subseteq Waiting \cup {<<body[b].of, body[b].next>>}
           /\ load'[<<body[b].of, body[b].next>>] # "none"
           /\ \A k \in Loads : load[k] # "none" => load'[k] = load[k]
<1> DEFINE l == <<body[b].of, body[b].next>>
<1>0. l \in Loads /\ load[l] = "none" /\ l \notin Waiting /\ l \notin Holding
    BY DEF PullStarts, Waiting, Holding
<1>s. /\ \/ /\ streamFetchSlots < MAX_CONCURRENT_STREAM_FETCHES
            /\ load' = [load EXCEPT ![l] = "fetch"]
            /\ streamFetchSlots' = streamFetchSlots + 1
            /\ ahead' = ahead
         \/ /\ ~(streamFetchSlots < MAX_CONCURRENT_STREAM_FETCHES)
            /\ load' = [load EXCEPT ![l] = "waiting"]
            /\ ahead' = [ahead EXCEPT ![l] = Waiting]
            /\ streamFetchSlots' = streamFetchSlots
    BY DEF PullStarts
<1> HIDE DEF l
<1>1. CASE streamFetchSlots < MAX_CONCURRENT_STREAM_FETCHES
  <2>1. /\ load' = [load EXCEPT ![l] = "fetch"]
        /\ streamFetchSlots' = streamFetchSlots + 1
        /\ ahead' = ahead
      BY <1>1, <1>s
  <2>0. \A k \in Loads : load'[k] = IF k = l THEN "fetch" ELSE load[k]
      BY <1>0, <2>1 DEF PermitsInv
  <2>2. Holding' = Holding \cup {l} /\ Waiting' = Waiting
      BY <1>0, <2>0 DEF Holding, Waiting
  <2>3. Waiting = {}
      BY <1>1, StreamAssumption DEF PermitsInv, StreamAssumption
  <2>6. Cardinality(Holding \cup {l}) = Cardinality(Holding) + 1
      BY <1>0, LoadsFinite, FS_AddElement
  <2>7. streamFetchSlots = Cardinality(Holding)
      BY DEF PermitsInv, PermitsConserved
  <2>4. PermitsConserved'
      BY <1>1, <2>1, <2>2, <2>6, <2>7, LoadsFinite, StreamAssumption
         DEF PermitsConserved, StreamAssumption
  <2>5. load' \in [Loads -> LoadPhases]
      BY <1>0, <2>1 DEF PermitsInv, LoadPhases
  <2>8. PermitsInv'
      BY <2>1, <2>2, <2>3, <2>4, <2>5 DEF PermitsInv
  <2> QED  BY <1>0, <2>0, <2>2, <2>8 DEF l
<1>2. CASE ~(streamFetchSlots < MAX_CONCURRENT_STREAM_FETCHES)
  <2>1. /\ load' = [load EXCEPT ![l] = "waiting"]
        /\ ahead' = [ahead EXCEPT ![l] = Waiting]
        /\ streamFetchSlots' = streamFetchSlots
      BY <1>2, <1>s
  <2>0. \A k \in Loads : load'[k] = IF k = l THEN "waiting" ELSE load[k]
      BY <1>0, <2>1 DEF PermitsInv
  <2>2. Holding' = Holding /\ Waiting' = Waiting \cup {l}
      BY <1>0, <2>0 DEF Holding, Waiting
  <2>3. PermitsConserved'
      BY <2>1, <2>2 DEF PermitsInv, PermitsConserved
  <2>4. streamFetchSlots' = MAX_CONCURRENT_STREAM_FETCHES
      BY <1>2, <2>1, LoadsFinite, StreamAssumption
         DEF PermitsInv, PermitsConserved, StreamAssumption
  <2>5. Waiting \in SUBSET Loads
      BY DEF Waiting
  <2>6. /\ load' \in [Loads -> LoadPhases]
        /\ ahead' \in [Loads -> SUBSET Loads]
      BY <1>0, <2>1, <2>5 DEF PermitsInv, LoadPhases
  <2>7. /\ ahead'[l] = Waiting
        /\ \A k \in Waiting : ahead'[k] = ahead[k] /\ l \notin ahead[k]
      BY <1>0, <2>1, <2>5 DEF PermitsInv
  <2>8. PermitsInv'
      BY <1>0, <2>2, <2>3, <2>4, <2>6, <2>7 DEF PermitsInv
  <2> QED  BY <1>0, <2>0, <2>2, <2>8 DEF l
<1> QED  BY <1>1, <1>2

\* A load that ends passes its permit to the head of the queue.
LEMMA EndPermits ==
    ASSUME PermitsInv, NEW l \in Holding, EndLoad(l)
    PROVE  /\ PermitsInv'
           /\ Waiting' \subseteq Waiting
           /\ \A k \in Loads : k # l /\ load[k] # "none" => load'[k] # "none"
<1>0. l \in Loads /\ l \notin Waiting
    BY DEF Holding, Waiting
<1>1. CASE /\ Waiting = {}
           /\ load' = [load EXCEPT ![l] = "none"]
           /\ streamFetchSlots' = Max({0, streamFetchSlots - 1})
           /\ UNCHANGED ahead
  <2>0. \A k \in Loads : load'[k] = IF k = l THEN "none" ELSE load[k]
      BY <1>0, <1>1 DEF PermitsInv
  <2>1. Holding' = Holding \ {l} /\ Waiting' = {}
      BY <1>0, <1>1, <2>0 DEF Holding, Waiting
  <2>2. Cardinality(Holding') = streamFetchSlots - 1
      BY <2>1, LoadsFinite, FS_RemoveElement DEF PermitsInv, PermitsConserved
  <2>3. Cardinality(Holding') \in Nat
      BY <2>1, LoadsFinite, FS_RemoveElement, FS_CardinalityType
  <2>4. streamFetchSlots \in Nat
      BY LoadsFinite DEF PermitsInv, PermitsConserved
  <2>5. streamFetchSlots' = streamFetchSlots - 1
      BY <1>1, <2>2, <2>3, <2>4, MaxZero
  <2>6. PermitsConserved'
      BY <2>2, <2>4, <2>5, StreamAssumption
         DEF PermitsInv, PermitsConserved, StreamAssumption
  <2>7. load' \in [Loads -> LoadPhases]
      BY <1>1 DEF PermitsInv, LoadPhases
  <2> QED  BY <1>1, <2>1, <2>6, <2>7 DEF PermitsInv
<1>2. ASSUME NEW next \in Waiting,
             ahead[next] = {},
             load' = [load EXCEPT ![l] = "none", ![next] = "fetch"],
             ahead' = [k \in Loads |-> ahead[k] \ {next}],
             streamFetchSlots' = streamFetchSlots
      PROVE  /\ PermitsInv'
             /\ Waiting' \subseteq Waiting
             /\ \A k \in Loads : k # l /\ load[k] # "none" => load'[k] # "none"
  <2>0. next \in Loads /\ next # l
      BY <1>0 DEF Waiting
  <2>1. \A k \in Loads : load'[k] = IF k = l THEN "none"
                                    ELSE IF k = next THEN "fetch" ELSE load[k]
      BY <1>0, <1>2, <2>0 DEF PermitsInv
  <2>2. Holding' = (Holding \ {l}) \cup {next}
      BY <1>0, <2>0, <2>1 DEF Holding
  <2>3. Waiting' = Waiting \ {next}
      BY <1>0, <2>0, <2>1 DEF Waiting, Holding
  <2>4. next \notin Holding
      BY DEF Waiting, Holding
  <2>5. Cardinality(Holding \ {l}) = Cardinality(Holding) - 1
        /\ IsFiniteSet(Holding \ {l})
      BY LoadsFinite, FS_RemoveElement
  <2>6. Cardinality(Holding') = Cardinality(Holding \ {l}) + 1
      BY <2>2, <2>4, <2>5, FS_AddElement
  <2>7. PermitsConserved'
      BY <1>2, <2>5, <2>6, LoadsFinite DEF PermitsInv, PermitsConserved
  <2>8. /\ load' \in [Loads -> LoadPhases]
        /\ ahead' \in [Loads -> SUBSET Loads]
      BY <1>2 DEF PermitsInv, LoadPhases
  <2>9. \A k \in Waiting' : ahead'[k] = ahead[k] \ {next}
      BY <1>2, <2>3 DEF Waiting
  <2>10. /\ Waiting' # {} => streamFetchSlots' = MAX_CONCURRENT_STREAM_FETCHES
         /\ \A k \in Waiting' : ahead'[k] \subseteq Waiting' \ {k}
      BY <1>2, <2>3, <2>9 DEF PermitsInv
  <2>11. \A j, k \in Waiting' : j # k => (j \in ahead'[k] <=> k \notin ahead'[j])
      BY <2>3, <2>9 DEF PermitsInv
  <2>12. PermitsInv'
      BY <2>7, <2>8, <2>10, <2>11 DEF PermitsInv
  <2> QED  BY <2>1, <2>3, <2>12
<1> QED  BY <1>1, <1>2 DEF EndLoad

(***************************************************************************)
(* Sessions and bodies.  What is under way for a body is for a session     *)
(* object and a chunk that exist; the map and the session objects agree.   *)
(***************************************************************************)
BodyRecord ==
    [phase : BodyPhases, of : SessionObjects \cup {Absent},
     header : RangeHeaders \cup {Absent},
     start : Nat, end : Nat, next : Nat, sent : Seq(Nat)]

Shapes ==
    /\ streamSessions \in [StreamIds -> SessionObjects \cup {Absent}]
    /\ session \in [SessionObjects ->
                       [state : {"new", "live", "cleaned"},
                        id : StreamIds \cup {Absent},
                        client : Clients \cup {Absent}, lapsed : BOOLEAN]]
    /\ cache = [s \in SessionObjects |-> cache[s]]
    /\ body \in [Bodies -> BodyRecord]

BodiesOnChunks ==
    \A b \in Bodies : body[b].phase \in {"open", "await"} =>
        /\ body[b].of \in SessionObjects
        /\ body[b].end < MediaSize
        /\ body[b].next \in Chunks

MapAgrees ==
    /\ \A id \in StreamIds : streamSessions[id] # Absent =>
          /\ streamSessions[id] \in Live
          /\ session[streamSessions[id]].id = id
    /\ \A s \in Live : session[s].id \in StreamIds

SessionsInv ==
    /\ Shapes
    /\ BodiesOnChunks
    /\ MapAgrees
    /\ KeysAreReachable
    /\ AwaitedIsLoading
    /\ \A l \in Waiting : l[1] \in Live

StreamInv == PermitsInv /\ SessionsInv

LEMMA DivMonotonic ==
    ASSUME NEW a \in Nat, NEW b \in Nat, a <= b
    PROVE  /\ a \div ChunkSize \in Nat
           /\ a \div ChunkSize <= b \div ChunkSize
  BY StreamAssumption DEF StreamAssumption

LEMMA ChunkRange ==
    /\ LastChunk \in Nat
    /\ \A e \in Nat : e < MediaSize => e \div ChunkSize \in Chunks
<1>1. MediaSize - 1 \in Nat
    BY StreamAssumption DEF StreamAssumption
<1>2. LastChunk \in Nat
    BY <1>1, DivMonotonic DEF LastChunk
<1>3. ASSUME NEW e \in Nat, e < MediaSize
      PROVE  e \div ChunkSize \in Chunks
  <2>1. e <= MediaSize - 1
      BY <1>3, StreamAssumption DEF StreamAssumption
  <2> QED  BY <1>1, <1>2, <2>1, DivMonotonic DEF Chunks, LastChunk
<1> QED  BY <1>2, <1>3

LEMMA MaxOfTwo ==
    ASSUME NEW m \in Int, NEW n \in Int
    PROVE  Max({m, n}) = IF m > n THEN m ELSE n
  BY DEF Max

LEMMA MinOfTwo ==
    ASSUME NEW m \in Int, NEW n \in Int
    PROVE  Min({m, n}) = IF m < n THEN m ELSE n
  BY DEF Min

\* Every Range header there may be.
AnyHeader ==
    [from : Nat \cup {Absent}, to : Nat \cup {Absent}] \cup {Absent}

LEMMA HeadersAsked == RangeHeaders \cup {Absent} \subseteq AnyHeader
  BY StreamAssumption DEF AnyHeader

\* What a Range header names lies within the medium.
LEMMA ParsedRange ==
    ASSUME NEW header \in AnyHeader, ParseRange(header) # Absent
    PROVE  /\ ParseRange(header).start \in Nat
           /\ ParseRange(header).end \in Nat
           /\ ParseRange(header).start <= ParseRange(header).end
           /\ ParseRange(header).end < MediaSize
<1> DEFINE range == ParseRange(header)
           last == MediaSize - 1
           Good(r) == r.start \in Nat /\ r.end \in Nat /\ r.start <= r.end
                                     /\ r.end < MediaSize
<1>0. MediaSize \in Nat /\ MediaSize > 0 /\ last \in Nat
    BY StreamAssumption DEF StreamAssumption
<1>1. CASE header = Absent
    BY <1>0, <1>1 DEF ParseRange
<1>2. CASE header # Absent
  <2>1. /\ header.from \in Nat \cup {Absent}
        /\ header.to \in Nat \cup {Absent}
      BY <1>2 DEF AnyHeader
  <2>2. CASE header.from = Absent
    <3>1. header.to \notin {Absent, 0}
        BY <1>2, <2>2 DEF ParseRange
    <3>2. range = [start |-> Max({0, MediaSize - header.to}), end |-> last]
        BY <1>2, <2>2, <3>1 DEF ParseRange
    <3>3. header.to \in Nat /\ header.to > 0 /\ MediaSize - header.to \in Int
        BY <1>0, <2>1, <3>1
    <3>4. Max({0, MediaSize - header.to})
            = IF MediaSize - header.to > 0 THEN MediaSize - header.to ELSE 0
        BY <3>3, MaxZero
    <3> QED  BY <1>0, <3>2, <3>3, <3>4
  <2>3. CASE header.from # Absent
    <3> DEFINE end == IF header.to = Absent THEN last ELSE header.to
    <3>1. header.from \in Nat /\ end \in Nat
        BY <1>0, <2>1, <2>3
    <3>2. Min({last, end}) = IF last < end THEN last ELSE end
        BY <1>0, <3>1, MinOfTwo
    <3>3. /\ ~(header.from > Min({last, end}))
          /\ range = [start |-> header.from, end |-> Min({last, end})]
        BY <1>2, <2>3 DEF ParseRange
    <3> QED  BY <1>0, <3>1, <3>2, <3>3
  <2> QED  BY <2>2, <2>3
<1> QED  BY <1>1, <1>2

Advanced(r, all, n, p) == [r EXCEPT !.sent = all, !.next = n, !.phase = p]

LEMMA BodyExcept ==
    ASSUME NEW r \in BodyRecord, NEW all \in Seq(Nat), NEW n \in Nat,
           NEW p \in BodyPhases
    PROVE  /\ Advanced(r, all, n, p) \in BodyRecord
           /\ Advanced(r, all, n, p).of = r.of
           /\ Advanced(r, all, n, p).end = r.end
           /\ Advanced(r, all, n, p).next = n
           /\ Advanced(r, all, n, p).phase = p
<1>1. [r EXCEPT !.sent = all] \in BodyRecord
    BY DEF BodyRecord
<1>2. ASSUME NEW r1 \in BodyRecord
      PROVE  LET q == [r1 EXCEPT !.next = n]
             IN  q \in BodyRecord /\ q.of = r1.of /\ q.end = r1.end /\ q.next = n
    BY DEF BodyRecord
<1>3. ASSUME NEW r1 \in BodyRecord
      PROVE  LET q == [r1 EXCEPT !.phase = p]
             IN  /\ q \in BodyRecord /\ q.of = r1.of /\ q.end = r1.end
                 /\ q.next = r1.next /\ q.phase = p
    BY DEF BodyRecord
<1>4. LET q == [r EXCEPT !.sent = all]
      IN  q.of = r.of /\ q.end = r.end
    BY DEF BodyRecord
<1> QED  BY <1>1, <1>2, <1>3, <1>4 DEF Advanced

\* A body that has sent a chunk still is what it was, one chunk further.
LEMMA SentBody ==
    ASSUME Shapes, BodiesOnChunks, NEW b \in Bodies,
           body[b].phase \in {"open", "await"}
    PROVE  LET r == Sent(body[b])
           IN  /\ r \in BodyRecord
               /\ r.of = body[b].of /\ r.end = body[b].end
               /\ r.phase \in {"open", "closed"}
               /\ r.phase = "open" => r.next \in Chunks
<1> DEFINE r == body[b]
           slice == Slice(r.next, r.start, r.end)
<1>1. /\ r \in BodyRecord
      /\ r.end < MediaSize
    BY DEF Shapes, BodiesOnChunks
<1>2. slice \in Seq(Nat)
  <2> DEFINE from == Max({r.start, r.next * ChunkSize})
             to == Min({r.end, (r.next + 1) * ChunkSize - 1})
  <2>1. r.start \in Nat /\ r.end \in Nat /\ r.next \in Nat /\ ChunkSize \in Nat
      BY <1>1, StreamAssumption DEF StreamAssumption, BodyRecord
  <2>2. r.next * ChunkSize \in Nat /\ (r.next + 1) * ChunkSize - 1 \in Int
      BY <2>1
  <2>3. from \in Nat /\ to \in Int
      BY <2>1, <2>2, MaxOfTwo, MinOfTwo
  <2>4. slice = [k \in 1 .. to - from + 1 |-> from + k - 1]
      BY DEF Slice
  <2> HIDE DEF from, to, slice
  <2>5. CASE to - from + 1 \in Nat
      BY <2>3, <2>4, <2>5
  <2>6. CASE to - from + 1 \notin Nat
    <3>1. 1 .. to - from + 1 = 1 .. 0
        BY <2>3, <2>6
    <3>2. slice = [k \in 1 .. 0 |-> from + k - 1]
        BY <2>4, <3>1
    <3> QED  BY <3>2
  <2> QED  BY <2>5, <2>6
<1> HIDE DEF slice
<1>3. r.sent \o slice \in Seq(Nat)
    BY <1>1, <1>2 DEF BodyRecord
<1> DEFINE p == IF r.next < r.end \div ChunkSize THEN "open" ELSE "closed"
           all == r.sent \o slice
<1>4. Sent(r) = Advanced(r, all, r.next + 1, p)
    BY DEF Sent, slice, Advanced
<1>5. r.next < r.end \div ChunkSize => r.next + 1 \in Chunks
  <2> DEFINE quotient == r.end \div ChunkSize
             next == r.next
  <2>1. quotient \in 0 .. LastChunk
      BY <1>1, ChunkRange DEF Chunks, BodyRecord
  <2>2. next \in Nat
      BY <1>1 DEF BodyRecord
  <2> HIDE DEF quotient, next
  <2>3. next < quotient => next + 1 \in 0 .. LastChunk
      BY <2>1, <2>2, ChunkRange
  <2> QED  BY <2>3 DEF quotient, next, Chunks
<1>6. p \in BodyPhases \cap {"open", "closed"} /\ (p = "open" => r.next < r.end \div ChunkSize)
    BY DEF BodyPhases
<1>7. all \in Seq(Nat)
    BY <1>3
<1>8. r.next + 1 \in Nat
    BY <1>1 DEF BodyRecord
<1> HIDE DEF r, p, all
<1> DEFINE q == Sent(r)
<1>9. /\ q \in BodyRecord
      /\ q.of = r.of /\ q.end = r.end /\ q.next = r.next + 1 /\ q.phase = p
    BY <1>1, <1>4, <1>6, <1>7, <1>8, BodyExcept
<1> HIDE DEF q
<1>10. /\ q \in BodyRecord
       /\ q.of = r.of /\ q.end = r.end
       /\ q.phase \in {"open", "closed"}
       /\ q.phase = "open" => q.next \in Chunks
    BY <1>5, <1>6, <1>9
<1> QED  BY <1>10 DEF q, r

-----------------------------------------------------------------------------
(***************************************************************************)
(* What a cleanup leaves.                                                  *)
(***************************************************************************)
LEMMA NoBodyRecord == NoBody \in BodyRecord
  BY DEF NoBody, BodyRecord, BodyPhases

LEMMA BodiesLeft ==
    ASSUME Shapes, NEW S
    PROVE  /\ BodiesWithout(S) \in [Bodies -> BodyRecord]
           /\ \A b \in Bodies :
                 \/ BodiesWithout(S)[b] = NoBody
                 \/ BodiesWithout(S)[b] = body[b]
<1>1. body \in [Bodies -> BodyRecord]
    BY DEF Shapes
<1> QED  BY <1>1, NoBodyRecord DEF BodiesWithout

\* A body that was just opened.
Opened(r) ==
    /\ r.phase = "open"
    /\ r.of \in SessionObjects
    /\ r.end < MediaSize
    /\ r.next \in Chunks

LEMMA CleanupBodies ==
    ASSUME StreamInv, NEW S, Cleanup(S),
           body' \in [Bodies -> BodyRecord],
           \A b \in Bodies : body'[b] = BodiesWithout(S)[b] \/ Opened(body'[b])
    PROVE  BodiesOnChunks' /\ AwaitedIsLoading'
<1>0. /\ \A b \in Bodies : \/ body'[b] = NoBody
                           \/ body'[b] = body[b]
                           \/ Opened(body'[b])
      /\ NoBody.phase = "none"
    BY BodiesLeft DEF StreamInv, SessionsInv, NoBody
<1>1. BodiesOnChunks'
    BY <1>0 DEF StreamInv, SessionsInv, BodiesOnChunks, Opened
<1>2. ASSUME NEW b \in Bodies, body'[b].phase = "await"
      PROVE  load'[<<body'[b].of, body'[b].next>>] # "none"
  <2>1. body'[b] = body[b] /\ body'[b] = BodiesWithout(S)[b]
      BY <1>0, <1>2 DEF Opened
  <2> DEFINE l == <<body[b].of, body[b].next>>
  <2>2. body[b].phase = "await" /\ load[l] # "none"
      BY <1>2, <2>1 DEF StreamInv, SessionsInv, AwaitedIsLoading
  <2>3. l \in Loads
      BY <2>2 DEF StreamInv, SessionsInv, BodiesOnChunks, Loads
  <2>4. ~ (l \in Waiting /\ l[1] \in S)
      BY <1>0, <2>1, <2>2 DEF BodiesWithout, Awaits
  <2>5. load'[l] = load[l]
      BY <2>3, <2>4 DEF Cleanup
  <2> QED  BY <2>1, <2>2, <2>5
<1> QED  BY <1>1, <1>2 DEF AwaitedIsLoading

\* The map and the session objects still agree.
LEMMA CleanupMap ==
    ASSUME StreamInv, NEW S, Cleanup(S),
           session' = SessionsWithout(S),
           streamSessions' = StreamsWithout(S)
    PROVE  /\ Live' = Live \ S
           /\ MapAgrees' /\ KeysAreReachable'
           /\ streamSessions' \in [StreamIds -> SessionObjects \cup {Absent}]
           /\ session' \in [SessionObjects ->
                               [state : {"new", "live", "cleaned"},
                                id : StreamIds \cup {Absent},
                                client : Clients \cup {Absent}, lapsed : BOOLEAN]]
           /\ cache' = [s \in SessionObjects |-> cache'[s]]
           /\ \A l \in Waiting' : l[1] \in Live'
<1> USE DEF StreamInv, SessionsInv
<1>1. \A s \in SessionObjects :
         session'[s] = IF s \in S
                       THEN [session[s] EXCEPT !.state = "cleaned", !.lapsed = FALSE]
                       ELSE session[s]
    BY DEF SessionsWithout
<1>2. \A s \in SessionObjects :
         /\ session'[s] \in [state : {"new", "live", "cleaned"},
                             id : StreamIds \cup {Absent},
                             client : Clients \cup {Absent}, lapsed : BOOLEAN]
         /\ session'[s].id = session[s].id
         /\ session'[s].state = IF s \in S THEN "cleaned" ELSE session[s].state
    BY <1>1 DEF Shapes
<1>3. Live' = Live \ S
    BY <1>2 DEF Live
<1>4. \A id \in StreamIds :
         streamSessions'[id] = IF streamSessions[id] \in S THEN Absent
                                                          ELSE streamSessions[id]
    BY DEF StreamsWithout
<1>5. Live \subseteq SessionObjects
    BY DEF Live
<1>6. MapAgrees'
    BY <1>2, <1>3, <1>4, <1>5 DEF MapAgrees
<1>7. /\ cache' = [s \in SessionObjects |-> IF s \in S THEN <<>> ELSE cache[s]]
      /\ cache' = [s \in SessionObjects |-> cache'[s]]
    BY DEF Cleanup
<1>8. KeysAreReachable'
    BY <1>2, <1>3, <1>4, <1>5, <1>7 DEF KeysAreReachable, MapAgrees
<1>9. streamSessions' \in [StreamIds -> SessionObjects \cup {Absent}]
    BY DEF Shapes, StreamsWithout
<1>10. session' = [s \in SessionObjects |-> session'[s]]
    BY DEF SessionsWithout
<1>11. \A l \in Waiting' : l[1] \in Live'
    BY <1>3, CleanupPermits
<1> QED  BY <1>2, <1>3, <1>6, <1>7, <1>8, <1>9, <1>10, <1>11

LEMMA CleanupOnlyKeeps ==
    ASSUME StreamInv, NEW S, CleanupOnly(S)
    PROVE  StreamInv'
<1>1. /\ Cleanup(S)
      /\ session' = SessionsWithout(S)
      /\ streamSessions' = StreamsWithout(S)
      /\ body' = BodiesWithout(S)
    BY DEF CleanupOnly
<1>2. body' \in [Bodies -> BodyRecord]
    BY <1>1, BodiesLeft DEF StreamInv, SessionsInv
<1>3. PermitsInv'
    BY <1>1, CleanupPermits DEF StreamInv
<1>4. BodiesOnChunks' /\ AwaitedIsLoading'
    BY <1>1, <1>2, CleanupBodies
<1> QED  BY <1>1, <1>2, <1>3, <1>4, CleanupMap DEF StreamInv, SessionsInv, Shapes

-----------------------------------------------------------------------------
(***************************************************************************)
(* Every action keeps the invariant.                                       *)
(***************************************************************************)
LEMMA RegisterKeeps ==
    ASSUME StreamInv, NEW s \in SessionObjects, NEW c \in Clients,
           NEW id \in StreamIds, RegisterStream(s, c, id)
    PROVE  StreamInv'
<1> USE DEF StreamInv, SessionsInv
<1> DEFINE S == {streamSessions[id]} \ {Absent}
           new == [state |-> "live", id |-> id, client |-> c, lapsed |-> FALSE]
<1>1. /\ session[s].state = "new"
      /\ Cleanup(S)
      /\ session' = [SessionsWithout(S) EXCEPT ![s] = new]
      /\ streamSessions' = [StreamsWithout(S) EXCEPT ![id] = s]
      /\ body' = BodiesWithout(S)
    BY DEF RegisterStream
<1>2. S \subseteq Live /\ s \notin Live /\ Live \subseteq SessionObjects
    BY <1>1 DEF MapAgrees, Live
<1>2a. \A i \in StreamIds : i # id => streamSessions[i] \notin S
    BY DEF MapAgrees
<1>2b. \A t \in Live : session[t].id = id => t \in S
  <2>1. Absent \notin SessionObjects
      BY StreamAssumption DEF StreamAssumption, SessionObjects
  <2> QED  BY <1>2, <2>1 DEF KeysAreReachable
<1> HIDE DEF S
<1>3. \A t \in SessionObjects :
         session'[t] = IF t = s THEN new
                       ELSE IF t \in S
                       THEN [session[t] EXCEPT !.state = "cleaned", !.lapsed = FALSE]
                       ELSE session[t]
    BY <1>1 DEF SessionsWithout
<1>4. \A t \in SessionObjects :
         /\ session'[t] \in [state : {"new", "live", "cleaned"},
                             id : StreamIds \cup {Absent},
                             client : Clients \cup {Absent}, lapsed : BOOLEAN]
         /\ session'[t].id = IF t = s THEN id ELSE session[t].id
         /\ session'[t].state = IF t = s THEN "live"
                                ELSE IF t \in S THEN "cleaned"
                                ELSE session[t].state
  <2> DEFINE Object == [state : {"new", "live", "cleaned"},
                        id : StreamIds \cup {Absent},
                        client : Clients \cup {Absent}, lapsed : BOOLEAN]
  <2>1. new \in Object /\ new.id = id /\ new.state = "live"
      OBVIOUS
  <2>2. session \in [SessionObjects -> Object]
      BY DEF Shapes
  <2> HIDE DEF new, Object
  <2>3. ASSUME NEW t \in SessionObjects
        PROVE  /\ session'[t] \in Object
               /\ session'[t].id = IF t = s THEN id ELSE session[t].id
               /\ session'[t].state = IF t = s THEN "live"
                                      ELSE IF t \in S THEN "cleaned"
                                      ELSE session[t].state
    <3>1. CASE t = s
        BY <1>3, <2>1, <3>1
    <3>2. CASE t # s /\ t \in S
        BY <1>3, <2>2, <3>2 DEF Object
    <3>3. CASE t # s /\ t \notin S
        BY <1>3, <2>2, <3>3
    <3> QED  BY <3>1, <3>2, <3>3
  <2> QED  BY <2>3 DEF Object
<1>5. Live' = (Live \ S) \cup {s}
    BY <1>2, <1>4 DEF Live
<1>6. \A i \in StreamIds :
         streamSessions'[i] = IF i = id THEN s
                              ELSE IF streamSessions[i] \in S THEN Absent
                              ELSE streamSessions[i]
    BY <1>1 DEF StreamsWithout
<1>7. MapAgrees'
  <2>1. ASSUME NEW i \in StreamIds, streamSessions'[i] # Absent
        PROVE  /\ streamSessions'[i] \in Live'
               /\ session'[streamSessions'[i]].id = i
    <3>1. CASE i = id
        BY <1>4, <1>5, <1>6, <3>1
    <3>2. CASE i # id
      <4>1. /\ streamSessions'[i] = streamSessions[i]
            /\ streamSessions[i] \notin S
          BY <1>6, <2>1, <3>2
      <4>2. /\ streamSessions[i] \in Live
            /\ session[streamSessions[i]].id = i
          BY <2>1, <4>1 DEF MapAgrees
      <4> QED  BY <1>2, <1>4, <1>5, <4>1, <4>2
    <3> QED  BY <3>1, <3>2
  <2>2. \A t \in Live' : session'[t].id \in StreamIds
      BY <1>2, <1>4, <1>5 DEF MapAgrees
  <2> QED  BY <2>1, <2>2 DEF MapAgrees
<1>8. /\ cache' = [t \in SessionObjects |-> IF t \in S THEN <<>> ELSE cache[t]]
      /\ cache' = [t \in SessionObjects |-> cache'[t]]
    BY <1>1 DEF Cleanup
<1>9. KeysAreReachable'
  <2>1. ASSUME NEW t \in Live'
        PROVE  streamSessions'[session'[t].id] = t
    <3>1. CASE t = s
        BY <1>4, <1>6, <3>1
    <3>2. CASE t # s
      <4>1. t \in Live /\ t \notin S /\ session'[t].id = session[t].id
          BY <1>2, <1>4, <1>5, <3>2
      <4>2. session[t].id \in StreamIds \ {id} /\ streamSessions[session[t].id] = t
          BY <1>2b, <4>1 DEF MapAgrees, KeysAreReachable
      <4> QED  BY <1>6, <4>1, <4>2
    <3> QED  BY <3>1, <3>2
  <2>2. \A t \in SessionObjects \ Live' : cache'[t] = <<>>
      BY <1>5, <1>8 DEF KeysAreReachable
  <2> QED  BY <2>1, <2>2 DEF KeysAreReachable
<1>10. /\ streamSessions' \in [StreamIds -> SessionObjects \cup {Absent}]
       /\ session' = [t \in SessionObjects |-> session'[t]]
    BY <1>1 DEF Shapes, StreamsWithout, SessionsWithout
<1>11. body' \in [Bodies -> BodyRecord]
    BY <1>1, BodiesLeft
<1>12. Shapes'
    BY <1>4, <1>8, <1>10, <1>11 DEF Shapes
<1>13. PermitsInv' /\ \A l \in Waiting' : l[1] \in Live'
    BY <1>1, <1>5, CleanupPermits
<1>14. BodiesOnChunks' /\ AwaitedIsLoading'
    BY <1>1, <1>11, CleanupBodies
<1> QED  BY <1>7, <1>9, <1>12, <1>13, <1>14

LEMMA RequestKeeps ==
    ASSUME StreamInv, NEW b \in Bodies, NEW id \in StreamIds,
           NEW header \in RangeHeaders, RequestRange(b, id, header)
    PROVE  StreamInv'
<1> DEFINE range == ParseRange(header)
           first == range.start \div ChunkSize
           new == [phase |-> "open", of |-> streamSessions[id], header |-> header,
                   start |-> range.start, end |-> range.end,
                   next |-> first, sent |-> <<>>]
<1>1. /\ streamSessions[id] # Absent
      /\ range # Absent
      /\ Cleanup(Lapsed)
      /\ session' = SessionsWithout(Lapsed)
      /\ streamSessions' = StreamsWithout(Lapsed)
      /\ body' = [BodiesWithout(Lapsed) EXCEPT ![b] = new]
    BY DEF RequestRange
<1>2. /\ range.start \in Nat /\ range.end \in Nat
      /\ range.start <= range.end /\ range.end < MediaSize
    BY <1>1, ParsedRange, HeadersAsked
<1>3. range.start < MediaSize
    BY <1>2, StreamAssumption DEF StreamAssumption
<1>4. first \in Chunks /\ first \in Nat
    BY <1>2, <1>3, ChunkRange DEF Chunks
<1>5. streamSessions[id] \in SessionObjects
    BY <1>1 DEF StreamInv, SessionsInv, Shapes
<1> HIDE DEF range, first
<1>6. new \in BodyRecord /\ Opened(new)
    BY <1>2, <1>4, <1>5 DEF BodyRecord, BodyPhases, Opened
<1> HIDE DEF new
<1>7. /\ BodiesWithout(Lapsed) \in [Bodies -> BodyRecord]
      /\ body' \in [Bodies -> BodyRecord]
    BY <1>1, <1>6, BodiesLeft DEF StreamInv, SessionsInv
<1>8. \A k \in Bodies :
         body'[k] = BodiesWithout(Lapsed)[k] \/ Opened(body'[k])
    BY <1>1, <1>6, <1>7
<1>9. PermitsInv'
    BY <1>1, CleanupPermits DEF StreamInv
<1>10. BodiesOnChunks' /\ AwaitedIsLoading'
    BY <1>1, <1>7, <1>8, CleanupBodies
<1> QED  BY <1>1, <1>7, <1>9, <1>10, CleanupMap DEF StreamInv, SessionsInv, Shapes

\* What a step must leave so that the sessions are as before.
LEMMA SameSessions ==
    ASSUME StreamInv,
           session' \in [SessionObjects ->
                           [state : {"new", "live", "cleaned"},
                            id : StreamIds \cup {Absent},
                            client : Clients \cup {Absent}, lapsed : BOOLEAN]],
           \A s \in SessionObjects : /\ session'[s].id = session[s].id
                                     /\ session'[s].state = session[s].state,
           streamSessions' = streamSessions,
           cache' = [s \in SessionObjects |-> cache'[s]],
           \A s \in SessionObjects \ Live : cache'[s] = cache[s]
    PROVE  /\ Live' = Live
           /\ MapAgrees' /\ KeysAreReachable'
<1> USE DEF StreamInv, SessionsInv
<1>1. Live' = Live
    BY DEF Live
<1>2. Live \subseteq SessionObjects
    BY DEF Live
<1> QED  BY <1>1, <1>2 DEF MapAgrees, KeysAreReachable

\* A body that waits for a load that is under way.
Waits(r) ==
    /\ r.phase = "await"
    /\ r.of \in SessionObjects
    /\ r.end < MediaSize
    /\ r.next \in Chunks
    /\ load'[<<r.of, r.next>>] # "none"

LEMMA BodiesKeep ==
    ASSUME StreamInv,
           body' \in [Bodies -> BodyRecord],
           \A b \in Bodies :
              \/ body'[b] = body[b] /\ body[b].phase # "await"
              \/ body'[b].phase \notin {"open", "await"}
              \/ Opened(body'[b])
              \/ Waits(body'[b])
    PROVE  BodiesOnChunks' /\ AwaitedIsLoading'
  BY DEF StreamInv, SessionsInv, BodiesOnChunks, AwaitedIsLoading, Opened, Waits

\* A waiting body waits on, if its load is still under way.
LEMMA WaitsOn ==
    ASSUME StreamInv, NEW b \in Bodies, body[b].phase = "await"
    PROVE  /\ <<body[b].of, body[b].next>> \in Loads
           /\ load[<<body[b].of, body[b].next>>] # "none"
           /\ load'[<<body[b].of, body[b].next>>] # "none" => Waits(body[b])
  BY DEF StreamInv, SessionsInv, BodiesOnChunks, AwaitedIsLoading, Waits, Loads

\* One body changes, and no load that was under way is gone.
LEMMA OneBody ==
    ASSUME StreamInv, NEW b \in Bodies, NEW r \in BodyRecord,
           body' = [body EXCEPT ![b] = r],
           r.phase \notin {"open", "await"} \/ Opened(r) \/ Waits(r),
           \A l \in Loads : load[l] # "none" => load'[l] # "none"
    PROVE  /\ body' \in [Bodies -> BodyRecord]
           /\ BodiesOnChunks' /\ AwaitedIsLoading'
<1>1. body' \in [Bodies -> BodyRecord]
    BY DEF StreamInv, SessionsInv, Shapes
<1>2. ASSUME NEW k \in Bodies
      PROVE  \/ body'[k] = body[k] /\ body[k].phase # "await"
             \/ body'[k].phase \notin {"open", "await"}
             \/ Opened(body'[k])
             \/ Waits(body'[k])
  <2>1. body \in [Bodies -> BodyRecord]
      BY DEF StreamInv, SessionsInv, Shapes
  <2>2. CASE k = b
      BY <2>1, <2>2
  <2>3. CASE k # b
    <3>1. body'[k] = body[k]
        BY <2>1, <2>3
    <3>2. body[k].phase = "await" => Waits(body[k])
        BY WaitsOn
    <3> QED  BY <3>1, <3>2
  <2> QED  BY <2>2, <2>3
<1> QED  BY <1>1, <1>2, BodiesKeep

\* The sessions are left alone.
LEMMA SessionsFrame ==
    ASSUME StreamInv, UNCHANGED <<streamSessions, session, cache>>
    PROVE  /\ Live' = Live
           /\ MapAgrees' /\ KeysAreReachable'
           /\ body' \in [Bodies -> BodyRecord] => Shapes'
<1>1. cache' = [s \in SessionObjects |-> cache'[s]]
    BY DEF StreamInv, SessionsInv, Shapes
<1>2. Live' = Live /\ MapAgrees' /\ KeysAreReachable'
    BY <1>1, SameSessions DEF StreamInv, SessionsInv, Shapes
<1> QED  BY <1>1, <1>2 DEF StreamInv, SessionsInv, Shapes

LEMMA LapseKeeps ==
    ASSUME StreamInv, NEW s \in SessionObjects, Lapse(s)
    PROVE  StreamInv'
<1>1. /\ session' = [session EXCEPT ![s].lapsed = TRUE]
      /\ UNCHANGED <<streamSessions, load, ahead, streamFetchSlots, cache, body>>
    BY DEF Lapse
<1>2. /\ session' \in [SessionObjects ->
                          [state : {"new", "live", "cleaned"},
                           id : StreamIds \cup {Absent},
                           client : Clients \cup {Absent}, lapsed : BOOLEAN]]
      /\ \A t \in SessionObjects : /\ session'[t].id = session[t].id
                                    /\ session'[t].state = session[t].state
    BY <1>1 DEF StreamInv, SessionsInv, Shapes
<1>3. cache' = [t \in SessionObjects |-> cache'[t]]
    BY <1>1 DEF StreamInv, SessionsInv, Shapes
<1>4. Live' = Live /\ MapAgrees' /\ KeysAreReachable'
    BY <1>1, <1>2, <1>3, SameSessions
<1>5. Waiting' = Waiting /\ Holding' = Holding
    BY <1>1 DEF Waiting, Holding
<1>6. PermitsInv'
    BY <1>1, <1>5 DEF StreamInv, PermitsInv, PermitsConserved
<1>7. BodiesOnChunks' /\ AwaitedIsLoading'
    BY <1>1 DEF StreamInv, SessionsInv, BodiesOnChunks, AwaitedIsLoading
<1> QED  BY <1>1, <1>2, <1>4, <1>5, <1>6, <1>7
         DEF StreamInv, SessionsInv, Shapes

LEMMA PullCachedKeeps ==
    ASSUME StreamInv, NEW b \in Bodies, PullCached(b)
    PROVE  StreamInv'
<1> DEFINE s == body[b].of
<1>1. /\ body[b].phase = "open"
      /\ body[b].next \in ToSet(cache[s])
      /\ cache' = [cache EXCEPT ![s] = Newest(@, body[b].next)]
      /\ session' = [session EXCEPT ![s].lapsed = FALSE]
      /\ body' = [body EXCEPT ![b] = Sent(@)]
      /\ UNCHANGED <<streamSessions, load, ahead, streamFetchSlots>>
    BY DEF PullCached
<1>2. s \in Live
  <2>1. ToSet(<<>>) = {}
      BY DEF ToSet
  <2>2. s \in SessionObjects
      BY <1>1 DEF StreamInv, SessionsInv, BodiesOnChunks
  <2> QED  BY <1>1, <2>1, <2>2 DEF StreamInv, SessionsInv, KeysAreReachable
<1> HIDE DEF s
<1>3. /\ session' \in [SessionObjects ->
                          [state : {"new", "live", "cleaned"},
                           id : StreamIds \cup {Absent},
                           client : Clients \cup {Absent}, lapsed : BOOLEAN]]
      /\ \A t \in SessionObjects : /\ session'[t].id = session[t].id
                                    /\ session'[t].state = session[t].state
    BY <1>1 DEF StreamInv, SessionsInv, Shapes
<1>4. /\ cache' = [t \in SessionObjects |-> cache'[t]]
      /\ \A t \in SessionObjects \ Live : cache'[t] = cache[t]
    BY <1>1, <1>2 DEF StreamInv, SessionsInv, Shapes
<1>5. Live' = Live /\ MapAgrees' /\ KeysAreReachable'
    BY <1>1, <1>3, <1>4, SameSessions
<1>6. Waiting' = Waiting /\ Holding' = Holding
    BY <1>1 DEF Waiting, Holding
<1>7. PermitsInv'
    BY <1>1, <1>6 DEF StreamInv, PermitsInv, PermitsConserved
<1> DEFINE r == Sent(body[b])
<1>8. /\ r \in BodyRecord /\ r.of = body[b].of /\ r.end = body[b].end
      /\ r.phase \in {"open", "closed"} /\ (r.phase = "open" => r.next \in Chunks)
    BY <1>1, SentBody DEF StreamInv, SessionsInv
<1>9. /\ body' = [body EXCEPT ![b] = r]
      /\ body \in [Bodies -> BodyRecord]
    BY <1>1 DEF StreamInv, SessionsInv, Shapes
<1>10. r.phase = "open" => Opened(r)
    BY <1>1, <1>8 DEF StreamInv, SessionsInv, BodiesOnChunks, Opened
<1> HIDE DEF r
<1>11. /\ body' \in [Bodies -> BodyRecord]
       /\ BodiesOnChunks' /\ AwaitedIsLoading'
    BY <1>1, <1>8, <1>9, <1>10, OneBody
<1> QED  BY <1>1, <1>3, <1>4, <1>5, <1>6, <1>7, <1>11
         DEF StreamInv, SessionsInv, Shapes

\* The three ways a body stops moving or starts to wait.
LEMMA PullPendingKeeps ==
    ASSUME StreamInv, NEW b \in Bodies, PullPending(b)
    PROVE  StreamInv'
<1> DEFINE r == [body[b] EXCEPT !.phase = "await"]
<1>1. /\ body[b].phase = "open"
      /\ load[<<body[b].of, body[b].next>>] # "none"
      /\ body' = [body EXCEPT ![b] = r]
      /\ UNCHANGED <<streamSessions, session, load, ahead, streamFetchSlots,
                     cache>>
    BY DEF PullPending
<1>2. /\ body[b] \in BodyRecord
      /\ body[b].of \in SessionObjects
      /\ body[b].end < MediaSize
      /\ body[b].next \in Chunks
    BY <1>1 DEF StreamInv, SessionsInv, Shapes, BodiesOnChunks
<1>3. /\ r \in BodyRecord
      /\ r.phase = "await" /\ r.of = body[b].of /\ r.end = body[b].end
      /\ r.next = body[b].next
    BY <1>2 DEF BodyRecord, BodyPhases
<1> HIDE DEF r
<1>4. Waits(r)
    BY <1>1, <1>2, <1>3 DEF Waits
<1>5. /\ body' \in [Bodies -> BodyRecord]
      /\ BodiesOnChunks' /\ AwaitedIsLoading'
    BY <1>1, <1>3, <1>4, OneBody
<1>6. Waiting' = Waiting /\ Holding' = Holding
    BY <1>1 DEF Waiting, Holding
<1>7. PermitsInv'
    BY <1>1, <1>6 DEF StreamInv, PermitsInv, PermitsConserved
<1> QED  BY <1>1, <1>5, <1>6, <1>7, SessionsFrame DEF StreamInv, SessionsInv

LEMMA PullStartsKeeps ==
    ASSUME StreamInv, NEW b \in Bodies, PullStarts(b)
    PROVE  StreamInv'
<1> DEFINE r == [body[b] EXCEPT !.phase = "await"]
           l == <<body[b].of, body[b].next>>
<1>1. /\ body[b].phase = "open"
      /\ body[b].of \in Live
      /\ body' = [body EXCEPT ![b] = r]
      /\ UNCHANGED <<streamSessions, session, cache>>
    BY DEF PullStarts
<1>2. /\ body[b] \in BodyRecord
      /\ body[b].of \in SessionObjects
      /\ body[b].end < MediaSize
      /\ body[b].next \in Chunks
    BY <1>1 DEF StreamInv, SessionsInv, Shapes, BodiesOnChunks
<1>3. /\ r \in BodyRecord
      /\ r.phase = "await" /\ r.of = body[b].of /\ r.end = body[b].end
      /\ r.next = body[b].next
    BY <1>2 DEF BodyRecord, BodyPhases
<1>4. l \in Loads
    BY <1>2 DEF Loads
<1>5. /\ PermitsInv'
      /\ Waiting' \subseteq Waiting \cup {l}
      /\ load'[l] # "none"
      /\ \A k \in Loads : load[k] # "none" => load'[k] = load[k]
    BY <1>4, StartPermits DEF StreamInv
<1>6. \A k \in Waiting' : k[1] \in Live
    BY <1>1, <1>5 DEF StreamInv, SessionsInv
<1> HIDE DEF r
<1>7. Waits(r)
    BY <1>2, <1>3, <1>5 DEF Waits
<1>8. /\ body' \in [Bodies -> BodyRecord]
      /\ BodiesOnChunks' /\ AwaitedIsLoading'
    BY <1>1, <1>3, <1>5, <1>7, OneBody
<1> QED  BY <1>1, <1>5, <1>6, <1>8, SessionsFrame DEF StreamInv, SessionsInv

LEMMA DropKeeps ==
    ASSUME StreamInv, NEW b \in Bodies, PullRefused(b) \/ Cancel(b)
    PROVE  StreamInv'
<1>1. /\ body' = [body EXCEPT ![b] = NoBody]
      /\ UNCHANGED <<streamSessions, session, load, ahead, streamFetchSlots,
                     cache>>
    BY DEF PullRefused, Cancel
<1>2. NoBody.phase = "none"
    BY DEF NoBody
<1>3. /\ body' \in [Bodies -> BodyRecord]
      /\ BodiesOnChunks' /\ AwaitedIsLoading'
    BY <1>1, <1>2, NoBodyRecord, OneBody
<1>4. Waiting' = Waiting /\ Holding' = Holding
    BY <1>1 DEF Waiting, Holding
<1>5. PermitsInv'
    BY <1>1, <1>4 DEF StreamInv, PermitsInv, PermitsConserved
<1> QED  BY <1>1, <1>3, <1>4, <1>5, SessionsFrame DEF StreamInv, SessionsInv

LEMMA FetchedKeeps ==
    ASSUME StreamInv, NEW l \in Loads, Fetched(l)
    PROVE  StreamInv'
<1>1. /\ load[l] = "fetch"
      /\ load' = [load EXCEPT ![l] = "decrypt"]
      /\ UNCHANGED <<streamSessions, session, ahead, streamFetchSlots, cache, body>>
    BY DEF Fetched
<1>2. load \in [Loads -> LoadPhases]
    BY DEF StreamInv, PermitsInv
<1>3. /\ load' \in [Loads -> LoadPhases]
      /\ \A k \in Loads : load'[k] = IF k = l THEN "decrypt" ELSE load[k]
    BY <1>1, <1>2 DEF LoadPhases
<1>4. Waiting' = Waiting /\ Holding' = Holding
    BY <1>1, <1>3 DEF Waiting, Holding
<1>5. PermitsInv'
    BY <1>1, <1>3, <1>4 DEF StreamInv, PermitsInv, PermitsConserved
<1>6. body' \in [Bodies -> BodyRecord] /\ body' = body
    BY <1>1 DEF StreamInv, SessionsInv, Shapes
<1>7. \A b \in Bodies : body[b].phase = "await" => Waits(body[b])
    BY <1>3, WaitsOn
<1>8. BodiesOnChunks' /\ AwaitedIsLoading'
    BY <1>6, <1>7, BodiesKeep
<1> QED  BY <1>1, <1>4, <1>5, <1>6, <1>8, SessionsFrame DEF StreamInv, SessionsInv

\* A load ends, and with it the wait of every body that waited for it.
LEMMA EndKeepsBodies ==
    ASSUME StreamInv, NEW l \in Holding, EndLoad(l),
           body' \in [Bodies -> BodyRecord],
           \A b \in Bodies :
              IF Awaits(b, l)
              THEN body'[b].phase \notin {"open", "await"} \/ Opened(body'[b])
              ELSE body'[b] = body[b]
    PROVE  /\ PermitsInv'
           /\ Waiting' \subseteq Waiting
           /\ BodiesOnChunks' /\ AwaitedIsLoading'
<1>1. /\ PermitsInv'
      /\ Waiting' \subseteq Waiting
      /\ \A k \in Loads : k # l /\ load[k] # "none" => load'[k] # "none"
    BY EndPermits DEF StreamInv
<1>2. ASSUME NEW b \in Bodies
      PROVE  \/ body'[b] = body[b] /\ body[b].phase # "await"
             \/ body'[b].phase \notin {"open", "await"}
             \/ Opened(body'[b])
             \/ Waits(body'[b])
  <2>1. CASE body[b].phase = "await" /\ ~Awaits(b, l)
    <3>1. <<body[b].of, body[b].next>> # l
        BY <2>1 DEF Awaits
    <3>2. Waits(body[b])
        BY <1>1, <2>1, <3>1, WaitsOn
    <3> QED  BY <2>1, <3>2
  <2>2. CASE body[b].phase # "await" \/ Awaits(b, l)
      BY <2>2 DEF Awaits
  <2> QED  BY <2>1, <2>2
<1>3. BodiesOnChunks' /\ AwaitedIsLoading'
    BY <1>2, BodiesKeep
<1> QED  BY <1>1, <1>3

LEMMA DecryptedKeeps ==
    ASSUME StreamInv, NEW l \in Loads, Decrypted(l)
    PROVE  StreamInv'
<1>1. /\ load[l] = "decrypt"
      /\ l[1] \in Live
      /\ cache' = [cache EXCEPT ![l[1]] = Trim(Newest(@, l[2]))]
      /\ body' = [b \in Bodies |-> IF Awaits(b, l) THEN Sent(body[b]) ELSE body[b]]
      /\ EndLoad(l)
      /\ UNCHANGED <<streamSessions, session>>
    BY DEF Decrypted
<1>2. l \in Holding
    BY <1>1 DEF Holding
<1>3. ASSUME NEW b \in Bodies
      PROVE  /\ body'[b] \in BodyRecord
             /\ IF Awaits(b, l)
                THEN body'[b].phase \notin {"open", "await"} \/ Opened(body'[b])
                ELSE body'[b] = body[b]
  <2>1. CASE Awaits(b, l)
    <3> DEFINE r == Sent(body[b])
    <3>1. body'[b] = r
        BY <1>1, <2>1
    <3>2. body[b].phase = "await"
        BY <2>1 DEF Awaits
    <3>3. /\ r \in BodyRecord /\ r.of = body[b].of /\ r.end = body[b].end
          /\ r.phase \in {"open", "closed"}
          /\ r.phase = "open" => r.next \in Chunks
        BY <3>2, SentBody DEF StreamInv, SessionsInv
    <3>4. body[b].of \in SessionObjects /\ body[b].end < MediaSize
        BY <3>2 DEF StreamInv, SessionsInv, BodiesOnChunks
    <3> HIDE DEF r
    <3>5. r.phase \notin {"open", "await"} \/ Opened(r)
        BY <3>3, <3>4 DEF Opened
    <3> QED  BY <2>1, <3>1, <3>3, <3>5
  <2>2. CASE ~Awaits(b, l)
      BY <1>1, <2>2 DEF StreamInv, SessionsInv, Shapes
  <2> QED  BY <2>1, <2>2
<1>4. body' \in [Bodies -> BodyRecord]
  <2>1. body' = [b \in Bodies |-> body'[b]]
      BY <1>1
  <2> QED  BY <1>3, <2>1
<1>5. /\ PermitsInv'
      /\ Waiting' \subseteq Waiting
      /\ BodiesOnChunks' /\ AwaitedIsLoading'
    BY <1>1, <1>2, <1>3, <1>4, EndKeepsBodies
<1>6. /\ cache' = [s \in SessionObjects |-> cache'[s]]
      /\ \A s \in SessionObjects \ Live : cache'[s] = cache[s]
    BY <1>1 DEF StreamInv, SessionsInv, Shapes
<1>7. Live' = Live /\ MapAgrees' /\ KeysAreReachable'
    BY <1>1, <1>6, SameSessions DEF StreamInv, SessionsInv, Shapes
<1>8. Shapes'
    BY <1>1, <1>4, <1>6 DEF StreamInv, SessionsInv, Shapes
<1> QED  BY <1>5, <1>7, <1>8 DEF StreamInv, SessionsInv

LEMMA LoadFailsKeeps ==
    ASSUME StreamInv, NEW l \in Loads, LoadFails(l)
    PROVE  StreamInv'
<1>1. /\ l \in Holding
      /\ body' = [b \in Bodies |-> IF Awaits(b, l) THEN NoBody ELSE body[b]]
      /\ EndLoad(l)
      /\ UNCHANGED <<streamSessions, session, cache>>
    BY DEF LoadFails
<1>2. body' \in [Bodies -> BodyRecord]
    BY <1>1, NoBodyRecord DEF StreamInv, SessionsInv, Shapes
<1>3. NoBody.phase = "none"
    BY DEF NoBody
<1>4. /\ PermitsInv'
      /\ Waiting' \subseteq Waiting
      /\ BodiesOnChunks' /\ AwaitedIsLoading'
    BY <1>1, <1>2, <1>3, EndKeepsBodies
<1> QED  BY <1>1, <1>2, <1>4, SessionsFrame DEF StreamInv, SessionsInv

\* Nothing is left of a worker that was stopped, but what it has sent.
LEMMA WorkerStopsKeeps ==
    ASSUME StreamInv, WorkerStops
    PROVE  StreamInv'
<1>1. /\ streamSessions' = [id \in StreamIds |-> Absent]
      /\ session' = SessionsWithout(Live)
      /\ load' = [l \in Loads |-> "none"]
      /\ ahead' = [l \in Loads |-> {}]
      /\ streamFetchSlots' = 0
      /\ cache' = [s \in SessionObjects |-> <<>>]
      /\ body' = [b \in Bodies |-> IF body[b].phase \in {"open", "await"}
                                   THEN NoBody ELSE body[b]]
    BY DEF WorkerStops
<1>2. Waiting' = {} /\ Holding' = {}
    BY <1>1 DEF Waiting, Holding
<1>3. PermitsInv'
    BY <1>1, <1>2, FS_EmptySet, StreamAssumption
       DEF PermitsInv, PermitsConserved, LoadPhases, StreamAssumption
<1>4. /\ session' \in [SessionObjects ->
                          [state : {"new", "live", "cleaned"},
                           id : StreamIds \cup {Absent},
                           client : Clients \cup {Absent}, lapsed : BOOLEAN]]
      /\ Live' = {}
  <2>1. \A s \in SessionObjects :
           session'[s] = IF s \in Live
                         THEN [session[s] EXCEPT !.state = "cleaned", !.lapsed = FALSE]
                         ELSE session[s]
      BY <1>1 DEF SessionsWithout
  <2>2. \A s \in SessionObjects :
           /\ session'[s] \in [state : {"new", "live", "cleaned"},
                               id : StreamIds \cup {Absent},
                               client : Clients \cup {Absent}, lapsed : BOOLEAN]
           /\ session'[s].state = IF s \in Live THEN "cleaned" ELSE session[s].state
    <3>1. \A s \in SessionObjects :
             session[s] \in [state : {"new", "live", "cleaned"},
                            id : StreamIds \cup {Absent},
                            client : Clients \cup {Absent}, lapsed : BOOLEAN]
        BY DEF StreamInv, SessionsInv, Shapes
    <3> QED  BY <2>1, <3>1
  <2>3. session' = [s \in SessionObjects |-> session'[s]]
      BY <1>1 DEF SessionsWithout
  <2>4. Live' = {}
      BY <2>2 DEF Live
  <2> QED  BY <2>2, <2>3, <2>4
<1>5. body' \in [Bodies -> BodyRecord]
    BY <1>1, NoBodyRecord DEF StreamInv, SessionsInv, Shapes
<1>6. Shapes'
    BY <1>1, <1>4, <1>5 DEF Shapes
<1>7. \A b \in Bodies : body'[b].phase \notin {"open", "await"}
    BY <1>1 DEF NoBody
<1>8. BodiesOnChunks' /\ AwaitedIsLoading'
    BY <1>7 DEF BodiesOnChunks, AwaitedIsLoading
<1>9. MapAgrees' /\ KeysAreReachable'
    BY <1>1, <1>4 DEF MapAgrees, KeysAreReachable
<1> QED  BY <1>2, <1>3, <1>6, <1>8, <1>9 DEF StreamInv, SessionsInv

LEMMA StreamInitInv == StreamInit => StreamInv
<1> SUFFICES ASSUME StreamInit PROVE StreamInv
    OBVIOUS
<1>1. Waiting = {} /\ Holding = {} /\ Live = {}
    BY DEF StreamInit, Waiting, Holding, Live, NewSession
<1>2. PermitsInv
    BY <1>1, FS_EmptySet, StreamAssumption
       DEF StreamInit, PermitsInv, PermitsConserved, LoadPhases, StreamAssumption
<1>3. Shapes
    BY NoBodyRecord DEF StreamInit, Shapes, NewSession
<1>4. \A b \in Bodies : body[b].phase = "none"
    BY DEF StreamInit, NoBody
<1>5. BodiesOnChunks /\ AwaitedIsLoading
    BY <1>4 DEF BodiesOnChunks, AwaitedIsLoading
<1>6. MapAgrees /\ KeysAreReachable
    BY <1>1 DEF StreamInit, MapAgrees, KeysAreReachable
<1> QED  BY <1>1, <1>2, <1>3, <1>5, <1>6 DEF StreamInv, SessionsInv

LEMMA StreamStepInv == StreamInv /\ [StreamNext]_streamVars => StreamInv'
<1> SUFFICES ASSUME StreamInv, [StreamNext]_streamVars PROVE StreamInv'
    OBVIOUS
<1>1. ASSUME NEW c \in Clients, NEW id \in StreamIds, RemoveStream(c, id)
      PROVE  StreamInv'
    BY <1>1, CleanupOnlyKeeps DEF RemoveStream
<1>2. ASSUME NEW c \in Clients, ClearClient(c)
      PROVE  StreamInv'
    BY <1>2, CleanupOnlyKeeps DEF ClearClient
<1>3. ASSUME NEW s \in SessionObjects, TimerFires(s)
      PROVE  StreamInv'
    BY <1>3, CleanupOnlyKeeps DEF TimerFires
<1>4. CASE OtherRequest
    BY <1>4, CleanupOnlyKeeps DEF OtherRequest
<1>5. CASE UNCHANGED streamVars
  <2>1. UNCHANGED <<streamSessions, session, load, ahead, streamFetchSlots,
                    cache, body>>
      BY <1>5 DEF streamVars
  <2>2. Waiting' = Waiting /\ Holding' = Holding /\ Live' = Live
      BY <2>1 DEF Waiting, Holding, Live
  <2>3. PermitsInv'
      BY <2>1, <2>2 DEF StreamInv, PermitsInv, PermitsConserved
  <2> QED  BY <2>1, <2>2, <2>3
           DEF StreamInv, SessionsInv, Shapes, BodiesOnChunks, MapAgrees,
               KeysAreReachable, AwaitedIsLoading
<1> QED  BY <1>1, <1>2, <1>3, <1>4, <1>5, RegisterKeeps, LapseKeeps, RequestKeeps,
            PullCachedKeeps, PullPendingKeeps, PullStartsKeeps, DropKeeps,
            FetchedKeeps, DecryptedKeeps, LoadFailsKeeps, WorkerStopsKeeps
         DEF StreamNext, LoadProceeds

(***************************************************************************)
(* The theorems.                                                           *)
(***************************************************************************)
\* The invariant holds throughout.
THEOREM StreamInvariant == StreamSpec => []StreamInv
  BY StreamInitInv, StreamStepInv, PTL DEF StreamSpec

\* No permit is ever lost or made up: those taken are those of the loads
\* that fetch or decrypt, and they are at most as many as there are.
THEOREM PermitsNeverLost == StreamSpec => []PermitsConserved
<1>1. StreamInv => PermitsConserved
    BY DEF StreamInv, PermitsInv
<1> QED  BY <1>1, StreamInvariant, PTL

\* The queue of acquireStreamFetchSlot is never longer than it must be, has
\* no load of a closed session, and keeps its order.
THEOREM QueueStaysJust == StreamSpec => []QueueIsJust
<1>1. StreamInv => QueueIsJust
    BY DEF StreamInv, PermitsInv, SessionsInv, QueueIsJust
<1> QED  BY <1>1, StreamInvariant, PTL

\* No body waits for a load that nobody runs.
THEOREM NobodyIsForgotten == StreamSpec => []AwaitedIsLoading
<1>1. StreamInv => AwaitedIsLoading
    BY DEF StreamInv, SessionsInv
<1> QED  BY <1>1, StreamInvariant, PTL

\* No permit is lost or given twice, nobody queues for nothing and nobody
\* waits for a load that has gone, for any number of streams, responses and
\* chunks: the three together are what a run checks.
THEOREM LoadsStayAccountedFor == StreamSpec => []LoadsAccountedFor
  BY PermitsNeverLost, QueueStaysJust, NobodyIsForgotten, PTL
     DEF LoadsAccountedFor

\* Every key the worker holds can be taken from it, and no plaintext stays
\* cached for a closed session.
THEOREM KeysStayReachable == StreamSpec => []KeysAreReachable
<1>1. StreamInv => KeysAreReachable
    BY DEF StreamInv, SessionsInv
<1> QED  BY <1>1, StreamInvariant, PTL

(***************************************************************************)
(* Nothing is sent for a closed session.                                   *)
(***************************************************************************)
\* No body of a closed session grows.
NoneGrows ==
    \A b \in Bodies : Len(body'[b].sent) > Len(body[b].sent) => body[b].of \in Live

LEMMA NotGrown ==
    ASSUME Shapes, NEW b \in Bodies,
           \/ body'[b] = body[b]
           \/ body'[b].sent = <<>>
           \/ body'[b].sent = body[b].sent
    PROVE  ~(Len(body'[b].sent) > Len(body[b].sent))
<1>1. body[b].sent \in Seq(Nat)
    BY DEF Shapes, BodyRecord
<1>2. Len(body[b].sent) \in Nat
    BY <1>1
<1>3. Len(<<>>) = 0
    OBVIOUS
<1> QED  BY <1>2, <1>3

LEMMA CleanupGrowsNone ==
    ASSUME Shapes, NEW S,
           \A b \in Bodies : \/ body'[b] = BodiesWithout(S)[b]
                            \/ body'[b].sent = <<>>
    PROVE  NoneGrows
<1>1. NoBody.sent = <<>>
    BY DEF NoBody
<1> QED  BY <1>1, BodiesLeft, NotGrown DEF NoneGrows

LEMMA StepGrowsNone == StreamInv /\ [StreamNext]_streamVars => NoneGrows
<1> SUFFICES ASSUME StreamInv, [StreamNext]_streamVars PROVE NoneGrows
    OBVIOUS
<1>0. Shapes /\ NoBody.sent = <<>>
    BY DEF StreamInv, SessionsInv, NoBody
<1>1. ASSUME NEW S, body' = BodiesWithout(S)
      PROVE  NoneGrows
    BY <1>0, <1>1, CleanupGrowsNone
<1>2. ASSUME NEW s \in SessionObjects, NEW c \in Clients, NEW id \in StreamIds,
             RegisterStream(s, c, id)
      PROVE  NoneGrows
    BY <1>1, <1>2 DEF RegisterStream
<1>3. ASSUME NEW S, CleanupOnly(S)
      PROVE  NoneGrows
    BY <1>1, <1>3 DEF CleanupOnly
<1>4. ASSUME NEW b \in Bodies, NEW id \in StreamIds, NEW header \in RangeHeaders,
             RequestRange(b, id, header)
      PROVE  NoneGrows
  <2> DEFINE range == ParseRange(header)
             new == [phase |-> "open", of |-> streamSessions[id], header |-> header,
                     start |-> range.start, end |-> range.end,
                     next |-> range.start \div ChunkSize, sent |-> <<>>]
  <2>1. body' = [BodiesWithout(Lapsed) EXCEPT ![b] = new]
      BY <1>4 DEF RequestRange
  <2>2. new.sent = <<>>
      OBVIOUS
  <2>3. BodiesWithout(Lapsed) \in [Bodies -> BodyRecord]
      BY <1>0, BodiesLeft
  <2> HIDE DEF new
  <2>4. \A k \in Bodies : \/ body'[k] = BodiesWithout(Lapsed)[k]
                          \/ body'[k].sent = <<>>
      BY <2>1, <2>2, <2>3
  <2> QED  BY <1>0, <2>4, CleanupGrowsNone
<1>5. ASSUME NEW b \in Bodies, PullCached(b)
      PROVE  NoneGrows
  <2>1. /\ body[b].phase = "open"
        /\ body[b].next \in ToSet(cache[body[b].of])
        /\ body' = [body EXCEPT ![b] = Sent(@)]
      BY <1>5 DEF PullCached
  <2>2. ToSet(<<>>) = {}
      BY DEF ToSet
  <2>3. body[b].of \in SessionObjects
      BY <2>1 DEF StreamInv, SessionsInv, BodiesOnChunks
  <2>4. body[b].of \in Live
      BY <2>1, <2>2, <2>3 DEF StreamInv, SessionsInv, KeysAreReachable
  <2>5. \A k \in Bodies : k # b => body'[k] = body[k]
      BY <1>0, <2>1 DEF Shapes
  <2> QED  BY <1>0, <2>4, <2>5, NotGrown DEF NoneGrows
<1>6. ASSUME NEW b \in Bodies, PullPending(b) \/ PullStarts(b)
      PROVE  NoneGrows
  <2>1. body' = [body EXCEPT ![b].phase = "await"]
      BY <1>6 DEF PullPending, PullStarts
  <2>2. \A k \in Bodies : body'[k].sent = body[k].sent
      BY <1>0, <2>1 DEF Shapes, BodyRecord
  <2> QED  BY <1>0, <2>2, NotGrown DEF NoneGrows
<1>7. ASSUME NEW b \in Bodies, PullRefused(b) \/ Cancel(b)
      PROVE  NoneGrows
  <2>1. body' = [body EXCEPT ![b] = NoBody]
      BY <1>7 DEF PullRefused, Cancel
  <2>2. \A k \in Bodies : body'[k] = body[k] \/ body'[k].sent = <<>>
      BY <1>0, <2>1 DEF Shapes
  <2> QED  BY <1>0, <2>2, NotGrown DEF NoneGrows
<1>8. ASSUME NEW l \in Loads, Decrypted(l)
      PROVE  NoneGrows
  <2>1. /\ l[1] \in Live
        /\ \A b \in Bodies : Awaits(b, l) \/ body'[b] = body[b]
      BY <1>8 DEF Decrypted
  <2>2. \A b \in Bodies : Awaits(b, l) => body[b].of = l[1]
      BY DEF Awaits
  <2> QED  BY <1>0, <2>1, <2>2, NotGrown DEF NoneGrows
<1>9. ASSUME NEW l \in Loads, LoadFails(l)
      PROVE  NoneGrows
  <2>1. \A b \in Bodies : body'[b] = body[b] \/ body'[b].sent = <<>>
      BY <1>0, <1>9 DEF LoadFails
  <2> QED  BY <1>0, <2>1, NotGrown DEF NoneGrows
<1>10. CASE WorkerStops
  <2>1. \A b \in Bodies : body'[b] = body[b] \/ body'[b].sent = <<>>
      BY <1>0, <1>10 DEF WorkerStops
  <2> QED  BY <1>0, <2>1, NotGrown DEF NoneGrows
<1>11. ASSUME body' = body
       PROVE  NoneGrows
    BY <1>0, <1>11, NotGrown DEF NoneGrows
<1>12. ASSUME NEW s \in SessionObjects, Lapse(s) \/ TimerFires(s)
       PROVE  NoneGrows
    BY <1>3, <1>11, <1>12 DEF Lapse, TimerFires
<1>13. ASSUME NEW c \in Clients, ClearClient(c)
       PROVE  NoneGrows
    BY <1>3, <1>13 DEF ClearClient
<1>14. ASSUME NEW c \in Clients, NEW id \in StreamIds, RemoveStream(c, id)
       PROVE  NoneGrows
    BY <1>3, <1>14 DEF RemoveStream
<1>15. CASE OtherRequest
    BY <1>3, <1>15 DEF OtherRequest
<1>16. ASSUME NEW l \in Loads, Fetched(l)
       PROVE  NoneGrows
    BY <1>11, <1>16 DEF Fetched
<1>17. CASE UNCHANGED streamVars
    BY <1>11, <1>17 DEF streamVars
<1> QED  BY <1>2, <1>4, <1>5, <1>6, <1>7, <1>8, <1>9, <1>10, <1>12, <1>13,
            <1>14, <1>15, <1>16, <1>17
         DEF StreamNext, LoadProceeds

\* A session that is closed while its chunks are fetched or decrypted gives
\* the player none of them.
THEOREM ClosedNeverSends == StreamSpec => ClosedSendsNothing
<1>1. StreamInv /\ [StreamNext]_streamVars =>
        [\A b \in Bodies :
            Len(body'[b].sent) > Len(body[b].sent) => body[b].of \in Live]_streamVars
    BY StepGrowsNone DEF NoneGrows
<1> QED  BY <1>1, StreamInvariant, PTL DEF StreamSpec, ClosedSendsNothing
-----------------------------------------------------------------------------
(***************************************************************************)
(* Chunks and their bytes.                                                 *)
(***************************************************************************)
LEMMA ChunkBounds ==
    /\ ChunkSize \in Nat /\ ChunkSize > 0
    /\ \A a \in Nat : /\ a \div ChunkSize \in Nat
                      /\ (a \div ChunkSize) * ChunkSize <= a
                      /\ a < (a \div ChunkSize + 1) * ChunkSize
    /\ \A m, n \in Nat : m <= n => m * ChunkSize <= n * ChunkSize
    /\ \A m \in Nat : m * ChunkSize \in Nat /\ (m + 1) * ChunkSize = m * ChunkSize + ChunkSize
<1>1. ChunkSize \in Nat /\ ChunkSize > 0  BY StreamAssumption
<1>2. ASSUME NEW a \in Nat
      PROVE  /\ a \div ChunkSize \in Nat
             /\ (a \div ChunkSize) * ChunkSize <= a
             /\ a < (a \div ChunkSize + 1) * ChunkSize
  BY <1>1
<1>3. ASSUME NEW m \in Nat, NEW n \in Nat, m <= n
      PROVE  m * ChunkSize <= n * ChunkSize
  BY <1>1, <1>3
<1>4. ASSUME NEW m \in Nat
      PROVE  m * ChunkSize \in Nat /\ (m + 1) * ChunkSize = m * ChunkSize + ChunkSize
  BY <1>1
<1> QED  BY <1>1, <1>2, <1>3, <1>4

LEMMA ChunkBytesType == \A i \in Chunks : ChunkBytes(i) \in Nat
<1> TAKE i \in Chunks
<1>1. /\ MediaSize \in Nat /\ MediaSize - 1 \in Nat
      /\ ChunkSize \in Nat /\ i \in Nat /\ LastChunk \in Nat /\ i <= LastChunk
  BY StreamAssumption, ChunkRange DEF Chunks
<1>2. i * ChunkSize <= LastChunk * ChunkSize /\ i * ChunkSize \in Nat
      /\ LastChunk * ChunkSize \in Nat /\ LastChunk * ChunkSize <= MediaSize - 1
  BY <1>1, ChunkBounds DEF LastChunk
<1>3. MediaSize - i * ChunkSize \in Nat  BY <1>1, <1>2
<1>4. ChunkBytes(i) = IF ChunkSize < MediaSize - i * ChunkSize
                      THEN ChunkSize ELSE MediaSize - i * ChunkSize
  <2> DEFINE m == ChunkSize
             n == MediaSize - i * ChunkSize
  <2>1. m \in Int /\ n \in Int  BY <1>1, <1>3
  <2>2. ChunkBytes(i) = Min({m, n})  BY DEF ChunkBytes
  <2> HIDE DEF m, n
  <2>3. ChunkBytes(i) = IF m < n THEN m ELSE n  BY <2>1, <2>2, MinOfTwo
  <2> QED  BY <2>3 DEF m, n
<1> QED  BY <1>1, <1>3, <1>4

\* The fold of trimStreamCache is a sum over the places of the sequence.
LEMMA CachedIsSum ==
    ASSUME NEW q \in Seq(Chunks)
    PROVE  CachedBytes(q) = SumFunctionOnSet([k \in DOMAIN q |-> ChunkBytes(q[k])], DOMAIN q)
<1> DEFINE D == DOMAIN q
           f == [k \in D |-> ChunkBytes(q[k])]
           Is(g) == g = [s \in SUBSET D |->
                            IF s = {} THEN 0
                            ELSE g[s \ {Max(s)}] + ChunkBytes(q[Max(s)])]
           iter == CHOOSE g : Is(g)
           sums == [s \in SUBSET D |-> SumFunctionOnSet(f, s)]
<1>1. CachedBytes(q) = iter[D]
  BY DEF CachedBytes, FoldLeft, MapThenFoldSet
<1>2. /\ D = 1 .. Len(q) /\ Len(q) \in Nat /\ IsFiniteSet(D)
      /\ \A k \in D : f[k] = ChunkBytes(q[k]) /\ f[k] \in Nat
  <2>1. D = 1 .. Len(q) /\ Len(q) \in Nat /\ \A k \in D : q[k] \in Chunks  OBVIOUS
  <2>2. IsFiniteSet(D)  BY <2>1, FS_Interval
  <2> QED  BY <2>1, <2>2, ChunkBytesType
<1>3. \A s \in SUBSET D : s # {} => Max(s) \in s
  <2> SUFFICES ASSUME NEW s \in SUBSET D, s # {} PROVE Max(s) \in s  OBVIOUS
  <2>1. IsFiniteSet(s) /\ s \in SUBSET Int  BY <1>2, FS_Subset
  <2> QED  BY <2>1, GreatestInteger
<1>4. \A s \in SUBSET D : s # {} =>
          SumFunctionOnSet(f, s)
            = SumFunctionOnSet(f, s \ {Max(s)}) + ChunkBytes(q[Max(s)])
  <2> SUFFICES ASSUME NEW s \in SUBSET D, s # {}
               PROVE  SumFunctionOnSet(f, s)
                        = SumFunctionOnSet(f, s \ {Max(s)}) + ChunkBytes(q[Max(s)])
    OBVIOUS
  <2> DEFINE x == Max(s)
  <2>1. x \in s /\ IsFiniteSet(s) /\ \A y \in s : f[y] \in Nat
    BY <1>2, <1>3, FS_Subset
  <2>2. f[x] = ChunkBytes(q[x]) /\ f[x] \in Nat  BY <1>2, <2>1
  <2> HIDE DEF x, f
  <2>3. /\ SumFunctionOnSet(f, s \ {x}) \in Nat
        /\ SumFunctionOnSet(f, s) = f[x] + SumFunctionOnSet(f, s \ {x})
    BY <2>1, SumTakes
  <2> QED  BY <2>2, <2>3 DEF x
<1>5. Is(sums)
  <2>1. \A s \in SUBSET D :
            sums[s] = IF s = {} THEN 0 ELSE sums[s \ {Max(s)}] + ChunkBytes(q[Max(s)])
    <3> SUFFICES ASSUME NEW s \in SUBSET D
                 PROVE  sums[s] = IF s = {} THEN 0
                                  ELSE sums[s \ {Max(s)}] + ChunkBytes(q[Max(s)])
      OBVIOUS
    <3> HIDE DEF f
    <3>1. CASE s = {}  BY <3>1, SumOfNone
    <3>2. CASE s # {}
      <4>1. sums[s \ {Max(s)}] = SumFunctionOnSet(f, s \ {Max(s)})  OBVIOUS
      <4> QED  BY <1>4, <3>2, <4>1
    <3> QED  BY <3>1, <3>2
  <2> QED  BY <2>1
<1>6. Is(iter)  BY <1>5
<1> HIDE DEF iter, f
<1>7. TakesOff(iter, f, D)
  <2> SUFFICES ASSUME NEW s \in SUBSET D
               PROVE  IF s = {} THEN iter[s] = 0
                      ELSE \E x \in s : iter[s] = iter[s \ {x}] + f[x]
    BY DEF TakesOff
  <2>1. CASE s = {}  BY <1>6, <2>1
  <2>2. CASE s # {}
    <3>1. Max(s) \in s /\ f[Max(s)] = ChunkBytes(q[Max(s)])  BY <1>2, <1>3, <2>2
    <3>2. iter[s] = iter[s \ {Max(s)}] + ChunkBytes(q[Max(s)])  BY <1>6, <2>2
    <3> QED  BY <2>2, <3>1, <3>2
  <2> QED  BY <2>1, <2>2
<1>8. iter[D] = SumFunctionOnSet(f, D)  BY <1>2, <1>7, SumIsUnique
<1> QED  BY <1>1, <1>8 DEF f

\* Of different chunks, the bytes are those of the set of them.
LEMMA CachedOfSet ==
    ASSUME NEW q \in Seq(Chunks), IsInjective(q)
    PROVE  CachedBytes(q) = SumFunctionOnSet([i \in Chunks |-> ChunkBytes(i)], ToSet(q))
<1> DEFINE D == DOMAIN q
           f == [i \in Chunks |-> ChunkBytes(i)]
<1>1. IsFiniteSet(D) /\ \A k \in D : q[k] \in Chunks
  <2>1. D = 1 .. Len(q) /\ Len(q) \in Nat  OBVIOUS
  <2> QED  BY <2>1, FS_Interval
<1>2. \A k, m \in D : q[k] = q[m] => k = m  BY DEF IsInjective
<1>3. \A k \in D : f[q[k]] = ChunkBytes(q[k]) /\ f[q[k]] \in Nat
  BY <1>1, ChunkBytesType
<1>4. [k \in D |-> f[q[k]]] = [k \in D |-> ChunkBytes(q[k])]  BY <1>3
<1>5. ToSet(q) = {q[k] : k \in D}  BY DEF ToSet
<1>6. CachedBytes(q) = SumFunctionOnSet([k \in D |-> f[q[k]]], D)  BY <1>4, CachedIsSum
<1> HIDE DEF f, D
<1>7. SumFunctionOnSet([k \in D |-> f[q[k]]], D) = SumFunctionOnSet(f, {q[k] : k \in D})
  BY <1>1, <1>2, <1>3, SumReindexes
<1> QED  BY <1>5, <1>6, <1>7 DEF f

LEMMA CachedNothing == CachedBytes(<<>>) = 0
<1>1. <<>> \in Seq(Chunks) /\ DOMAIN <<>> = {}  OBVIOUS
<1> QED  BY <1>1, CachedIsSum, SumOfNone

-----------------------------------------------------------------------------
(***************************************************************************)
(* The cache of a session: chunks in order of last use, each once, and no  *)
(* more of them than the limit allows.                                     *)
(***************************************************************************)
Listed(q) == q \in Seq(Chunks) /\ IsInjective(q)

\* What is left of a list when its k-th chunk is taken out.
LEMMA TakenOut ==
    ASSUME NEW q, Listed(q), NEW k \in 1 .. Len(q)
    PROVE  /\ Listed(RemoveAt(q, k))
           /\ ToSet(RemoveAt(q, k)) = ToSet(q) \ {q[k]}
<1> DEFINE r == RemoveAt(q, k)
           n == Len(q)
<1>1. q \in Seq(Chunks) /\ n \in Nat /\ k \in 1 .. n /\ \A j \in 1 .. n : q[j] \in Chunks
  BY DEF Listed
<1>2. \A i, j \in 1 .. n : q[i] = q[j] => i = j
  BY <1>1 DEF Listed, IsInjective
<1>3. r = SubSeq(q, 1, k - 1) \o SubSeq(q, k + 1, n)  BY DEF RemoveAt
<1>4. /\ r \in Seq(Chunks) /\ Len(r) = n - 1
      /\ \A j \in 1 .. n - 1 : r[j] = IF j < k THEN q[j] ELSE q[j + 1]
  <2> DEFINE a == SubSeq(q, 1, k - 1)
             b == SubSeq(q, k + 1, n)
  <2>1. /\ a \in Seq(Chunks) /\ Len(a) = k - 1
        /\ \A j \in 1 .. k - 1 : a[j] = q[j]
    BY <1>1
  <2>2. /\ b \in Seq(Chunks) /\ Len(b) = n - k
        /\ \A j \in 1 .. n - k : b[j] = q[k + j]
    BY <1>1
  <2> HIDE DEF a, b, r
  <2>3. r = a \o b  BY <1>3 DEF a, b
  <2>4. r \in Seq(Chunks) /\ Len(r) = n - 1  BY <1>1, <2>1, <2>2, <2>3
  <2>5. ASSUME NEW j \in 1 .. n - 1
        PROVE  r[j] = IF j < k THEN q[j] ELSE q[j + 1]
    <3>1. CASE j < k
      <4>1. j \in 1 .. k - 1 /\ j \in 1 .. Len(a)  BY <1>1, <2>1, <3>1
      <4> QED  BY <2>1, <2>2, <2>3, <3>1, <4>1
    <3>2. CASE ~(j < k)
      <4>1. j - (k - 1) \in 1 .. n - k /\ k + (j - (k - 1)) = j + 1  BY <1>1, <3>2
      <4>2. r[j] = b[j - (k - 1)]  BY <1>1, <2>1, <2>2, <2>3, <3>2
      <4> QED  BY <2>2, <3>2, <4>1, <4>2
    <3> QED  BY <3>1, <3>2
  <2> QED  BY <2>4, <2>5
<1> HIDE DEF r, n
<1>5. IsInjective(r)
  <2> SUFFICES ASSUME NEW i \in 1 .. n - 1, NEW j \in 1 .. n - 1, r[i] = r[j]
               PROVE  i = j
    BY <1>4 DEF IsInjective
  <2> DEFINE at(m) == IF m < k THEN m ELSE m + 1
  <2>1. /\ at(i) \in 1 .. n /\ at(j) \in 1 .. n
        /\ r[i] = q[at(i)] /\ r[j] = q[at(j)]
    BY <1>1, <1>4
  <2>2. at(i) = at(j)  BY <1>2, <2>1
  <2> QED  BY <1>1, <2>2
<1>6. ToSet(r) = ToSet(q) \ {q[k]}
  <2>1. ASSUME NEW j \in 1 .. n - 1
        PROVE  r[j] \in ToSet(q) \ {q[k]}
    <3> DEFINE at == IF j < k THEN j ELSE j + 1
    <3>1. at \in 1 .. n /\ at # k /\ r[j] = q[at]  BY <1>1, <1>4
    <3> HIDE DEF at
    <3>2. q[at] # q[k]  BY <1>1, <1>2, <3>1
    <3>3. q[at] \in ToSet(q)  BY <1>1, <3>1 DEF ToSet, n
    <3> QED  BY <3>1, <3>2, <3>3
  <2>2. ASSUME NEW i \in 1 .. n, q[i] # q[k]
        PROVE  q[i] \in ToSet(r)
    <3> DEFINE at == IF i < k THEN i ELSE i - 1
    <3>1. at \in 1 .. n - 1 /\ r[at] = q[i]  BY <1>1, <1>4, <2>2
    <3> HIDE DEF at
    <3> QED  BY <1>4, <3>1 DEF ToSet
  <2>3. /\ ToSet(r) = {r[j] : j \in 1 .. n - 1}
        /\ ToSet(q) = {q[i] : i \in 1 .. n}
    BY <1>1, <1>4 DEF ToSet, n
  <2> QED  BY <2>1, <2>2, <2>3
<1> QED  BY <1>4, <1>5, <1>6 DEF r, Listed

\* A chunk that is used again moves to the end, a new one is put there.
LEMMA NewestLists ==
    ASSUME NEW q, Listed(q), NEW i \in Chunks
    PROVE  Listed(Newest(q, i)) /\ ToSet(Newest(q, i)) = ToSet(q) \cup {i}
<1> DEFINE rest == RemoveFirst(q, i)
<1>1. q \in Seq(Chunks) /\ Len(q) \in Nat /\ ToSet(q) = {q[k] : k \in 1 .. Len(q)}
  BY DEF Listed, ToSet
<1>2. Listed(rest) /\ ToSet(rest) = ToSet(q) \ {i}
  <2>1. CASE i \in ToSet(q)
    <3> DEFINE K == {k \in 1 .. Len(q) : q[k] = i}
    <3>1. K # {} /\ K \in SUBSET Nat  BY <1>1, <2>1
    <3>2. Min(K) \in K  BY <3>1, LeastNatural DEF Min
    <3>3. rest = RemoveAt(q, Min(K))  BY <3>1 DEF RemoveFirst, SelectInSeq
    <3> QED  BY <3>2, <3>3, TakenOut
  <2>2. CASE i \notin ToSet(q)
    <3>1. rest = q  BY <1>1, <2>2 DEF RemoveFirst
    <3> QED  BY <2>2, <3>1
  <2> QED  BY <2>1, <2>2
<1> DEFINE n == Len(rest)
           new == Append(rest, i)
<1> HIDE DEF rest
<1>3. /\ rest \in Seq(Chunks) /\ n \in Nat /\ ToSet(rest) = {rest[k] : k \in 1 .. n}
      /\ i \notin ToSet(rest)
      /\ \A j, k \in 1 .. n : rest[j] = rest[k] => j = k
  BY <1>2 DEF Listed, ToSet, IsInjective
<1>4. /\ new \in Seq(Chunks) /\ Len(new) = n + 1 /\ new[n + 1] = i
      /\ \A k \in 1 .. n : new[k] = rest[k]
  BY <1>3
<1>5. DOMAIN new = 1 .. n + 1 /\ 1 .. n + 1 = 1 .. n \cup {n + 1}  BY <1>3, <1>4
<1> HIDE DEF new, n
<1>6. IsInjective(new)
  <2> SUFFICES ASSUME NEW j \in 1 .. n + 1, NEW k \in 1 .. n + 1, new[j] = new[k]
               PROVE  j = k
    BY <1>5 DEF IsInjective
  <2>1. \A m \in 1 .. n : new[m] # i  BY <1>3, <1>4
  <2> QED  BY <1>3, <1>4, <1>5, <2>1
<1>7. ToSet(new) = ToSet(rest) \cup {i}
  <2>1. ToSet(new) = {new[k] : k \in 1 .. n + 1}  BY <1>5 DEF ToSet
  <2>2. ToSet(new) = {new[k] : k \in 1 .. n} \cup {new[n + 1]}  BY <1>5, <2>1
  <2>3. {new[k] : k \in 1 .. n} = {rest[k] : k \in 1 .. n}  BY <1>4
  <2> QED  BY <1>3, <1>4, <2>2, <2>3
<1> QED  BY <1>2, <1>4, <1>6, <1>7 DEF Listed, Newest, new, rest

\* What is trimmed is within the limit; in the end nothing would be left.
LEMMA TrimLists ==
    ASSUME NEW q, Listed(q)
    PROVE  Listed(Trim(q)) /\ CachedBytes(Trim(q)) <= MAX_STREAM_CACHE_BYTES
<1> DEFINE n == Len(q)
           Rest(k) == SubSeq(q, k, n)
           K == {k \in 1 .. n + 1 : CachedBytes(Rest(k)) <= MAX_STREAM_CACHE_BYTES}
<1>1. q \in Seq(Chunks) /\ n \in Nat  BY DEF Listed
<1>2. n + 1 \in K
  <2>1. Rest(n + 1) = <<>>  BY <1>1
  <2>2. CachedBytes(Rest(n + 1)) <= MAX_STREAM_CACHE_BYTES
    <3>1. MAX_STREAM_CACHE_BYTES \in Nat  BY StreamAssumption
    <3> HIDE DEF Rest
    <3>2. CachedBytes(Rest(n + 1)) = 0  BY <2>1, CachedNothing, Zenon
    <3>3. 0 <= MAX_STREAM_CACHE_BYTES  BY <3>1
    <3> QED  BY <3>2, <3>3
  <2> QED  BY <1>1, <2>2
<1>3. Min(K) \in K
  <2>1. K \in SUBSET Nat /\ K # {}  BY <1>1, <1>2
  <2> HIDE DEF K
  <2> QED  BY <2>1, LeastNatural DEF Min
<1>4. Trim(q) = Rest(Min(K))  BY DEF Trim
<1>5. ASSUME NEW k \in 1 .. n + 1 PROVE Listed(Rest(k))
  <2>1. /\ Rest(k) \in Seq(Chunks) /\ Len(Rest(k)) = n + 1 - k
        /\ \A j \in 1 .. n + 1 - k : Rest(k)[j] = q[k + j - 1]
    BY <1>1
  <2>2. \A i, j \in 1 .. n : q[i] = q[j] => i = j
    BY <1>1 DEF Listed, IsInjective
  <2>3. ASSUME NEW i \in 1 .. n + 1 - k, NEW j \in 1 .. n + 1 - k, Rest(k)[i] = Rest(k)[j]
        PROVE  i = j
    <3>1. k + i - 1 \in 1 .. n /\ k + j - 1 \in 1 .. n  BY <1>1
    <3>2. q[k + i - 1] = q[k + j - 1]  BY <2>1, <2>3
    <3>3. k + i - 1 = k + j - 1  BY <2>2, <3>1, <3>2
    <3> QED  BY <1>1, <3>3
  <2> QED  BY <2>1, <2>3 DEF Listed, IsInjective
<1> QED  BY <1>3, <1>4, <1>5

CacheInv ==
    \A s \in SessionObjects :
        Listed(cache[s]) /\ CachedBytes(cache[s]) <= MAX_STREAM_CACHE_BYTES

\* What a step may make of the cache q of a session.
MovesTo(q, r) ==
    \/ r = q
    \/ r = <<>>
    \/ \E i \in ToSet(q) : r = Newest(q, i)
    \/ \E i \in Chunks : r = Trim(Newest(q, i))

LEMMA MovesKeepLimit ==
    ASSUME NEW q, Listed(q), CachedBytes(q) <= MAX_STREAM_CACHE_BYTES,
           NEW r, MovesTo(q, r)
    PROVE  Listed(r) /\ CachedBytes(r) <= MAX_STREAM_CACHE_BYTES
<1>1. CASE r = q  BY <1>1
<1>2. CASE r = <<>>
  <2>1. Listed(<<>>)
    <3>1. <<>> \in Seq(Chunks) /\ DOMAIN <<>> = {}  OBVIOUS
    <3> QED  BY <3>1 DEF Listed, IsInjective
  <2>2. 0 <= MAX_STREAM_CACHE_BYTES  BY StreamAssumption
  <2>3. CachedBytes(r) = 0  BY <1>2, CachedNothing, Zenon
  <2> QED  BY <1>2, <2>1, <2>2, <2>3
<1>3. ASSUME NEW i \in ToSet(q), r = Newest(q, i)
      PROVE  Listed(r) /\ CachedBytes(r) <= MAX_STREAM_CACHE_BYTES
  <2>1. q \in Seq(Chunks) /\ IsInjective(q)  BY DEF Listed
  <2>2. i \in Chunks  BY <2>1 DEF ToSet
  <2>3. Listed(r) /\ ToSet(r) = ToSet(q)  BY <1>3, <2>2, NewestLists
  <2>4. r \in Seq(Chunks) /\ IsInjective(r)  BY <2>3 DEF Listed
  <2> DEFINE f == [j \in Chunks |-> ChunkBytes(j)]
  <2>5. CachedBytes(q) = SumFunctionOnSet(f, ToSet(q))  BY <2>1, CachedOfSet
  <2>6. CachedBytes(r) = SumFunctionOnSet(f, ToSet(r))  BY <2>4, CachedOfSet
  <2> HIDE DEF f
  <2>7. CachedBytes(r) = CachedBytes(q)  BY <2>3, <2>5, <2>6, Zenon
  <2> QED  BY <2>3, <2>7
<1>4. ASSUME NEW i \in Chunks, r = Trim(Newest(q, i))
      PROVE  Listed(r) /\ CachedBytes(r) <= MAX_STREAM_CACHE_BYTES
  BY <1>4, NewestLists, TrimLists
<1> QED  BY <1>1, <1>2, <1>3, <1>4 DEF MovesTo

CacheMoves == \A s \in SessionObjects : MovesTo(cache[s], cache'[s])

LEMMA StepMovesCache == StreamInv /\ [StreamNext]_streamVars => CacheMoves
<1> SUFFICES ASSUME StreamInv, [StreamNext]_streamVars PROVE CacheMoves
    OBVIOUS
<1>0. cache = [s \in SessionObjects |-> cache[s]]
    BY DEF StreamInv, SessionsInv, Shapes
<1>1. ASSUME NEW S, Cleanup(S)
      PROVE  CacheMoves
    BY <1>1 DEF Cleanup, CacheMoves, MovesTo
<1>2. ASSUME cache' = cache
      PROVE  CacheMoves
    BY <1>2 DEF CacheMoves, MovesTo
<1>3. ASSUME NEW s \in SessionObjects, NEW c \in Clients, NEW id \in StreamIds,
             RegisterStream(s, c, id)
      PROVE  CacheMoves
    BY <1>1, <1>3 DEF RegisterStream
<1>4. ASSUME NEW S, CleanupOnly(S)
      PROVE  CacheMoves
    BY <1>1, <1>4 DEF CleanupOnly
<1>5. ASSUME NEW b \in Bodies, NEW id \in StreamIds, NEW header \in RangeHeaders,
             RequestRange(b, id, header)
      PROVE  CacheMoves
    BY <1>1, <1>5 DEF RequestRange
<1>6. ASSUME NEW b \in Bodies, PullCached(b)
      PROVE  CacheMoves
  <2>1. /\ body[b].next \in ToSet(cache[body[b].of])
        /\ cache' = [cache EXCEPT ![body[b].of] = Newest(@, body[b].next)]
      BY <1>6 DEF PullCached
  <2>2. \A s \in SessionObjects :
            cache'[s] = IF s = body[b].of THEN Newest(cache[s], body[b].next)
                                          ELSE cache[s]
      BY <1>0, <2>1
  <2> QED  BY <2>1, <2>2 DEF CacheMoves, MovesTo
<1>7. ASSUME NEW b \in Bodies,
             PullPending(b) \/ PullStarts(b) \/ PullRefused(b) \/ Cancel(b)
      PROVE  CacheMoves
    BY <1>2, <1>7 DEF PullPending, PullStarts, PullRefused, Cancel
<1>8. ASSUME NEW l \in Loads, Decrypted(l)
      PROVE  CacheMoves
  <2>1. cache' = [cache EXCEPT ![l[1]] = Trim(Newest(@, l[2]))]
      BY <1>8 DEF Decrypted
  <2>2. \A s \in SessionObjects :
            cache'[s] = IF s = l[1] THEN Trim(Newest(cache[s], l[2])) ELSE cache[s]
      BY <1>0, <2>1
  <2>3. l[2] \in Chunks  BY DEF Loads
  <2> QED  BY <2>2, <2>3 DEF CacheMoves, MovesTo
<1>9. ASSUME NEW l \in Loads, Fetched(l) \/ LoadFails(l)
      PROVE  CacheMoves
    BY <1>2, <1>9 DEF Fetched, LoadFails
<1>10. CASE WorkerStops
    BY <1>10 DEF WorkerStops, CacheMoves, MovesTo
<1>11. ASSUME NEW s \in SessionObjects, Lapse(s) \/ TimerFires(s)
       PROVE  CacheMoves
    BY <1>2, <1>4, <1>11 DEF Lapse, TimerFires
<1>12. ASSUME NEW c \in Clients, ClearClient(c)
       PROVE  CacheMoves
    BY <1>4, <1>12 DEF ClearClient
<1>13. ASSUME NEW c \in Clients, NEW id \in StreamIds, RemoveStream(c, id)
       PROVE  CacheMoves
    BY <1>4, <1>13 DEF RemoveStream
<1>14. CASE OtherRequest
    BY <1>4, <1>14 DEF OtherRequest
<1>15. CASE UNCHANGED streamVars
    BY <1>2, <1>15 DEF streamVars
<1> QED  BY <1>3, <1>5, <1>6, <1>7, <1>8, <1>9, <1>10, <1>11, <1>12, <1>13,
            <1>14, <1>15
         DEF StreamNext, LoadProceeds

LEMMA CacheInvInit == StreamInit => CacheInv
<1> SUFFICES ASSUME StreamInit, NEW s \in SessionObjects
             PROVE  Listed(cache[s]) /\ CachedBytes(cache[s]) <= MAX_STREAM_CACHE_BYTES
    BY DEF CacheInv
<1>1. cache[s] = <<>>  BY DEF StreamInit
<1>2. <<>> \in Seq(Chunks) /\ DOMAIN <<>> = {}  OBVIOUS
<1>3. Listed(<<>>)  BY <1>2 DEF Listed, IsInjective
<1>4. 0 <= MAX_STREAM_CACHE_BYTES  BY StreamAssumption
<1>5. CachedBytes(cache[s]) = 0  BY <1>1, CachedNothing, Zenon
<1> QED  BY <1>1, <1>3, <1>4, <1>5

LEMMA CacheInvStep ==
    StreamInv /\ CacheInv /\ [StreamNext]_streamVars => CacheInv'
  BY StepMovesCache, MovesKeepLimit DEF CacheInv, CacheMoves

LEMMA CacheInvBounds == CacheInv => CacheBounded
  BY DEF CacheInv, Listed, CacheBounded

\* Whatever is read and decrypted in whatever order, the plaintext that a
\* session keeps is within the limit, and no chunk of it is kept twice.
THEOREM CacheStaysBounded == StreamSpec => []CacheBounded
<1>1. StreamInv /\ CacheInv /\ [StreamNext]_streamVars => CacheInv'
    BY CacheInvStep
<1> QED  BY <1>1, StreamInvariant, CacheInvInit, CacheInvBounds, PTL DEF StreamSpec

-----------------------------------------------------------------------------
(***************************************************************************)
(* What a body has sent is what was asked for.                             *)
(***************************************************************************)
\* The bytes from start on, n of them.
BytesFrom(start, n) == [k \in 1 .. n |-> start + k - 1]

\* A body that has sent all the bytes before those of the next chunk, or all
\* of them.
SentUpTo(r) ==
    \/ /\ r.phase \in {"open", "await"}
       /\ r.start \div ChunkSize <= r.next /\ r.next <= r.end \div ChunkSize
       /\ r.sent = BytesFrom(r.start, Max({r.start, r.next * ChunkSize}) - r.start)
    \/ /\ r.phase = "closed"
       /\ r.sent = BytesFrom(r.start, r.end - r.start + 1)

BodyIsJust(r) ==
    IF r.phase = "none" THEN r.sent = <<>>
    ELSE /\ ParseRange(r.header) # Absent
         /\ r.start = ParseRange(r.header).start
         /\ r.end = ParseRange(r.header).end
         /\ SentUpTo(r)

BodiesInv == \A b \in Bodies : BodyIsJust(body[b])

LEMMA BytesAppend ==
    ASSUME NEW start \in Nat, NEW m \in Nat, NEW n \in Nat
    PROVE  BytesFrom(start, m) \o BytesFrom(start + m, n) = BytesFrom(start, m + n)
<1> DEFINE a == BytesFrom(start, m)
           b == BytesFrom(start + m, n)
           c == BytesFrom(start, m + n)
<1>1. a \in Seq(Nat) /\ Len(a) = m /\ \A k \in 1 .. m : a[k] = start + k - 1
  BY DEF BytesFrom
<1>2. b \in Seq(Nat) /\ Len(b) = n /\ \A k \in 1 .. n : b[k] = start + m + k - 1
  BY DEF BytesFrom
<1>3. /\ c \in Seq(Nat) /\ Len(c) = m + n
      /\ \A k \in 1 .. m + n : c[k] = start + k - 1
  BY DEF BytesFrom
<1> HIDE DEF a, b, c
<1>4. a \o b \in Seq(Nat) /\ Len(a \o b) = m + n
  <2>1. a \in Seq(Nat) /\ b \in Seq(Nat)  BY <1>1, <1>2
  <2>2. a \o b \in Seq(Nat)  BY <2>1
  <2>3. Len(a \o b) = Len(a) + Len(b)  BY <2>1
  <2> QED  BY <1>1, <1>2, <2>2, <2>3
<1>5. ASSUME NEW k \in 1 .. m + n PROVE (a \o b)[k] = c[k]
  <2>1. CASE k <= m
    <3>1. k \in 1 .. m  BY <2>1
    <3> QED  BY <1>1, <1>2, <1>3, <2>1, <3>1
  <2>2. CASE ~(k <= m)
    <3>1. k - m \in 1 .. n  BY <2>2
    <3>2. (a \o b)[k] = b[k - m]  BY <1>1, <1>2, <2>2, <3>1
    <3> QED  BY <1>2, <1>3, <3>1, <3>2
  <2> QED  BY <2>1, <2>2
<1> DEFINE d == a \o b
<1> HIDE DEF d
<1>6. d \in Seq(Nat) /\ Len(d) = m + n /\ \A k \in 1 .. m + n : d[k] = c[k]
  BY <1>4, <1>5 DEF d
<1>7. d = c  BY <1>3, <1>6
<1> QED  BY <1>7 DEF a, b, c, d

\* Where the next chunk ends, and where the bytes after it begin.
LEMMA ChunkEnds ==
    ASSUME NEW start \in Nat, NEW end \in Nat, start <= end, NEW i \in Nat,
           start \div ChunkSize <= i, i <= end \div ChunkSize
    PROVE  LET from == Max({start, i * ChunkSize})
               to == Min({end, (i + 1) * ChunkSize - 1})
           IN  /\ from \in Nat /\ to \in Nat /\ start <= from /\ from <= to
               /\ from <= end
               /\ i < end \div ChunkSize =>
                      /\ to + 1 = Max({start, (i + 1) * ChunkSize})
                      /\ i + 1 <= end \div ChunkSize
                      /\ start \div ChunkSize <= i + 1
               /\ ~(i < end \div ChunkSize) => to = end
<1> DEFINE first == start \div ChunkSize
           last == end \div ChunkSize
           this == i * ChunkSize
           after == (i + 1) * ChunkSize
<1>1. /\ first \in Nat /\ last \in Nat /\ first <= i /\ i <= last
      /\ this \in Nat /\ after \in Nat /\ after = this + ChunkSize
      /\ ChunkSize \in Nat /\ ChunkSize > 0
  BY ChunkBounds
<1>2. start < after
  <2>1. start < (first + 1) * ChunkSize  BY ChunkBounds
  <2>2. first + 1 <= i + 1 /\ first + 1 \in Nat /\ i + 1 \in Nat  BY <1>1
  <2>3. (first + 1) * ChunkSize <= (i + 1) * ChunkSize  BY <2>2, ChunkBounds
  <2>4. (first + 1) * ChunkSize \in Nat  BY <2>2, ChunkBounds
  <2> HIDE DEF first
  <2> QED  BY <1>1, <2>1, <2>3, <2>4
<1>3. this <= end
  <2>1. last * ChunkSize <= end  BY ChunkBounds
  <2>2. i * ChunkSize <= last * ChunkSize  BY <1>1, ChunkBounds
  <2>3. last * ChunkSize \in Nat  BY <1>1, ChunkBounds
  <2> HIDE DEF last
  <2> QED  BY <1>1, <2>1, <2>2, <2>3
<1>4. i < last => after <= end
  <2> SUFFICES ASSUME i < last PROVE after <= end  OBVIOUS
  <2>1. last * ChunkSize <= end  BY ChunkBounds
  <2>2. i + 1 <= last /\ i + 1 \in Nat  BY <1>1
  <2>3. (i + 1) * ChunkSize <= last * ChunkSize  BY <1>1, <2>2, ChunkBounds
  <2>4. last * ChunkSize \in Nat  BY <1>1, ChunkBounds
  <2> HIDE DEF last
  <2> QED  BY <1>1, <2>1, <2>3, <2>4
<1>5. ~(i < last) => end < after
  <2> SUFFICES ASSUME ~(i < last) PROVE end < after  OBVIOUS
  <2>1. end < (last + 1) * ChunkSize  BY ChunkBounds
  <2>2. i = last  BY <1>1
  <2> QED  BY <2>1, <2>2
<1>6. /\ Max({start, this}) = IF start > this THEN start ELSE this
      /\ Max({start, after}) = IF start > after THEN start ELSE after
      /\ Min({end, after - 1}) = IF end < after - 1 THEN end ELSE after - 1
  BY <1>1, MaxOfTwo, MinOfTwo
<1> HIDE DEF first, last, this, after
<1> DEFINE from == Max({start, this})
           to == Min({end, after - 1})
<1>7. /\ from \in Nat /\ to \in Nat /\ start <= from /\ from <= to /\ from <= end
      /\ i < last => /\ to + 1 = Max({start, after})
                     /\ i + 1 <= last /\ first <= i + 1
      /\ ~(i < last) => to = end
  BY <1>1, <1>2, <1>3, <1>4, <1>5, <1>6
<1> QED  BY <1>7 DEF first, last, this, after

\* One chunk more: the bytes sent are still those from the start on.
LEMMA SentStaysJust ==
    ASSUME NEW r \in BodyRecord, BodyIsJust(r), r.phase \in {"open", "await"},
           r.header \in RangeHeaders \cup {Absent}
    PROVE  BodyIsJust(Sent(r))
<1> DEFINE i == r.next
           from == Max({r.start, i * ChunkSize})
           to == Min({r.end, (i + 1) * ChunkSize - 1})
           after == Max({r.start, (i + 1) * ChunkSize})
           q == Sent(r)
<1>1. /\ r.start \in Nat /\ r.end \in Nat /\ i \in Nat /\ r.start <= r.end
      /\ r.start \div ChunkSize <= i /\ i <= r.end \div ChunkSize
      /\ r.sent = BytesFrom(r.start, from - r.start)
      /\ ParseRange(r.header) # Absent
      /\ r.start = ParseRange(r.header).start /\ r.end = ParseRange(r.header).end
  BY ParsedRange, HeadersAsked DEF BodyRecord, BodyIsJust, SentUpTo
<1>2. /\ from \in Nat /\ to \in Nat /\ r.start <= from /\ from <= to
      /\ i < r.end \div ChunkSize =>
             to + 1 = after /\ i + 1 <= r.end \div ChunkSize
                            /\ r.start \div ChunkSize <= i + 1
      /\ ~(i < r.end \div ChunkSize) => to = r.end
  <2> DEFINE start == r.start
             end == r.end
  <2>1. /\ start \in Nat /\ end \in Nat /\ i \in Nat /\ start <= end
        /\ start \div ChunkSize <= i /\ i <= end \div ChunkSize
    BY <1>1
  <2> HIDE DEF start, end, i
  <2>2. LET a == Max({start, i * ChunkSize})
            z == Min({end, (i + 1) * ChunkSize - 1})
        IN  /\ a \in Nat /\ z \in Nat /\ start <= a /\ a <= z
            /\ i < end \div ChunkSize =>
                   /\ z + 1 = Max({start, (i + 1) * ChunkSize})
                   /\ i + 1 <= end \div ChunkSize
                   /\ start \div ChunkSize <= i + 1
            /\ ~(i < end \div ChunkSize) => z = end
    BY <2>1, ChunkEnds
  <2> QED  BY <2>2 DEF start, end
<1>3. Slice(i, r.start, r.end) = BytesFrom(from, to - from + 1)
  BY DEF Slice, BytesFrom
<1>4. q = [r EXCEPT !.sent = r.sent \o Slice(i, r.start, r.end), !.next = i + 1,
                    !.phase = IF i < r.end \div ChunkSize THEN "open" ELSE "closed"]
  BY DEF Sent
<1>5. /\ q.header = r.header /\ q.start = r.start /\ q.end = r.end /\ q.next = i + 1
      /\ q.phase = IF i < r.end \div ChunkSize THEN "open" ELSE "closed"
      /\ q.sent = r.sent \o Slice(i, r.start, r.end)
  BY <1>4 DEF BodyRecord
<1> HIDE DEF i, from, to, after, q
<1>6. q.sent = BytesFrom(r.start, to + 1 - r.start)
  <2> DEFINE m == from - r.start
             n == to - from + 1
  <2>1. m \in Nat /\ n \in Nat /\ m + n = to + 1 - r.start /\ r.start + m = from
    BY <1>1, <1>2
  <2>2. r.sent = BytesFrom(r.start, m)  BY <1>1
  <2>3. q.sent = BytesFrom(r.start, m) \o BytesFrom(r.start + m, n)
    BY <1>3, <1>5, <2>1, <2>2
  <2> HIDE DEF m, n
  <2>4. BytesFrom(r.start, m) \o BytesFrom(r.start + m, n) = BytesFrom(r.start, m + n)
    BY <1>1, <2>1, BytesAppend
  <2> QED  BY <2>1, <2>3, <2>4
<1>7. SentUpTo(q)
  <2>1. CASE i < r.end \div ChunkSize
    <3>1. q.phase = "open" /\ q.next = i + 1  BY <1>5, <2>1
    <3>2. to + 1 = Max({q.start, q.next * ChunkSize})
      BY <1>2, <1>5, <2>1 DEF after
    <3>3. q.sent = BytesFrom(q.start, Max({q.start, q.next * ChunkSize}) - q.start)
      <4> DEFINE m == Max({q.start, q.next * ChunkSize})
      <4>0. to + 1 = m /\ q.start = r.start /\ to \in Nat /\ r.start \in Nat
        BY <1>1, <1>2, <1>5, <3>2
      <4> HIDE DEF m
      <4>1. to + 1 - r.start = m - q.start  BY <4>0
      <4>2. q.sent = BytesFrom(q.start, m - q.start)  BY <1>5, <1>6, <4>1, Zenon
      <4> QED  BY <4>2 DEF m
    <3>4. q.start \div ChunkSize <= q.next /\ q.next <= q.end \div ChunkSize
      BY <1>2, <1>5, <2>1
    <3> QED  BY <3>1, <3>3, <3>4 DEF SentUpTo
  <2>2. CASE ~(i < r.end \div ChunkSize)
    <3>1. q.phase = "closed" /\ to = r.end  BY <1>2, <1>5, <2>2
    <3>2. to + 1 - r.start = r.end - r.start + 1  BY <1>1, <3>1
    <3>3. q.sent = BytesFrom(q.start, q.end - q.start + 1)  BY <1>5, <1>6, <3>2
    <3> QED  BY <3>1, <3>3 DEF SentUpTo
  <2> QED  BY <2>1, <2>2
<1> QED  BY <1>1, <1>5, <1>7 DEF BodyIsJust, q

\* A body that has just been opened has sent nothing.
LEMMA OpenedIsJust ==
    ASSUME NEW header \in RangeHeaders, ParseRange(header) # Absent, NEW s
    PROVE  BodyIsJust([phase |-> "open", of |-> s, header |-> header,
                       start |-> ParseRange(header).start,
                       end |-> ParseRange(header).end,
                       next |-> ParseRange(header).start \div ChunkSize,
                       sent |-> <<>>])
<1> DEFINE start == ParseRange(header).start
           end == ParseRange(header).end
           r == [phase |-> "open", of |-> s, header |-> header, start |-> start,
                 end |-> end, next |-> start \div ChunkSize, sent |-> <<>>]
<1>1. start \in Nat /\ end \in Nat /\ start <= end  BY ParsedRange, HeadersAsked
<1>2. start \div ChunkSize <= end \div ChunkSize /\ start \div ChunkSize \in Nat
  BY <1>1, DivMonotonic
<1>3. r.phase = "open" /\ r.header = header /\ r.start = start /\ r.end = end
      /\ r.next = start \div ChunkSize /\ r.sent = <<>>
  OBVIOUS
<1> HIDE DEF start, end, r
<1>4. Max({r.start, r.next * ChunkSize}) = start
  <2>1. r.next * ChunkSize \in Nat /\ r.next * ChunkSize <= start
    BY <1>1, <1>2, <1>3, ChunkBounds
  <2> QED  BY <1>1, <1>3, <2>1, MaxOfTwo
<1>5. r.sent = BytesFrom(r.start, Max({r.start, r.next * ChunkSize}) - r.start)
  <2>1. start - start = 0 /\ 1 .. 0 = {}  BY <1>1
  <2>2. BytesFrom(start, 0) = <<>>  BY DEF BytesFrom
  <2> QED  BY <1>3, <1>4, <2>1, <2>2
<1>6. SentUpTo(r)  BY <1>1, <1>2, <1>3, <1>5 DEF SentUpTo
<1>7. BodyIsJust(r)  BY <1>3, <1>6 DEF BodyIsJust, start, end
<1> QED  BY <1>7 DEF r, start, end

\* What a step may make of a body.
BecomesBody(r, q) ==
    \/ q = r
    \/ q = NoBody
    \/ q = Sent(r) /\ r.phase \in {"open", "await"}
    \/ q = [r EXCEPT !.phase = "await"] /\ r.phase = "open"
    \/ \E header \in RangeHeaders, s \in SessionObjects :
          /\ ParseRange(header) # Absent
          /\ q = [phase |-> "open", of |-> s, header |-> header,
                  start |-> ParseRange(header).start,
                  end |-> ParseRange(header).end,
                  next |-> ParseRange(header).start \div ChunkSize,
                  sent |-> <<>>]

LEMMA BecomesJust ==
    ASSUME NEW r \in BodyRecord, BodyIsJust(r), NEW q, BecomesBody(r, q)
    PROVE  BodyIsJust(q)
<1>1. CASE q = r  BY <1>1
<1>2. CASE q = NoBody
  <2>1. q.phase = "none" /\ q.sent = <<>>  BY <1>2 DEF NoBody
  <2> QED  BY <2>1 DEF BodyIsJust
<1>3. CASE q = Sent(r) /\ r.phase \in {"open", "await"}
  <2>1. r.header \in RangeHeaders \cup {Absent}  BY DEF BodyRecord
  <2> QED  BY <1>3, <2>1, SentStaysJust
<1>4. CASE q = [r EXCEPT !.phase = "await"] /\ r.phase = "open"
  <2>1. /\ q.phase = "await" /\ q.header = r.header /\ q.start = r.start
        /\ q.end = r.end /\ q.next = r.next /\ q.sent = r.sent
    BY <1>4 DEF BodyRecord
  <2> QED  BY <1>4, <2>1 DEF BodyIsJust, SentUpTo
<1>5. ASSUME NEW header \in RangeHeaders, NEW s \in SessionObjects,
             ParseRange(header) # Absent,
             q = [phase |-> "open", of |-> s, header |-> header,
                  start |-> ParseRange(header).start,
                  end |-> ParseRange(header).end,
                  next |-> ParseRange(header).start \div ChunkSize,
                  sent |-> <<>>]
      PROVE  BodyIsJust(q)
  BY <1>5, OpenedIsJust
<1> QED  BY <1>1, <1>2, <1>3, <1>4, <1>5 DEF BecomesBody

BodiesBecome == \A b \in Bodies : BecomesBody(body[b], body'[b])

LEMMA StepBecomes == StreamInv /\ [StreamNext]_streamVars => BodiesBecome
<1> SUFFICES ASSUME StreamInv, [StreamNext]_streamVars PROVE BodiesBecome
    OBVIOUS
<1>0. Shapes /\ body \in [Bodies -> BodyRecord]
    BY DEF StreamInv, SessionsInv, Shapes
<1>1. ASSUME NEW S, body' = BodiesWithout(S)
      PROVE  BodiesBecome
    BY <1>0, <1>1, BodiesLeft DEF BodiesBecome, BecomesBody
<1>2. ASSUME body' = body
      PROVE  BodiesBecome
    BY <1>2 DEF BodiesBecome, BecomesBody
<1>3. ASSUME NEW s \in SessionObjects, NEW c \in Clients, NEW id \in StreamIds,
             RegisterStream(s, c, id)
      PROVE  BodiesBecome
    BY <1>1, <1>3 DEF RegisterStream
<1>4. ASSUME NEW S, CleanupOnly(S)
      PROVE  BodiesBecome
    BY <1>1, <1>4 DEF CleanupOnly
<1>5. ASSUME NEW b \in Bodies, NEW id \in StreamIds, NEW header \in RangeHeaders,
             RequestRange(b, id, header)
      PROVE  BodiesBecome
  <2> DEFINE s == streamSessions[id]
             range == ParseRange(header)
             new == [phase |-> "open", of |-> s, header |-> header,
                     start |-> range.start, end |-> range.end,
                     next |-> range.start \div ChunkSize, sent |-> <<>>]
  <2>1. /\ s # Absent /\ range # Absent
        /\ body' = [BodiesWithout(Lapsed) EXCEPT ![b] = new]
      BY <1>5 DEF RequestRange
  <2>2. s \in SessionObjects
      BY <1>0, <2>1 DEF Shapes
  <2>3. /\ BodiesWithout(Lapsed) \in [Bodies -> BodyRecord]
        /\ \A k \in Bodies : BodiesWithout(Lapsed)[k] \in {body[k], NoBody}
      BY <1>0, BodiesLeft
  <2>4. BecomesBody(body[b], new)
      BY <2>1, <2>2 DEF BecomesBody
  <2> HIDE DEF new
  <2>5. \A k \in Bodies : body'[k] = IF k = b THEN new ELSE BodiesWithout(Lapsed)[k]
      BY <2>1, <2>3
  <2>6. ASSUME NEW k \in Bodies PROVE BecomesBody(body[k], body'[k])
    <3>1. CASE k = b  BY <2>4, <2>5, <3>1
    <3>2. CASE k # b  BY <2>3, <2>5, <3>2 DEF BecomesBody
    <3> QED  BY <3>1, <3>2
  <2> QED  BY <2>6 DEF BodiesBecome
<1>6. ASSUME NEW b \in Bodies, PullCached(b)
      PROVE  BodiesBecome
  <2>1. body[b].phase = "open" /\ body' = [body EXCEPT ![b] = Sent(@)]
      BY <1>6 DEF PullCached
  <2>2. \A k \in Bodies : body'[k] = IF k = b THEN Sent(body[k]) ELSE body[k]
      BY <1>0, <2>1
  <2> QED  BY <2>1, <2>2 DEF BodiesBecome, BecomesBody
<1>7. ASSUME NEW b \in Bodies, PullPending(b) \/ PullStarts(b)
      PROVE  BodiesBecome
  <2>1. body[b].phase = "open" /\ body' = [body EXCEPT ![b].phase = "await"]
      BY <1>7 DEF PullPending, PullStarts
  <2>2. \A k \in Bodies :
            body'[k] = IF k = b THEN [body[k] EXCEPT !.phase = "await"] ELSE body[k]
      BY <1>0, <2>1
  <2> QED  BY <2>1, <2>2 DEF BodiesBecome, BecomesBody
<1>8. ASSUME NEW b \in Bodies, PullRefused(b) \/ Cancel(b)
      PROVE  BodiesBecome
  <2>1. body' = [body EXCEPT ![b] = NoBody]
      BY <1>8 DEF PullRefused, Cancel
  <2>2. \A k \in Bodies : body'[k] = body[k] \/ body'[k] = NoBody
      BY <1>0, <2>1
  <2> QED  BY <2>2 DEF BodiesBecome, BecomesBody
<1>9. ASSUME NEW l \in Loads, Decrypted(l)
      PROVE  BodiesBecome
  <2>1. \A b \in Bodies :
            body'[b] = IF Awaits(b, l) THEN Sent(body[b]) ELSE body[b]
      BY <1>9 DEF Decrypted
  <2>2. \A b \in Bodies : Awaits(b, l) => body[b].phase = "await"
      BY DEF Awaits
  <2> QED  BY <2>1, <2>2 DEF BodiesBecome, BecomesBody
<1>10. ASSUME NEW l \in Loads, LoadFails(l)
       PROVE  BodiesBecome
  <2>1. \A b \in Bodies : body'[b] = body[b] \/ body'[b] = NoBody
      BY <1>10 DEF LoadFails
  <2> QED  BY <2>1 DEF BodiesBecome, BecomesBody
<1>11. CASE WorkerStops
  <2>1. \A b \in Bodies : body'[b] = body[b] \/ body'[b] = NoBody
      BY <1>11 DEF WorkerStops
  <2> QED  BY <2>1 DEF BodiesBecome, BecomesBody
<1>12. ASSUME NEW s \in SessionObjects, Lapse(s) \/ TimerFires(s)
       PROVE  BodiesBecome
    BY <1>2, <1>4, <1>12 DEF Lapse, TimerFires
<1>13. ASSUME NEW c \in Clients, ClearClient(c)
       PROVE  BodiesBecome
    BY <1>4, <1>13 DEF ClearClient
<1>14. ASSUME NEW c \in Clients, NEW id \in StreamIds, RemoveStream(c, id)
       PROVE  BodiesBecome
    BY <1>4, <1>14 DEF RemoveStream
<1>15. CASE OtherRequest
    BY <1>4, <1>15 DEF OtherRequest
<1>16. ASSUME NEW l \in Loads, Fetched(l)
       PROVE  BodiesBecome
    BY <1>2, <1>16 DEF Fetched
<1>17. CASE UNCHANGED streamVars
    BY <1>2, <1>17 DEF streamVars
<1> QED  BY <1>3, <1>5, <1>6, <1>7, <1>8, <1>9, <1>10, <1>11, <1>12, <1>13,
            <1>14, <1>15, <1>16, <1>17
         DEF StreamNext, LoadProceeds

LEMMA BodiesInvStep ==
    StreamInv /\ BodiesInv /\ [StreamNext]_streamVars => BodiesInv'
<1> SUFFICES ASSUME StreamInv, BodiesInv, [StreamNext]_streamVars,
                    NEW b \in Bodies
             PROVE  BodyIsJust(body'[b])
    BY DEF BodiesInv
<1>1. body[b] \in BodyRecord
    BY DEF StreamInv, SessionsInv, Shapes
<1>2. BodyIsJust(body[b])
    BY DEF BodiesInv
<1>3. BecomesBody(body[b], body'[b])
    BY StepBecomes DEF BodiesBecome
<1> QED  BY <1>1, <1>2, <1>3, BecomesJust

LEMMA BodiesInvInit == StreamInit => BodiesInv
  BY DEF StreamInit, BodiesInv, BodyIsJust, NoBody

\* A range that can be satisfied names the bytes the header asks for.
LEMMA RequestedRange ==
    ASSUME NEW header \in AnyHeader, ParseRange(header) # Absent
    PROVE  Requested(header) = ParseRange(header).start .. ParseRange(header).end
<1> DEFINE range == ParseRange(header)
           last == MediaSize - 1
<1>0. MediaSize \in Nat /\ MediaSize > 0 /\ last \in Nat
    BY StreamAssumption DEF StreamAssumption
<1>1. CASE header = Absent
  <2>1. range = [start |-> 0, end |-> last]  BY <1>1 DEF ParseRange
  <2>2. Requested(header) = 0 .. last  BY <1>1 DEF Requested
  <2> QED  BY <2>1, <2>2
<1>2. CASE header # Absent
  <2>1. /\ header.from \in Nat \cup {Absent}
        /\ header.to \in Nat \cup {Absent}
        /\ Absent \notin Nat
      BY <1>2, StreamAssumption DEF AnyHeader, StreamAssumption
  <2>2. CASE header.from = Absent
    <3>1. header.to \notin {Absent, 0}
        BY <1>2, <2>2 DEF ParseRange
    <3>2. range = [start |-> Max({0, MediaSize - header.to}), end |-> last]
        BY <1>2, <2>2, <3>1 DEF ParseRange
    <3>3. header.to \in Nat /\ header.to > 0 /\ MediaSize - header.to \in Int
        BY <1>0, <2>1, <3>1
    <3>4. Max({0, MediaSize - header.to})
            = IF MediaSize - header.to > 0 THEN MediaSize - header.to ELSE 0
        BY <3>3, MaxZero
    <3>5. Requested(header) = {p \in 0 .. last : p >= MediaSize - header.to}
        BY <1>2, <2>2, <3>1 DEF Requested
    <3> DEFINE start == Max({0, MediaSize - header.to})
    <3>6. range.start = start /\ range.end = last  BY <3>2
    <3>7. {p \in 0 .. last : p >= MediaSize - header.to} = start .. last
        BY <1>0, <3>3, <3>4
    <3> QED  BY <3>5, <3>6, <3>7
  <2>3. CASE header.from # Absent
    <3> DEFINE end == IF header.to = Absent THEN last ELSE header.to
    <3>1. header.from \in Nat /\ end \in Nat
        BY <1>0, <2>1, <2>3
    <3>2. Min({last, end}) = IF last < end THEN last ELSE end
        BY <1>0, <3>1, MinOfTwo
    <3>3. /\ ~(header.from > Min({last, end}))
          /\ range = [start |-> header.from, end |-> Min({last, end})]
        BY <1>2, <2>3 DEF ParseRange
    <3>4. Requested(header) = {p \in 0 .. last : p >= header.from /\ p <= end}
      <4>1. Requested(header)
              = {p \in 0 .. last : p >= header.from
                                   /\ (header.to = Absent \/ p <= header.to)}
          BY <1>2, <2>3 DEF Requested
      <4>2. \A p \in 0 .. last : (header.to = Absent \/ p <= header.to) <=> p <= end
          BY <1>0, <2>1
      <4> QED  BY <4>1, <4>2
    <3>5. range.start = header.from /\ range.end = Min({last, end})  BY <3>3
    <3> HIDE DEF end
    <3>6. {p \in 0 .. last : p >= header.from /\ p <= end}
            = header.from .. Min({last, end})
        BY <1>0, <3>1, <3>2
    <3> QED  BY <3>4, <3>5, <3>6
  <2> QED  BY <2>2, <2>3
<1> QED  BY <1>1, <1>2

\* A range that cannot be satisfied asks for no byte there is.
LEMMA RefusedRange ==
    ASSUME NEW header \in AnyHeader, ParseRange(header) = Absent
    PROVE  Requested(header) = {}
<1> DEFINE last == MediaSize - 1
<1>0. MediaSize \in Nat /\ MediaSize > 0 /\ last \in Nat /\ Absent \notin Nat
    BY StreamAssumption DEF StreamAssumption
<1>1. \A start, end \in Nat : [start |-> start, end |-> end] # Absent
    BY StreamAssumption DEF StreamAssumption
<1>2. header # Absent
    BY <1>0, <1>1 DEF ParseRange
<1>3. header.from \in Nat \cup {Absent} /\ header.to \in Nat \cup {Absent}
    BY <1>2 DEF AnyHeader
<1>4. CASE header.from = Absent
  <2>1. header.to \in {Absent, 0}
    <3> SUFFICES ASSUME header.to \notin {Absent, 0} PROVE FALSE  OBVIOUS
    <3>1. header.to \in Nat /\ MediaSize - header.to \in Int  BY <1>0, <1>3
    <3>2. Max({0, MediaSize - header.to}) \in Nat  BY <3>1, MaxZero
    <3>3. ParseRange(header)
            = [start |-> Max({0, MediaSize - header.to}), end |-> last]
      BY <1>2, <1>4 DEF ParseRange
    <3> QED  BY <1>0, <1>1, <3>2, <3>3
  <2> QED  BY <1>0, <1>2, <1>4, <2>1 DEF Requested
<1>5. CASE header.from # Absent
  <2> DEFINE end == IF header.to = Absent THEN last ELSE header.to
  <2>2. header.from \in Nat /\ end \in Nat  BY <1>0, <1>3, <1>5
  <2>3. Min({last, end}) = IF last < end THEN last ELSE end
    BY <1>0, <2>2, MinOfTwo
  <2>1. header.from > Min({last, end})
    <3> SUFFICES ASSUME ~(header.from > Min({last, end})) PROVE FALSE  OBVIOUS
    <3>1. ParseRange(header) = [start |-> header.from, end |-> Min({last, end})]
      BY <1>2, <1>5 DEF ParseRange
    <3>2. Min({last, end}) \in Nat  BY <1>0, <2>2, <2>3
    <3> QED  BY <1>1, <2>2, <3>1, <3>2
  <2> QED  BY <1>0, <1>2, <1>3, <1>5, <2>1, <2>2, <2>3 DEF Requested
<1> QED  BY <1>4, <1>5

\* What a body sends up to a place is what was asked for up to there.
LEMMA JustIsServed ==
    ASSUME NEW r \in BodyRecord, BodyIsJust(r), r.phase # "none"
    PROVE  LET wanted == Requested(r.header)
           IN  /\ \A n \in DOMAIN r.sent : r.sent[n] = Min(wanted) + n - 1
               /\ ToSet(r.sent) \subseteq wanted
               /\ r.phase = "closed" <=> Len(r.sent) = Cardinality(wanted)
<1> DEFINE start == r.start
           end == r.end
           wanted == Requested(r.header)
           sent == r.sent
<1>1. /\ start \in Nat /\ end \in Nat /\ start <= end /\ wanted = start .. end
      /\ SentUpTo(r)
  BY ParsedRange, RequestedRange, HeadersAsked DEF BodyRecord, BodyIsJust
<1>2. \E m \in 0 .. end - start + 1 :
          /\ sent = BytesFrom(start, m)
          /\ r.phase = "closed" <=> m = end - start + 1
  <2>1. CASE r.phase = "closed"
    <3>1. sent = BytesFrom(start, end - start + 1)  BY <1>1, <2>1 DEF SentUpTo
    <3>2. end - start + 1 \in 0 .. end - start + 1  BY <1>1
    <3> QED  BY <2>1, <3>1, <3>2
  <2>2. CASE r.phase # "closed"
    <3> DEFINE from == Max({start, r.next * ChunkSize})
    <3>1. /\ r.next \in Nat /\ start \div ChunkSize <= r.next
          /\ r.next <= end \div ChunkSize
          /\ sent = BytesFrom(start, from - start)
      BY <1>1, <2>2 DEF SentUpTo, BodyRecord
    <3>2. from \in Nat /\ start <= from /\ from <= end
      <4> DEFINE i == r.next
      <4>1. i \in Nat /\ start \div ChunkSize <= i /\ i <= end \div ChunkSize
        BY <3>1
      <4> HIDE DEF start, end, i
      <4>2. LET a == Max({start, i * ChunkSize})
            IN  a \in Nat /\ start <= a /\ a <= end
        BY <1>1, <4>1, ChunkEnds
      <4> QED  BY <4>2 DEF start, end, i
    <3> HIDE DEF from
    <3>3. from - start \in 0 .. end - start + 1 /\ from - start # end - start + 1
      BY <1>1, <3>2
    <3> QED  BY <2>2, <3>1, <3>3
  <2> QED  BY <2>1, <2>2
<1>3. PICK m \in 0 .. end - start + 1 :
          /\ sent = BytesFrom(start, m)
          /\ r.phase = "closed" <=> m = end - start + 1
  BY <1>2
<1> HIDE DEF start, end, wanted, sent
<1>4. m \in Nat /\ m <= end - start + 1  BY <1>1, <1>3
<1>5. DOMAIN sent = 1 .. m /\ Len(sent) = m /\ \A n \in 1 .. m : sent[n] = start + n - 1
  BY <1>3, <1>4 DEF BytesFrom
<1>6. Min(wanted) = start  BY <1>1 DEF Min
<1>7. Cardinality(wanted) = end - start + 1
  BY <1>1, FS_Interval
<1>8. ToSet(sent) \subseteq wanted
  <2>1. ToSet(sent) = {sent[n] : n \in 1 .. m}  BY <1>5 DEF ToSet
  <2>2. \A n \in 1 .. m : start + n - 1 \in start .. end  BY <1>1, <1>4
  <2> QED  BY <1>1, <1>5, <2>1, <2>2
<1>9. \A n \in DOMAIN sent : sent[n] = Min(wanted) + n - 1  BY <1>5, <1>6
<1>10. r.phase = "closed" <=> Len(sent) = Cardinality(wanted)  BY <1>3, <1>5, <1>7
<1> QED  BY <1>8, <1>9, <1>10 DEF sent, wanted

LEMMA BodiesInvServes == StreamInv /\ BodiesInv => RangeServed
<1> SUFFICES ASSUME StreamInv, BodiesInv, NEW b \in Bodies, body[b].phase # "none"
             PROVE  LET wanted == Requested(body[b].header)
                        sent == body[b].sent
                    IN  /\ \A n \in DOMAIN sent : sent[n] = Min(wanted) + n - 1
                        /\ ToSet(sent) \subseteq wanted
                        /\ body[b].phase = "closed" <=> Len(sent) = Cardinality(wanted)
    BY DEF RangeServed
<1> DEFINE r == body[b]
<1>1. r \in BodyRecord /\ BodyIsJust(r) /\ r.phase # "none"
    BY DEF StreamInv, SessionsInv, Shapes, BodiesInv
<1> HIDE DEF r
<1>2. LET wanted == Requested(r.header)
      IN  /\ \A n \in DOMAIN r.sent : r.sent[n] = Min(wanted) + n - 1
          /\ ToSet(r.sent) \subseteq wanted
          /\ r.phase = "closed" <=> Len(r.sent) = Cardinality(wanted)
    BY <1>1, JustIsServed
<1> QED  BY <1>2 DEF r

\* Whatever size the medium and its chunks have and whatever range is asked
\* for, a response carries the bytes the header names, in order and each
\* once, and is closed when it has sent them all and not before.
THEOREM RangesAreServed == StreamSpec => []RangeServed
<1>1. StreamInv /\ BodiesInv /\ [StreamNext]_streamVars => BodiesInv'
    BY BodiesInvStep
<1> QED  BY <1>1, StreamInvariant, BodiesInvInit, BodiesInvServes, PTL DEF StreamSpec

LEMMA StillSeq ==
    ASSUME NEW S, NEW T, NEW q \in Seq(S), \A n \in 1 .. Len(q) : q[n] \in T
    PROVE  q \in Seq(T)
<1>1. Len(q) \in Nat /\ q = [n \in 1 .. Len(q) |-> q[n]]  OBVIOUS
<1> DEFINE m == Len(q)
           r == [n \in 1 .. m |-> q[n]]
<1>2. m \in Nat /\ \A n \in 1 .. m : q[n] \in T  BY <1>1
<1> HIDE DEF m
<1>3. r \in Seq(T)  BY <1>2
<1> QED  BY <1>1, <1>3 DEF m

\* The state keeps to its types: what bodies have sent are bytes of the
\* medium, and what sessions have cached are chunks of it.
THEOREM StreamTypesKept == StreamSpec => []StreamTypeOK
<1>1. ASSUME StreamInv, CacheInv, BodiesInv
      PROVE  StreamTypeOK
  <2>1. streamFetchSlots \in Nat
    <3>1. IsFiniteSet(Holding)  BY LoadsFinite, FS_Subset DEF Holding
    <3>2. streamFetchSlots = Cardinality(Holding)
      BY <1>1 DEF StreamInv, PermitsInv, PermitsConserved
    <3> QED  BY <3>1, <3>2, FS_CardinalityType
  <2>2. cache \in [SessionObjects -> Seq(Chunks)]
    <3>1. cache = [s \in SessionObjects |-> cache[s]]
      BY <1>1 DEF StreamInv, SessionsInv, Shapes
    <3>2. \A s \in SessionObjects : cache[s] \in Seq(Chunks)
      BY <1>1 DEF CacheInv, Listed
    <3> QED  BY <3>1, <3>2
  <2>3. ASSUME NEW b \in Bodies
        PROVE  body[b].sent \in Seq(0 .. MediaSize - 1)
    <3> DEFINE sent == body[b].sent
    <3>1. body[b] \in BodyRecord /\ BodyIsJust(body[b]) /\ sent \in Seq(Nat)
      BY <1>1 DEF StreamInv, SessionsInv, Shapes, BodiesInv, BodyRecord
    <3>2. CASE body[b].phase = "none"
      <4>1. sent = <<>>  BY <3>1, <3>2 DEF BodyIsJust
      <4> QED  BY <4>1
    <3>3. CASE body[b].phase # "none"
      <4>1. ToSet(sent) \subseteq Requested(body[b].header)
        BY <3>1, <3>3, JustIsServed
      <4>2. ToSet(sent) \subseteq 0 .. MediaSize - 1  BY <4>1 DEF Requested
      <4>3. \A n \in 1 .. Len(sent) : sent[n] \in 0 .. MediaSize - 1
        BY <3>1, <4>2 DEF ToSet
      <4> DEFINE T == 0 .. MediaSize - 1
      <4>4. sent \in Seq(Nat) /\ \A n \in 1 .. Len(sent) : sent[n] \in T
        BY <3>1, <4>3
      <4> HIDE DEF sent, T
      <4>5. sent \in Seq(T)  BY <4>4, StillSeq
      <4> QED  BY <4>5 DEF sent, T
    <3> QED  BY <3>2, <3>3
  <2>4. body \in [Bodies -> [phase : BodyPhases,
                             of : SessionObjects \cup {Absent},
                             header : RangeHeaders \cup {Absent},
                             start : Nat, end : Nat, next : Nat,
                             sent : Seq(0 .. MediaSize - 1)]]
    BY <1>1, <2>3 DEF StreamInv, SessionsInv, Shapes, BodyRecord
  <2> QED  BY <1>1, <2>1, <2>2, <2>4
           DEF StreamInv, PermitsInv, SessionsInv, Shapes, StreamTypeOK
<1>2. StreamInv /\ CacheInv /\ BodiesInv => StreamTypeOK
    BY <1>1
<1>3. StreamInv /\ CacheInv /\ [StreamNext]_streamVars => CacheInv'
    BY CacheInvStep
<1>4. StreamInv /\ BodiesInv /\ [StreamNext]_streamVars => BodiesInv'
    BY BodiesInvStep
<1> QED  BY <1>2, <1>3, <1>4, StreamInvariant, CacheInvInit, BodiesInvInit, PTL
         DEF StreamSpec
=============================================================================
