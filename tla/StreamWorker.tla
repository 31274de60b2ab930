---------------------------- MODULE StreamWorker ----------------------------
(***************************************************************************)
(* Video streaming of the service worker (public/sw.js): sessions that a   *)
(* tab registers with its key, range requests served chunk by chunk, the   *)
(* permits that bound the fetches of all sessions together, and the cache  *)
(* of decrypted chunks of each session.                                    *)
(*                                                                         *)
(* The worker is single-threaded.  An action is what one event (a message, *)
(* a request, a timer, an answer of the network or of the decryption) does *)
(* together with the promise continuations it settles, which run before    *)
(* the next event.  A load is one run of the pending promise of            *)
(* getDecryptedChunk, a body is one ReadableStream of createRangeBody.     *)
(* All sessions show one medium of MediaSize bytes.                        *)
(***************************************************************************)
EXTENDS Integers, FiniteSets, SequencesExt

CONSTANTS
    StreamIds,          \* session ids, chosen by the tabs
    Clients,            \* tabs
    MaxSessions,        \* session objects a run may create (bound)
    MaxBodies,          \* response bodies there may be at once (bound)
    Absent,             \* the undefined of a Map, and a missing range
    ChunkSize, MediaSize,
    RangeHeaders,       \* Range headers asked for: [from, to], or Absent
    MAX_STREAM_CACHE_BYTES,
    MAX_CONCURRENT_STREAM_FETCHES

ASSUME StreamAssumption ==
    /\ MaxSessions \in Nat
    /\ MaxBodies \in Nat
    /\ Absent \notin Nat \cup [start : Nat, end : Nat]
    /\ RangeHeaders \subseteq [from : Nat \cup {Absent}, to : Nat \cup {Absent}]
                                \cup {Absent}
    /\ ChunkSize \in Nat \ {0}
    /\ MediaSize \in Nat \ {0}
    /\ MAX_STREAM_CACHE_BYTES \in Nat
    /\ MAX_CONCURRENT_STREAM_FETCHES \in Nat \ {0}

VARIABLES
    streamSessions,     \* the Map from ids to session objects
    session,            \* the session objects
    load,               \* phase of the load of each chunk for each session
    ahead,              \* streamFetchWaiters: the loads queued before a load
    streamFetchSlots,   \* permits taken
    cache,              \* of each session, chunks in order of last use
    body                \* response bodies

streamVars == <<streamSessions, session, load, ahead, streamFetchSlots, cache,
                body>>

SessionObjects == 1 .. MaxSessions   \* in the order of their creation
Bodies         == 1 .. MaxBodies

LastChunk == (MediaSize - 1) \div ChunkSize
Chunks    == 0 .. LastChunk
Loads     == SessionObjects \X Chunks

LoadPhases == {"none", "waiting", "fetch", "decrypt"}
BodyPhases == {"none", "open", "await", "closed"}

NewSession == [state |-> "new", id |-> Absent, client |-> Absent,
               lapsed |-> FALSE]
NoBody == [phase |-> "none", of |-> Absent, header |-> Absent,
           start |-> 0, end |-> 0, next |-> 0, sent |-> <<>>]

StreamTypeOK ==
    /\ streamSessions \in [StreamIds -> SessionObjects \cup {Absent}]
    /\ session \in [SessionObjects ->
                       [state : {"new", "live", "cleaned"},
                        id : StreamIds \cup {Absent},
                        client : Clients \cup {Absent}, lapsed : BOOLEAN]]
    /\ load \in [Loads -> LoadPhases]
    /\ ahead \in [Loads -> SUBSET Loads]
    /\ streamFetchSlots \in Nat
    /\ cache \in [SessionObjects -> Seq(Chunks)]
    /\ body \in [Bodies -> [phase : BodyPhases,
                            of : SessionObjects \cup {Absent},
                            header : RangeHeaders \cup {Absent},
                            start : Nat, end : Nat, next : Nat,
                            sent : Seq(0 .. MediaSize - 1)]]

StreamInit ==
    /\ streamSessions = [id \in StreamIds |-> Absent]
    /\ session = [s \in SessionObjects |-> NewSession]
    /\ load = [l \in Loads |-> "none"]
    /\ ahead = [l \in Loads |-> {}]
    /\ streamFetchSlots = 0
    /\ cache = [s \in SessionObjects |-> <<>>]
    /\ body = [b \in Bodies |-> NoBody]

-----------------------------------------------------------------------------
Waiting == {l \in Loads : load[l] = "waiting"}
Holding == {l \in Loads : load[l] \in {"fetch", "decrypt"}}
Live    == {s \in SessionObjects : session[s].state = "live"}
Lapsed  == {s \in Live : session[s].lapsed}

Awaits(b, l) == body[b].phase = "await" /\ <<body[b].of, body[b].next>> = l

(* Mutant of ParseRange: a range that goes past the end is taken as it is. *)
ParseUnclamped(header) ==
    IF header = Absent THEN [start |-> 0, end |-> MediaSize - 1]
    ELSE IF header.from = Absent \/ header.to = Absent THEN Absent
    ELSE [start |-> header.from, end |-> header.to]

(* parseRange: the first and the last byte that a header names, Absent if  *)
(* there is none: no header means all, "-n" the last n, "n-" all from n.   *)
ParseRange(header) ==
    LET last == MediaSize - 1
    IN  IF header = Absent THEN [start |-> 0, end |-> last]
        ELSE IF header.from = Absent
        THEN IF header.to \in {Absent, 0} THEN Absent
             ELSE [start |-> Max({0, MediaSize - header.to}), end |-> last]
        ELSE LET end == IF header.to = Absent THEN last ELSE header.to
             IN  IF header.from > Min({last, end}) THEN Absent
                 ELSE [start |-> header.from, end |-> Min({last, end})]

(* Mutants of Slice: a byte too many; the start of the range is forgotten. *)
SliceLong(i, start, end) ==
    LET from == Max({start, i * ChunkSize})
        to == Min({end, (i + 1) * ChunkSize - 1})
    IN  [k \in 1 .. to - from + 2 |-> from + k - 1]

SliceWhole(i, start, end) ==
    LET from == i * ChunkSize
        to == Min({end, (i + 1) * ChunkSize - 1})
    IN  [k \in 1 .. to - from + 1 |-> from + k - 1]

(* The bytes of chunk i that a body for [start, end] sends, in order.      *)
Slice(i, start, end) ==
    LET from == Max({start, i * ChunkSize})
        to == Min({end, (i + 1) * ChunkSize - 1})
    IN  [k \in 1 .. to - from + 1 |-> from + k - 1]

(* A body after a chunk has reached it.  Of one that has failed, or that   *)
(* the player has dropped, nothing is left.                                *)
Sent(r) ==
    [r EXCEPT !.sent = @ \o Slice(r.next, r.start, r.end),
              !.next = @ + 1,
              !.phase = IF r.next < r.end \div ChunkSize THEN "open"
                                                         ELSE "closed"]

(* trimStreamCache: the oldest chunks go until the rest is within the      *)
(* limit.                                                                  *)
ChunkBytes(i) == Min({ChunkSize, MediaSize - i * ChunkSize})
CachedBytes(q) == FoldLeft(LAMBDA total, i : total + ChunkBytes(i), 0, q)
Trim(q) ==
    LET Rest(k) == SubSeq(q, k, Len(q))
    IN  Rest(Min({k \in 1 .. Len(q) + 1 :
                     CachedBytes(Rest(k)) <= MAX_STREAM_CACHE_BYTES}))

(* A chunk just used or decrypted becomes the newest.                      *)
Newest(q, i) == Append(RemoveFirst(q, i), i)

-----------------------------------------------------------------------------
(* cleanupStreamSession, for each session of S: its queued loads are       *)
(* rejected, and with them the bodies that wait; loads that hold a permit  *)
(* are told to abort and give it back later (LoadFails); the cached        *)
(* plaintext and the key are gone.                                         *)
SessionsWithout(S) ==
    [s \in SessionObjects |->
        IF s \in S THEN [session[s] EXCEPT !.state = "cleaned", !.lapsed = FALSE]
                   ELSE session[s]]

StreamsWithout(S) ==
    [id \in StreamIds |->
        IF streamSessions[id] \in S THEN Absent ELSE streamSessions[id]]

(* Mutant of BodiesWithout: queued loads are dropped but not rejected.     *)
BodiesForgotten(S) == body

BodiesWithout(S) ==
    [b \in Bodies |->
        IF \E l \in Waiting : l[1] \in S /\ Awaits(b, l)
        THEN NoBody ELSE body[b]]

(* Mutant of Cleanup: the queue is left alone.                             *)
CleanupKeepsQueue(S) ==
    /\ cache' = [s \in SessionObjects |-> IF s \in S THEN <<>> ELSE cache[s]]
    /\ UNCHANGED <<load, ahead, streamFetchSlots>>

Cleanup(S) ==
    LET rejected == {l \in Waiting : l[1] \in S}
    IN  /\ load' = [l \in Loads |-> IF l \in rejected THEN "none" ELSE load[l]]
        /\ ahead' = [l \in Loads |-> IF l \in rejected THEN {}
                                     ELSE ahead[l] \ rejected]
        /\ cache' = [s \in SessionObjects |-> IF s \in S THEN <<>> ELSE cache[s]]
        /\ UNCHANGED streamFetchSlots

CleanupOnly(S) ==
    /\ Cleanup(S)
    /\ session' = SessionsWithout(S)
    /\ streamSessions' = StreamsWithout(S)
    /\ body' = BodiesWithout(S)

(* Mutant of RegisterStream: the session that had the id is only replaced. *)
RegisterOver(s, c, id) ==
    /\ session[s].state = "new"
    /\ \A t \in 1 .. s - 1 : session[t].state # "new"
    /\ Cleanup({})
    /\ session' = [session EXCEPT
                      ![s] = [state |-> "live", id |-> id, client |-> c,
                              lapsed |-> FALSE]]
    /\ streamSessions' = [streamSessions EXCEPT ![id] = s]
    /\ UNCHANGED body

(* vault-stream-register: a tab (re)registers one of its streams.  An id   *)
(* that another tab holds is refused.                                      *)
RegisterStream(s, c, id) ==
    LET existing == {streamSessions[id]} \ {Absent}
    IN  /\ session[s].state = "new"
        /\ \A e \in existing : session[e].client = c
        /\ Cleanup(existing)
        /\ session' = [SessionsWithout(existing) EXCEPT
                          ![s] = [state |-> "live", id |-> id, client |-> c,
                                  lapsed |-> FALSE]]
        /\ streamSessions' = [StreamsWithout(existing) EXCEPT ![id] = s]
        /\ body' = BodiesWithout(existing)

(* vault-stream-remove, by the tab that registered the session.  A         *)
(* registration that is not valid does the same: what it would have        *)
(* replaced is closed before it is looked at.                              *)
RemoveStream(c, id) ==
    /\ streamSessions[id] # Absent
    /\ session[streamSessions[id]].client = c
    /\ CleanupOnly({streamSessions[id]})

(* vault-stream-clear, when the vault of a tab is locked.                  *)
ClearClient(c) ==
    LET S == {s \in Live : session[s].client = c}
    IN  S # {} /\ CleanupOnly(S)

(* STREAM_SESSION_TTL_MS pass without a use of the session.                *)
Lapse(s) ==
    /\ s \in Live \ Lapsed
    /\ session' = [session EXCEPT ![s].lapsed = TRUE]
    /\ UNCHANGED <<streamSessions, load, ahead, streamFetchSlots, cache, body>>

(* The timer of a session: it knows its session by the id.                 *)
TimerFires(s) ==
    /\ s \in Lapsed
    /\ CleanupOnly({streamSessions[session[s].id]} \ {Absent})

(* A request for anything else, or for a stream that cannot be served:     *)
(* every request first cleans up what has lapsed.                          *)
OtherRequest == Lapsed # {} /\ CleanupOnly(Lapsed)

(* A GET for a stream, from its tab or from a client the browser does not  *)
(* name: the answer has a body unless the range cannot be satisfied.       *)
RequestRange(b, id, header) ==
    LET s     == streamSessions[id]
        range == ParseRange(header)
    IN  /\ body[b].phase \in {"none", "closed"}
        /\ s # Absent
        /\ s \notin Lapsed
        /\ range # Absent
        /\ Cleanup(Lapsed)
        /\ session' = SessionsWithout(Lapsed)
        /\ streamSessions' = StreamsWithout(Lapsed)
        /\ body' = [BodiesWithout(Lapsed) EXCEPT
                       ![b] = [phase |-> "open", of |-> s, header |-> header,
                               start |-> range.start, end |-> range.end,
                               next |-> range.start \div ChunkSize,
                               sent |-> <<>>]]

-----------------------------------------------------------------------------
(* pull: the player wants more of a body.  What follows depends on what    *)
(* the session knows of the next chunk.                                    *)

(* It is cached.  The session counts as used.                              *)
PullCached(b) ==
    LET s == body[b].of
        i == body[b].next
    IN  /\ body[b].phase = "open"
        /\ i \in ToSet(cache[s])
        /\ cache' = [cache EXCEPT ![s] = Newest(@, i)]
        /\ session' = [session EXCEPT ![s].lapsed = FALSE]
        /\ body' = [body EXCEPT ![b] = Sent(@)]
        /\ UNCHANGED <<streamSessions, load, ahead, streamFetchSlots>>

(* Another body is waiting for it already.                                 *)
PullPending(b) ==
    LET l == <<body[b].of, body[b].next>>
    IN  /\ body[b].phase = "open"
        /\ l[2] \notin ToSet(cache[l[1]])
        /\ l[1] \in Live
        /\ load[l] # "none"
        /\ body' = [body EXCEPT ![b].phase = "await"]
        /\ UNCHANGED <<streamSessions, session, load, ahead, streamFetchSlots,
                       cache>>

(* Nobody is: acquireStreamFetchSlot takes a free permit or queues.        *)
PullStarts(b) ==
    LET l == <<body[b].of, body[b].next>>
    IN  /\ body[b].phase = "open"
        /\ l[2] \notin ToSet(cache[l[1]])
        /\ l[1] \in Live
        /\ load[l] = "none"
        /\ IF streamFetchSlots < MAX_CONCURRENT_STREAM_FETCHES
           THEN /\ load' = [load EXCEPT ![l] = "fetch"]
                /\ streamFetchSlots' = streamFetchSlots + 1
                /\ UNCHANGED ahead
           ELSE /\ load' = [load EXCEPT ![l] = "waiting"]
                /\ ahead' = [ahead EXCEPT ![l] = Waiting]
                /\ UNCHANGED streamFetchSlots
        /\ body' = [body EXCEPT ![b].phase = "await"]
        /\ UNCHANGED <<streamSessions, session, cache>>

(* The session is closed: no permit is given for it.                       *)
PullRefused(b) ==
    /\ body[b].phase = "open"
    /\ body[b].of \notin Live
    /\ body' = [body EXCEPT ![b] = NoBody]
    /\ UNCHANGED <<streamSessions, session, load, ahead, streamFetchSlots, cache>>

(* The player drops the response.  A load it started goes on.              *)
Cancel(b) ==
    /\ body[b].phase \in {"open", "await"}
    /\ body' = [body EXCEPT ![b] = NoBody]
    /\ UNCHANGED <<streamSessions, session, load, ahead, streamFetchSlots, cache>>

-----------------------------------------------------------------------------
(* Mutants of EndLoad: a permit is handed on and given back; the permit is *)
(* given back and nobody is woken.                                         *)
EndLoadTwice(l) ==
    \/ /\ Waiting = {}
       /\ load' = [load EXCEPT ![l] = "none"]
       /\ streamFetchSlots' = Max({0, streamFetchSlots - 1})
       /\ UNCHANGED ahead
    \/ \E next \in Waiting :
          /\ ahead[next] = {}
          /\ load' = [load EXCEPT ![l] = "none", ![next] = "fetch"]
          /\ ahead' = [k \in Loads |-> ahead[k] \ {next}]
          /\ streamFetchSlots' = Max({0, streamFetchSlots - 1})

EndLoadAlone(l) ==
    /\ load' = [load EXCEPT ![l] = "none"]
    /\ streamFetchSlots' = Max({0, streamFetchSlots - 1})
    /\ UNCHANGED ahead

(* releaseStreamFetchSlot at the end of load l: the permit passes to the   *)
(* load that queued first, whose session still lives, since a cleanup      *)
(* empties the queue of what it closes.                                    *)
EndLoad(l) ==
    \/ /\ Waiting = {}
       /\ load' = [load EXCEPT ![l] = "none"]
       /\ streamFetchSlots' = Max({0, streamFetchSlots - 1})
       /\ UNCHANGED ahead
    \/ \E next \in Waiting :
          /\ ahead[next] = {}
          /\ load' = [load EXCEPT ![l] = "none", ![next] = "fetch"]
          /\ ahead' = [k \in Loads |-> ahead[k] \ {next}]
          /\ UNCHANGED streamFetchSlots

(* The ciphertext has arrived whole and its hash is right.                 *)
Fetched(l) ==
    /\ load[l] = "fetch"
    /\ l[1] \in Live
    /\ load' = [load EXCEPT ![l] = "decrypt"]
    /\ UNCHANGED <<streamSessions, session, ahead, streamFetchSlots, cache, body>>

(* Mutants of Decrypted: the session is not looked at again after the      *)
(* decryption; the cache is trimmed before the chunk is added.             *)
DecryptedAnyway(l) ==
    /\ load[l] = "decrypt"
    /\ cache' = [cache EXCEPT ![l[1]] = Trim(Newest(@, l[2]))]
    /\ body' = [b \in Bodies |-> IF Awaits(b, l) THEN Sent(body[b]) ELSE body[b]]
    /\ EndLoad(l)
    /\ UNCHANGED <<streamSessions, session>>

DecryptedTrimFirst(l) ==
    /\ load[l] = "decrypt"
    /\ l[1] \in Live
    /\ cache' = [cache EXCEPT ![l[1]] = Newest(Trim(@), l[2])]
    /\ body' = [b \in Bodies |-> IF Awaits(b, l) THEN Sent(body[b]) ELSE body[b]]
    /\ EndLoad(l)
    /\ UNCHANGED <<streamSessions, session>>

(* The chunk is decrypted: it is cached, and every body that waits for it  *)
(* sends its part.                                                         *)
Decrypted(l) ==
    /\ load[l] = "decrypt"
    /\ l[1] \in Live
    /\ cache' = [cache EXCEPT ![l[1]] = Trim(Newest(@, l[2]))]
    /\ body' = [b \in Bodies |-> IF Awaits(b, l) THEN Sent(body[b]) ELSE body[b]]
    /\ EndLoad(l)
    /\ UNCHANGED <<streamSessions, session>>

(* The request fails or is aborted, the chunk is not what its hash, its    *)
(* tag or its length promise, or the session was closed meanwhile, when    *)
(* what was decrypted is zeroed.                                           *)
LoadFails(l) ==
    /\ l \in Holding
    /\ body' = [b \in Bodies |-> IF Awaits(b, l) THEN NoBody ELSE body[b]]
    /\ EndLoad(l)
    /\ UNCHANGED <<streamSessions, session, cache>>

(* The browser stops the idle or updated worker: its memory is gone.       *)
WorkerStops ==
    /\ Live # {} \/ Holding # {}
    /\ streamSessions' = [id \in StreamIds |-> Absent]
    /\ session' = SessionsWithout(Live)
    /\ load' = [l \in Loads |-> "none"]
    /\ ahead' = [l \in Loads |-> {}]
    /\ streamFetchSlots' = 0
    /\ cache' = [s \in SessionObjects |-> <<>>]
    /\ body' = [b \in Bodies |-> IF body[b].phase \in {"open", "await"}
                                 THEN NoBody ELSE body[b]]

-----------------------------------------------------------------------------
LoadProceeds(l) == Fetched(l) \/ Decrypted(l) \/ LoadFails(l)

StreamNext ==
    \/ \E c \in Clients, id \in StreamIds :
          \/ \E s \in SessionObjects : RegisterStream(s, c, id)
          \/ RemoveStream(c, id)
    \/ \E c \in Clients : ClearClient(c)
    \/ \E s \in SessionObjects : Lapse(s) \/ TimerFires(s)
    \/ OtherRequest
    \/ \E b \in Bodies :
          \/ \E id \in StreamIds, header \in RangeHeaders :
                RequestRange(b, id, header)
          \/ PullCached(b) \/ PullPending(b) \/ PullStarts(b) \/ PullRefused(b)
          \/ Cancel(b)
    \/ \E l \in Loads : LoadProceeds(l)
    \/ WorkerStops

StreamSpec == StreamInit /\ [][StreamNext]_streamVars

(* The network and the decryption answer.  Nobody has to ask.              *)
StreamFairness == \A l \in Loads : WF_streamVars(LoadProceeds(l))

-----------------------------------------------------------------------------
(***************************************************************************)
(* Properties.                                                             *)
(***************************************************************************)

\* Every permit taken belongs to a load that is fetching or decrypting, and
\* never more than MAX_CONCURRENT_STREAM_FETCHES are out: none is lost when
\* it is handed on, when its session is closed, or when the load fails.
PermitsConserved ==
    /\ streamFetchSlots = Cardinality(Holding)
    /\ streamFetchSlots <= MAX_CONCURRENT_STREAM_FETCHES

\* Nobody queues for a permit while one is free, nobody queues for a closed
\* session (cleanupStreamSession), and the queue is in order: of two queued
\* loads exactly one came first.
QueueIsJust ==
    /\ Waiting # {} => streamFetchSlots = MAX_CONCURRENT_STREAM_FETCHES
    /\ \A l \in Waiting : l[1] \in Live /\ ahead[l] \subseteq Waiting \ {l}
    /\ \A l, k \in Waiting : l # k => (l \in ahead[k] <=> k \notin ahead[l])

\* A body that waits for a chunk waits for a load that is under way: no
\* cleanup and no hand-over forgets one.
AwaitedIsLoading ==
    \A b \in Bodies : body[b].phase = "await" =>
        load[<<body[b].of, body[b].next>>] # "none"

\* So permits, queue and waiting bodies agree with the loads there are.
LoadsAccountedFor == PermitsConserved /\ QueueIsJust /\ AwaitedIsLoading

\* A session that holds a key can be reached through its id, so that a
\* remove, a clear, its timer or the next request can close it; and no
\* plaintext is cached for one that was closed, whatever was still being
\* decrypted for it.
KeysAreReachable ==
    /\ \A s \in Live : streamSessions[session[s].id] = s
    /\ \A s \in SessionObjects \ Live : cache[s] = <<>>

\* Nothing is sent for a closed session: a body that was opened before
\* fails, even if its chunk arrives after the close.
ClosedSendsNothing ==
    [][\A b \in Bodies :
          Len(body'[b].sent) > Len(body[b].sent) => body[b].of \in Live]_streamVars

\* The cache of a session never exceeds its limit, and holds a chunk once.
CacheBounded ==
    \A s \in SessionObjects :
        /\ CachedBytes(cache[s]) <= MAX_STREAM_CACHE_BYTES
        /\ IsInjective(cache[s])

\* The bytes a Range header asks for (RFC 9110), of those there are.
Requested(header) ==
    {p \in 0 .. MediaSize - 1 :
        \/ header = Absent
        \/ /\ header # Absent
           /\ \/ header.from = Absent /\ header.to # Absent
                 /\ p >= MediaSize - header.to
              \/ header.from # Absent /\ p >= header.from
                 /\ (header.to = Absent \/ p <= header.to)}

\* A response carries the bytes asked for, each once, in order and across
\* the borders of chunks, and is closed when it has sent them all and not
\* before.
RangeServed ==
    \A b \in Bodies : body[b].phase # "none" =>
        LET wanted == Requested(body[b].header)
            sent == body[b].sent
        IN  /\ \A n \in DOMAIN sent : sent[n] = Min(wanted) + n - 1
            /\ ToSet(sent) \subseteq wanted
            /\ body[b].phase = "closed" <=> Len(sent) = Cardinality(wanted)
=============================================================================
