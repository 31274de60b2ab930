----------------------------- MODULE MediaView ------------------------------
(***************************************************************************)
(* The viewer and its prefetch: the cache of prefetched media              *)
(* (hooks/usePrefetch.js), the loading of one medium into an object URL    *)
(* (services/viewerService.js), and the hook that shows it and owns the    *)
(* URL while it does (hooks/useViewer.js, pages/Viewer.jsx).               *)
(*                                                                         *)
(* Media here are files of one object; streamed videos are the subject of  *)
(* StreamClient.  A load is known by its number, which also orders the     *)
(* timestamps of the cache, and so is the URL it ends in.  A prefetch may  *)
(* begin at any time: a long press can outlive its card.                   *)
(***************************************************************************)
EXTENDS Integers, Sequences, FiniteSets, FiniteSetsExt

CONSTANTS
    Media,          \* entries of the gallery
    SizeOf,         \* the size of each
    MAX_ITEMS,      \* of the cache
    MAX_BYTES,      \* of the cache
    MAX_PREFETCHES, \* that load at a time
    MaxLoads,       \* bound: loads
    NoMedia         \* the viewer is closed

ASSUME MediaViewAssumption ==
    /\ IsFiniteSet(Media)
    /\ SizeOf \in [Media -> Nat]
    /\ MAX_ITEMS \in Nat \ {0} /\ MAX_BYTES \in Nat /\ MAX_PREFETCHES \in Nat
    /\ MaxLoads \in Nat
    /\ NoMedia \notin Media

VARIABLES
    loads,         \* calls of loadFullMedia, in their order
    prefetchCache, \* the load of each medium, or 0
    active,        \* the counter of that name
    viewing,       \* what the viewer shows and waits for
    revoking,      \* URLs to be revoked by a timeout of 0 ms
    keyThere       \* there is an active key

mediaVars == <<loads, prefetchCache, active, viewing, revoking, keyThere>>

Load   == [media : Media, prefetched : BOOLEAN, keyed : BOOLEAN,
           url : {"loading", "live", "revoked", "failed"},
           aborted : BOOLEAN, claimed : BOOLEAN]
Viewer == [media : Media \cup {NoMedia},
           found : BOOLEAN,               \* the entry is in the gallery's list
           memo : Nat,                    \* prefetchedMedia: the promise of a load
           effect : Nat,                  \* the load that the effect waits for or owns
           retryKey : 0 .. 1,             \* 0 as long as nothing was retried
           shown : Nat,
           state : {"loading", "ready", "blank", "error"}]

MediaViewTypeOK ==
    /\ loads \in Seq(Load)
    /\ prefetchCache \in [Media -> 0 .. Len(loads)]
    /\ active \in Nat
    /\ viewing \in Viewer
    /\ revoking \subseteq DOMAIN loads
    /\ keyThere \in BOOLEAN

Closed == [media |-> NoMedia, found |-> FALSE, memo |-> 0, effect |-> 0,
           retryKey |-> 0, shown |-> 0, state |-> "loading"]

MediaViewInit ==
    /\ loads = <<>>
    /\ prefetchCache = [m \in Media |-> 0]
    /\ active = 0
    /\ viewing = Closed
    /\ revoking = {}
    /\ keyThere = TRUE

-----------------------------------------------------------------------------
Cached    == {m \in Media : prefetchCache[m] # 0}
ReadyIn(c) == {m \in Media : c[m] # 0 /\ loads[c[m]].url = "live"}

\* cancelPrefetch of some media.
Without(c, gone) == [m \in Media |-> IF m \in gone THEN 0 ELSE c[m]]
Cancelled(gone) ==
    [l \in DOMAIN loads |->
        IF \E m \in gone : prefetchCache[m] = l
        THEN [loads[l] EXCEPT !.aborted = TRUE, !.url = IF @ = "live" THEN "revoked" ELSE @]
        ELSE loads[l]]

NewLoad(m, prefetched) ==
    [media |-> m, prefetched |-> prefetched, keyed |-> keyThere, url |-> "loading",
     aborted |-> FALSE, claimed |-> FALSE]

\* Those whose time is up: some of the oldest that have a URL.
Expirable == {gone \in SUBSET ReadyIn(prefetchCache) :
                 \A m \in gone, other \in ReadyIn(prefetchCache) \ gone :
                     prefetchCache[m] < prefetchCache[other]}

\* The oldest with a URL are evicted one by one until the new one fits, or
\* none is left that could be.
BytesOf(held) == SumFunctionOnSet(SizeOf, held)

Fits(c, m) ==
    LET held == {other \in Media : c[other] # 0}
    IN  Cardinality(held) < MAX_ITEMS /\ BytesOf(held) + SizeOf[m] <= MAX_BYTES
UpTo(c, l)       == {m \in ReadyIn(c) : c[m] <= l}
Enough(c, m)     == {l \in 0 .. Len(loads) : Fits(Without(c, UpTo(c, l)), m)}
EvictedFor(c, m) == IF Enough(c, m) = {} THEN ReadyIn(c) ELSE UpTo(c, Min(Enough(c, m)))

(* A card is hovered or pressed.                                           *)
Prefetch(m) ==
    \E gone \in Expirable :
        LET kept    == Without(prefetchCache, gone)
            starts  == kept[m] = 0 /\ active < MAX_PREFETCHES
            evicted == IF starts THEN EvictedFor(kept, m) ELSE {}
            room    == Without(kept, evicted)
            begins  == starts /\ Fits(room, m)
        IN  /\ begins => Len(loads) < MaxLoads
            /\ loads' = IF begins
                        THEN Append(Cancelled(gone \cup evicted), NewLoad(m, TRUE))
                        ELSE Cancelled(gone \cup evicted)
            /\ prefetchCache' = IF begins THEN [room EXCEPT ![m] = Len(loads) + 1] ELSE room
            /\ active' = IF begins THEN active + 1 ELSE active
            /\ UNCHANGED <<viewing, revoking, keyThere>>

-----------------------------------------------------------------------------
(* The effect of useViewer is cleaned up: a URL it owns is revoked; of one *)
(* that is still to come, the continuation knows that nobody waits.        *)
Revoked(ls, l) == IF l = 0 THEN ls ELSE [ls EXCEPT ![l].url = "revoked"]

\* What the viewer makes of a promise that is settled.
Takes(view, l, load) ==
    CASE load.url = "failed" /\ ~load.aborted -> [view EXCEPT !.effect = 0, !.state = "error"]
      [] load.url = "failed" /\ load.aborted  -> [view EXCEPT !.effect = 0, !.state = "blank"]
      [] OTHER -> [view EXCEPT !.effect = l, !.shown = l, !.state = "ready"]

\* The effect, after a cleanup that left the loads in ls, and c cached: with a
\* prefetched promise, which it claims, or with a load of its own.
Effect(view, c, ls) ==
    LET m     == view.media
        memo  == IF view.retryKey = 0 THEN view.memo ELSE 0
        fresh == [view EXCEPT !.found = TRUE, !.shown = 0, !.state = "loading"]
    IN  IF memo # 0
        THEN LET claims  == c[m] = memo
                 claimed == IF claims THEN [ls EXCEPT ![memo].claimed = TRUE] ELSE ls
             IN  /\ loads' = claimed
                 /\ prefetchCache' = IF claims THEN [c EXCEPT ![m] = 0] ELSE c
                 /\ viewing' = IF ls[memo].url = "loading"
                              THEN [fresh EXCEPT !.effect = memo]
                              ELSE Takes(fresh, memo, ls[memo])
        ELSE /\ Len(ls) < MaxLoads
             /\ loads' = Append(ls, NewLoad(m, FALSE))
             /\ viewing' = [fresh EXCEPT !.effect = Len(ls) + 1]
             /\ prefetchCache' = c

\* consumePrefetched, when the id changes: an expired one is dropped.
ExpiredOf(m) == {{}, {m} \cap ReadyIn(prefetchCache)}

Open(m) ==
    /\ viewing.media = NoMedia /\ keyThere
    /\ \E gone \in ExpiredOf(m) :
          /\ loads' = Cancelled(gone)
          /\ prefetchCache' = Without(prefetchCache, gone)
          /\ viewing' = [Closed EXCEPT !.media = m, !.memo = Without(prefetchCache, gone)[m]]
    /\ UNCHANGED <<active, revoking, keyThere>>

EntryFound ==
    /\ viewing.media # NoMedia /\ ~viewing.found
    /\ Effect(viewing, prefetchCache, loads)
    /\ UNCHANGED <<active, revoking, keyThere>>

\* To the previous or the next entry, which is known: the viewer stays, and
\* with it the retryKey.
Switch(m) ==
    /\ viewing.found /\ viewing.media # m
    /\ \E gone \in ExpiredOf(m) :
          LET left == Without(prefetchCache, gone)
          IN  Effect([viewing EXCEPT !.media = m, !.memo = left[m]], left,
                     Revoked(Cancelled(gone), viewing.shown))
    /\ UNCHANGED <<active, revoking, keyThere>>

Retry ==
    /\ viewing.found /\ viewing.state \in {"error", "ready"}
    /\ Effect([viewing EXCEPT !.retryKey = 1], prefetchCache, Revoked(loads, viewing.shown))
    /\ UNCHANGED <<active, revoking, keyThere>>

Close ==
    /\ viewing.media # NoMedia
    /\ loads' = Revoked(loads, viewing.shown)
    /\ viewing' = Closed
    /\ UNCHANGED <<prefetchCache, active, revoking, keyThere>>

\* handleLock of the gallery's bar.
Lock ==
    /\ keyThere /\ viewing.media = NoMedia
    /\ keyThere' = FALSE
    /\ loads' = Cancelled(Cached)
    /\ prefetchCache' = Without(prefetchCache, Cached)
    /\ UNCHANGED <<active, viewing, revoking>>

-----------------------------------------------------------------------------
(* loadFullMedia ends, and the continuations run: that of prefetch, that   *)
(* of the effect.  A load that began without a key fails.                  *)
Awaited(l) == viewing.effect = l /\ viewing.shown # l

(* Mutant of Loaded: a cancelled prefetch keeps its URL.                   *)
LoadedAnyway(l) ==
    /\ l \in DOMAIN loads /\ loads[l].url = "loading" /\ loads[l].keyed
    /\ LET load  == loads[l]
           drops == ~load.prefetched /\ ~Awaited(l)
           left  == load.prefetched /\ load.claimed /\ ~Awaited(l)
       IN  /\ loads' = [loads EXCEPT ![l].url = IF drops THEN "revoked" ELSE "live"]
           /\ viewing' = IF Awaited(l) THEN Takes(viewing, l, loads'[l]) ELSE viewing
           /\ revoking' = IF left THEN revoking \cup {l} ELSE revoking
           /\ active' = IF load.prefetched THEN active - 1 ELSE active
    /\ UNCHANGED <<prefetchCache, keyThere>>

Loaded(l) ==
    /\ l \in DOMAIN loads /\ loads[l].url = "loading" /\ loads[l].keyed
    /\ LET load  == loads[l]
           drops == load.aborted \/ (~load.prefetched /\ ~Awaited(l))
           left  == load.prefetched /\ ~load.aborted /\ load.claimed /\ ~Awaited(l)
       IN  /\ loads' = [loads EXCEPT ![l].url = IF load.aborted THEN "failed"
                                                ELSE IF drops THEN "revoked" ELSE "live"]
           /\ viewing' = IF Awaited(l) THEN Takes(viewing, l, loads'[l]) ELSE viewing
           /\ revoking' = IF left THEN revoking \cup {l} ELSE revoking
           /\ active' = IF load.prefetched THEN active - 1 ELSE active
    /\ UNCHANGED <<prefetchCache, keyThere>>

LoadFailed(l) ==
    /\ l \in DOMAIN loads /\ loads[l].url = "loading"
    /\ LET load == loads[l]
       IN  /\ loads' = [loads EXCEPT ![l].url = "failed"]
           /\ viewing' = IF Awaited(l) THEN Takes(viewing, l, loads'[l]) ELSE viewing
           /\ prefetchCache' = IF load.prefetched /\ prefetchCache[load.media] = l
                       THEN [prefetchCache EXCEPT ![load.media] = 0] ELSE prefetchCache
           /\ active' = IF load.prefetched THEN active - 1 ELSE active
    /\ UNCHANGED <<revoking, keyThere>>

RevokeLater(l) ==
    /\ l \in revoking
    /\ revoking' = revoking \ {l}
    /\ loads' = Revoked(loads, l)
    /\ UNCHANGED <<prefetchCache, active, viewing, keyThere>>

MediaViewNext ==
    \/ \E m \in Media : Prefetch(m) \/ Open(m) \/ Switch(m)
    \/ EntryFound \/ Retry \/ Close \/ Lock
    \/ \E l \in DOMAIN loads : Loaded(l) \/ LoadFailed(l) \/ RevokeLater(l)

(* Every load ends, by the timeout of its request at the latest.           *)
MediaViewFairness ==
    \A l \in 1 .. MaxLoads :
        WF_mediaVars(l \in DOMAIN loads /\ (Loaded(l) \/ LoadFailed(l) \/ RevokeLater(l)))

MediaViewSpec == MediaViewInit /\ [][MediaViewNext]_mediaVars /\ MediaViewFairness

-----------------------------------------------------------------------------
(***************************************************************************)
(* Properties.                                                             *)
(***************************************************************************)

\* No decrypted medium is left behind: a live URL is in the cache, on the
\* screen, or about to be revoked; however prefetches, evictions, retries
\* and closes overlap, and whether a load ends before or after them.
NoUrlLeft ==
    \A l \in DOMAIN loads : loads[l].url = "live" =>
        \/ prefetchCache[loads[l].media] = l
        \/ viewing.shown = l
        \/ l \in revoking

\* A lock leaves none at all, once the timeouts have run.
LockedIsClean ==
    ~keyThere => \A l \in DOMAIN loads : loads[l].url = "live" => l \in revoking

\* The viewer shows the medium it is on, from a URL that is not revoked;
\* unless a prefetch evicted it while the viewer still looked for the entry.
ShownIsLive ==
    viewing.shown # 0 =>
        /\ loads[viewing.shown].media = viewing.media
        /\ loads[viewing.shown].url = "live" \/ loads[viewing.shown].aborted

\* The cache keeps within its limits, its counter counts the prefetches that
\* load, and a cached prefetch is neither cancelled nor claimed.
CacheInBounds ==
    /\ Cardinality(Cached) <= MAX_ITEMS
    /\ BytesOf(Cached) <= MAX_BYTES
    /\ active = Cardinality({l \in DOMAIN loads :
                                 loads[l].prefetched /\ loads[l].url = "loading"})
    /\ active <= MAX_PREFETCHES
    /\ \A m \in Cached : ~loads[prefetchCache[m]].aborted /\ ~loads[prefetchCache[m]].claimed

MediaViewIsJust == NoUrlLeft /\ LockedIsClean /\ ShownIsLive /\ CacheInBounds

MediaBusy == revoking # {} \/ \E l \in DOMAIN loads : loads[l].url = "loading"
=============================================================================
