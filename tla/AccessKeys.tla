----------------------------- MODULE AccessKeys -----------------------------
(***************************************************************************)
(* The Access check that stands before every route of the Worker           *)
(* (security/access.js): the order of its refusals, and the signing keys   *)
(* of the team, which are fetched, cached for a time, and refreshed when a *)
(* token names an unknown key.                                             *)
(*                                                                         *)
(* One isolate serves many requests, and suspends one only while it waits  *)
(* for the keys.  Keys and tokens are what the checks tell apart: a token  *)
(* says which key it names and which one signed it, and which of its other *)
(* parts is wrong, if any.  Times are integers; the real ones are 15       *)
(* minutes, 24 hours, 2 seconds, 5 seconds and 30 seconds.                 *)
(***************************************************************************)
EXTENDS Integers, FiniteSets

CONSTANTS
    Kids,                             \* names of signing keys
    MaxWaiting,                       \* bound: requests that wait at once
    Tokens,                           \* the tokens that requests carry
    Environments,                     \* the configurations of the Worker
    MaxTime,                          \* bound: the clock stops here
    Nothing,                          \* no key set, no fetch
    JWKS_TTL, JWKS_STALE, JWKS_FETCH_TIMEOUT, FORCED_REFRESH_MIN_INTERVAL,
    CLOCK_SKEW

\* What may be wrong with a token beside its key and its times.
Wrongs == {"none", "missing", "malformed", "alg", "kid", "iss", "aud", "type", "email"}
Token  == [kid : Kids, signer : Kids, exp : Int, nbf : Int, wrong : Wrongs]

ASSUME AccessAssumption ==
    /\ Kids # {} /\ Tokens \subseteq Token
    /\ MaxTime \in Nat /\ MaxWaiting \in Nat
    /\ "ok" \in Environments
    /\ JWKS_TTL \in Nat /\ JWKS_STALE \in Nat /\ JWKS_FETCH_TIMEOUT \in Nat
    /\ FORCED_REFRESH_MIN_INTERVAL \in Nat /\ CLOCK_SKEW \in Nat
    /\ JWKS_TTL <= JWKS_STALE

VARIABLES
    env,          \* the configuration of the Worker, which is never changed
    clock,        \* Date.now()
    published,    \* the keys that the team host publishes
    jwks,         \* jwksCache: the key set of the team
    refresh,      \* inflightRefreshes: the fetch under way
    verifying,    \* what the suspended requests go on with; equal ones are one
    verdicts,     \* the requests decided in the last step
    since, until  \* when each key was first published, and withdrawn

accessVars == <<env, clock, published, jwks, refresh, verifying, verdicts,
                since, until>>

FetchErrors  == {"fetch_failed", "redirect_refused", "bad_status"}
BodyErrors   == {"too_large", "bad_encoding"}
JwksErrors   == {"bad_json", "no_keys", "too_many_keys"}
KeyErrors    == {"bad_key", "duplicate_kid"}
KeySet == [keys : SUBSET Kids, fetchedAt : Int, lastForcedAt : Int]
Fetch  == [forced : BOOLEAN, at : Int, answer : (SUBSET Kids) \cup {Nothing}]
Wait   == [token : Tokens, cached : (SUBSET Kids) \cup {Nothing}]

ASSUME NothingAssumption ==
    /\ \A keys \in SUBSET Kids : keys # Nothing
    /\ Nothing \notin KeySet /\ Nothing \notin Fetch

AccessTypeOK ==
    /\ clock \in Nat
    /\ published \subseteq Kids
    /\ jwks \in KeySet \cup {Nothing}
    /\ refresh \in Fetch \cup {Nothing}
    /\ env \in Environments
    /\ verifying \subseteq Wait
    /\ \A v \in verdicts : v.token \in Tokens
    /\ since \in [Kids -> Int] /\ until \in [Kids -> Int]

LongAgo == - (JWKS_STALE + 2 * JWKS_FETCH_TIMEOUT + 1)
First   == CHOOSE k \in Kids : TRUE

\* lastForcedAt starts at the epoch, which is long ago.
AccessInit ==
    /\ env \in Environments
    /\ clock = 0
    /\ published = {First}
    /\ jwks = Nothing
    /\ refresh = Nothing
    /\ verifying = {}
    /\ verdicts = {}
    /\ since = [k \in Kids |-> LongAgo]
    /\ until = [k \in Kids |-> LongAgo]

-----------------------------------------------------------------------------
ConfigError(e) ==
    CASE e = "nothing_set"             -> "ACCESS_NOT_CONFIGURED"
      [] e = "no_team"                 -> "ACCESS_TEAM_DOMAIN_MISSING"
      [] e = "bad_team"                -> "ACCESS_TEAM_DOMAIN_INVALID"
      [] e = "no_aud"                  -> "ACCESS_AUD_MISSING"
      [] e = "bad_aud"                 -> "ACCESS_AUD_INVALID"
      [] e = "bad_emails"              -> "ACCESS_EMAILS_INVALID"
      [] OTHER                           -> "ok"

\* What is wrong with a token before its key is known.
HeaderError(token) ==
    CASE token.wrong = "missing"         -> "ACCESS_ASSERTION_MISSING"
      [] token.wrong = "malformed"       -> "ACCESS_TOKEN_MALFORMED"
      [] token.wrong = "alg"             -> "ACCESS_ALG_UNSUPPORTED"
      [] token.wrong = "kid"             -> "ACCESS_KEY_UNKNOWN"
      [] OTHER                           -> "ok"

Readable(token) == ConfigError(env) = "ok" /\ HeaderError(token) = "ok"

\* validateClaims, with the time at which it runs.
ClaimsError(token, now) ==
    CASE token.wrong = "iss"             -> "ACCESS_ISSUER_INVALID"
      [] token.wrong = "aud"             -> "ACCESS_AUDIENCE_INVALID"
      [] token.exp <= now - CLOCK_SKEW   -> "ACCESS_TOKEN_EXPIRED"
      [] token.nbf > now + CLOCK_SKEW    -> "ACCESS_TOKEN_NOT_YET_VALID"
      [] token.wrong = "type"            -> "ACCESS_TOKEN_TYPE_INVALID"
      [] token.wrong = "email"           -> "ACCESS_IDENTITY_NOT_ALLOWED"
      [] OTHER                           -> "ok"

(* Mutant of Judge: the claims are judged by the time a request came in.   *)
JudgeEarly(token, keys) ==
    [token |-> token,
     code |-> IF token.kid \notin keys THEN "ACCESS_KEY_UNKNOWN"
              ELSE IF token.signer # token.kid THEN "ACCESS_SIGNATURE_INVALID"
              ELSE ClaimsError(token, 0)]

(* What becomes of a request once a set of keys is there for it.           *)
Judge(token, keys) ==
    [token |-> token,
     code |-> IF token.kid \notin keys THEN "ACCESS_KEY_UNKNOWN"
              ELSE IF token.signer # token.kid THEN "ACCESS_SIGNATURE_INVALID"
              ELSE ClaimsError(token, clock)]

Known(token) == jwks # Nothing /\ token.kid \in jwks.keys
Fresh        == clock < jwks.fetchedAt + JWKS_TTL
Usable       == jwks # Nothing /\ clock < jwks.fetchedAt + JWKS_STALE
MayForce     == clock - jwks.lastForcedAt >= FORCED_REFRESH_MIN_INTERVAL

(* refreshKeys: a refresh under way is joined, whoever began it.           *)
RefreshKeys(forced) ==
    refresh' = IF refresh # Nothing THEN refresh
               ELSE [forced |-> forced, at |-> clock, answer |-> Nothing]

AwaitKeys(token, cached) ==
    /\ Cardinality(verifying) < MaxWaiting
    /\ verifying' = verifying \cup {[token |-> token, cached |-> cached]}

-----------------------------------------------------------------------------
(* A request comes in.                                                     *)
NoConfiguration(token) ==
    /\ ConfigError(env) # "ok"
    /\ verdicts' = {[token |-> token, code |-> ConfigError(env)]}
    /\ UNCHANGED <<env, clock, published, jwks, refresh, verifying, since, until>>

NoToken(token) ==
    /\ ConfigError(env) = "ok"
    /\ HeaderError(token) # "ok"
    /\ verdicts' = {[token |-> token, code |-> HeaderError(token)]}
    /\ UNCHANGED <<env, clock, published, jwks, refresh, verifying, since, until>>

\* The fast path, and the one of a cached set that was just refreshed.
UseCached(token) ==
    /\ Readable(token)
    /\ Usable
    /\ \/ Known(token) /\ Fresh
       \/ ~MayForce
    /\ verdicts' = {Judge(token, jwks.keys)}
    /\ UNCHANGED <<env, clock, published, jwks, refresh, verifying, since, until>>

\* No key set, or one too old to be used if the refresh fails.
NeedKeys(token) ==
    /\ Readable(token)
    /\ ~Usable
    /\ AwaitKeys(token, Nothing)
    /\ RefreshKeys(FALSE)
    /\ verdicts' = {}
    /\ UNCHANGED <<env, clock, published, jwks, since, until>>

\* A set past its TTL, or without the key: try one refresh, and remember
\* the set as it is now.
TryRefresh(token) ==
    /\ Readable(token)
    /\ Usable
    /\ ~ (Known(token) /\ Fresh)
    /\ MayForce
    /\ AwaitKeys(token, jwks.keys)
    /\ RefreshKeys(TRUE)
    /\ verdicts' = {}
    /\ UNCHANGED <<env, clock, published, jwks, since, until>>

-----------------------------------------------------------------------------
(* The team host answers, with what it publishes at that moment.           *)
Respond ==
    /\ refresh # Nothing
    /\ refresh.answer = Nothing
    /\ refresh' = [refresh EXCEPT !.answer = published]
    /\ verdicts' = {}
    /\ UNCHANGED <<env, clock, published, jwks, verifying, since, until>>

(* The answer is read: loadKeys stores it, and all who wait go on.         *)
LoadKeys ==
    /\ refresh # Nothing
    /\ refresh.answer # Nothing
    /\ jwks' = [keys |-> refresh.answer, fetchedAt |-> clock,
                lastForcedAt |-> IF refresh.forced THEN clock ELSE LongAgo]
    /\ refresh' = Nothing
    /\ verdicts' = {Judge(wait.token, refresh.answer) : wait \in verifying}
    /\ verifying' = {}
    /\ UNCHANGED <<env, clock, published, since, until>>

\* The code of a failure.  A body that breaks off while it is read is no
\* AccessAuthError.
LoadError(reason) ==
    CASE reason \in FetchErrors                          -> "ACCESS_KEYS_UNAVAILABLE"
      [] reason \in BodyErrors \cup JwksErrors \cup KeyErrors -> "ACCESS_KEYS_INVALID"
      [] OTHER                                           -> "STORAGE_FAILED"

LoadErrors == {LoadError(reason) :
    reason \in FetchErrors \cup BodyErrors \cup JwksErrors \cup KeyErrors \cup {"broken_body"}}

(* A waiting request goes on with what it remembers, if that is allowed.   *)
AfterFailure(wait, code) ==
    IF wait.cached = Nothing \/ code = "STORAGE_FAILED"
    THEN [token |-> wait.token, code |-> code]
    ELSE Judge(wait.token, wait.cached)

(* Mutant of StampForced: a failed refresh renews the cached set.          *)
StampRenewed ==
    IF refresh.forced /\ jwks # Nothing
    THEN [jwks EXCEPT !.lastForcedAt = clock, !.fetchedAt = clock] ELSE jwks

(* A forced refresh that failed counts for the rate limit too.             *)
StampForced ==
    IF refresh.forced /\ jwks # Nothing
    THEN [jwks EXCEPT !.lastForcedAt = clock] ELSE jwks

KeysFail(code) ==
    /\ refresh # Nothing
    /\ code # "ACCESS_KEYS_UNAVAILABLE" => refresh.answer # Nothing
    /\ jwks' = StampForced
    /\ refresh' = Nothing
    /\ verdicts' = {AfterFailure(wait, code) : wait \in verifying}
    /\ verifying' = {}
    /\ UNCHANGED <<env, clock, published, since, until>>

-----------------------------------------------------------------------------
(* The team rotates its keys: a new one is published, the oldest withdrawn *)
(* for good.  Time passes, but not past the timeout of a fetch.            *)
PublishKey(k) ==
    /\ k \notin published
    /\ since[k] = LongAgo /\ until[k] = LongAgo /\ k # First
    /\ published' = published \cup {k}
    /\ since' = [since EXCEPT ![k] = clock]
    /\ verdicts' = {}
    /\ UNCHANGED <<env, clock, jwks, refresh, verifying, until>>

WithdrawKey(k) ==
    /\ k \in published
    /\ published # {k}
    /\ \A other \in published : since[k] <= since[other]
    /\ published' = published \ {k}
    /\ until' = [until EXCEPT ![k] = clock]
    /\ verdicts' = {}
    /\ UNCHANGED <<env, clock, jwks, refresh, verifying, since>>

Tick ==
    /\ clock < MaxTime
    /\ refresh # Nothing => clock < refresh.at + JWKS_FETCH_TIMEOUT
    /\ clock' = clock + 1
    /\ verdicts' = {}
    /\ UNCHANGED <<env, published, jwks, refresh, verifying, since, until>>

RefreshEnds == LoadKeys \/ \E code \in LoadErrors : KeysFail(code)

AccessNext ==
    \/ \E token \in Tokens :
          NoConfiguration(token) \/ NoToken(token) \/ UseCached(token)
              \/ NeedKeys(token) \/ TryRefresh(token)
    \/ Respond
    \/ RefreshEnds
    \/ \E k \in Kids : PublishKey(k) \/ WithdrawKey(k)
    \/ Tick

AccessSpec == AccessInit /\ [][AccessNext]_accessVars

(* A fetch ends, by its timeout at the latest.                             *)
AccessFairness == WF_accessVars(RefreshEnds)

-----------------------------------------------------------------------------
(***************************************************************************)
(* Properties.                                                             *)
(***************************************************************************)

MaxTrust == JWKS_STALE + 2 * JWKS_FETCH_TIMEOUT

LastPublished(k) == IF k \in published THEN clock ELSE until[k]

\* However refreshes fail and overlap, no token is accepted on a key that
\* was withdrawn longer ago than the stale window and the time that two
\* fetches may take: the one that brought the key, and the one that was
\* waited for in vain.
TrustIsBounded ==
    \A v \in verdicts :
        v.code \in {"ok", "ACCESS_SIGNATURE_INVALID", "ACCESS_TOKEN_EXPIRED"} =>
            clock - LastPublished(v.token.kid) <= MaxTrust

\* A key that has been published for that long is never called unknown, so
\* its tokens are never refused for good (401) on account of an old set.
StableKeyIsKnown ==
    \A v \in verdicts :
        v.code = "ACCESS_KEY_UNKNOWN" /\ v.token.wrong # "kid" =>
            \/ v.token.kid \notin published
            \/ clock - since[v.token.kid] <= MaxTrust

\* A token that is let in is signed by the key it names and in force at the
\* time it is let in, also when its request waited for keys in between.
AcceptedIsInForce ==
    \A v \in verdicts : v.code = "ok" =>
        /\ v.token.signer = v.token.kid
        /\ v.token.wrong = "none"
        /\ v.token.exp > clock - CLOCK_SKEW
        /\ v.token.nbf <= clock + CLOCK_SKEW

AccessIsJust == TrustIsBounded /\ StableKeyIsKnown /\ AcceptedIsInForce
=============================================================================
