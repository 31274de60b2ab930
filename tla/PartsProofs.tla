----------------------------- MODULE PartsProofs ----------------------------
(***************************************************************************)
(* Proofs about three parts of the storage Worker (the transfer of         *)
(* objects, the check of Access tokens, and the first initialisation of a  *)
(* vault), about MCParts, where a behaviour about one part is a behaviour  *)
(* of every part, in which the others stutter, so that what is proved of a *)
(* part alone holds there, and about the two algorithms that cut a         *)
(* publication up.                                                         *)
(***************************************************************************)
EXTENDS MCParts, StreamWorkerProofs, SequenceTheorems

-----------------------------------------------------------------------------
(***************************************************************************)
(* The transfer: any number of uploads of one object, of any size.         *)
(***************************************************************************)

(***************************************************************************)
(* The inductive invariant: how far an upload is says what runs for it.    *)
(***************************************************************************)
Sending == {"put", "pipe", "check", "verify"}
Begun   == Sending \cup {"ended"}

\* A pipe that carried its body to the end has closed the digest, and where
\* there is no pipe there is no digest.
PipeAndDigest(r) ==
    /\ r.pipe = "none" => r.digest = "none"
    /\ r.pipe = "done" => r.digest = "closed"
    /\ r.pipe = "done" /\ r.step # "ended" => r.got = DeclaredSize
    /\ r.step \notin Begun => r.pipe = "none"
    /\ r.step \in {"check", "verify"} => r.pipe \in {"none", "done"}

\* What is known of the body of an upload under way.
BodyKnown(r) ==
    /\ r.step \in {"batch", "buffering"} \cup Sending => r.body # "missing"
    /\ r.kind = "legacy" => r.body = "right" /\ r.pipe = "none"
    /\ r.step = "none" => r.kind = "native" /\ r.body = "right"
    /\ r.step \in {"reading", "preupload"} => r.kind = "legacy"
    /\ r.step = "check" => r.kind # "legacy"
    /\ r.step = "pipe" => r.kind = "native"
    /\ r.step = "verify" => r.body = "right"
    /\ r.kind = "buffered" =>
           /\ r.step \in Sending => r.got = Length(r.body)
           /\ r.pipe = "none"

\* An upload that has ended leaves nothing running.
Quiet(r) == r.step = "ended" => ~r.timer /\ r.pipe # "running" /\ r.digest # "open"

\* Its code is true of it.
Truthful(r) ==
    /\ r.step # "ended" => r.code = "none"
    /\ r.step \notin Begun \ {"put"} => ~r.sent
    /\ r.step = "pipe" => r.sent
    /\ r.code = "ok" /\ r.sent => r.body = "right" /\ r.pipe \in {"none", "done"}
    /\ r.code \in {"SIZE_MISMATCH", "DIGEST_MISMATCH"} => r.body # "right"

\* An upload that may have left a wrong body with the service.
Wrong(r) == r.step \in Begun /\ r.code # "ok" /\ r.body # "right"

\* A service that asks for no verification has kept what it took.
Taken(r) == ~verifies /\ (r.step = "check" \/ (r.step = "pipe" /\ r.got >= DeclaredSize))

UploadInv ==
    /\ WorkerUploadTypeOK
    /\ \/ object \in {"none", "right"}
       \/ ~verifies /\ \E u \in Uploads : Wrong(up[u]) /\ up[u].body = object
    /\ \A u \in Uploads :
          /\ PipeAndDigest(up[u]) /\ BodyKnown(up[u]) /\ Quiet(up[u]) /\ Truthful(up[u])
          /\ up[u].code = "ok" \/ Taken(up[u]) => object # "none"

UploadRecord ==
    [kind : {"native", "buffered", "legacy"}, body : UploadBodies \cup {"missing"},
     step : {"none", "reading", "preupload", "batch", "buffering", "put", "pipe",
             "check", "verify", "ended"},
     got : 0 .. DeclaredSize + 1, pipe : {"none", "running", "done", "failed"},
     digest : {"none", "open", "closed", "aborted"},
     sent : BOOLEAN, timer : BOOLEAN, timedOut : BOOLEAN, gone : BOOLEAN, code : Codes \cup Refusals]

\* An upload on its own: its record is of the type and keeps the invariant.
Good(r) == r \in UploadRecord /\ PipeAndDigest(r) /\ BodyKnown(r) /\ Quiet(r) /\ Truthful(r)

LEMMA LengthOfBody ==
    ASSUME NEW sent \in UploadBodies
    PROVE  /\ Length(sent) \in 0 .. DeclaredSize + 1
           /\ sent = "right" => Length(sent) = DeclaredSize
  BY WorkerUploadAssumption DEF Length, UploadBodies, WorkerUploadAssumption

\* A step that gives one upload a good record keeps the invariant, if the
\* object is still that of before, the right body, or the upload's own.
LEMMA OneStep ==
    ASSUME UploadInv, NEW u \in Uploads, NEW r, Becomes(u, r), Good(r),
           object' \in UploadBodies \cup {"none"},
           object # "none" \/ r.code = "ok" \/ Taken(r) => object' # "none",
           \/ object' \in {object, "right"}
           \/ ~verifies /\ Wrong(r) /\ r.body = object',
           Wrong(up[u]) => Wrong(r) /\ r.body = up[u].body
    PROVE  UploadInv'
<1>1. up \in [Uploads -> UploadRecord]
    BY DEF UploadInv, WorkerUploadTypeOK, UploadRecord
<1>2. up' \in [Uploads -> UploadRecord] /\ verifies' = verifies
    BY <1>1 DEF Becomes, Good
<1>3. \A v \in Uploads : up'[v] = IF v = u THEN r ELSE up[v]
    BY <1>1 DEF Becomes
<1>4. WorkerUploadTypeOK'
    BY <1>2 DEF WorkerUploadTypeOK, UploadRecord, UploadBodies, UploadInv
<1>5. ASSUME NEW v \in Uploads
      PROVE  /\ PipeAndDigest(up'[v]) /\ BodyKnown(up'[v])
             /\ Quiet(up'[v]) /\ Truthful(up'[v])
    BY <1>3 DEF UploadInv, Good
<1>6. ASSUME NEW v \in Uploads, up'[v].code = "ok" \/ Taken(up'[v])
      PROVE  object' # "none"
    BY <1>3, <1>6 DEF UploadInv
<1>7. \/ object' \in {"none", "right"}
      \/ ~verifies /\ \E v \in Uploads : Wrong(up'[v]) /\ up'[v].body = object'
  <2>1. CASE ~verifies /\ Wrong(r) /\ r.body = object'
      BY <1>3, <2>1
  <2>2. CASE object' = object /\ object \notin {"none", "right"}
    <3>1. PICK v \in Uploads : ~verifies /\ Wrong(up[v]) /\ up[v].body = object
        BY <2>2 DEF UploadInv
    <3>2. Wrong(up'[v]) /\ up'[v].body = object
        BY <1>3, <3>1
    <3> QED  BY <2>2, <3>1, <3>2
  <2> QED  BY <2>1, <2>2
<1> QED  BY <1>2, <1>4, <1>5, <1>6, <1>7
         DEF UploadInv, PipeAndDigest, BodyKnown, Quiet, Truthful, Length, Wrong, Taken

LEMMA EachIsGood ==
    ASSUME UploadInv, NEW u \in Uploads
    PROVE  /\ Good(up[u])
           /\ up[u].code = "ok" \/ Taken(up[u]) => object # "none"
           /\ object \in UploadBodies \cup {"none"}
  BY DEF UploadInv, WorkerUploadTypeOK, UploadRecord, Good

\* A step that leaves the object alone.
LEMMA OneQuietStep ==
    ASSUME UploadInv, NEW u \in Uploads, NEW r, Becomes(u, r), Good(r), object' = object,
           r.code = "ok" \/ Taken(r) => object # "none",
           Wrong(up[u]) => Wrong(r) /\ r.body = up[u].body
    PROVE  UploadInv'
  BY OneStep, EachIsGood

\* What the end of an upload leaves of its record.
LEMMA EndFields ==
    ASSUME NEW r \in UploadRecord, NEW code \in Codes \cup Refusals
    PROVE  LET e == Ended(r, code)
           IN  /\ e \in UploadRecord
               /\ e.step = "ended" /\ e.code = code /\ ~e.timer
               /\ e.kind = r.kind /\ e.body = r.body /\ e.sent = r.sent
               /\ e.pipe = r.pipe /\ e.digest = r.digest
<1>1. 0 \in 0 .. DeclaredSize + 1
    BY WorkerUploadAssumption DEF WorkerUploadAssumption
<1> QED  BY <1>1 DEF Ended, UploadRecord

\* An upload may end once nothing runs for it, with a code that is true of it.
LEMMA EndIsGood ==
    ASSUME NEW r, Good(r), NEW code \in Codes \cup Refusals,
           r.pipe # "running", r.digest # "open",
           code = "ok" /\ r.sent => r.body = "right" /\ r.pipe \in {"none", "done"},
           code \in {"SIZE_MISMATCH", "DIGEST_MISMATCH"} => r.body # "right"
    PROVE  LET e == Ended(r, code)
           IN  /\ Good(e) /\ ~Taken(e)
               /\ e.code = code /\ e.body = r.body /\ e.step = "ended"
  BY EndFields
  DEF Good, PipeAndDigest, BodyKnown, Quiet, Truthful, Sending, Begun, Taken

LEMMA AbortIsGood ==
    ASSUME NEW r, Good(r), r.step \in {"put", "pipe"}
    PROVE  LET a == AbortUploadPipeline(r)
           IN  /\ Good(a)
               /\ a.pipe # "running" /\ a.digest # "open"
               /\ a.body = r.body /\ a.sent = r.sent
  BY DEF Good, AbortUploadPipeline, UploadRecord, PipeAndDigest, BodyKnown, Quiet,
         Truthful, Sending, Begun, Length

-----------------------------------------------------------------------------
(***************************************************************************)
(* One lemma for each handler and event.                                   *)
(***************************************************************************)
\* A client that declares nothing has its body in memory.
LEMMA LegacyStreamsNothing ==
    ASSUME NEW r, Good(r), r.kind = "legacy"
    PROVE  r.pipe = "none" /\ r.digest = "none"
  BY DEF Good, BodyKnown, PipeAndDigest

\* An upload that ends before anything runs for it, or after all has, and
\* leaves the object alone.
LEMMA EndKeeps ==
    ASSUME UploadInv, NEW u \in Uploads, NEW code \in Codes \cup Refusals,
           up[u].pipe # "running", up[u].digest # "open",
           code = "ok" => /\ ~Wrong(up[u]) /\ object # "none"
                          /\ up[u].sent => up[u].body = "right" /\ up[u].pipe \in {"none", "done"},
           code \in {"SIZE_MISMATCH", "DIGEST_MISMATCH"} => up[u].body # "right",
           object' = object, Becomes(u, Ended(up[u], code))
    PROVE  UploadInv'
<1> DEFINE e == Ended(up[u], code)
<1>1. Good(up[u])
    BY EachIsGood
<1>2. Good(e) /\ ~Taken(e) /\ e.code = code /\ e.body = up[u].body /\ e.step = "ended"
    BY <1>1, EndIsGood
<1> HIDE DEF e
<1>3. Becomes(u, e)
    BY DEF e
<1>4. Wrong(up[u]) => Wrong(e)
    BY <1>2 DEF Wrong, Begun
<1> QED  BY <1>2, <1>3, <1>4, OneQuietStep

LEMMA RefuseKeeps ==
    ASSUME UploadInv, NEW u \in Uploads, Refuse(u)
    PROVE  UploadInv'
<1>1. PICK code \in Refusals : Becomes(u, Ended(up[u], code))
    BY DEF Refuse
<1>2. Good(up[u])
    BY EachIsGood
<1>3. up[u].step = "none" /\ object' = object
    BY DEF Refuse, AtStep
<1>4. up[u].pipe = "none" /\ up[u].digest = "none" /\ ~Wrong(up[u]) /\ code # "ok"
    BY <1>2, <1>3 DEF Good, PipeAndDigest, Wrong, Sending, Begun, Refusals
<1> QED  BY <1>1, <1>3, <1>4, EndKeeps DEF Refusals

LEMMA AskKeeps ==
    ASSUME UploadInv, NEW u \in Uploads, Ask(u)
    PROVE  UploadInv'
<1>1. Good(up[u])
    BY EachIsGood
<1>2. PICK kind \in {"native", "buffered", "legacy"}, sent \in UploadBodies \cup {"missing"} :
          /\ kind = "legacy" => sent = "right"
          /\ Becomes(u,
                IF kind = "legacy"
                THEN [up[u] EXCEPT !.kind = kind, !.step = "reading"]
                ELSE IF sent = "missing"
                THEN Ended([up[u] EXCEPT !.body = sent], "UPLOAD_BODY_MISSING")
                ELSE [up[u] EXCEPT !.kind = kind, !.body = sent, !.step = "batch"])
    BY DEF Ask
<1>3. up[u].step = "none" /\ object' = object /\ up[u].code = "none" /\ ~Wrong(up[u])
    BY <1>1 DEF Ask, AtStep, Good, Truthful, Wrong, Sending, Begun
<1>4. CASE kind = "legacy"
  <2> DEFINE r == [up[u] EXCEPT !.kind = kind, !.step = "reading"]
  <2>1. Good(r)
      BY <1>1, <1>3, <1>4 DEF Good, UploadRecord, PipeAndDigest, BodyKnown, Quiet, Truthful, Sending, Begun
  <2>2. r.code = "none" /\ ~Taken(r)
      BY <1>1, <1>3 DEF Good, UploadRecord, Taken
  <2>3. Becomes(u, r)
      BY <1>2, <1>4
  <2> HIDE DEF r
  <2> QED  BY <2>1, <2>2, <2>3, <1>3, OneQuietStep
<1>5. CASE kind # "legacy" /\ sent = "missing"
  <2> DEFINE s == [up[u] EXCEPT !.body = sent]
             r == Ended(s, "UPLOAD_BODY_MISSING")
  <2>1. /\ s \in UploadRecord /\ s.kind = "native"
        /\ s.pipe = up[u].pipe /\ s.digest = up[u].digest
      BY <1>1, <1>3 DEF Good, UploadRecord, BodyKnown
  <2>2. Good(r) /\ r.code = "UPLOAD_BODY_MISSING" /\ ~Taken(r)
    <3> HIDE DEF s
    <3>1. "UPLOAD_BODY_MISSING" \in Codes \cup Refusals
        BY DEF Codes
    <3>2. up[u].pipe = "none" /\ up[u].digest = "none"
        BY <1>1, <1>3 DEF Good, PipeAndDigest, Sending, Begun
    <3>3. /\ r \in UploadRecord
          /\ r.step = "ended" /\ r.code = "UPLOAD_BODY_MISSING" /\ ~r.timer
          /\ r.kind = "native" /\ r.pipe = "none" /\ r.digest = "none"
        BY <2>1, <3>1, <3>2, EndFields
    <3>4. ~r.sent
        BY <1>1, <1>3, <2>1, <3>1, EndFields DEF s, Good, UploadRecord, Truthful, Sending, Begun
    <3> HIDE DEF r
    <3> QED  BY <3>3, <3>4 DEF Good, PipeAndDigest, BodyKnown, Quiet, Truthful, Taken, Sending, Begun
  <2>3. Becomes(u, r)
      BY <1>2, <1>5
  <2> HIDE DEF r
  <2> QED  BY <2>2, <2>3, <1>3, OneQuietStep
<1>6. CASE kind # "legacy" /\ sent # "missing"
  <2> DEFINE r == [up[u] EXCEPT !.kind = kind, !.body = sent, !.step = "batch"]
  <2>1. Good(r)
      BY <1>1, <1>3, <1>6, <1>2 DEF Good, UploadRecord, PipeAndDigest, BodyKnown, Quiet, Truthful, Sending, Begun
  <2>2. r.code = "none" /\ ~Taken(r)
      BY <1>1, <1>3 DEF Good, UploadRecord, Taken
  <2>3. Becomes(u, r)
      BY <1>2, <1>6
  <2> HIDE DEF r
  <2> QED  BY <2>1, <2>2, <2>3, <1>3, OneQuietStep
<1> QED  BY <1>4, <1>5, <1>6

LEMMA ReadRawBodyKeeps ==
    ASSUME UploadInv, NEW u \in Uploads, ReadRawBody(u)
    PROVE  UploadInv'
<1>1. Good(up[u])
    BY EachIsGood
<1>2. /\ up[u].step = "reading" /\ object' = object
      /\ up[u].pipe = "none" /\ up[u].digest = "none" /\ up[u].code = "none"
      /\ ~Wrong(up[u])
    BY <1>1 DEF ReadRawBody, AtStep, Good, PipeAndDigest, Truthful, Wrong, Sending, Begun
<1>3. CASE Becomes(u, [up[u] EXCEPT !.step = "preupload"])
  <2> DEFINE r == [up[u] EXCEPT !.step = "preupload"]
  <2>1. Good(r) /\ r.code = "none" /\ ~Taken(r)
      BY <1>1, <1>2
      DEF Good, UploadRecord, PipeAndDigest, BodyKnown, Quiet, Truthful, Taken, Sending, Begun
  <2>2. Becomes(u, r)
      BY <1>3
  <2> HIDE DEF r
  <2> QED  BY <1>2, <2>1, <2>2, OneQuietStep
<1>4. CASE \E code \in {"REQUEST_TOO_LARGE", "STORAGE_FAILED"} : Becomes(u, Ended(up[u], code))
    BY <1>2, <1>4, EndKeeps DEF BatchErrors, Codes
<1> QED  BY <1>3, <1>4 DEF ReadRawBody

LEMMA PreuploadKeeps ==
    ASSUME UploadInv, NEW u \in Uploads, Preupload(u)
    PROVE  UploadInv'
<1>1. Good(up[u])
    BY EachIsGood
<1>2. /\ up[u].step = "preupload" /\ object' = object
      /\ up[u].pipe = "none" /\ up[u].digest = "none" /\ up[u].code = "none"
      /\ ~Wrong(up[u])
    BY <1>1 DEF Preupload, AtStep, Good, PipeAndDigest, Truthful, Wrong, Sending, Begun
<1>3. CASE Becomes(u, [up[u] EXCEPT !.step = "batch"])
  <2> DEFINE r == [up[u] EXCEPT !.step = "batch"]
  <2>1. Good(r) /\ r.code = "none" /\ ~Taken(r)
      BY <1>1, <1>2
      DEF Good, UploadRecord, PipeAndDigest, BodyKnown, Quiet, Truthful, Taken, Sending, Begun
  <2>2. Becomes(u, r)
      BY <1>3
  <2> HIDE DEF r
  <2> QED  BY <1>2, <2>1, <2>2, OneQuietStep
<1>4. CASE \E code \in {"refused", "STORAGE_FAILED"} : Becomes(u, Ended(up[u], code))
    BY <1>2, <1>4, EndKeeps DEF BatchErrors, Codes
<1> QED  BY <1>3, <1>4 DEF Preupload

LEMMA BatchKeeps ==
    ASSUME UploadInv, NEW u \in Uploads, Exists(u) \/ MustSend(u) \/ BatchFails(u)
    PROVE  UploadInv'
<1>1. Good(up[u])
    BY EachIsGood
<1>2. /\ up[u].step = "batch" /\ object' = object
      /\ up[u].pipe = "none" /\ up[u].digest = "none" /\ up[u].code = "none"
      /\ ~Wrong(up[u])
    BY <1>1 DEF Exists, MustSend, BatchFails, AtStep, Good, PipeAndDigest, Truthful, Wrong, Sending, Begun
<1>3. CASE Exists(u)
  <2>1. object # "none" /\ ~up[u].sent /\ Becomes(u, Ended(up[u], "ok"))
      BY <1>1, <1>2, <1>3 DEF Exists, Good, Truthful, Sending, Begun
  <2> QED  BY <1>2, <2>1, EndKeeps DEF Codes
<1>4. CASE MustSend(u)
  <2> DEFINE native   == [up[u] EXCEPT !.step = "put", !.pipe = "running",
                                       !.digest = "open", !.timer = TRUE]
             buffered == [up[u] EXCEPT !.step = "buffering", !.timer = TRUE]
             legacy   == [up[u] EXCEPT !.step = "put"]
  <2>1. \/ up[u].kind = "native" /\ Becomes(u, native)
        \/ up[u].kind = "buffered" /\ Becomes(u, buffered)
        \/ up[u].kind = "legacy" /\ Becomes(u, legacy)
      BY <1>1, <1>4 DEF MustSend, Good, UploadRecord
  <2>2. up[u].kind = "native" => Good(native) /\ native.code = "none" /\ ~Taken(native)
      BY <1>1, <1>2
      DEF Good, UploadRecord, PipeAndDigest, BodyKnown, Quiet, Truthful, Taken, Sending, Begun
  <2>3. up[u].kind = "buffered" => Good(buffered) /\ buffered.code = "none" /\ ~Taken(buffered)
      BY <1>1, <1>2
      DEF Good, UploadRecord, PipeAndDigest, BodyKnown, Quiet, Truthful, Taken, Sending, Begun
  <2>4. up[u].kind = "legacy" => Good(legacy) /\ legacy.code = "none" /\ ~Taken(legacy)
      BY <1>1, <1>2
      DEF Good, UploadRecord, PipeAndDigest, BodyKnown, Quiet, Truthful, Taken, Sending, Begun
  <2> HIDE DEF native, buffered, legacy
  <2> QED  BY <1>2, <2>1, <2>2, <2>3, <2>4, OneQuietStep
<1>5. CASE BatchFails(u)
  <2>1. PICK code \in BatchErrors :
            Becomes(u, Ended(up[u], code))
      BY <1>5 DEF BatchFails
  <2> QED  BY <1>2, <2>1, EndKeeps DEF BatchErrors, Codes
<1> QED  BY <1>3, <1>4, <1>5

LEMMA FlowKeeps ==
    ASSUME UploadInv, NEW u \in Uploads, Flow(u)
    PROVE  UploadInv'
<1> DEFINE r == [up[u] EXCEPT !.got = @ + 1,
                              !.pipe = IF up[u].got = DeclaredSize THEN "failed" ELSE @]
<1>1. Good(up[u]) /\ object \in UploadBodies \cup {"none"}
      /\ (Taken(up[u]) => object # "none")
    BY EachIsGood
<1>2. /\ up[u].step \in {"put", "pipe"} /\ up[u].pipe = "running"
      /\ up[u].code = "none" /\ up[u].body \in UploadBodies
      /\ up[u].got < Length(up[u].body)
      /\ Becomes(u, r)
    BY <1>1 DEF Flow, Streaming, Good, Truthful, UploadRecord, BodyKnown, Sending, Begun
<1>3. up[u].got + 1 \in 0 .. DeclaredSize + 1
    BY <1>1, <1>2, LengthOfBody, WorkerUploadAssumption
    DEF Good, UploadRecord, WorkerUploadAssumption
<1>4. Good(r)
    BY <1>1, <1>2, <1>3
    DEF Good, UploadRecord, PipeAndDigest, BodyKnown, Quiet, Truthful, Sending, Begun
<1>5. /\ r.code = "none" /\ r.step = up[u].step /\ r.body = up[u].body
      /\ r.kind = up[u].kind /\ r.got = up[u].got + 1
      /\ Wrong(up[u]) => Wrong(r)
      /\ r.body # "right" => Wrong(r)
    BY <1>1, <1>2 DEF Good, UploadRecord, Wrong, Sending, Begun
<1>6. IF up[u].sent THEN Keeps(r) ELSE object' = object
    BY DEF Flow
<1>7. r.step = "pipe" => up[u].sent
    BY <1>1, <1>5 DEF Good, Truthful
<1> HIDE DEF r
<1>8. CASE Keeps(r) /\ HasAll(r) /\ ~verifies
  <2>1. object' \in {r.body} \cup ({object} \ {"none"})
      BY <1>8 DEF Keeps
  <2>2. object' # "none" /\ object' \in UploadBodies
      BY <1>1, <1>2, <1>5, <2>1 DEF UploadBodies
  <2> QED  BY <1>2, <1>4, <1>5, <1>8, <2>1, <2>2, OneStep
<1>9. CASE object' = object /\ (r.step = "pipe" => verifies \/ ~HasAll(r))
  <2>1. ~Taken(r)
      BY <1>2, <1>5, <1>9 DEF Taken, HasAll
  <2> QED  BY <1>2, <1>4, <1>5, <1>9, <2>1, OneQuietStep
<1> QED  BY <1>6, <1>7, <1>8, <1>9 DEF Keeps

LEMMA BodyEndsKeeps ==
    ASSUME UploadInv, NEW u \in Uploads, BodyEnds(u)
    PROVE  UploadInv'
<1> DEFINE r == [up[u] EXCEPT !.digest = "closed",
                              !.pipe = IF up[u].got = DeclaredSize THEN "done" ELSE "failed"]
<1>1. Good(up[u]) /\ (Taken(up[u]) => object # "none")
    BY EachIsGood
<1>2. /\ up[u].step \in {"put", "pipe"} /\ object' = object /\ up[u].pipe = "running"
      /\ up[u].code = "none" /\ Becomes(u, r)
    BY <1>1 DEF BodyEnds, Streaming, Good, Truthful
<1>3. Good(r) /\ r.code = "none"
    BY <1>1, <1>2
    DEF Good, UploadRecord, PipeAndDigest, BodyKnown, Quiet, Truthful, Sending, Begun
<1>4. (Taken(r) => Taken(up[u])) /\ (Wrong(up[u]) => Wrong(r) /\ r.body = up[u].body)
    BY <1>1, <1>2 DEF Good, UploadRecord, Taken, Wrong
<1> HIDE DEF r
<1> QED  BY <1>1, <1>2, <1>3, <1>4, OneQuietStep

LEMMA PipeBreaksKeeps ==
    ASSUME UploadInv, NEW u \in Uploads, PipeBreaks(u)
    PROVE  UploadInv'
<1> DEFINE r == [up[u] EXCEPT !.pipe = "failed"]
<1>1. Good(up[u]) /\ (Taken(up[u]) => object # "none")
    BY EachIsGood
<1>2. /\ up[u].step = "pipe" /\ object' = object /\ up[u].pipe = "running"
      /\ up[u].code = "none" /\ Becomes(u, r)
    BY <1>1 DEF PipeBreaks, AtStep, Streaming, Good, Truthful
<1>3. Good(r) /\ r.code = "none"
    BY <1>1, <1>2
    DEF Good, UploadRecord, PipeAndDigest, BodyKnown, Quiet, Truthful, Sending, Begun
<1>4. (Taken(r) => Taken(up[u])) /\ (Wrong(up[u]) => Wrong(r) /\ r.body = up[u].body)
    BY <1>1, <1>2 DEF Good, UploadRecord, Taken, Wrong
<1> HIDE DEF r
<1> QED  BY <1>1, <1>2, <1>3, <1>4, OneQuietStep

LEMMA BufferStreamKeeps ==
    ASSUME UploadInv, NEW u \in Uploads, BufferStream(u)
    PROVE  UploadInv'
<1>1. Good(up[u])
    BY EachIsGood
<1>2. /\ up[u].step = "buffering" /\ object' = object
      /\ up[u].pipe = "none" /\ up[u].digest = "none" /\ up[u].code = "none"
      /\ up[u].body \in UploadBodies /\ ~Wrong(up[u])
    BY <1>1 DEF BufferStream, AtStep, Good, PipeAndDigest, Truthful, Sending, Begun, UploadRecord,
                BodyKnown, Wrong
<1>3. CASE Becomes(u, [up[u] EXCEPT !.step = "put", !.got = Length(up[u].body)])
  <2> DEFINE r == [up[u] EXCEPT !.step = "put", !.got = Length(up[u].body)]
  <2>1. Length(up[u].body) \in 0 .. DeclaredSize + 1
      BY <1>2, LengthOfBody
  <2>2. Good(r) /\ r.code = "none" /\ ~Taken(r)
      BY <1>1, <1>2, <2>1
      DEF Good, UploadRecord, PipeAndDigest, BodyKnown, Quiet, Truthful, Taken, Sending, Begun
  <2>3. Becomes(u, r)
      BY <1>3
  <2> HIDE DEF r
  <2> QED  BY <1>2, <2>2, <2>3, OneQuietStep
<1>4. CASE \E code \in {"REQUEST_TOO_LARGE", "STORAGE_FAILED"} : Becomes(u, Ended(up[u], code))
    BY <1>2, <1>4, EndKeeps DEF BatchErrors, Codes
<1> QED  BY <1>3, <1>4 DEF BufferStream

\* A signal changes nothing else.
LEMMA SignalIsGood ==
    ASSUME NEW r, Good(r), NEW s, s = [r EXCEPT !.gone = TRUE] \/ s = [r EXCEPT !.timedOut = TRUE]
    PROVE  /\ Good(s) /\ s.code = r.code /\ s.body = r.body
           /\ (Taken(s) <=> Taken(r)) /\ (Wrong(s) <=> Wrong(r))
<1>1. /\ s \in UploadRecord
      /\ s.kind = r.kind /\ s.body = r.body /\ s.step = r.step /\ s.sent = r.sent
      /\ s.got = r.got /\ s.pipe = r.pipe /\ s.digest = r.digest
      /\ s.timer = r.timer /\ s.code = r.code
    BY DEF Good, UploadRecord
<1>2. PipeAndDigest(s) /\ Quiet(s)
    BY <1>1 DEF Good, PipeAndDigest, Quiet
<1>3. BodyKnown(s)
    BY <1>1 DEF Good, BodyKnown
<1>4. Truthful(s)
    BY <1>1 DEF Good, Truthful
<1> QED  BY <1>1, <1>2, <1>3, <1>4 DEF Good, Taken, Wrong

LEMMA SignalKeeps ==
    ASSUME UploadInv, NEW u \in Uploads, ClientGoes(u) \/ TimeOut(u)
    PROVE  UploadInv'
<1>1. Good(up[u]) /\ (up[u].code = "ok" \/ Taken(up[u]) => object # "none")
    BY EachIsGood
<1>2. PICK s :
          /\ s = [up[u] EXCEPT !.gone = TRUE] \/ s = [up[u] EXCEPT !.timedOut = TRUE]
          /\ object' = object /\ Becomes(u, s)
    BY DEF ClientGoes, TimeOut
<1>3. ASSUME NEW r, r = up[u]
      PROVE  /\ Good(s) /\ s.code = r.code /\ s.body = r.body
             /\ (Taken(s) <=> Taken(r)) /\ (Wrong(s) <=> Wrong(r))
  <2>1. Good(r) /\ (s = [r EXCEPT !.gone = TRUE] \/ s = [r EXCEPT !.timedOut = TRUE])
      BY <1>1, <1>2, <1>3
  <2> QED  BY <2>1, SignalIsGood
<1> QED  BY <1>1, <1>2, <1>3, OneQuietStep

\* A PUT that did not end well.
LEMMA AbortKeeps ==
    ASSUME UploadInv, NEW u \in Uploads, up[u].step \in {"put", "pipe"},
           NEW code \in {"refused", "STORAGE_FAILED", "LFS_UPLOAD_TIMEOUT",
                         "LFS_UPLOAD_ABORTED", "LFS_UPLOAD_FAILED"},
           Becomes(u, Ended(AbortUploadPipeline(up[u]), code)),
           Keeps(up[u]) \/ object' = object
    PROVE  UploadInv'
<1> DEFINE a == AbortUploadPipeline(up[u])
           e == Ended(a, code)
<1>1. Good(up[u]) /\ object \in UploadBodies \cup {"none"}
    BY EachIsGood
<1>2. /\ Good(a) /\ a.pipe # "running" /\ a.digest # "open"
      /\ a.body = up[u].body /\ a.sent = up[u].sent
    BY <1>1, AbortIsGood
<1> HIDE DEF a
<1>3. Good(e) /\ ~Taken(e) /\ e.code = code /\ e.body = a.body /\ e.step = "ended"
    BY <1>2, EndIsGood DEF BatchErrors, Codes
<1> HIDE DEF e
<1>4. Becomes(u, e)
    BY DEF e, a
<1>5. /\ Wrong(up[u]) => Wrong(e) /\ e.body = up[u].body
      /\ e.body # "right" => Wrong(e)
    BY <1>2, <1>3 DEF Wrong, Sending, Begun
<1>6. up[u].body \in UploadBodies
    BY <1>1 DEF Good, UploadRecord, BodyKnown, Sending
<1>7. CASE object' = object
    BY <1>3, <1>4, <1>5, <1>7, OneQuietStep
<1>8. CASE object' \in {up[u].body} \cup ({object} \ {"none"}) /\ ~verifies
  <2>1. object' # "none" /\ object' \in UploadBodies
      BY <1>1, <1>6, <1>8 DEF UploadBodies
  <2> QED  BY <1>2, <1>3, <1>4, <1>5, <1>8, <2>1, OneStep
<1> QED  BY <1>7, <1>8 DEF Keeps

LEMMA PutBreaks ==
    ASSUME UploadInv, NEW u \in Uploads, PutRejects(u) \/ PutRefused(u)
    PROVE  UploadInv'
<1>1. up[u].step = "put"
    BY DEF PutRejects, PutRefused, AtStep
<1>2. PICK code \in {"refused", "STORAGE_FAILED", "LFS_UPLOAD_TIMEOUT",
                     "LFS_UPLOAD_ABORTED", "LFS_UPLOAD_FAILED"} :
          /\ Becomes(u, Ended(AbortUploadPipeline(up[u]), code))
          /\ Keeps(up[u]) \/ object' = object
    BY DEF PutRejects, PutRefused, ClassifyUploadFailure
<1> QED  BY <1>1, <1>2, AbortKeeps

LEMMA AwaitPipeKeeps ==
    ASSUME UploadInv, NEW u \in Uploads, AwaitPipe(u)
    PROVE  UploadInv'
<1>1. Good(up[u]) /\ (Taken(up[u]) => object # "none")
    BY EachIsGood
<1>2. up[u].step = "pipe" /\ object' = object /\ up[u].code = "none"
    BY <1>1 DEF AwaitPipe, AtStep, Good, Truthful
<1>3. CASE up[u].pipe = "done"
  <2> DEFINE r == [up[u] EXCEPT !.step = "check"]
  <2>1. Becomes(u, r)
      BY <1>3 DEF AwaitPipe
  <2>2. up[u].got = DeclaredSize
      BY <1>1, <1>2, <1>3 DEF Good, PipeAndDigest
  <2>3. Good(r) /\ r.code = "none"
      BY <1>1, <1>2, <1>3
      DEF Good, UploadRecord, PipeAndDigest, BodyKnown, Quiet, Truthful, Sending, Begun
  <2>4. /\ Wrong(up[u]) => Wrong(r) /\ r.body = up[u].body
        /\ Taken(r) => Taken(up[u])
      BY <1>1, <1>2, <2>2, WorkerUploadAssumption
      DEF Good, UploadRecord, Wrong, Taken, Sending, Begun, WorkerUploadAssumption
  <2> HIDE DEF r
  <2> QED  BY <1>1, <1>2, <2>1, <2>3, <2>4, OneQuietStep
<1>4. CASE up[u].pipe # "done"
  <2>1. Becomes(u, Ended(AbortUploadPipeline(up[u]), "LFS_UPLOAD_FAILED"))
      BY <1>4 DEF AwaitPipe
  <2> QED  BY <1>2, <2>1, AbortKeeps
<1> QED  BY <1>3, <1>4

LEMMA PutOkKeeps ==
    ASSUME UploadInv, NEW u \in Uploads, PutOk(u)
    PROVE  UploadInv'
<1> DEFINE record == [up[u] EXCEPT !.sent = TRUE]
           native == [record EXCEPT !.step = "pipe"]
           buffered == [record EXCEPT !.step = "check"]
           legacy == VerifyOrEnd(record)
<1>1. Good(up[u]) /\ object \in UploadBodies \cup {"none"}
    BY EachIsGood
<1>2. /\ up[u].step = "put" /\ up[u].code = "none" /\ up[u].body \in UploadBodies
      /\ Keeps(up[u])
    BY <1>1 DEF PutOk, AtStep, Good, Truthful, UploadRecord, BodyKnown, Sending
<1>3. /\ record \in UploadRecord /\ record.kind = up[u].kind /\ record.body = up[u].body
      /\ record.step = "put" /\ record.pipe = up[u].pipe /\ record.digest = up[u].digest
      /\ record.got = up[u].got /\ record.code = "none" /\ record.sent
    BY <1>1, <1>2 DEF Good, UploadRecord
<1> HIDE DEF record
<1>4. PICK r :
          /\ Becomes(u, r) /\ Good(r)
          /\ r.body = up[u].body /\ r.step \in Begun
          /\ r.code # "ok" \/ r.body = "right"
          /\ r.code = "ok" \/ Taken(r) => HasAll(up[u]) /\ ~verifies
  <2>1. CASE up[u].kind = "native"
    <3>1. Becomes(u, native)
        BY <2>1 DEF PutOk, record
    <3>2. native.code = "none" /\ native.body = up[u].body /\ native.step = "pipe"
        BY <1>3 DEF UploadRecord
    <3>3. Good(native)
        BY <1>1, <1>2, <1>3, <2>1
        DEF Good, UploadRecord, PipeAndDigest, BodyKnown, Quiet, Truthful, Sending, Begun
    <3>4. Taken(native) => HasAll(up[u]) /\ ~verifies
        BY <1>3 DEF UploadRecord, Taken, HasAll
    <3> QED  BY <3>1, <3>2, <3>3, <3>4 DEF Sending, Begun
  <2>2. CASE up[u].kind = "buffered"
    <3>1. Becomes(u, buffered)
        BY <2>2 DEF PutOk, record
    <3>2. buffered.code = "none" /\ buffered.body = up[u].body /\ buffered.step = "check"
        BY <1>3 DEF UploadRecord
    <3>3. Good(buffered)
        BY <1>1, <1>2, <1>3, <2>2
        DEF Good, UploadRecord, PipeAndDigest, BodyKnown, Quiet, Truthful, Sending, Begun
    <3>4. Taken(buffered) => HasAll(up[u]) /\ ~verifies
        BY <2>2 DEF Taken, HasAll
    <3> QED  BY <3>1, <3>2, <3>3, <3>4 DEF Sending, Begun
  <2>3. CASE up[u].kind = "legacy"
    <3>1. Becomes(u, legacy) /\ up[u].body = "right"
        BY <1>1, <2>3 DEF PutOk, record, Good, BodyKnown
    <3>2. up[u].pipe = "none" /\ up[u].digest = "none"
        BY <1>1, <2>3, LegacyStreamsNothing
    <3>3. CASE verifies
      <4> DEFINE v == [record EXCEPT !.step = "verify"]
      <4>1. Becomes(u, v)
          BY <3>1, <3>3 DEF VerifyOrEnd
      <4>2. v.code = "none" /\ v.body = up[u].body /\ v.step = "verify"
          BY <1>3 DEF UploadRecord
      <4>3. Good(v)
          BY <1>1, <1>2, <1>3, <3>1, <3>2, <2>3
          DEF Good, UploadRecord, PipeAndDigest, BodyKnown, Quiet, Truthful, Sending, Begun
      <4>4. ~Taken(v)
          BY <3>3 DEF Taken
      <4> QED  BY <4>1, <4>2, <4>3, <4>4 DEF Sending, Begun
    <3>4. CASE ~verifies
      <4> DEFINE e == Ended(record, "ok")
      <4>1. Becomes(u, e)
          BY <3>1, <3>4 DEF VerifyOrEnd
      <4>2. /\ e \in UploadRecord
            /\ e.step = "ended" /\ e.code = "ok" /\ ~e.timer
            /\ e.kind = "legacy" /\ e.body = "right" /\ e.sent
            /\ e.pipe = "none" /\ e.digest = "none"
          BY <1>3, <2>3, <3>1, <3>2, EndFields DEF Codes
      <4> HIDE DEF e
      <4>3. Good(e) /\ ~Taken(e)
          BY <4>2
          DEF Good, PipeAndDigest, BodyKnown, Quiet, Truthful, Taken, Sending, Begun
      <4>4. HasAll(up[u])
          BY <2>3 DEF HasAll
      <4> QED  BY <3>1, <3>4, <4>1, <4>2, <4>3, <4>4 DEF Begun
    <3> QED  BY <3>3, <3>4
  <2> QED  BY <1>1, <2>1, <2>2, <2>3 DEF Good, UploadRecord
<1>5. /\ r.body # "right" => Wrong(r)
      /\ Wrong(up[u]) => Wrong(r)
    BY <1>4 DEF Wrong
<1>6. CASE HasAll(up[u]) /\ ~verifies
  <2>1. object' \in {r.body} \cup ({object} \ {"none"})
      BY <1>2, <1>4, <1>6 DEF Keeps
  <2>2. object' # "none" /\ object' \in UploadBodies
      BY <1>1, <1>2, <1>4, <2>1 DEF UploadBodies
  <2> QED  BY <1>4, <1>5, <1>6, <2>1, <2>2, OneStep
<1>7. CASE ~(HasAll(up[u]) /\ ~verifies)
  <2>1. object' = object
      BY <1>2, <1>7 DEF Keeps
  <2> QED  BY <1>4, <1>5, <1>7, <2>1, OneQuietStep
<1> QED  BY <1>6, <1>7

LEMMA VerifyBytesKeeps ==
    ASSUME UploadInv, NEW u \in Uploads, VerifyUploadedBytes(u)
    PROVE  UploadInv'
<1>1. Good(up[u]) /\ (Taken(up[u]) => object # "none")
    BY EachIsGood
<1>2. /\ up[u].step = "check" /\ object' = object /\ up[u].code = "none"
      /\ up[u].pipe \in {"none", "done"} /\ up[u].digest # "open"
      /\ up[u].body \in UploadBodies
    BY <1>1 DEF VerifyUploadedBytes, AtStep, Good, PipeAndDigest, Truthful, Sending, Begun,
                UploadRecord, BodyKnown
<1>3. CASE up[u].kind = "native" /\ Becomes(u, Ended(up[u], "LFS_DIGEST_FAILED"))
    BY <1>2, <1>3, EndKeeps DEF Codes
<1>4. CASE Becomes(u, IF up[u].kind = "buffered" /\ up[u].got # DeclaredSize
                      THEN Ended(up[u], "SIZE_MISMATCH")
                      ELSE IF up[u].body # "right" THEN Ended(up[u], "DIGEST_MISMATCH")
                      ELSE VerifyOrEnd(up[u]))
  <2>1. CASE up[u].kind = "buffered" /\ up[u].got # DeclaredSize
    <3>1. up[u].body # "right"
        BY <1>1, <1>2, <2>1, LengthOfBody DEF Good, BodyKnown, Sending
    <3> QED  BY <1>2, <1>4, <2>1, <3>1, EndKeeps DEF Codes
  <2>2. CASE ~(up[u].kind = "buffered" /\ up[u].got # DeclaredSize) /\ up[u].body # "right"
      BY <1>2, <1>4, <2>2, EndKeeps DEF Codes
  <2>3. CASE ~(up[u].kind = "buffered" /\ up[u].got # DeclaredSize) /\ up[u].body = "right"
    <3>1. ~Wrong(up[u])
        BY <2>3 DEF Wrong
    <3>2. CASE verifies
      <4> DEFINE r == [up[u] EXCEPT !.step = "verify"]
      <4>1. Good(r) /\ r.code = "none"
          BY <1>1, <1>2, <2>3
          DEF Good, UploadRecord, PipeAndDigest, BodyKnown, Quiet, Truthful, Sending, Begun
      <4>2. Becomes(u, r) /\ ~Taken(r)
          BY <1>4, <2>3, <3>2 DEF VerifyOrEnd, Taken
      <4> HIDE DEF r
      <4> QED  BY <1>2, <3>1, <4>1, <4>2, OneQuietStep
    <3>3. CASE ~verifies
      <4>1. object # "none"
          BY <1>1, <1>2, <3>3 DEF Taken
      <4>2. Becomes(u, Ended(up[u], "ok"))
          BY <1>4, <2>3, <3>3 DEF VerifyOrEnd
      <4> QED  BY <1>2, <2>3, <3>1, <4>1, <4>2, EndKeeps DEF Codes
    <3> QED  BY <3>2, <3>3
  <2> QED  BY <2>1, <2>2, <2>3
<1> QED  BY <1>3, <1>4 DEF VerifyUploadedBytes

LEMMA VerifyKeeps ==
    ASSUME UploadInv, NEW u \in Uploads, VerifyLfsUpload(u) \/ VerifyFails(u)
    PROVE  UploadInv'
<1>1. Good(up[u]) /\ object \in UploadBodies \cup {"none"}
    BY EachIsGood
<1>2. /\ up[u].step = "verify" /\ up[u].pipe \in {"none", "done"} /\ up[u].digest # "open"
      /\ up[u].body = "right"
    BY <1>1 DEF VerifyLfsUpload, VerifyFails, AtStep, Good, PipeAndDigest, Sending, Begun, BodyKnown
<1>3. PICK code \in {"ok", "refused", "STORAGE_FAILED"} :
          /\ Becomes(u, Ended(up[u], code))
          /\ object' \in {object, "right"}
          /\ code = "ok" \/ object # "none" => object' # "none"
    BY <1>2 DEF VerifyLfsUpload, VerifyFails
<1> DEFINE e == Ended(up[u], code)
<1>4. Good(e) /\ ~Taken(e) /\ e.code = code /\ e.body = up[u].body /\ e.step = "ended"
    BY <1>1, <1>2, EndIsGood DEF BatchErrors, Codes
<1>5. Becomes(u, e)
    BY <1>3
<1> HIDE DEF e
<1>6. ~Wrong(up[u]) /\ object' \in UploadBodies \cup {"none"}
    BY <1>1, <1>2, <1>3 DEF Wrong, UploadBodies
<1> QED  BY <1>3, <1>4, <1>5, <1>6, OneStep

-----------------------------------------------------------------------------
LEMMA InitGood == WorkerUploadInit => UploadInv
<1> SUFFICES ASSUME WorkerUploadInit PROVE UploadInv
    OBVIOUS
<1>1. 0 \in 0 .. DeclaredSize + 1
    BY WorkerUploadAssumption DEF WorkerUploadAssumption
<1>2. WorkerUploadTypeOK
    BY <1>1 DEF WorkerUploadInit, WorkerUploadTypeOK, UploadBodies, Codes, BatchErrors
<1> QED  BY <1>2 DEF WorkerUploadInit, UploadInv, PipeAndDigest, BodyKnown, Quiet, Truthful,
                     Taken, Sending, Begun

LEMMA NextGood == UploadInv /\ [WorkerUploadNext]_uploadVars => UploadInv'
<1> SUFFICES ASSUME UploadInv, [WorkerUploadNext]_uploadVars PROVE UploadInv'
    OBVIOUS
<1>1. CASE UNCHANGED uploadVars
    BY <1>1 DEF UploadInv, WorkerUploadTypeOK, PipeAndDigest, BodyKnown, Quiet, Truthful,
                uploadVars, Length, Wrong, Taken
<1>2. CASE WorkerUploadNext
  <2>1. PICK u \in Uploads :
            \/ Refuse(u) \/ Ask(u) \/ ReadRawBody(u) \/ ServiceAnswers(u)
            \/ Flow(u) \/ BodyEnds(u) \/ PipeBreaks(u) \/ BufferStream(u)
            \/ ClientGoes(u) \/ TimeOut(u)
            \/ PutRejects(u) \/ PutRefused(u) \/ PutOk(u)
      BY <1>2 DEF WorkerUploadNext
  <2>2. CASE ServiceAnswers(u)
      BY <2>2, PreuploadKeeps, BatchKeeps, AwaitPipeKeeps, VerifyBytesKeeps, VerifyKeeps
      DEF ServiceAnswers
  <2> QED  BY <2>1, <2>2, RefuseKeeps, AskKeeps, ReadRawBodyKeeps, FlowKeeps, BodyEndsKeeps,
              PipeBreaksKeeps, BufferStreamKeeps, SignalKeeps, PutBreaks, PutOkKeeps
<1> QED  BY <1>1, <1>2

\* The types of the records of uploads, and of the object.
THEOREM UploadTypesKept == WorkerUploadSpec => []WorkerUploadTypeOK
<1>1. UploadInv => WorkerUploadTypeOK
    BY DEF UploadInv
<1> QED  BY InitGood, NextGood, <1>1, PTL DEF WorkerUploadSpec

\* A receipt for bytes that were sent is only given once all of them were
\* taken and checked, a receipt for bytes that were there is for the right ones
\* unless the service asks for no verification, an upload that has ended leaves
\* nothing running, and no verdict on the bytes is wrong: for any number of
\* uploads of the object that stall, break off, are aborted, send another body
\* or are answered before their end.
THEOREM UploadsAreJust == WorkerUploadSpec => []WorkerUploadIsJust
<1>1. UploadInv => WorkerUploadIsJust
    BY DEF UploadInv, WorkerUploadIsJust, ReceiptIsTrue, NothingRunsOn, VerdictIsTrue,
           Quiet, Truthful, Wrong, AtStep
<1> QED  BY InitGood, NextGood, <1>1, PTL DEF WorkerUploadSpec

-----------------------------------------------------------------------------
(***************************************************************************)
(* The tokens: any keys, tokens, times to live and timeouts.               *)
(***************************************************************************)

(***************************************************************************)
(* The inductive invariant: every key set that is kept anywhere was what   *)
(* the team published at some time not long ago.                           *)
(***************************************************************************)

\* A key set as old as time t: of the keys published since, some may lack,
\* and of those withdrawn since, some may be there.
AsOf(keys, t, pub, from, to) ==
    \A k \in Kids :
        /\ k \in keys => k \in pub \/ to[k] >= t
        /\ k \in pub /\ k \notin keys => from[k] >= t

Current(keys, t) == AsOf(keys, t, published, since, until)

\* The age of what a suspended request remembers: it was usable when the
\* request began to wait, which was after the fetch it waits for had begun.
Remembered == refresh.at - JWKS_STALE - JWKS_FETCH_TIMEOUT

CacheIsCurrent ==
    jwks # Nothing =>
        /\ jwks.fetchedAt <= clock
        /\ Current(jwks.keys, jwks.fetchedAt - JWKS_FETCH_TIMEOUT)

FetchIsCurrent ==
    refresh # Nothing =>
        /\ refresh.at <= clock
        /\ clock <= refresh.at + JWKS_FETCH_TIMEOUT
        /\ refresh.answer # Nothing => Current(refresh.answer, refresh.at)

WaitIsCurrent ==
    \A w \in verifying :
        /\ refresh # Nothing
        /\ HeaderError(w.token) = "ok"
        /\ w.cached # Nothing => Current(w.cached, Remembered)

\* What AccessIsJust says of one verdict.
JustAt(v, now, pub, from, to) ==
    /\ v.token \in Tokens
    /\ v.code \in {"ok", "ACCESS_SIGNATURE_INVALID", "ACCESS_TOKEN_EXPIRED"} =>
           now - (IF v.token.kid \in pub THEN now ELSE to[v.token.kid]) <= MaxTrust
    /\ v.code = "ACCESS_KEY_UNKNOWN" /\ v.token.wrong # "kid" =>
           v.token.kid \notin pub \/ now - from[v.token.kid] <= MaxTrust
    /\ v.code = "ok" =>
           /\ v.token.signer = v.token.kid /\ v.token.wrong = "none"
           /\ v.token.exp > now - CLOCK_SKEW /\ v.token.nbf <= now + CLOCK_SKEW

Just(v) == JustAt(v, clock, published, since, until)

AccessInv ==
    /\ AccessTypeOK
    /\ CacheIsCurrent /\ FetchIsCurrent /\ WaitIsCurrent
    /\ \A v \in verdicts : Just(v)

-----------------------------------------------------------------------------
LEMMA TimesAreNumbers ==
    /\ {JWKS_TTL, JWKS_STALE, JWKS_FETCH_TIMEOUT, CLOCK_SKEW} \subseteq Nat
    /\ MaxTrust = JWKS_STALE + 2 * JWKS_FETCH_TIMEOUT
    /\ LongAgo \in Int
  BY AccessAssumption DEF AccessAssumption, MaxTrust, LongAgo

\* A verdict by a set that is old enough to trust is just.
LEMMA JudgeIsJust ==
    ASSUME AccessTypeOK, NEW token \in Tokens, HeaderError(token) = "ok",
           NEW keys, NEW t \in Int, Current(keys, t), clock - t <= MaxTrust
    PROVE  Just(Judge(token, keys))
<1> DEFINE v == Judge(token, keys)
<1> SUFFICES Just(v)
    OBVIOUS
<1>1. /\ token \in Token /\ token.kid \in Kids /\ token.exp \in Int /\ token.nbf \in Int
      /\ token.wrong \in Wrongs /\ clock \in Nat /\ MaxTrust \in Nat /\ CLOCK_SKEW \in Nat
      /\ since[token.kid] \in Int /\ until[token.kid] \in Int
    BY AccessAssumption, TimesAreNumbers DEF AccessAssumption, Token, AccessTypeOK
<1>2. v.token = token
    BY DEF Judge
<1>3. token.kid \in keys => token.kid \in published \/ until[token.kid] >= t
    BY <1>1 DEF Current, AsOf
<1>4. token.kid \in published /\ token.kid \notin keys => since[token.kid] >= t
    BY <1>1 DEF Current, AsOf
<1>8. token.kid \in keys =>
          clock - (IF token.kid \in published THEN clock ELSE until[token.kid]) <= MaxTrust
  <2>1. CASE token.kid \in published
      BY <1>1, <2>1
  <2>2. CASE token.kid \notin published
      BY <1>1, <1>3, <2>2
  <2> QED  BY <2>1, <2>2
<1>9. token.kid \notin keys =>
          token.kid \notin published \/ clock - since[token.kid] <= MaxTrust
    BY <1>1, <1>4
<1>5. CASE token.kid \notin keys
  <2>1. v.code = "ACCESS_KEY_UNKNOWN"
      BY <1>5 DEF Judge
  <2> HIDE DEF v
  <2> QED  BY <1>2, <1>9, <1>5, <2>1 DEF Just, JustAt
<1>6. CASE token.kid \in keys /\ token.signer # token.kid
  <2>1. v.code = "ACCESS_SIGNATURE_INVALID"
      BY <1>6 DEF Judge
  <2> HIDE DEF v
  <2> QED  BY <1>2, <1>8, <1>6, <2>1 DEF Just, JustAt
<1>7. CASE token.kid \in keys /\ token.signer = token.kid
  <2>1. v.code = ClaimsError(token, clock)
      BY <1>7 DEF Judge
  <2>2. v.code # "ACCESS_KEY_UNKNOWN"
      BY <2>1 DEF ClaimsError
  <2>3. v.code = "ok" =>
            /\ token.wrong \notin {"iss", "aud", "type", "email"}
            /\ ~(token.exp <= clock - CLOCK_SKEW) /\ ~(token.nbf > clock + CLOCK_SKEW)
      BY <2>1 DEF ClaimsError
  <2>4. token.wrong \notin {"missing", "malformed", "alg", "kid"}
      BY DEF HeaderError
  <2>5. v.code = "ok" => token.wrong = "none"
      BY <2>3, <2>4, <1>1 DEF Wrongs
  <2>6. v.code = "ok" =>
            token.exp > clock - CLOCK_SKEW /\ token.nbf <= clock + CLOCK_SKEW
      BY <2>3, <1>1
  <2> HIDE DEF v
  <2> QED  BY <1>2, <1>8, <1>7, <2>2, <2>5, <2>6 DEF Just, JustAt
<1> QED  BY <1>5, <1>6, <1>7

\* A verdict that only says what is wrong with the configuration, with the
\* form of a token, or with the fetch.
LEMMA OtherVerdictIsJust ==
    ASSUME NEW token \in Tokens, NEW code, NEW now, NEW pub, NEW from, NEW to,
           code \notin {"ok", "ACCESS_SIGNATURE_INVALID", "ACCESS_TOKEN_EXPIRED"},
           code = "ACCESS_KEY_UNKNOWN" => token.wrong = "kid"
    PROVE  JustAt([token |-> token, code |-> code], now, pub, from, to)
  BY DEF JustAt

\* A key set stays as old as it is, whatever the team does and time passes.
LEMMA CurrentStays ==
    ASSUME AccessTypeOK, NEW keys, NEW t \in Int, t <= clock, Current(keys, t),
           \/ UNCHANGED <<published, since, until>>
           \/ \E k \in Kids : PublishKey(k) \/ WithdrawKey(k)
    PROVE  AsOf(keys, t, published', since', until')
<1>1. CASE UNCHANGED <<published, since, until>>
    BY <1>1 DEF Current
<1>2. ASSUME NEW k \in Kids, PublishKey(k)
      PROVE  AsOf(keys, t, published', since', until')
    BY <1>2 DEF PublishKey, Current, AsOf, AccessTypeOK
<1>3. ASSUME NEW k \in Kids, WithdrawKey(k)
      PROVE  AsOf(keys, t, published', since', until')
    BY <1>3 DEF WithdrawKey, Current, AsOf, AccessTypeOK
<1> QED  BY <1>1, <1>2, <1>3

-----------------------------------------------------------------------------
(***************************************************************************)
(* One lemma for each kind of step.                                        *)
(***************************************************************************)
Kept == <<env, clock, published, since, until>>

\* A request that is decided at once.
LEMMA DecidedKeeps ==
    ASSUME AccessInv, UNCHANGED <<Kept, jwks, refresh, verifying>>,
           \A v \in verdicts' : Just(v)
    PROVE  AccessInv'
<1>1. AccessTypeOK'
    BY DEF AccessInv, AccessTypeOK, Kept, Just, JustAt
<1>2. CacheIsCurrent' /\ FetchIsCurrent' /\ WaitIsCurrent'
    BY DEF AccessInv, CacheIsCurrent, FetchIsCurrent, WaitIsCurrent, Kept, Current, Remembered
<1>3. \A v \in verdicts' : Just(v)'
    BY DEF Just, Kept
<1> QED  BY <1>1, <1>2, <1>3 DEF AccessInv

LEMMA RefusalKeeps ==
    ASSUME AccessInv, NEW token \in Tokens, NoConfiguration(token) \/ NoToken(token)
    PROVE  AccessInv'
<1>1. ConfigError(env) \notin {"ACCESS_SIGNATURE_INVALID", "ACCESS_TOKEN_EXPIRED",
                              "ACCESS_KEY_UNKNOWN"}
    BY DEF ConfigError
<1>2. /\ HeaderError(token) \notin {"ACCESS_SIGNATURE_INVALID", "ACCESS_TOKEN_EXPIRED"}
      /\ HeaderError(token) = "ACCESS_KEY_UNKNOWN" => token.wrong = "kid"
    BY DEF HeaderError
<1>3. PICK code :
          /\ verdicts' = {[token |-> token, code |-> code]}
          /\ code \notin {"ok", "ACCESS_SIGNATURE_INVALID", "ACCESS_TOKEN_EXPIRED"}
          /\ code = "ACCESS_KEY_UNKNOWN" => token.wrong = "kid"
    BY <1>1, <1>2 DEF NoConfiguration, NoToken
<1>4. \A v \in verdicts' : Just(v)
    BY <1>3, OtherVerdictIsJust DEF Just
<1>5. UNCHANGED <<Kept, jwks, refresh, verifying>>
    BY DEF NoConfiguration, NoToken, Kept
<1> QED  BY <1>4, <1>5, DecidedKeeps

\* A set that is usable is not older than the stale window and a fetch.
LEMMA UsableIsTrusted ==
    ASSUME AccessInv, Usable
    PROVE  /\ jwks \in KeySet
           /\ jwks.fetchedAt - JWKS_FETCH_TIMEOUT \in Int
           /\ Current(jwks.keys, jwks.fetchedAt - JWKS_FETCH_TIMEOUT)
           /\ clock - (jwks.fetchedAt - JWKS_FETCH_TIMEOUT) <= MaxTrust
           /\ clock < jwks.fetchedAt + JWKS_STALE
<1>1. jwks \in KeySet /\ jwks.fetchedAt \in Int /\ clock \in Nat
      /\ clock < jwks.fetchedAt + JWKS_STALE
    BY DEF AccessInv, AccessTypeOK, Usable, KeySet
<1>2. jwks # Nothing
    BY DEF Usable
<1> QED  BY <1>1, <1>2, TimesAreNumbers DEF AccessInv, CacheIsCurrent

LEMMA UseCachedKeeps ==
    ASSUME AccessInv, NEW token \in Tokens, UseCached(token)
    PROVE  AccessInv'
<1>1. HeaderError(token) = "ok" /\ Usable /\ AccessTypeOK
    BY DEF UseCached, Readable, AccessInv
<1>2. Just(Judge(token, jwks.keys))
    BY <1>1, UsableIsTrusted, JudgeIsJust
<1>3. UNCHANGED <<Kept, jwks, refresh, verifying>> /\ verdicts' = {Judge(token, jwks.keys)}
    BY DEF UseCached, Kept
<1> QED  BY <1>2, <1>3, DecidedKeeps

\* A request begins to wait, and begins a fetch unless one is under way.
LEMMA AwaitKeeps ==
    ASSUME AccessInv, NEW token \in Tokens, HeaderError(token) = "ok",
           NEW cached \in (SUBSET Kids) \cup {Nothing},
           cached # Nothing => Usable /\ cached = jwks.keys,
           NEW forced \in BOOLEAN,
           AwaitKeys(token, cached), RefreshKeys(forced),
           UNCHANGED <<Kept, jwks>>, verdicts' = {}
    PROVE  AccessInv'
<1> DEFINE fetch == [forced |-> forced, at |-> clock, answer |-> Nothing]
           wait  == [token |-> token, cached |-> cached]
<1>1. /\ clock \in Nat /\ refresh \in Fetch \cup {Nothing} /\ verifying \subseteq Wait
      /\ FetchIsCurrent /\ WaitIsCurrent
    BY DEF AccessInv, AccessTypeOK
<1>2. fetch \in Fetch /\ fetch.at = clock /\ fetch.answer = Nothing
    BY <1>1 DEF Fetch
<1>3. wait \in Wait /\ wait.token = token /\ wait.cached = cached
    BY DEF Wait
<1>4. refresh' = IF refresh # Nothing THEN refresh ELSE fetch
    BY DEF RefreshKeys
<1>5. verifying' = verifying \cup {wait}
    BY DEF AwaitKeys
<1> HIDE DEF fetch, wait
<1>6. /\ refresh' \in Fetch /\ refresh' # Nothing /\ refresh'.at <= clock
      /\ refresh'.at \in Int /\ clock <= refresh'.at + JWKS_FETCH_TIMEOUT
      /\ refresh'.answer # Nothing => refresh # Nothing /\ refresh' = refresh
    BY <1>1, <1>2, <1>4, TimesAreNumbers, NothingAssumption DEF FetchIsCurrent, Fetch
<1>7. AccessTypeOK'
    BY <1>1, <1>3, <1>5, <1>6 DEF AccessInv, AccessTypeOK, Kept
<1>8. CacheIsCurrent'
    BY DEF AccessInv, CacheIsCurrent, Current, Kept
<1>9. FetchIsCurrent'
    BY <1>1, <1>6 DEF FetchIsCurrent, Current, Kept
<1>10. cached # Nothing =>
           AsOf(cached, Remembered', published, since, until)
  <2> SUFFICES ASSUME cached # Nothing
               PROVE  AsOf(cached, Remembered', published, since, until)
      OBVIOUS
  <2>1. /\ jwks.fetchedAt \in Int
        /\ AsOf(cached, jwks.fetchedAt - JWKS_FETCH_TIMEOUT, published, since, until)
        /\ clock < jwks.fetchedAt + JWKS_STALE
      BY UsableIsTrusted DEF Current, KeySet
  <2>2. Remembered' \in Int /\ Remembered' <= jwks.fetchedAt - JWKS_FETCH_TIMEOUT
      BY <1>1, <1>6, <2>1, TimesAreNumbers DEF Remembered
  <2>3. /\ jwks.fetchedAt - JWKS_FETCH_TIMEOUT \in Int
        /\ \A k \in Kids : since[k] \in Int /\ until[k] \in Int
      BY <2>1, TimesAreNumbers DEF AccessInv, AccessTypeOK
  <2> QED  BY <2>1, <2>2, <2>3 DEF AsOf
<1>11. \A w \in verifying : refresh' = refresh
    BY <1>1, <1>4 DEF WaitIsCurrent
<1>12. WaitIsCurrent'
    BY <1>1, <1>3, <1>5, <1>6, <1>10, <1>11 DEF WaitIsCurrent, Current, Kept, Remembered
<1> QED  BY <1>7, <1>8, <1>9, <1>12 DEF AccessInv

LEMMA WaitingKeeps ==
    ASSUME AccessInv, NEW token \in Tokens, NeedKeys(token) \/ TryRefresh(token)
    PROVE  AccessInv'
<1>1. /\ HeaderError(token) = "ok" /\ UNCHANGED <<Kept, jwks>> /\ verdicts' = {}
    BY DEF NeedKeys, TryRefresh, Readable, Kept
<1>2. CASE NeedKeys(token)
    BY <1>1, <1>2, AwaitKeeps DEF NeedKeys
<1>3. CASE TryRefresh(token)
  <2>1. jwks.keys \in SUBSET Kids /\ Usable
      BY <1>3, UsableIsTrusted DEF TryRefresh, KeySet
  <2> QED  BY <1>1, <1>3, <2>1, AwaitKeeps DEF TryRefresh
<1> QED  BY <1>2, <1>3

LEMMA RespondKeeps ==
    ASSUME AccessInv, Respond
    PROVE  AccessInv'
<1>1. /\ refresh \in Fetch /\ published \in SUBSET Kids /\ clock \in Nat
      /\ refresh.at <= clock /\ clock <= refresh.at + JWKS_FETCH_TIMEOUT
    BY DEF Respond, AccessInv, AccessTypeOK, FetchIsCurrent
<1>2. /\ refresh' \in Fetch /\ refresh'.at = refresh.at /\ refresh'.answer = published
      /\ refresh' # Nothing /\ refresh # Nothing
    BY <1>1, NothingAssumption DEF Respond, Fetch
<1>3. AccessTypeOK'
    BY <1>2 DEF Respond, AccessInv, AccessTypeOK
<1>4. CacheIsCurrent'
    BY DEF Respond, AccessInv, CacheIsCurrent, Current
<1>5. FetchIsCurrent'
    BY <1>1, <1>2 DEF Respond, FetchIsCurrent, Current, AsOf
<1>6. WaitIsCurrent'
    BY <1>2 DEF Respond, AccessInv, WaitIsCurrent, Current, Remembered
<1> QED  BY <1>3, <1>4, <1>5, <1>6 DEF Respond, AccessInv

LEMMA LoadKeysKeeps ==
    ASSUME AccessInv, LoadKeys
    PROVE  AccessInv'
<1> DEFINE set == [keys |-> refresh.answer, fetchedAt |-> clock,
                   lastForcedAt |-> IF refresh.forced THEN clock ELSE LongAgo]
<1>0. refresh \in Fetch /\ clock \in Nat /\ AccessTypeOK /\ refresh.answer # Nothing
    BY DEF LoadKeys, AccessInv, AccessTypeOK
<1>1. /\ refresh \in Fetch /\ clock \in Nat /\ refresh.at \in Int
      /\ refresh.at <= clock /\ clock <= refresh.at + JWKS_FETCH_TIMEOUT
      /\ refresh.answer \in SUBSET Kids /\ Current(refresh.answer, refresh.at)
      /\ AccessTypeOK
  <2>1. refresh.at \in Int /\ refresh.answer \in SUBSET Kids
      BY <1>0 DEF Fetch
  <2>2. refresh.at <= clock /\ clock <= refresh.at + JWKS_FETCH_TIMEOUT
        /\ Current(refresh.answer, refresh.at)
      BY <1>0 DEF LoadKeys, AccessInv, FetchIsCurrent
  <2> QED  BY <1>0, <2>1, <2>2
<1>2. set \in KeySet /\ set.keys = refresh.answer /\ set.fetchedAt = clock
    BY <1>1, TimesAreNumbers DEF KeySet
<1>3. jwks' = set /\ UNCHANGED Kept /\ refresh' = Nothing /\ verifying' = {}
      /\ verdicts' = {Judge(wait.token, refresh.answer) : wait \in verifying}
    BY DEF LoadKeys, Kept
<1> HIDE DEF set
<1>4. \A w \in verifying : Just(Judge(w.token, refresh.answer))
  <2> TAKE w \in verifying
  <2>1. w.token \in Tokens /\ HeaderError(w.token) = "ok"
      BY DEF AccessInv, AccessTypeOK, WaitIsCurrent, Wait
  <2>2. clock - refresh.at <= MaxTrust
      BY <1>1, TimesAreNumbers
  <2> QED  BY <1>1, <2>1, <2>2, JudgeIsJust
<1>5. \A v \in verdicts' : Just(v)' /\ v.token \in Tokens
    BY <1>3, <1>4 DEF Just, Kept, JustAt
<1>6. AccessTypeOK'
    BY <1>1, <1>2, <1>3, <1>5 DEF AccessTypeOK, Kept
<1>7. CacheIsCurrent'
  <2>1. clock - JWKS_FETCH_TIMEOUT \in Int /\ clock - JWKS_FETCH_TIMEOUT <= refresh.at
      BY <1>1, TimesAreNumbers
  <2>2. \A k \in Kids : since[k] \in Int /\ until[k] \in Int
      BY <1>1 DEF AccessTypeOK
  <2>3. AsOf(refresh.answer, clock - JWKS_FETCH_TIMEOUT, published, since, until)
      BY <1>1, <2>1, <2>2 DEF Current, AsOf
  <2> QED  BY <1>1, <1>2, <1>3, <2>3 DEF CacheIsCurrent, Current, Kept
<1>8. FetchIsCurrent' /\ WaitIsCurrent'
    BY <1>3 DEF FetchIsCurrent, WaitIsCurrent
<1> QED  BY <1>5, <1>6, <1>7, <1>8 DEF AccessInv

LEMMA KeysFailKeeps ==
    ASSUME AccessInv, NEW code \in LoadErrors, KeysFail(code)
    PROVE  AccessInv'
<1>1. code \in {"ACCESS_KEYS_UNAVAILABLE", "ACCESS_KEYS_INVALID", "STORAGE_FAILED"}
    BY DEF LoadErrors, LoadError
<1>2. /\ refresh \in Fetch /\ clock \in Nat /\ refresh.at \in Int
      /\ clock <= refresh.at + JWKS_FETCH_TIMEOUT
      /\ AccessTypeOK /\ jwks \in KeySet \cup {Nothing}
    BY DEF KeysFail, AccessInv, AccessTypeOK, FetchIsCurrent, Fetch
<1>3. UNCHANGED Kept /\ refresh' = Nothing /\ verifying' = {} /\ jwks' = StampForced
      /\ verdicts' = {AfterFailure(wait, code) : wait \in verifying}
    BY DEF KeysFail, Kept
<1>4. \A w \in verifying : Just(AfterFailure(w, code))
  <2> TAKE w \in verifying
  <2>1. w.token \in Tokens /\ HeaderError(w.token) = "ok"
      BY DEF AccessInv, AccessTypeOK, WaitIsCurrent, Wait
  <2>2. CASE w.cached = Nothing \/ code = "STORAGE_FAILED"
      BY <1>1, <2>1, <2>2, OtherVerdictIsJust DEF AfterFailure, Just
  <2>3. CASE ~(w.cached = Nothing \/ code = "STORAGE_FAILED")
    <3>1. Current(w.cached, Remembered)
        BY <2>3 DEF AccessInv, WaitIsCurrent
    <3>2. Remembered \in Int /\ clock - Remembered <= MaxTrust
        BY <1>2, TimesAreNumbers DEF Remembered
    <3>3. Just(Judge(w.token, w.cached))
        BY <1>2, <2>1, <3>1, <3>2, JudgeIsJust
    <3> QED  BY <2>3, <3>3 DEF AfterFailure
  <2> QED  BY <2>2, <2>3
<1>5. \A v \in verdicts' : Just(v)' /\ v.token \in Tokens
    BY <1>3, <1>4 DEF Just, Kept, JustAt
<1>6. /\ jwks' \in KeySet \cup {Nothing}
      /\ jwks' # Nothing => jwks # Nothing /\ jwks'.keys = jwks.keys
                                /\ jwks'.fetchedAt = jwks.fetchedAt
  <2>1. CASE refresh.forced /\ jwks # Nothing
    <3>1. jwks \in KeySet /\ jwks' = [jwks EXCEPT !.lastForcedAt = clock]
        BY <1>2, <1>3, <2>1 DEF StampForced
    <3> QED  BY <1>2, <2>1, <3>1 DEF KeySet
  <2>2. CASE ~(refresh.forced /\ jwks # Nothing)
      BY <1>2, <1>3, <2>2 DEF StampForced
  <2> QED  BY <2>1, <2>2
<1>7. AccessTypeOK'
    BY <1>2, <1>3, <1>5, <1>6 DEF AccessTypeOK, Kept
<1>8. CacheIsCurrent'
    BY <1>3, <1>6 DEF AccessInv, CacheIsCurrent, Current, Kept
<1>9. FetchIsCurrent' /\ WaitIsCurrent'
    BY <1>3 DEF FetchIsCurrent, WaitIsCurrent
<1> QED  BY <1>5, <1>7, <1>8, <1>9 DEF AccessInv

\* The team rotates its keys, or time passes.
LEMMA OutsideKeeps ==
    ASSUME AccessInv,
           \/ Tick
           \/ \E k \in Kids : PublishKey(k) \/ WithdrawKey(k)
    PROVE  AccessInv'
<1>1. /\ UNCHANGED <<env, jwks, refresh, verifying>> /\ verdicts' = {}
      /\ clock' >= clock
      /\ \/ UNCHANGED <<published, since, until>>
         \/ \E k \in Kids : PublishKey(k) \/ WithdrawKey(k)
    BY DEF AccessInv, AccessTypeOK, Tick, PublishKey, WithdrawKey
<1>2. AccessTypeOK /\ clock \in Nat /\ refresh \in Fetch \cup {Nothing}
      /\ jwks \in KeySet \cup {Nothing}
    BY DEF AccessInv, AccessTypeOK
<1>3. AccessTypeOK'
    BY DEF AccessInv, AccessTypeOK, Tick, PublishKey, WithdrawKey
<1>4. CacheIsCurrent'
  <2> SUFFICES ASSUME jwks # Nothing
               PROVE  /\ jwks.fetchedAt <= clock'
                      /\ AsOf(jwks.keys, jwks.fetchedAt - JWKS_FETCH_TIMEOUT,
                              published', since', until')
      BY <1>1 DEF CacheIsCurrent, Current
  <2>1. jwks.fetchedAt \in Int /\ jwks.fetchedAt <= clock
        /\ Current(jwks.keys, jwks.fetchedAt - JWKS_FETCH_TIMEOUT)
      BY <1>2 DEF AccessInv, CacheIsCurrent, KeySet
  <2>2. /\ jwks.fetchedAt - JWKS_FETCH_TIMEOUT \in Int
        /\ jwks.fetchedAt - JWKS_FETCH_TIMEOUT <= clock
      BY <1>2, <2>1, TimesAreNumbers
  <2>3. clock' \in Nat
      BY <1>3 DEF AccessTypeOK
  <2> QED  BY <1>1, <1>2, <2>1, <2>2, <2>3, CurrentStays
<1>5. FetchIsCurrent'
  <2> SUFFICES ASSUME refresh # Nothing
               PROVE  /\ refresh.at <= clock' /\ clock' <= refresh.at + JWKS_FETCH_TIMEOUT
                      /\ refresh.answer # Nothing =>
                             AsOf(refresh.answer, refresh.at, published', since', until')
      BY <1>1 DEF FetchIsCurrent, Current
  <2>1. /\ refresh.at \in Int /\ refresh.at <= clock
        /\ clock <= refresh.at + JWKS_FETCH_TIMEOUT
        /\ refresh.answer # Nothing => Current(refresh.answer, refresh.at)
      BY <1>2 DEF AccessInv, FetchIsCurrent, Fetch
  <2>2. refresh.answer # Nothing =>
            AsOf(refresh.answer, refresh.at, published', since', until')
      BY <1>1, <1>2, <2>1, CurrentStays
  <2>3. refresh.at <= clock' /\ clock' <= refresh.at + JWKS_FETCH_TIMEOUT
      BY <1>2, <2>1, TimesAreNumbers DEF Tick, PublishKey, WithdrawKey
  <2> QED  BY <2>2, <2>3
<1>6. WaitIsCurrent'
  <2> SUFFICES ASSUME NEW w \in verifying
               PROVE  /\ refresh # Nothing /\ HeaderError(w.token) = "ok"
                      /\ w.cached # Nothing =>
                             AsOf(w.cached, Remembered, published', since', until')
      BY <1>1 DEF WaitIsCurrent, Current, Remembered
  <2>1. /\ refresh # Nothing /\ HeaderError(w.token) = "ok"
        /\ w.cached # Nothing => Current(w.cached, Remembered)
      BY DEF AccessInv, WaitIsCurrent
  <2>2. refresh.at \in Int /\ refresh.at <= clock
      BY <1>2, <2>1 DEF AccessInv, FetchIsCurrent, Fetch
  <2>3. Remembered \in Int /\ Remembered <= clock
      BY <1>2, <2>2, TimesAreNumbers DEF Remembered
  <2> QED  BY <1>1, <1>2, <2>1, <2>3, CurrentStays
<1> QED  BY <1>1, <1>3, <1>4, <1>5, <1>6 DEF AccessInv

-----------------------------------------------------------------------------
LEMMA AccessInitHolds == AccessInit => AccessInv
<1> SUFFICES ASSUME AccessInit PROVE AccessInv
    OBVIOUS
<1>1. AccessTypeOK
  <2>1. First \in Kids
      BY AccessAssumption DEF AccessAssumption, First
  <2> QED  BY <2>1, TimesAreNumbers DEF AccessInit, AccessTypeOK
<1> QED  BY <1>1 DEF AccessInit, AccessInv, CacheIsCurrent, FetchIsCurrent, WaitIsCurrent

LEMMA AccessNextKeeps == AccessInv /\ [AccessNext]_accessVars => AccessInv'
<1> SUFFICES ASSUME AccessInv, [AccessNext]_accessVars PROVE AccessInv'
    OBVIOUS
<1>1. CASE UNCHANGED accessVars
    BY <1>1, DecidedKeeps DEF accessVars, Kept, AccessInv
<1>2. CASE AccessNext
  <2>1. ASSUME NEW token \in Tokens,
               \/ NoConfiguration(token) \/ NoToken(token) \/ UseCached(token)
               \/ NeedKeys(token) \/ TryRefresh(token)
        PROVE  AccessInv'
      BY <2>1, RefusalKeeps, UseCachedKeeps, WaitingKeeps
  <2>2. CASE Respond
      BY <2>2, RespondKeeps
  <2>3. CASE RefreshEnds
      BY <2>3, LoadKeysKeeps, KeysFailKeeps DEF RefreshEnds
  <2>4. CASE Tick \/ \E k \in Kids : PublishKey(k) \/ WithdrawKey(k)
      BY <2>4, OutsideKeeps
  <2> QED  BY <1>2, <2>1, <2>2, <2>3, <2>4 DEF AccessNext
<1> QED  BY <1>1, <1>2

\* The types of the key cache, the fetch, and the requests that wait.
THEOREM AccessTypesKept == AccessSpec => []AccessTypeOK
<1>1. AccessInv => AccessTypeOK
    BY DEF AccessInv
<1> QED  BY AccessInitHolds, AccessNextKeeps, <1>1, PTL DEF AccessSpec

\* Every verdict of the Access check is just: no token is accepted on a key
\* withdrawn too long ago, none refused for a key published long enough, and
\* none accepted outside its time; for any rotation, failure and sharing of
\* refreshes.
THEOREM AccessStaysJust == AccessSpec => []AccessIsJust
<1>1. AccessInv => AccessIsJust
    BY DEF AccessInv, Just, JustAt, AccessIsJust, TrustIsBounded, StableKeyIsKnown,
           AcceptedIsInForce, LastPublished
<1> QED  BY AccessInitHolds, AccessNextKeeps, <1>1, PTL DEF AccessSpec

-----------------------------------------------------------------------------
(***************************************************************************)
(* The first run: any number of pages, isolates, attempts and mishaps.     *)
(***************************************************************************)

(***************************************************************************)
(* The trees of the branch.                                                *)
(***************************************************************************)

\* What one tree says stays so in the trees after it.
Follows(a, b) ==
    /\ a.salt # NoSalt => b.salt = a.salt
    /\ a.manifest # NoSalt => b.manifest = a.manifest

\* A manifest has its salt beside it, and a salt has its manifest, unless it
\* is that of the interrupted setup.
Sound(a) ==
    /\ a.manifest \in {NoSalt, a.salt}
    /\ a.manifest = NoSalt => a.salt \in {NoSalt, OldSalt}

TreesOK(h) ==
    /\ h \in Seq(Tree)
    /\ \A r \in DOMAIN h : Sound(h[r])
    /\ \A r, later \in DOMAIN h : r <= later => Follows(h[r], h[later])
    /\ \A r, other \in DOMAIN h : h[r].salt = OldSalt => h[other].salt = OldSalt

LastOf(h) == IF Len(h) = 0 THEN NoTree ELSE h[Len(h)]

\* h may become g: it is extended by at most one tree.
Extends(h, g) ==
    /\ TreesOK(h) /\ TreesOK(g)
    /\ Len(h) <= Len(g)
    /\ \A r \in DOMAIN h : r \in DOMAIN g /\ g[r] = h[r]
    /\ Follows(LastOf(h), LastOf(g))
    /\ (\A r \in DOMAIN h : h[r].salt # OldSalt) =>
           Len(h) = 0 \/ \A r \in DOMAIN g : g[r].salt # OldSalt

LEMMA SaltsDiffer ==
    /\ NoSalt # OldSalt
    /\ \A p \in Pages : \A n \in 1 .. MaxMishaps + 1 : <<p, n>> # NoSalt /\ <<p, n>> # OldSalt
    /\ \A p \in Pages : p \notin Isolates
  BY InitAssumption DEF InitAssumption

LEMMA AppendTree ==
    ASSUME NEW h, TreesOK(h), NEW t \in Tree, Sound(t), Follows(LastOf(h), t),
           t.salt = OldSalt => Len(h) > 0 /\ LastOf(h).salt = OldSalt
    PROVE  /\ Extends(h, Append(h, t))
           /\ LastOf(Append(h, t)) = t
           /\ Len(Append(h, t)) = Len(h) + 1
           /\ DOMAIN Append(h, t) = DOMAIN h \cup {Len(h) + 1}
           /\ Append(h, t)[Len(h) + 1] = t
<1> DEFINE g == Append(h, t)
<1>1. /\ h \in Seq(Tree) /\ Len(h) \in Nat /\ DOMAIN h = 1 .. Len(h)
      /\ g \in Seq(Tree) /\ Len(g) = Len(h) + 1 /\ DOMAIN g = 1 .. Len(h) + 1
      /\ g[Len(h) + 1] = t
      /\ \A r \in DOMAIN h : g[r] = h[r]
    BY DEF TreesOK
<1> HIDE DEF g
<1>2. LastOf(g) = t
    BY <1>1 DEF LastOf
<1>3. ASSUME NEW r \in DOMAIN g PROVE Sound(g[r])
    BY <1>1 DEF TreesOK
<1>4. ASSUME NEW r \in DOMAIN h PROVE Follows(h[r], t)
  <2>1. Len(h) \in DOMAIN h /\ r <= Len(h) /\ LastOf(h) = h[Len(h)]
      BY <1>1 DEF LastOf
  <2> QED  BY <2>1 DEF TreesOK, Follows
<1>5. ASSUME NEW r \in DOMAIN g, NEW later \in DOMAIN g, r <= later
      PROVE  Follows(g[r], g[later])
  <2>1. CASE later \in DOMAIN h
      BY <1>1, <1>5, <2>1 DEF TreesOK
  <2>2. CASE later = Len(h) + 1 /\ r \in DOMAIN h
      BY <1>1, <1>4, <2>2
  <2>3. CASE later = Len(h) + 1 /\ r = Len(h) + 1
      BY <1>1, <2>3 DEF Follows
  <2> QED  BY <1>1, <1>5, <2>1, <2>2, <2>3
<1>6. ASSUME NEW r \in DOMAIN h
      PROVE  h[r].salt = OldSalt <=> t.salt = OldSalt
  <2>1. Len(h) \in DOMAIN h /\ LastOf(h) = h[Len(h)]
      BY <1>1 DEF LastOf
  <2>2. h[r].salt = OldSalt => h[Len(h)].salt = OldSalt
      BY <2>1 DEF TreesOK
  <2>3. h[Len(h)].salt = OldSalt => h[r].salt = OldSalt
      BY <2>1 DEF TreesOK
  <2>4. h[Len(h)].salt = OldSalt => t.salt = OldSalt
      BY <2>1, SaltsDiffer DEF Follows
  <2> QED  BY <2>1, <2>2, <2>3, <2>4
<1>7. ASSUME NEW r \in DOMAIN g, NEW other \in DOMAIN g, g[r].salt = OldSalt
      PROVE  g[other].salt = OldSalt
    BY <1>1, <1>6, <1>7
<1>8. TreesOK(g)
    BY <1>1, <1>3, <1>5, <1>7 DEF TreesOK
<1>9. Extends(h, g)
    BY <1>1, <1>2, <1>6, <1>8 DEF Extends
<1> QED  BY <1>1, <1>2, <1>9 DEF g

\* Nothing is added.
LEMMA ExtendsItself ==
    ASSUME NEW h, TreesOK(h)
    PROVE  Extends(h, h)
  BY DEF Extends, Follows, TreesOK

LEMMA FollowsLast ==
    ASSUME NEW h, TreesOK(h), NEW r \in DOMAIN h
    PROVE  /\ Len(h) \in Nat \ {0} /\ Len(h) \in DOMAIN h /\ LastOf(h) = h[Len(h)]
           /\ Follows(h[r], LastOf(h)) /\ Sound(LastOf(h))
           /\ h[r].salt = OldSalt <=> LastOf(h).salt = OldSalt
<1>1. Len(h) \in Nat \ {0} /\ Len(h) \in DOMAIN h /\ r <= Len(h)
    BY DEF TreesOK
<1>2. LastOf(h) = h[Len(h)]
    BY <1>1 DEF LastOf
<1> QED  BY <1>1, <1>2 DEF TreesOK

(***************************************************************************)
(* A page, by what the branch holds.                                       *)
(***************************************************************************)
Asked == {"ensure", "head", "tree", "commit"}

PageOK(p, page, h) ==
    /\ page \in OpenPage
    /\ page.mode = "checking" => page.tries = 0
    /\ page.tries = 0 => page.step = "idle"
    /\ page.tries = 0 \/ page.step # "idle" => page.told = "nothing"
    /\ page.step \in {"head", "tree", "commit"} => Len(h) > 0
    /\ page.step = "tree" => page.head \in DOMAIN h
    /\ page.mode = "create" =>
           /\ \A r \in DOMAIN h : h[r].salt # OldSalt
           /\ page.tries > 0 => page.salt = <<p, page.tries>>
           /\ page.step # "salt"
    /\ page.mode = "unlock" =>
           /\ Len(h) > 0 /\ LastOf(h).salt # NoSalt
           /\ page.step # "idle" => page.salt = LastOf(h).salt
           /\ page.step \in Asked \/ page.told = "VAULT_STALE" => page.salt = OldSalt
    /\ page.told = "ok" => page.salt # NoSalt /\ LastOf(h).manifest = page.salt
    /\ page.told = "VAULT_INITIALIZED" => LastOf(h).manifest # NoSalt
    /\ page.told # "wrong_passphrase"

LEMMA PageStaysOK ==
    ASSUME NEW p, NEW page, NEW h, NEW g, PageOK(p, page, h), Extends(h, g),
           page.mode = "create" /\ Len(h) = 0 => \A r \in DOMAIN g : g[r].salt # OldSalt
    PROVE  PageOK(p, page, g)
<1>1. Len(h) \in Nat /\ Len(g) \in Nat /\ Len(h) <= Len(g) /\ DOMAIN h \subseteq DOMAIN g
    BY DEF Extends, TreesOK
<1>2. page.mode = "create" => \A r \in DOMAIN g : g[r].salt # OldSalt
    BY DEF PageOK, Extends
<1>3. page.mode = "unlock" =>
          /\ Len(g) > 0 /\ LastOf(g).salt # NoSalt
          /\ page.step # "idle" => page.salt = LastOf(g).salt
    BY <1>1 DEF PageOK, Extends, Follows
<1>4. /\ page.told = "ok" => page.salt # NoSalt /\ LastOf(g).manifest = page.salt
      /\ page.told = "VAULT_INITIALIZED" => LastOf(g).manifest # NoSalt
    BY DEF PageOK, Extends, Follows
<1> QED  BY <1>1, <1>2, <1>3, <1>4 DEF PageOK

(***************************************************************************)
(* The commits that are posted, and the pages that wait for them.          *)
(***************************************************************************)
PostOK(q, h) ==
    /\ q \in Post
    /\ q.by \in Isolates => q.parent = 0 /\ q.salt = NoSalt /\ q.manifest = NoSalt
    /\ q.by \in Pages =>
           /\ q.parent \in DOMAIN h
           /\ q.manifest # NoSalt
           /\ h[q.parent].manifest = NoSalt
           /\ h[q.parent].salt = NoSalt => q.salt = q.manifest /\ q.manifest # OldSalt
           /\ h[q.parent].salt # NoSalt => q.salt = NoSalt /\ q.manifest = h[q.parent].salt
           /\ q.manifest # OldSalt => \A r \in DOMAIN h : h[r].manifest # q.manifest

\* No commit has or brings a manifest of this salt.
Unused(salt, ps, h) ==
    /\ \A q \in ps : q.manifest # salt
    /\ \A r \in DOMAIN h : h[r].manifest # salt

\* A page has not used the salts of its next submits, nor the present one
\* until it is posted, nor one that was refused.
SaltsLeft(p, page, ps, h) ==
    /\ \A n \in 1 .. MaxMishaps + 1 : n > page.tries => Unused(<<p, n>>, ps, h)
    /\ \/ page.mode = "create" /\ page.step \in {"ensure", "head", "tree"}
       \/ page.told = "VAULT_STALE" /\ page.salt # OldSalt
       => Unused(page.salt, ps, h)

\* No two commits bring a manifest of the same fresh salt, and a page waits
\* for one commit at a time.
PostsDiffer(ps) ==
    \A q, other \in ps :
        \/ q.manifest = other.manifest /\ q.manifest \notin {NoSalt, OldSalt}
        \/ q.by = other.by /\ q.by \in Pages /\ q.awaited /\ other.awaited
        => q = other

AskedByPage(q, opened) ==
    q.by \in Pages /\ q.awaited =>
        opened[q.by].step = "commit" /\ opened[q.by].salt = q.manifest

\* The inductive invariant.
SetupInv ==
    /\ VaultInitTypeOK
    /\ TreesOK(history)
    /\ \A i \in Isolates : ensured[i] => Len(history) > 0
    /\ \A p \in Pages :
          /\ PageOK(p, opening[p], history)
          /\ SaltsLeft(p, opening[p], posts, history)
          /\ opening[p].tries <= mishaps + 1
    /\ \A q \in posts : PostOK(q, history) /\ AskedByPage(q, opening)
    /\ PostsDiffer(posts)

LEMMA MainIsLast == MainTree = LastOf(history) /\ Revision = Len(history)
  BY DEF MainTree, TreeAt, Revision, LastOf

\* One page takes a step, and nothing is committed or posted.
LEMMA PageMoves ==
    ASSUME SetupInv, NEW p \in Pages, NEW page, SetPage(p, page),
           UNCHANGED <<history, ensured, ensuring, posts>>,
           mishaps' \in 0 .. MaxMishaps, mishaps <= mishaps', page.tries <= mishaps' + 1,
           PageOK(p, page, history), SaltsLeft(p, page, posts, history),
           \A q \in posts : q.by = p => ~q.awaited
    PROVE  SetupInv'
<1>1. /\ opening \in [Pages -> OpenPage] /\ page \in OpenPage /\ mishaps \in Nat
      /\ \A o \in Pages : opening[o].tries \in Int
    BY DEF SetupInv, VaultInitTypeOK, PageOK, OpenPage
<1>2. opening' \in [Pages -> OpenPage]
    BY <1>1 DEF SetPage
<1>3. \A o \in Pages : opening'[o] = IF o = p THEN page ELSE opening[o]
    BY <1>1 DEF SetPage
<1>4. VaultInitTypeOK'
    BY <1>2 DEF SetupInv, VaultInitTypeOK
<1>5. ASSUME NEW o \in Pages
      PROVE  /\ PageOK(o, opening'[o], history) /\ SaltsLeft(o, opening'[o], posts, history)
             /\ opening'[o].tries <= mishaps' + 1
  <2>1. CASE o = p
      BY <1>3, <2>1
  <2>2. CASE o # p
      BY <1>1, <1>3, <2>2 DEF SetupInv
  <2> QED  BY <2>1, <2>2
<1>6. ASSUME NEW q \in posts PROVE PostOK(q, history) /\ AskedByPage(q, opening')
    BY <1>3 DEF SetupInv, AskedByPage
<1> QED  BY <1>4, <1>5, <1>6 DEF SetupInv, PageOK, SaltsLeft, PostOK, AskedByPage, Unused, LastOf

\* The page between two steps, and none of its commits are waited for.
LEMMA PageAlone ==
    ASSUME SetupInv, NEW p \in Pages, opening[p].step # "commit"
    PROVE  \A q \in posts : q.by = p => ~q.awaited
  BY DEF SetupInv, AskedByPage

LEMMA PageParts ==
    ASSUME SetupInv, NEW p \in Pages
    PROVE  /\ PageOK(p, opening[p], history) /\ SaltsLeft(p, opening[p], posts, history)
           /\ opening[p] \in OpenPage /\ opening[p].tries <= mishaps + 1
           /\ mishaps \in 0 .. MaxMishaps /\ MaxMishaps \in Nat
           /\ TreesOK(history) /\ Len(history) \in Nat
  BY InitAssumption DEF SetupInv, VaultInitTypeOK, PageOK, InitAssumption, TreesOK

\* The page is told that its request has failed.
LEMMA ToldFailed ==
    ASSUME SetupInv, NEW p \in Pages, opening[p].tries > 0
    PROVE  LET page == Tell(opening[p], "failed")
           IN  /\ PageOK(p, page, history) /\ SaltsLeft(p, page, posts, history)
               /\ page.tries = opening[p].tries /\ page.step = "idle"
<1> DEFINE page == Tell(opening[p], "failed")
<1>1. /\ page \in OpenPage /\ page.step = "idle" /\ page.told = "failed"
      /\ page.mode = opening[p].mode /\ page.tries = opening[p].tries
      /\ page.salt = opening[p].salt
    BY PageParts DEF Tell, OpenPage
<1> HIDE DEF page
<1>2. PageOK(p, page, history)
    BY <1>1, PageParts DEF PageOK, Asked
<1>3. SaltsLeft(p, page, posts, history)
    BY <1>1, PageParts DEF SaltsLeft
<1> QED  BY <1>1, <1>2, <1>3 DEF page

(***************************************************************************)
(* The steps of a page.                                                    *)
(***************************************************************************)
LEMMA ProbeKeeps ==
    ASSUME SetupInv, NEW p \in Pages, Probe(p)
    PROVE  SetupInv'
<1> DEFINE page == [opening[p] EXCEPT !.mode = IF MainTree.salt = NoSalt
                                               THEN "create" ELSE "unlock"]
<1>1. /\ SetPage(p, page) /\ UNCHANGED <<history, ensured, ensuring, posts, mishaps>>
      /\ opening[p].mode = "checking"
    BY DEF Probe
<1>2. /\ opening[p].tries = 0 /\ opening[p].step = "idle" /\ opening[p].told = "nothing"
    BY <1>1, PageParts DEF PageOK
<1>3. /\ page \in OpenPage /\ page.tries = 0 /\ page.step = "idle" /\ page.told = "nothing"
      /\ page.mode = IF LastOf(history).salt = NoSalt THEN "create" ELSE "unlock"
    BY <1>2, PageParts, MainIsLast DEF OpenPage
<1> HIDE DEF page
<1>4. ASSUME LastOf(history).salt = NoSalt, NEW r \in DOMAIN history
      PROVE  history[r].salt # OldSalt
    BY <1>4, FollowsLast, PageParts, SaltsDiffer
<1>5. LastOf(history).salt # NoSalt => Len(history) > 0
    BY PageParts DEF LastOf, NoTree
<1>6. PageOK(p, page, history)
    BY <1>3, <1>4, <1>5 DEF PageOK, Asked
<1>7. SaltsLeft(p, page, posts, history)
    BY <1>2, <1>3, PageParts DEF SaltsLeft
<1>8. \A q \in posts : q.by = p => ~q.awaited
    BY <1>2, PageAlone
<1>9. mishaps' \in 0 .. MaxMishaps /\ mishaps <= mishaps' /\ page.tries <= mishaps' + 1
    BY <1>1, <1>3, PageParts
<1> QED  BY <1>1, <1>6, <1>7, <1>8, <1>9, PageMoves

LEMMA SubmitKeeps ==
    ASSUME SetupInv, NEW p \in Pages, Submit(p)
    PROVE  SetupInv'
<1> DEFINE n == opening[p].tries + 1
<1>1. /\ opening[p].mode \in {"create", "unlock"} /\ opening[p].step = "idle"
      /\ opening[p].tries \in 0 .. MaxMishaps + 1
    BY PageParts DEF Submit, OpenPage
<1>2. /\ mishaps' \in 0 .. MaxMishaps /\ mishaps <= mishaps'
      /\ n <= mishaps' + 1 /\ n \in 1 .. MaxMishaps + 1 /\ n \in 0 .. MaxMishaps + 1
      /\ n = opening[p].tries + 1
    BY <1>1, PageParts DEF Submit, Mishap
<1>3. \A q \in posts : q.by = p => ~q.awaited
    BY <1>1, PageAlone
<1>4. PICK i \in Isolates :
          LET page == [opening[p] EXCEPT !.tries = n, !.told = "nothing", !.isolate = i]
          IN  SetPage(p, IF page.mode = "create"
                         THEN [page EXCEPT !.step = "ensure", !.salt = <<p, n>>]
                         ELSE [page EXCEPT !.step = "salt", !.salt = MainTree.salt])
    BY DEF Submit
<1> HIDE DEF n
<1>5. UNCHANGED <<history, ensured, ensuring, posts>>
    BY DEF Submit
<1>6. CASE opening[p].mode = "create"
  <2> DEFINE page == [opening[p] EXCEPT !.tries = n, !.told = "nothing", !.isolate = i,
                                        !.step = "ensure", !.salt = <<p, n>>]
  <2>1. SetPage(p, page)
      BY <1>4, <1>6, PageParts DEF OpenPage, SetPage
  <2>2. <<p, n>> \in Salts
      BY <1>2 DEF Salts
  <2>3. /\ page \in OpenPage /\ page.tries = n /\ page.step = "ensure"
        /\ page.told = "nothing" /\ page.mode = "create" /\ page.salt = <<p, n>>
    <3>1. opening[p] \in OpenPage
        BY PageParts
    <3> QED  BY <1>2, <1>6, <2>2, <3>1 DEF OpenPage
  <2> HIDE DEF page
  <2>4. PageOK(p, page, history)
      BY <1>1, <1>2, <1>6, <2>3, PageParts DEF PageOK
  <2>5. Unused(<<p, n>>, posts, history)
      BY <1>1, <1>2, PageParts DEF SaltsLeft
  <2>6. SaltsLeft(p, page, posts, history)
      BY <1>1, <1>2, <2>3, <2>5, PageParts DEF SaltsLeft
  <2> QED  BY <1>2, <1>3, <1>5, <2>1, <2>3, <2>4, <2>6, PageMoves
<1>7. CASE opening[p].mode = "unlock"
  <2> DEFINE page == [opening[p] EXCEPT !.tries = n, !.told = "nothing", !.isolate = i,
                                        !.step = "salt", !.salt = MainTree.salt]
  <2>1. SetPage(p, page)
      BY <1>4, <1>7, PageParts DEF OpenPage, SetPage
  <2>2. MainTree.salt \in Salts \cup {NoSalt} /\ MainTree.salt = LastOf(history).salt
    <3>1. Len(history) \in DOMAIN history /\ history \in Seq(Tree)
        BY <1>7, PageParts DEF PageOK, TreesOK
    <3>2. LastOf(history) = history[Len(history)] /\ history[Len(history)] \in Tree
        BY <3>1, PageParts DEF LastOf, TreesOK
    <3> QED  BY <3>2, MainIsLast DEF Tree
  <2>3. /\ page \in OpenPage /\ page.tries = n /\ page.step = "salt"
        /\ page.told = "nothing" /\ page.mode = "unlock" /\ page.salt = LastOf(history).salt
    <3>1. opening[p] \in OpenPage
        BY PageParts
    <3> QED  BY <1>2, <1>7, <2>2, <3>1 DEF OpenPage
  <2> HIDE DEF page
  <2>4. PageOK(p, page, history)
      BY <1>1, <1>2, <1>7, <2>3, PageParts DEF PageOK, Asked
  <2>5. SaltsLeft(p, page, posts, history)
      BY <1>1, <1>2, <2>3, PageParts DEF SaltsLeft
  <2> QED  BY <1>2, <1>3, <1>5, <2>1, <2>3, <2>4, <2>5, PageMoves
<1> QED  BY <1>1, <1>6, <1>7

LEMMA ReadManifestKeeps ==
    ASSUME SetupInv, NEW p \in Pages, ReadManifest(p)
    PROVE  SetupInv'
<1>1. /\ opening[p].step = "salt" /\ opening[p].mode = "unlock" /\ opening[p].tries > 0
      /\ Len(history) > 0 /\ opening[p].salt = LastOf(history).salt
      /\ LastOf(history).salt # NoSalt
  <2>1. opening[p].step = "salt"
      BY DEF ReadManifest
  <2>2. opening[p].mode = "unlock" /\ opening[p].tries > 0
      BY <2>1, PageParts DEF PageOK, OpenPage
  <2> QED  BY <2>1, <2>2, PageParts DEF PageOK
<1>2. UNCHANGED <<history, ensured, ensuring, posts, mishaps>>
    BY DEF ReadManifest
<1>3. \A q \in posts : q.by = p => ~q.awaited
    BY <1>1, PageAlone
<1>4. Sound(LastOf(history))
  <2>1. Len(history) \in DOMAIN history
      BY <1>1, PageParts DEF TreesOK
  <2> QED  BY <2>1, FollowsLast, PageParts
<1>5. CASE MainTree.manifest = NoSalt
  <2> DEFINE page == [opening[p] EXCEPT !.step = "ensure"]
  <2>1. SetPage(p, page)
      BY <1>5 DEF ReadManifest
  <2>2. /\ page \in OpenPage /\ page.step = "ensure" /\ page.mode = "unlock"
        /\ page.tries = opening[p].tries /\ page.told = opening[p].told
        /\ page.salt = opening[p].salt
      BY <1>1, PageParts DEF OpenPage
  <2> HIDE DEF page
  <2>3. opening[p].salt = OldSalt
      BY <1>1, <1>4, <1>5, MainIsLast DEF Sound
  <2>4. PageOK(p, page, history)
      BY <1>1, <2>2, <2>3, PageParts DEF PageOK
  <2>5. SaltsLeft(p, page, posts, history)
      BY <2>2, <2>3, PageParts DEF SaltsLeft
  <2> QED  BY <1>2, <1>3, <2>1, <2>2, <2>4, <2>5, PageMoves, PageParts
<1>6. CASE MainTree.manifest # NoSalt
  <2> DEFINE page == Tell(opening[p], "unlocked")
  <2>1. MainTree.manifest = opening[p].salt
      BY <1>1, <1>4, <1>6, MainIsLast DEF Sound
  <2>2. SetPage(p, page)
      BY <1>6, <2>1 DEF ReadManifest
  <2>3. /\ page \in OpenPage /\ page.step = "idle" /\ page.mode = "unlock"
        /\ page.tries = opening[p].tries /\ page.told = "unlocked"
        /\ page.salt = opening[p].salt
      BY <1>1, PageParts DEF OpenPage, Tell
  <2> HIDE DEF page
  <2>4. PageOK(p, page, history)
      BY <1>1, <2>3, PageParts DEF PageOK, Asked
  <2>5. SaltsLeft(p, page, posts, history)
      BY <2>3, PageParts DEF SaltsLeft
  <2> QED  BY <1>2, <1>3, <2>2, <2>3, <2>4, <2>5, PageMoves, PageParts
<1> QED  BY <1>5, <1>6

\* A page that reads goes on to the next read.
LEMMA ReadsOn ==
    ASSUME SetupInv, NEW p \in Pages, opening[p].step \in {"ensure", "head"},
           Len(history) > 0, UNCHANGED <<history, ensured, ensuring, posts, mishaps>>,
           NEW page \in OpenPage, SetPage(p, page),
           page.step \in {"head", "tree"}, page.step = "tree" => page.head = Len(history),
           page.mode = opening[p].mode, page.tries = opening[p].tries,
           page.told = opening[p].told, page.salt = opening[p].salt
    PROVE  SetupInv'
<1>1. opening[p].tries > 0 /\ opening[p].mode \in {"create", "unlock"}
    BY PageParts DEF PageOK, OpenPage
<1>2. Len(history) \in DOMAIN history
    BY PageParts DEF TreesOK
<1>3. PageOK(p, page, history)
    BY <1>1, <1>2, PageParts DEF PageOK, Asked
<1>4. SaltsLeft(p, page, posts, history)
    BY PageParts DEF SaltsLeft
<1>5. \A q \in posts : q.by = p => ~q.awaited
    BY PageAlone
<1> QED  BY <1>3, <1>4, <1>5, PageMoves, PageParts

LEMMA EnsuredKeeps ==
    ASSUME SetupInv, NEW p \in Pages, Ensured(p)
    PROVE  SetupInv'
<1> DEFINE page == [opening[p] EXCEPT !.step = "head"]
<1>1. opening[p].isolate \in Isolates
    BY PageParts DEF OpenPage
<1>2. Len(history) > 0 /\ opening[p].step = "ensure"
    BY <1>1 DEF SetupInv, Ensured
<1>3. SetPage(p, page) /\ UNCHANGED <<history, ensured, ensuring, posts, mishaps>>
    BY DEF Ensured
<1>4. /\ page \in OpenPage /\ page.step = "head"
      /\ page.mode = opening[p].mode /\ page.tries = opening[p].tries
      /\ page.told = opening[p].told /\ page.salt = opening[p].salt
  <2>1. opening[p] \in OpenPage
      BY PageParts
  <2> QED  BY <2>1 DEF OpenPage
<1> HIDE DEF page
<1> QED  BY <1>2, <1>3, <1>4, ReadsOn

LEMMA ReadHeadKeeps ==
    ASSUME SetupInv, NEW p \in Pages, ReadHead(p)
    PROVE  SetupInv'
<1> DEFINE page == [opening[p] EXCEPT !.step = "tree", !.head = Len(history)]
<1>1. Len(history) > 0 /\ opening[p].step = "head"
    BY PageParts DEF PageOK, ReadHead
<1>2. SetPage(p, page) /\ UNCHANGED <<history, ensured, ensuring, posts, mishaps>>
    BY DEF ReadHead, Revision
<1>3. /\ page \in OpenPage /\ page.step = "tree" /\ page.head = Len(history)
      /\ page.mode = opening[p].mode /\ page.tries = opening[p].tries
      /\ page.told = opening[p].told /\ page.salt = opening[p].salt
  <2>1. opening[p] \in OpenPage /\ Len(history) \in Nat
      BY PageParts
  <2> QED  BY <2>1 DEF OpenPage
<1> HIDE DEF page
<1> QED  BY <1>1, <1>2, <1>3, ReadsOn

LEMMA ReadFailsKeeps ==
    ASSUME SetupInv, NEW p \in Pages, ReadFails(p)
    PROVE  SetupInv'
<1>1. opening[p].step # "commit" /\ opening[p].tries > 0
  <2>1. opening[p].step \in {"salt", "head", "tree"} /\ opening[p].tries \in Nat
      BY PageParts DEF ReadFails, OpenPage
  <2> QED  BY <2>1, PageParts DEF PageOK
<1>2. SetPage(p, Tell(opening[p], "failed")) /\ mishaps < MaxMishaps /\ mishaps' = mishaps + 1
    BY DEF ReadFails, Mishap
<1>3. Tell(opening[p], "failed").tries <= mishaps' + 1 /\ mishaps' \in 0 .. MaxMishaps
  <2>1. /\ opening[p].tries <= mishaps + 1 /\ mishaps \in 0 .. MaxMishaps
        /\ MaxMishaps \in Nat /\ opening[p].tries \in Int
      BY PageParts DEF OpenPage
  <2>2. Tell(opening[p], "failed").tries = opening[p].tries
      BY <1>1, ToldFailed
  <2> QED  BY <1>2, <2>1, <2>2
<1>4. mishaps <= mishaps'
    BY <1>2, PageParts
<1> QED  BY <1>1, <1>2, <1>3, <1>4, ToldFailed, PageAlone, PageMoves DEF ReadFails

(***************************************************************************)
(* The page posts its commit.                                              *)
(***************************************************************************)
LEMMA ReadTreeKeeps ==
    ASSUME SetupInv, NEW p \in Pages, ReadTree(p)
    PROVE  SetupInv'
<1> DEFINE h    == opening[p].head
           tree == history[h]
           salt == opening[p].salt
<1>1. /\ opening[p].step = "tree" /\ opening[p].told = "nothing" /\ opening[p].tries \in Nat \ {0}
      /\ opening[p].mode \in {"create", "unlock"} /\ opening[p] \in OpenPage
      /\ h \in DOMAIN history /\ Len(history) > 0
    BY PageParts DEF PageOK, OpenPage, ReadTree
<1>2. /\ TreeAt(h) = tree /\ Sound(tree) /\ Follows(tree, LastOf(history))
      /\ tree.salt = OldSalt <=> LastOf(history).salt = OldSalt
      /\ UNCHANGED <<history, ensured, ensuring, mishaps>>
  <2>1. h # 0
      BY <1>1, PageParts DEF TreesOK
  <2>2. TreesOK(history) /\ Sound(tree)
      BY <1>1, PageParts DEF TreesOK
  <2> QED  BY <1>1, <2>1, <2>2, FollowsLast DEF TreeAt, ReadTree
<1>3. \A q \in posts : q.by = p => ~q.awaited
    BY <1>1, PageAlone
<1>4. CASE tree.manifest # NoSalt
  <2> DEFINE page == Tell(opening[p], "VAULT_INITIALIZED")
  <2>1. SetPage(p, page) /\ UNCHANGED posts
      BY <1>2, <1>4 DEF ReadTree
  <2>2. /\ page \in OpenPage /\ page.step = "idle" /\ page.mode = opening[p].mode
        /\ page.tries = opening[p].tries /\ page.told = "VAULT_INITIALIZED"
        /\ page.salt = opening[p].salt
      BY <1>1 DEF OpenPage, Tell
  <2> HIDE DEF page
  <2>3. PageOK(p, page, history)
      BY <1>1, <1>2, <1>4, <2>2, PageParts DEF PageOK, Asked, Follows
  <2>4. SaltsLeft(p, page, posts, history)
      BY <2>2, PageParts DEF SaltsLeft
  <2> QED  BY <1>2, <1>3, <2>1, <2>2, <2>3, <2>4, PageMoves, PageParts
<1>5. CASE tree.manifest = NoSalt
  <2> DEFINE page == [opening[p] EXCEPT !.step = "commit", !.attempt = 0]
             q    == [by |-> p, parent |-> h, manifest |-> salt,
                      salt |-> IF tree.salt = NoSalt THEN salt ELSE NoSalt,
                      awaited |-> TRUE]
  <2>1. SetPage(p, page) /\ posts' = posts \cup {q}
      BY <1>2, <1>5 DEF ReadTree
  <2>2. /\ page \in OpenPage /\ page.step = "commit" /\ page.mode = opening[p].mode
        /\ page.tries = opening[p].tries /\ page.told = "nothing" /\ page.salt = salt
      BY <1>1 DEF OpenPage
  <2>3. /\ q \in Post /\ q.by = p /\ q.parent = h /\ q.manifest = salt /\ q.awaited
        /\ q.salt = IF tree.salt = NoSalt THEN salt ELSE NoSalt
      BY <1>1 DEF OpenPage, Post
  <2> HIDE DEF page, q
  <2>4. \/ opening[p].mode = "create" /\ salt = <<p, opening[p].tries>> /\ tree.salt = NoSalt
        \/ opening[p].mode = "unlock" /\ salt = OldSalt /\ tree.salt = OldSalt
    <3>1. CASE opening[p].mode = "create"
        BY <1>1, <1>2, <1>5, <3>1, PageParts DEF PageOK, Sound
    <3>2. CASE opening[p].mode = "unlock"
        BY <1>1, <1>2, <3>2, PageParts DEF PageOK, Asked
    <3> QED  BY <1>1, <3>1, <3>2
  <2>5. opening[p].tries \in 1 .. MaxMishaps + 1
      BY <1>1, PageParts DEF OpenPage
  <2>6. salt # NoSalt /\ (salt # OldSalt => Unused(salt, posts, history))
      BY <1>1, <2>4, <2>5, SaltsDiffer, PageParts DEF SaltsLeft
  <2>7. PostOK(q, history)
      BY <1>1, <1>5, <2>3, <2>4, <2>5, <2>6, SaltsDiffer DEF PostOK, Unused
  <2>8. PostsDiffer(posts')
      BY <1>3, <2>1, <2>3, <2>6 DEF SetupInv, PostsDiffer, Unused
  <2>9. PageOK(p, page, history)
      BY <1>1, <2>2, PageParts DEF PageOK, Asked
  <2>10. /\ opening' \in [Pages -> OpenPage]
         /\ \A o \in Pages : opening'[o] = IF o = p THEN page ELSE opening[o]
      BY <2>1, <2>2 DEF SetPage, SetupInv, VaultInitTypeOK
  <2>11. VaultInitTypeOK'
      BY <1>2, <2>1, <2>3, <2>10 DEF SetupInv, VaultInitTypeOK
  <2>12. SaltsLeft(p, page, posts', history)
    <3>1. SaltsLeft(p, opening[p], posts, history)
        BY PageParts
    <3>2. ASSUME NEW n \in 1 .. MaxMishaps + 1, n > opening[p].tries
          PROVE  Unused(<<p, n>>, posts', history)
      <4>1. <<p, n>> # salt
        <5>1. n # opening[p].tries
            BY <2>5, <3>2
        <5>2. <<p, n>> # <<p, opening[p].tries>>
            BY <5>1
        <5>3. <<p, n>> # OldSalt
            BY SaltsDiffer
        <5> QED  BY <2>4, <5>2, <5>3
      <4>2. Unused(<<p, n>>, posts, history)
          BY <3>1, <3>2 DEF SaltsLeft
      <4> QED  BY <2>1, <2>3, <4>1, <4>2 DEF Unused
    <3> QED  BY <2>2, <3>2 DEF SaltsLeft
  <2>13. ASSUME NEW o \in Pages, o # p
         PROVE  SaltsLeft(o, opening[o], posts', history)
    <3>1. PageOK(o, opening[o], history) /\ SaltsLeft(o, opening[o], posts, history)
        BY PageParts
    <3>2. ASSUME NEW n \in 1 .. MaxMishaps + 1
          PROVE  <<o, n>> # salt
      <4>1. <<o, n>> # <<p, opening[p].tries>>
          BY <2>13
      <4>2. <<o, n>> # OldSalt
          BY SaltsDiffer
      <4> QED  BY <2>4, <4>1, <4>2
    <3>3. ASSUME \/ opening[o].mode = "create" /\ opening[o].step \in {"ensure", "head", "tree"}
                 \/ opening[o].told = "VAULT_STALE" /\ opening[o].salt # OldSalt
          PROVE  opening[o].salt # salt
      <4>1. opening[o].mode = "create" /\ opening[o].tries \in Nat \ {0}
          BY <3>1, <3>3 DEF PageOK, OpenPage
      <4>2. opening[o].salt = <<o, opening[o].tries>>
          BY <3>1, <4>1 DEF PageOK
      <4>3. opening[o].tries \in 1 .. MaxMishaps + 1
          BY <3>1, <4>1 DEF PageOK, OpenPage
      <4> QED  BY <3>2, <4>2, <4>3
    <3> QED  BY <2>1, <2>3, <3>1, <3>2, <3>3 DEF SaltsLeft, Unused
  <2>14. ASSUME NEW o \in Pages
         PROVE  /\ PageOK(o, opening'[o], history) /\ SaltsLeft(o, opening'[o], posts', history)
                /\ opening'[o].tries <= mishaps' + 1
    <3>1. CASE o = p
        BY <1>2, <2>2, <2>9, <2>10, <2>12, <3>1, PageParts
    <3>2. CASE o # p
        BY <1>2, <2>10, <2>13, <3>2, PageParts
    <3> QED  BY <3>1, <3>2
  <2>15. ASSUME NEW c \in posts' PROVE PostOK(c, history) /\ AskedByPage(c, opening')
    <3>1. CASE c = q
        BY <2>2, <2>3, <2>7, <2>10, <3>1 DEF AskedByPage
    <3>2. CASE c \in posts
        BY <1>3, <2>10, <3>2 DEF SetupInv, AskedByPage
    <3> QED  BY <2>1, <3>1, <3>2
  <2> QED
    BY <1>2, <2>8, <2>11, <2>14, <2>15
    DEF SetupInv, PageOK, SaltsLeft, PostOK, AskedByPage, Unused, LastOf, PostsDiffer
<1> QED  BY <1>4, <1>5

(***************************************************************************)
(* The steps of the isolates and of the storage service.                   *)
(***************************************************************************)

\* A commit has the manifest m, brings it, or there is none.
Brings(m, ps, h) ==
    \/ m = NoSalt
    \/ \E q \in ps : q.manifest = m
    \/ \E r \in DOMAIN h : h[r].manifest = m

Lost(q) == [q EXCEPT !.awaited = FALSE]

LEMMA SaltsStayLeft ==
    ASSUME NEW p \in Pages, NEW page, NEW ps, NEW h, PageOK(p, page, h), SaltsLeft(p, page, ps, h),
           NEW nps, NEW nh,
           \A q \in nps : Brings(q.manifest, ps, h),
           \A r \in DOMAIN nh : Brings(nh[r].manifest, ps, h)
    PROVE  SaltsLeft(p, page, nps, nh)
<1>1. ASSUME NEW salt, salt # NoSalt, Unused(salt, ps, h)
      PROVE  Unused(salt, nps, nh)
    BY <1>1 DEF Unused, Brings
<1>2. ASSUME \/ page.mode = "create" /\ page.step \in {"ensure", "head", "tree"}
             \/ page.told = "VAULT_STALE" /\ page.salt # OldSalt
      PROVE  page.salt # NoSalt
  <2>1. page.mode = "create" /\ page.tries \in 1 .. MaxMishaps + 1
    <3>1. /\ page.mode \in {"checking", "create", "unlock"} /\ page.tries \in 0 .. MaxMishaps + 1
          /\ page.tries # 0
        BY <1>2 DEF PageOK, OpenPage
    <3>2. page.mode = "create"
        BY <1>2, <3>1 DEF PageOK
    <3> QED  BY <3>1, <3>2, InitAssumption DEF InitAssumption
  <2>2. page.salt = <<p, page.tries>>
      BY <2>1 DEF PageOK
  <2> QED  BY <2>1, <2>2, SaltsDiffer
<1> QED  BY <1>1, <1>2, SaltsDiffer DEF SaltsLeft

\* Commits land, are refused, or are no longer waited for.
LEMMA PostsDwindle ==
    ASSUME SetupInv, NEW c \in posts, NEW ps,
           \/ ps \subseteq posts
           \/ ps \subseteq (posts \ {c}) \cup {Lost(c)}
           \/ c.by \in Isolates /\ ps \subseteq posts \cup {Lost(c)}
    PROVE  /\ PostsDiffer(ps)
           /\ \A q \in ps : /\ PostOK(q, history) /\ Brings(q.manifest, posts, history)
                            /\ q.awaited => q \in posts
<1>1. c \in Post /\ PostOK(c, history)
    BY DEF SetupInv, PostOK
<1>2. /\ Lost(c) \in Post /\ ~Lost(c).awaited /\ Lost(c).manifest = c.manifest
      /\ Lost(c).by = c.by /\ Lost(c).parent = c.parent /\ Lost(c).salt = c.salt
    BY <1>1 DEF Lost, Post
<1>3. PostOK(Lost(c), history)
    BY <1>1, <1>2 DEF PostOK
<1>4. c.by \in Isolates => c.manifest = NoSalt /\ c.by \notin Pages
    BY <1>1, SaltsDiffer DEF PostOK
<1>5. PostsDiffer(ps)
    BY <1>2, <1>4 DEF SetupInv, PostsDiffer
<1>6. ASSUME NEW q \in ps
      PROVE  /\ PostOK(q, history) /\ Brings(q.manifest, posts, history)
             /\ q.awaited => q \in posts
  <2>1. q \in posts \/ q = Lost(c)
      OBVIOUS
  <2> QED  BY <1>2, <1>3, <2>1 DEF SetupInv, Brings
<1> QED  BY <1>5, <1>6

\* Whatever becomes of the branch, the commits and the isolates: each page
\* goes on, or is told of it and no commit of it is waited for.
LEMMA Settles ==
    ASSUME SetupInv, VaultInitTypeOK', mishaps <= mishaps',
           Extends(history, history'),
           \A r \in DOMAIN history' : Brings(history'[r].manifest, posts, history),
           Len(history) = 0 => \A r \in DOMAIN history' : history'[r].salt # OldSalt,
           \A i \in Isolates : ensured'[i] => Len(history') > 0,
           PostsDiffer(posts'),
           \A q \in posts' : /\ PostOK(q, history') /\ Brings(q.manifest, posts, history)
                             /\ q.awaited /\ q.by \in Pages => q \in posts,
           \A p \in Pages :
               \/ /\ opening'[p].mode = opening[p].mode /\ opening'[p].step = opening[p].step
                  /\ opening'[p].told = opening[p].told /\ opening'[p].tries = opening[p].tries
                  /\ opening'[p].salt = opening[p].salt /\ opening'[p].head = opening[p].head
               \/ /\ \A q \in posts' : q.by = p => ~q.awaited
                  /\ opening[p].tries > 0
                  /\ \/ opening'[p] = Tell(opening[p], "failed")
                     \/ /\ PageOK(p, opening'[p], history')
                        /\ SaltsLeft(p, opening'[p], posts', history')
                        /\ opening'[p].tries = opening[p].tries
    PROVE  SetupInv'
<1>1. mishaps' \in Int /\ mishaps \in Int /\ \A p \in Pages : opening[p].tries \in Int
  <2>1. mishaps' \in Int /\ mishaps \in Int
      BY DEF SetupInv, VaultInitTypeOK
  <2>2. \A p \in Pages : opening[p].tries \in Int
      BY PageParts DEF OpenPage
  <2> QED  BY <2>1, <2>2
<1>2. ASSUME NEW p \in Pages, NEW page \in OpenPage, PageOK(p, page, history),
             SaltsLeft(p, page, posts, history)
      PROVE  PageOK(p, page, history') /\ SaltsLeft(p, page, posts', history')
  <2>1. PageOK(p, page, history')
      BY <1>2, PageStaysOK
  <2>2. SaltsLeft(p, page, posts', history')
      BY <1>2, SaltsStayLeft
  <2> QED  BY <2>1, <2>2
<1>3. ASSUME NEW p \in Pages
      PROVE  /\ PageOK(p, opening'[p], history') /\ SaltsLeft(p, opening'[p], posts', history')
             /\ opening'[p].tries <= mishaps' + 1
             /\ \A q \in posts' : q.by = p /\ q.awaited =>
                    opening'[p].step = "commit" /\ opening'[p].salt = q.manifest
  <2>1. opening'[p] \in OpenPage
      BY DEF VaultInitTypeOK
  <2>2. CASE /\ opening'[p].mode = opening[p].mode /\ opening'[p].step = opening[p].step
             /\ opening'[p].told = opening[p].told /\ opening'[p].tries = opening[p].tries
             /\ opening'[p].salt = opening[p].salt /\ opening'[p].head = opening[p].head
    <3>1. PageOK(p, opening'[p], history)
        BY <2>1, <2>2, PageParts DEF PageOK
    <3>2. SaltsLeft(p, opening'[p], posts, history)
        BY <2>2, PageParts DEF SaltsLeft
    <3>3. opening'[p].tries <= mishaps' + 1
        BY <1>1, <2>2, PageParts
    <3>4. ASSUME NEW q \in posts', q.by = p, q.awaited
          PROVE  opening'[p].step = "commit" /\ opening'[p].salt = q.manifest
        BY <2>2, <3>4 DEF SetupInv, AskedByPage
    <3> QED  BY <1>2, <2>1, <3>1, <3>2, <3>3, <3>4
  <2>3. CASE /\ \A q \in posts' : q.by = p => ~q.awaited
             /\ opening[p].tries > 0 /\ opening'[p] = Tell(opening[p], "failed")
    <3>1. /\ PageOK(p, opening'[p], history) /\ SaltsLeft(p, opening'[p], posts, history)
          /\ opening'[p].tries = opening[p].tries
        BY <2>3, ToldFailed
    <3>2. opening'[p].tries <= mishaps' + 1
        BY <1>1, <3>1, PageParts
    <3> QED  BY <1>2, <2>1, <2>3, <3>1, <3>2
  <2>4. CASE /\ \A q \in posts' : q.by = p => ~q.awaited
             /\ PageOK(p, opening'[p], history') /\ SaltsLeft(p, opening'[p], posts', history')
             /\ opening'[p].tries = opening[p].tries
    <3>1. opening'[p].tries <= mishaps' + 1
        BY <1>1, <2>4, PageParts
    <3> QED  BY <2>4, <3>1
  <2> QED  BY <2>2, <2>3, <2>4
<1>4. \A q \in posts' : PostOK(q, history') /\ AskedByPage(q, opening')
    BY <1>3 DEF AskedByPage
<1>5. TreesOK(history')
    BY DEF Extends
<1> QED
    BY <1>3, <1>4, <1>5
    DEF SetupInv, PageOK, SaltsLeft, PostOK, AskedByPage, Unused, LastOf, PostsDiffer, TreesOK

\* Nothing lands: what is left for Settles to be shown.
LEMMA NothingLands ==
    ASSUME SetupInv, UNCHANGED history
    PROVE  /\ Extends(history, history')
           /\ \A r \in DOMAIN history' : Brings(history'[r].manifest, posts, history)
           /\ Len(history) = 0 => \A r \in DOMAIN history' : history'[r].salt # OldSalt
<1>1. TreesOK(history)
    BY DEF SetupInv
<1> QED  BY <1>1, ExtendsItself DEF Brings, TreesOK

LEMMA PostsStay ==
    ASSUME SetupInv
    PROVE  /\ PostsDiffer(posts)
           /\ \A q \in posts : PostOK(q, history) /\ Brings(q.manifest, posts, history)
  BY DEF SetupInv, Brings

LEMMA BeginEnsuringKeeps ==
    ASSUME SetupInv, NEW p \in Pages, BeginEnsuring(p)
    PROVE  SetupInv'
<1>1. UNCHANGED <<history, ensured, opening, posts, mishaps>>
    BY DEF BeginEnsuring
<1>2. VaultInitTypeOK'
    BY DEF SetupInv, VaultInitTypeOK, BeginEnsuring
<1>3. mishaps <= mishaps'
    BY <1>1 DEF SetupInv, VaultInitTypeOK
<1> QED  BY <1>1, <1>2, <1>3, NothingLands, PostsStay, Settles DEF SetupInv

LEMMA ListAttributesKeeps ==
    ASSUME SetupInv, NEW i \in Isolates, ListAttributes(i)
    PROVE  SetupInv'
<1>1. UNCHANGED <<history, opening, mishaps>> /\ mishaps <= mishaps'
    BY DEF ListAttributes, SetupInv, VaultInitTypeOK
<1>2. CASE MainTree.attributes
  <2>1. Len(history) > 0
      BY <1>2, MainIsLast DEF LastOf, NoTree, SetupInv, TreesOK
  <2>2. /\ UNCHANGED posts /\ ensured' = [ensured EXCEPT ![i] = TRUE] /\ EnsuringEnds(i)
      BY <1>2 DEF ListAttributes
  <2>3. VaultInitTypeOK'
      BY <1>1, <2>2 DEF SetupInv, VaultInitTypeOK, EnsuringEnds
  <2> QED  BY <1>1, <2>1, <2>2, <2>3, NothingLands, PostsStay, Settles
<1>3. CASE ~MainTree.attributes
  <2> DEFINE q == AttributesPost(i)
  <2>1. /\ UNCHANGED ensured /\ posts' = posts \cup {q}
        /\ ensuring' = [ensuring EXCEPT ![i].at = "post"]
      BY <1>3 DEF ListAttributes
  <2>2. /\ q \in Post /\ q.by = i /\ q.parent = 0 /\ q.salt = NoSalt /\ q.manifest = NoSalt
        /\ i \notin Pages
      BY SaltsDiffer DEF AttributesPost, Post
  <2> HIDE DEF q
  <2>3. VaultInitTypeOK'
      BY <1>1, <2>1, <2>2 DEF SetupInv, VaultInitTypeOK
  <2>4. PostsDiffer(posts')
      BY <2>1, <2>2 DEF SetupInv, PostsDiffer
  <2>5. PostOK(q, history) /\ Brings(q.manifest, posts, history)
      BY <2>2 DEF PostOK, Brings
  <2>6. \A c \in posts' : /\ PostOK(c, history') /\ Brings(c.manifest, posts, history)
                          /\ c.awaited /\ c.by \in Pages => c \in posts
      BY <1>1, <2>1, <2>2, <2>5, PostsStay
  <2> QED  BY <1>1, <2>1, <2>3, <2>4, <2>6, NothingLands, Settles DEF SetupInv
<1> QED  BY <1>2, <1>3

\* The requests that share a promise of an isolate are told that it failed.
LEMMA SharersTold ==
    ASSUME SetupInv, NEW i \in Isolates, EnsuringFails(i)
    PROVE  /\ opening' \in [Pages -> OpenPage]
           /\ ensuring' \in [Isolates -> [at : {"none", "list", "post"}, attempt : Nat]]
           /\ \A p \in Pages :
                  \/ opening'[p] = opening[p]
                  \/ /\ opening[p].step # "commit" /\ opening[p].tries > 0
                     /\ opening'[p] = Tell(opening[p], "failed")
<1>1. ensuring' \in [Isolates -> [at : {"none", "list", "post"}, attempt : Nat]]
    BY DEF EnsuringFails, EnsuringEnds, SetupInv, VaultInitTypeOK
<1>2. ASSUME NEW p \in Pages
      PROVE  /\ opening'[p] \in OpenPage
             /\ \/ opening'[p] = opening[p]
                \/ /\ opening[p].step # "commit" /\ opening[p].tries > 0
                   /\ opening'[p] = Tell(opening[p], "failed")
  <2>1. CASE opening[p].step = "ensure" /\ opening[p].isolate = i
    <3>1. opening'[p] = Tell(opening[p], "failed")
        BY <2>1 DEF EnsuringFails
    <3>2. opening[p] \in OpenPage /\ opening[p].tries > 0
        BY <2>1, PageParts DEF PageOK, OpenPage
    <3>3. Tell(opening[p], "failed") \in OpenPage
        BY <3>2 DEF Tell, OpenPage
    <3> QED  BY <2>1, <3>1, <3>2, <3>3
  <2>2. CASE ~(opening[p].step = "ensure" /\ opening[p].isolate = i)
      BY <2>2, PageParts DEF EnsuringFails
  <2> QED  BY <2>1, <2>2
<1> QED  BY <1>1, <1>2 DEF EnsuringFails

LEMMA ListFailsKeeps ==
    ASSUME SetupInv, NEW i \in Isolates, ListFails(i)
    PROVE  SetupInv'
<1>1. /\ UNCHANGED <<history, ensured, posts>> /\ EnsuringFails(i)
      /\ mishaps < MaxMishaps /\ mishaps' = mishaps + 1
    BY DEF ListFails, Mishap
<1>2. mishaps <= mishaps' /\ mishaps' \in 0 .. MaxMishaps
    BY <1>1, InitAssumption DEF SetupInv, VaultInitTypeOK, InitAssumption
<1>3. VaultInitTypeOK'
    BY <1>1, <1>2, SharersTold DEF SetupInv, VaultInitTypeOK
<1>4. ASSUME NEW p \in Pages
      PROVE  \/ opening'[p] = opening[p]
             \/ /\ \A q \in posts' : q.by = p => ~q.awaited
                /\ opening[p].tries > 0 /\ opening'[p] = Tell(opening[p], "failed")
    BY <1>1, SharersTold, PageAlone
<1> QED  BY <1>1, <1>2, <1>3, <1>4, NothingLands, PostsStay, Settles DEF SetupInv

\* A page waits for one commit.
LEMMA PageWaits ==
    ASSUME SetupInv, NEW c \in posts, c.awaited, c.by \in Pages
    PROVE  /\ opening[c.by].step = "commit" /\ opening[c.by].tries > 0
           /\ opening[c.by].told = "nothing" /\ opening[c.by].mode \in {"create", "unlock"}
           /\ opening[c.by].salt = c.manifest
           /\ \A q \in posts : q.by = c.by /\ q.awaited => q = c
<1>1. opening[c.by].step = "commit" /\ opening[c.by].salt = c.manifest
    BY DEF SetupInv, AskedByPage
<1>2. /\ opening[c.by].tries > 0 /\ opening[c.by].told = "nothing"
      /\ opening[c.by].mode \in {"create", "unlock"}
    BY <1>1, PageParts DEF PageOK, OpenPage
<1>3. \A q \in posts : q.by = c.by /\ q.awaited => q = c
    BY DEF SetupInv, PostsDiffer
<1> QED  BY <1>1, <1>2, <1>3

LEMMA MishapBounds ==
    ASSUME SetupInv, Mishap
    PROVE  mishaps <= mishaps' /\ mishaps' \in 0 .. MaxMishaps
  BY InitAssumption DEF SetupInv, VaultInitTypeOK, Mishap, InitAssumption

\* A page is told that its commit has failed, or tries it again.
LEMMA PageGivesUp ==
    ASSUME SetupInv, NEW p \in Pages, opening[p].tries > 0,
           SetPage(p, Tell(opening[p], "failed"))
    PROVE  /\ opening' \in [Pages -> OpenPage]
           /\ opening'[p] = Tell(opening[p], "failed")
           /\ \A o \in Pages : o # p => opening'[o] = opening[o]
<1>1. opening[p] \in OpenPage
    BY PageParts
<1>2. Tell(opening[p], "failed") \in OpenPage
    BY <1>1 DEF Tell, OpenPage
<1> QED  BY <1>2 DEF SetPage, SetupInv, VaultInitTypeOK

\* A commit fails, and is posted again, given up, or no longer waited for.
LEMMA CommitFails ==
    ASSUME SetupInv, NEW c \in posts, c.awaited, Mishap, UNCHANGED <<history, ensured>>,
           \/ posts' \subseteq posts
           \/ posts' \subseteq (posts \ {c}) \cup {Lost(c)}
           \/ c.by \in Isolates /\ posts' \subseteq posts \cup {Lost(c)},
           \/ c.by \in Isolates /\ EnsuringFails(c.by)
           \/ /\ c.by \in Isolates /\ UNCHANGED opening
              /\ ensuring' = [ensuring EXCEPT ![c.by].attempt = @ + 1]
           \/ /\ c.by \in Pages /\ UNCHANGED ensuring
              /\ posts' \subseteq (posts \ {c}) \cup {Lost(c)}
              /\ SetPage(c.by, Tell(opening[c.by], "failed"))
           \/ /\ c.by \in Pages /\ UNCHANGED <<ensuring, posts>>
              /\ SetPage(c.by, [opening[c.by] EXCEPT !.attempt = @ + 1])
    PROVE  SetupInv'
<1>1. /\ PostsDiffer(posts')
      /\ \A q \in posts' : /\ PostOK(q, history) /\ Brings(q.manifest, posts, history)
                           /\ q.awaited => q \in posts
    BY PostsDwindle
<1>2. posts' \subseteq Post
    BY <1>1 DEF PostOK
<1>3. CASE c.by \in Isolates /\ EnsuringFails(c.by)
  <2>1. VaultInitTypeOK'
      BY <1>2, <1>3, SharersTold, MishapBounds DEF SetupInv, VaultInitTypeOK
  <2>2. ASSUME NEW p \in Pages
        PROVE  \/ opening'[p] = opening[p]
               \/ /\ \A q \in posts' : q.by = p => ~q.awaited
                  /\ opening[p].tries > 0 /\ opening'[p] = Tell(opening[p], "failed")
      BY <1>1, <1>3, SharersTold, PageAlone
  <2> QED  BY <1>1, <2>1, <2>2, MishapBounds, NothingLands, Settles DEF SetupInv
<1>4. CASE /\ c.by \in Isolates /\ UNCHANGED opening
           /\ ensuring' = [ensuring EXCEPT ![c.by].attempt = @ + 1]
  <2>1. VaultInitTypeOK'
    <3> DEFINE Promise == [at : {"none", "list", "post"}, attempt : Nat]
    <3>1. ensuring \in [Isolates -> Promise] /\ ensuring[c.by] \in Promise
        BY <1>4 DEF SetupInv, VaultInitTypeOK
    <3>2. [ensuring[c.by] EXCEPT !.attempt = @ + 1] \in Promise
        BY <3>1
    <3>3. ensuring' \in [Isolates -> Promise]
        BY <1>4, <3>1, <3>2
    <3> QED  BY <1>2, <1>4, <3>3, MishapBounds DEF SetupInv, VaultInitTypeOK
  <2> QED  BY <1>1, <1>4, <2>1, MishapBounds, NothingLands, Settles DEF SetupInv
<1>5. CASE /\ c.by \in Pages /\ UNCHANGED ensuring
           /\ posts' \subseteq (posts \ {c}) \cup {Lost(c)}
           /\ SetPage(c.by, Tell(opening[c.by], "failed"))
  <2>1. /\ opening' \in [Pages -> OpenPage]
        /\ opening'[c.by] = Tell(opening[c.by], "failed") /\ opening[c.by].tries > 0
        /\ \A o \in Pages : o # c.by => opening'[o] = opening[o]
      BY <1>5, PageWaits, PageGivesUp
  <2>2. VaultInitTypeOK'
      BY <1>2, <1>5, <2>1, MishapBounds DEF SetupInv, VaultInitTypeOK
  <2>3. \A q \in posts' : q.by = c.by => ~q.awaited
    <3>1. c \in Post
        BY DEF SetupInv, PostOK
    <3>2. ~Lost(c).awaited
        BY <3>1 DEF Lost, Post
    <3> QED  BY <1>5, <3>2, PageWaits
  <2> QED  BY <1>1, <2>1, <2>2, <2>3, MishapBounds, NothingLands, Settles DEF SetupInv
<1>6. CASE /\ c.by \in Pages /\ UNCHANGED <<ensuring, posts>>
           /\ SetPage(c.by, [opening[c.by] EXCEPT !.attempt = @ + 1])
  <2> DEFINE page == [opening[c.by] EXCEPT !.attempt = @ + 1]
  <2>1. /\ page \in OpenPage /\ page.mode = opening[c.by].mode /\ page.step = opening[c.by].step
        /\ page.told = opening[c.by].told /\ page.tries = opening[c.by].tries
        /\ page.salt = opening[c.by].salt /\ page.head = opening[c.by].head
    <3>1. opening[c.by] \in OpenPage
        BY <1>6, PageParts
    <3> QED  BY <3>1 DEF OpenPage
  <2>2. SetPage(c.by, page)
      BY <1>6
  <2> HIDE DEF page
  <2>3. /\ opening' \in [Pages -> OpenPage]
        /\ \A o \in Pages : opening'[o] = IF o = c.by THEN page ELSE opening[o]
      BY <1>6, <2>1, <2>2 DEF SetPage, SetupInv, VaultInitTypeOK
  <2>4. VaultInitTypeOK'
      BY <1>2, <1>6, <2>3, MishapBounds DEF SetupInv, VaultInitTypeOK
  <2>5. ASSUME NEW p \in Pages
        PROVE  /\ opening'[p].mode = opening[p].mode /\ opening'[p].step = opening[p].step
               /\ opening'[p].told = opening[p].told /\ opening'[p].tries = opening[p].tries
               /\ opening'[p].salt = opening[p].salt /\ opening'[p].head = opening[p].head
      BY <2>1, <2>3
  <2> QED  BY <1>1, <2>4, <2>5, MishapBounds, NothingLands, Settles DEF SetupInv
<1> QED  BY <1>3, <1>4, <1>5, <1>6

LEMMA TooManyKeeps ==
    ASSUME SetupInv, NEW c \in posts, TooMany(c)
    PROVE  SetupInv'
<1>1. c.awaited /\ Mishap /\ UNCHANGED <<history, ensured>>
    BY DEF TooMany
<1>2. c.by \in Isolates \/ (c.by \in Pages /\ c.by \notin Isolates)
    BY SaltsDiffer DEF SetupInv, VaultInitTypeOK, Post
<1>3. CASE c.by \in Isolates
  <2>1. CASE LastAttempt(ensuring[c.by].attempt)
      BY <1>1, <1>3, <2>1, CommitFails DEF TooMany
  <2>2. CASE ~LastAttempt(ensuring[c.by].attempt)
      BY <1>1, <1>3, <2>2, CommitFails DEF TooMany
  <2> QED  BY <2>1, <2>2
<1>4. CASE c.by \in Pages /\ c.by \notin Isolates
  <2>1. CASE LastAttempt(opening[c.by].attempt)
      BY <1>1, <1>4, <2>1, CommitFails DEF TooMany
  <2>2. CASE ~LastAttempt(opening[c.by].attempt)
      BY <1>1, <1>4, <2>2, CommitFails DEF TooMany
  <2> QED  BY <2>1, <2>2
<1> QED  BY <1>2, <1>3, <1>4

LEMMA AmbiguousKeeps ==
    ASSUME SetupInv, NEW c \in posts, Ambiguous(c)
    PROVE  SetupInv'
<1>1. c.awaited /\ Mishap /\ UNCHANGED <<history, ensured>>
    BY DEF Ambiguous
<1>2. c.by \in Isolates \/ (c.by \in Pages /\ c.by \notin Isolates)
    BY SaltsDiffer DEF SetupInv, VaultInitTypeOK, Post
<1>3. CASE c.by \in Isolates
  <2>1. CASE LastAttempt(ensuring[c.by].attempt)
    <3>1. EnsuringFails(c.by) /\ posts' = (posts \ {c}) \cup {Lost(c)}
        BY <1>3, <2>1 DEF Ambiguous, Lost
    <3> QED  BY <1>1, <1>3, <3>1, CommitFails
  <2>2. CASE ~LastAttempt(ensuring[c.by].attempt)
    <3>1. /\ ensuring' = [ensuring EXCEPT ![c.by].attempt = @ + 1]
          /\ posts' = posts \cup {Lost(c)} /\ UNCHANGED opening
        BY <1>3, <2>2 DEF Ambiguous, Lost
    <3> QED  BY <1>1, <1>3, <3>1, CommitFails
  <2> QED  BY <2>1, <2>2
<1>4. CASE c.by \in Pages /\ c.by \notin Isolates
  <2>1. /\ SetPage(c.by, Tell(opening[c.by], "failed")) /\ UNCHANGED ensuring
        /\ posts' = (posts \ {c}) \cup {Lost(c)}
      BY <1>4 DEF Ambiguous, Lost
  <2> QED  BY <1>1, <1>4, <2>1, CommitFails
<1> QED  BY <1>2, <1>3, <1>4

\* The commit of an isolate lands.
LEMMA AttributesLand ==
    ASSUME SetupInv, NEW c \in posts, c.by \in Isolates, StoreTakes(c)
    PROVE  SetupInv'
<1> DEFINE tree == [LastOf(history) EXCEPT !.attributes = TRUE]
<1>1. /\ PostOK(c, history) /\ c.parent = 0 /\ c.by \notin Pages
      /\ TreesOK(history) /\ Len(history) \in Nat
    BY SaltsDiffer DEF SetupInv, PostOK, TreesOK
<1>2. history' = Append(history, tree)
    BY <1>1, MainIsLast DEF StoreTakes, Accepts, Applied
<1>3. /\ LastOf(history) \in Tree /\ Sound(LastOf(history))
      /\ LastOf(history).salt = OldSalt => Len(history) > 0
  <2>1. CASE Len(history) = 0
      BY <2>1, SaltsDiffer DEF LastOf, NoTree, Tree, Sound
  <2>2. CASE Len(history) # 0
    <3>1. Len(history) \in DOMAIN history
        BY <1>1, <2>2 DEF TreesOK
    <3> QED  BY <1>1, <2>2, <3>1, FollowsLast DEF TreesOK, LastOf
  <2> QED  BY <2>1, <2>2
<1>4. /\ tree \in Tree /\ tree.salt = LastOf(history).salt
      /\ tree.manifest = LastOf(history).manifest
    BY <1>3 DEF Tree
<1> HIDE DEF tree
<1>5. Sound(tree) /\ Follows(LastOf(history), tree)
    BY <1>3, <1>4 DEF Sound, Follows
<1>6. /\ Extends(history, history') /\ Len(history') = Len(history) + 1
      /\ DOMAIN history' = DOMAIN history \cup {Len(history) + 1}
      /\ history'[Len(history) + 1] = tree
      /\ \A r \in DOMAIN history : history'[r] = history[r]
    BY <1>1, <1>2, <1>3, <1>4, <1>5, AppendTree DEF Extends
<1>7. Brings(tree.manifest, posts, history)
  <2>1. CASE Len(history) = 0
      BY <1>4, <2>1 DEF LastOf, NoTree, Brings
  <2>2. CASE Len(history) # 0
    <3>1. Len(history) \in DOMAIN history /\ LastOf(history) = history[Len(history)]
        BY <1>1, <2>2 DEF TreesOK, LastOf
    <3> QED  BY <1>4, <3>1 DEF Brings
  <2> QED  BY <2>1, <2>2
<1>8. \A r \in DOMAIN history' : Brings(history'[r].manifest, posts, history)
    BY <1>6, <1>7 DEF Brings
<1>9. Len(history) = 0 => \A r \in DOMAIN history' : history'[r].salt # OldSalt
    BY <1>1, <1>3, <1>4, <1>6 DEF TreesOK
<1>10. ASSUME NEW q \in posts' PROVE /\ PostOK(q, history') /\ Brings(q.manifest, posts, history)
                                     /\ q \in posts
  <2>1. q \in posts /\ PostOK(q, history) /\ Brings(q.manifest, posts, history)
      BY PostsStay DEF StoreTakes
  <2>2. ASSUME q.by \in Pages, q.manifest # OldSalt
        PROVE  tree.manifest # q.manifest
    <3>1. Len(history) \in DOMAIN history /\ LastOf(history) = history[Len(history)]
        BY <1>1, <2>1, <2>2 DEF PostOK, TreesOK, LastOf
    <3> QED  BY <1>4, <2>1, <2>2, <3>1 DEF PostOK
  <2> QED  BY <1>6, <2>1, <2>2 DEF PostOK
<1>11. PostsDiffer(posts')
    BY DEF SetupInv, PostsDiffer, StoreTakes
<1>12. /\ UNCHANGED <<opening, mishaps>>
       /\ \/ UNCHANGED <<ensured, ensuring>>
          \/ ensured' = [ensured EXCEPT ![c.by] = TRUE] /\ EnsuringEnds(c.by)
    BY <1>1 DEF StoreTakes, AnswerPost
<1>13. VaultInitTypeOK'
  <2>1. history' \in Seq(Tree) /\ posts' \subseteq Post
      BY <1>6, <1>10 DEF Extends, TreesOK, PostOK
  <2>2. /\ ensured' \in [Isolates -> BOOLEAN]
        /\ ensuring' \in [Isolates -> [at : {"none", "list", "post"}, attempt : Nat]]
    <3>1. CASE UNCHANGED <<ensured, ensuring>>
        BY <3>1 DEF SetupInv, VaultInitTypeOK
    <3>2. CASE ensured' = [ensured EXCEPT ![c.by] = TRUE] /\ EnsuringEnds(c.by)
      <4>1. ensured' \in [Isolates -> BOOLEAN]
          BY <3>2 DEF SetupInv, VaultInitTypeOK
      <4>2. ensuring' \in [Isolates -> [at : {"none", "list", "post"}, attempt : Nat]]
          BY <3>2 DEF SetupInv, VaultInitTypeOK, EnsuringEnds
      <4> QED  BY <4>1, <4>2
    <3> QED  BY <1>12, <3>1, <3>2
  <2> QED  BY <1>12, <2>1, <2>2 DEF SetupInv, VaultInitTypeOK
<1>14. mishaps <= mishaps' /\ \A i \in Isolates : ensured'[i] => Len(history') > 0
    BY <1>1, <1>6, <1>12 DEF SetupInv, VaultInitTypeOK
<1> QED
    BY <1>6, <1>8, <1>9, <1>10, <1>11, <1>12, <1>13, <1>14, Settles

\* The commit of a page is answered, and the page told.
LEMMA PageHears ==
    ASSUME SetupInv, NEW c \in posts, c.by \in Pages, NEW what \in {"ok", "VAULT_STALE"},
           c.awaited => SetPage(c.by, Tell(opening[c.by], what)),
           ~c.awaited => UNCHANGED opening
    PROVE  /\ opening' \in [Pages -> OpenPage]
           /\ \A p \in Pages :
                  \/ opening'[p] = opening[p]
                  \/ /\ c.awaited /\ p = c.by
                     /\ opening'[p].mode = opening[p].mode /\ opening'[p].step = "idle"
                     /\ opening'[p].told = what /\ opening'[p].tries = opening[p].tries
                     /\ opening'[p].salt = opening[p].salt
<1>1. CASE ~c.awaited
    BY <1>1 DEF SetupInv, VaultInitTypeOK
<1>2. CASE c.awaited
  <2> DEFINE page == Tell(opening[c.by], what)
  <2>1. /\ page \in OpenPage /\ page.mode = opening[c.by].mode /\ page.step = "idle"
        /\ page.told = what /\ page.tries = opening[c.by].tries
        /\ page.salt = opening[c.by].salt
    <3>1. opening[c.by] \in OpenPage
        BY PageParts
    <3> QED  BY <3>1 DEF OpenPage, Tell
  <2>2. SetPage(c.by, page)
      BY <1>2
  <2> HIDE DEF page
  <2>3. /\ opening' \in [Pages -> OpenPage]
        /\ \A o \in Pages : opening'[o] = IF o = c.by THEN page ELSE opening[o]
      BY <2>1, <2>2 DEF SetPage, SetupInv, VaultInitTypeOK
  <2> QED  BY <1>2, <2>1, <2>3
<1> QED  BY <1>1, <1>2

\* The commit of a page is refused: the branch has moved on.
LEMMA PageRefused ==
    ASSUME SetupInv, NEW c \in posts, c.by \in Pages, StoreTakes(c), ~Accepts(c)
    PROVE  SetupInv'
<1>1. c.by \notin Isolates /\ c \in Post /\ PostOK(c, history)
    BY SaltsDiffer DEF SetupInv, PostOK
<1>2. /\ UNCHANGED <<history, ensured, ensuring, mishaps>> /\ posts' = posts \ {c}
      /\ c.awaited => SetPage(c.by, Tell(opening[c.by], "VAULT_STALE"))
      /\ ~c.awaited => UNCHANGED opening
    BY <1>1 DEF StoreTakes, AnswerPost
<1>3. /\ opening' \in [Pages -> OpenPage]
      /\ \A p \in Pages :
             \/ opening'[p] = opening[p]
             \/ /\ c.awaited /\ p = c.by
                /\ opening'[p].mode = opening[p].mode /\ opening'[p].step = "idle"
                /\ opening'[p].told = "VAULT_STALE" /\ opening'[p].tries = opening[p].tries
                /\ opening'[p].salt = opening[p].salt
    BY <1>2, PageHears
<1>4. VaultInitTypeOK' /\ mishaps <= mishaps'
    BY <1>2, <1>3 DEF SetupInv, VaultInitTypeOK
<1>5. /\ PostsDiffer(posts')
      /\ \A q \in posts' : /\ PostOK(q, history) /\ Brings(q.manifest, posts, history)
                           /\ q.awaited => q \in posts
    BY <1>2, PostsDwindle
<1>6. ASSUME c.manifest # OldSalt
      PROVE  Unused(c.manifest, posts', history)
    BY <1>1, <1>2, <1>6 DEF Unused, PostOK, SetupInv, PostsDiffer
<1>7. ASSUME NEW p \in Pages, opening'[p] # opening[p]
      PROVE  /\ \A q \in posts' : q.by = p => ~q.awaited
             /\ opening[p].tries > 0
             /\ PageOK(p, opening'[p], history) /\ SaltsLeft(p, opening'[p], posts', history)
             /\ opening'[p].tries = opening[p].tries
  <2>1. /\ c.awaited /\ p = c.by
        /\ opening'[p].mode = opening[p].mode /\ opening'[p].step = "idle"
        /\ opening'[p].told = "VAULT_STALE" /\ opening'[p].tries = opening[p].tries
        /\ opening'[p].salt = opening[p].salt
      BY <1>3, <1>7
  <2>2. /\ opening[p].step = "commit" /\ opening[p].tries > 0 /\ opening[p].salt = c.manifest
        /\ opening[p].mode \in {"create", "unlock"}
        /\ \A q \in posts' : q.by = p => ~q.awaited
      BY <1>2, <2>1, PageWaits
  <2>3. opening'[p] \in OpenPage
      BY <1>3
  <2>4. PageOK(p, opening'[p], history)
      BY <2>1, <2>2, <2>3, PageParts DEF PageOK, Asked
  <2>5. SaltsLeft(p, opening[p], posts', history)
      BY <1>5, PageParts, SaltsStayLeft DEF Brings
  <2>6. SaltsLeft(p, opening'[p], posts', history)
      BY <1>6, <2>1, <2>2, <2>5 DEF SaltsLeft
  <2> QED  BY <2>1, <2>2, <2>4, <2>6
<1> QED  BY <1>2, <1>4, <1>5, <1>7, NothingLands, Settles DEF SetupInv

\* The commit of a page lands.
LEMMA PageLands ==
    ASSUME SetupInv, NEW c \in posts, c.by \in Pages, StoreTakes(c), Accepts(c)
    PROVE  SetupInv'
<1> DEFINE last == LastOf(history)
           tree == [last EXCEPT !.manifest = c.manifest,
                                !.salt = IF c.salt = NoSalt THEN @ ELSE c.salt]
<1>1. /\ c.by \notin Isolates /\ c \in Post /\ PostOK(c, history)
      /\ TreesOK(history) /\ Len(history) \in Nat /\ DOMAIN history = 1 .. Len(history)
    BY SaltsDiffer DEF SetupInv, PostOK, TreesOK
<1>2. c.parent = Len(history) /\ Len(history) \in DOMAIN history
    BY <1>1 DEF PostOK, Accepts, Revision
<1>3. /\ last = history[Len(history)] /\ last \in Tree /\ Sound(last)
      /\ last.manifest = NoSalt /\ c.manifest # NoSalt
      /\ last.salt = NoSalt => c.salt = c.manifest /\ c.manifest # OldSalt
      /\ last.salt # NoSalt => c.salt = NoSalt /\ c.manifest = last.salt
    BY <1>1, <1>2, FollowsLast DEF PostOK, TreesOK
<1>4. history' = Append(history, tree)
    BY <1>1, MainIsLast DEF StoreTakes, Applied
<1>5. /\ tree \in Tree /\ tree.manifest = c.manifest
      /\ tree.salt = IF c.salt = NoSalt THEN last.salt ELSE c.salt
    BY <1>1, <1>3 DEF Tree, Post
<1> HIDE DEF tree
<1>6. /\ Sound(tree) /\ Follows(last, tree) /\ tree.salt = c.manifest
      /\ tree.salt = OldSalt => last.salt = OldSalt
    BY <1>3, <1>5 DEF Sound, Follows
<1>7. /\ Extends(history, history') /\ LastOf(history') = tree
      /\ DOMAIN history' = DOMAIN history \cup {Len(history) + 1}
      /\ history'[Len(history) + 1] = tree
      /\ \A r \in DOMAIN history : history'[r] = history[r]
      /\ Len(history') = Len(history) + 1
    BY <1>1, <1>2, <1>4, <1>5, <1>6, AppendTree DEF Extends
<1>8. \A r \in DOMAIN history' : Brings(history'[r].manifest, posts, history)
    BY <1>5, <1>7 DEF Brings
<1>9. /\ UNCHANGED <<ensured, ensuring, mishaps>> /\ posts' = posts \ {c}
      /\ c.awaited => SetPage(c.by, Tell(opening[c.by], "ok"))
      /\ ~c.awaited => UNCHANGED opening
    BY <1>1 DEF StoreTakes, AnswerPost
<1>10. ASSUME NEW q \in posts' PROVE /\ PostOK(q, history') /\ Brings(q.manifest, posts, history)
                                     /\ q \in posts
  <2>1. /\ q \in posts /\ q # c /\ PostOK(q, history) /\ Brings(q.manifest, posts, history)
      BY <1>9, PostsStay
  <2>2. q.by \in Pages /\ q.manifest # OldSalt => tree.manifest # q.manifest
      BY <1>5, <2>1 DEF SetupInv, PostsDiffer, PostOK
  <2> QED  BY <1>7, <2>1, <2>2 DEF PostOK
<1>11. PostsDiffer(posts')
    BY <1>9 DEF SetupInv, PostsDiffer
<1>12. /\ opening' \in [Pages -> OpenPage]
       /\ \A p \in Pages :
              \/ opening'[p] = opening[p]
              \/ /\ c.awaited /\ p = c.by
                 /\ opening'[p].mode = opening[p].mode /\ opening'[p].step = "idle"
                 /\ opening'[p].told = "ok" /\ opening'[p].tries = opening[p].tries
                 /\ opening'[p].salt = opening[p].salt
    BY <1>9, PageHears
<1>13. VaultInitTypeOK' /\ mishaps <= mishaps'
    BY <1>7, <1>9, <1>12 DEF SetupInv, VaultInitTypeOK, Extends, TreesOK
<1>14. ASSUME NEW p \in Pages, opening'[p] # opening[p]
       PROVE  /\ \A q \in posts' : q.by = p => ~q.awaited
              /\ opening[p].tries > 0
              /\ PageOK(p, opening'[p], history') /\ SaltsLeft(p, opening'[p], posts', history')
              /\ opening'[p].tries = opening[p].tries
  <2>1. /\ c.awaited /\ p = c.by
        /\ opening'[p].mode = opening[p].mode /\ opening'[p].step = "idle"
        /\ opening'[p].told = "ok" /\ opening'[p].tries = opening[p].tries
        /\ opening'[p].salt = opening[p].salt
      BY <1>12, <1>14
  <2>2. /\ opening[p].step = "commit" /\ opening[p].tries > 0 /\ opening[p].salt = c.manifest
        /\ opening[p].mode \in {"create", "unlock"}
        /\ \A q \in posts' : q.by = p => ~q.awaited
      BY <1>9, <2>1, PageWaits
  <2>3. opening'[p] \in OpenPage
      BY <1>12
  <2>4. PageOK(p, opening[p], history')
      BY <1>2, <1>7, PageParts, PageStaysOK
  <2>5. PageOK(p, opening'[p], history')
      BY <1>3, <1>5, <1>7, <2>1, <2>2, <2>3, <2>4 DEF PageOK, Asked
  <2>6. SaltsLeft(p, opening[p], posts', history')
      BY <1>8, <1>10, PageParts, SaltsStayLeft
  <2>7. SaltsLeft(p, opening'[p], posts', history')
      BY <2>1, <2>6 DEF SaltsLeft
  <2> QED  BY <2>1, <2>2, <2>5, <2>7
<1>15. /\ Len(history) = 0 => \A r \in DOMAIN history' : history'[r].salt # OldSalt
       /\ \A i \in Isolates : ensured'[i] => Len(history') > 0
    BY <1>1, <1>2, <1>7
<1> QED  BY <1>7, <1>8, <1>10, <1>11, <1>13, <1>14, <1>15, Settles

LEMMA StoreTakesKeeps ==
    ASSUME SetupInv, NEW c \in posts, StoreTakes(c)
    PROVE  SetupInv'
<1>1. c.by \in Pages \/ c.by \in Isolates
    BY DEF SetupInv, VaultInitTypeOK, Post
<1> QED  BY <1>1, AttributesLand, PageRefused, PageLands

(***************************************************************************)
(* The invariant holds, and what it says of the vault and of the pages.    *)
(***************************************************************************)
LEMMA InitHasInv == VaultInitInit => SetupInv
<1> SUFFICES ASSUME VaultInitInit PROVE SetupInv
    OBVIOUS
<1>1. /\ NoTree \in Tree /\ [NoTree EXCEPT !.attributes = TRUE] \in Tree
      /\ [NoTree EXCEPT !.salt = OldSalt] \in Tree
    BY DEF NoTree, Tree, Salts
<1>2. TreesOK(history) /\ \A r \in DOMAIN history : history[r].manifest = NoSalt
  <2>1. CASE history = <<>>
      BY <2>1 DEF TreesOK
  <2>2. CASE history = <<[NoTree EXCEPT !.attributes = TRUE]>>
      BY <1>1, <2>2 DEF TreesOK, Sound, Follows, NoTree
  <2>3. CASE history = <<[NoTree EXCEPT !.salt = OldSalt]>>
      BY <1>1, <2>3 DEF TreesOK, Sound, Follows, NoTree
  <2> QED  BY <2>1, <2>2, <2>3 DEF VaultInitInit
<1>3. (CHOOSE i \in Isolates : TRUE) \in Isolates
    BY InitAssumption DEF InitAssumption
<1>4. ASSUME NEW p \in Pages
      PROVE  /\ opening[p] \in OpenPage /\ opening[p].mode = "checking" /\ opening[p].step = "idle"
             /\ opening[p].told = "nothing" /\ opening[p].tries = 0
    BY <1>3, InitAssumption DEF VaultInitInit, OpenPage, InitAssumption
<1>5. VaultInitTypeOK
    BY <1>2, <1>4, InitAssumption DEF VaultInitInit, VaultInitTypeOK, TreesOK, InitAssumption
<1>6. ASSUME NEW p \in Pages
      PROVE  /\ PageOK(p, opening[p], history) /\ SaltsLeft(p, opening[p], posts, history)
             /\ opening[p].tries <= mishaps + 1
  <2>1. PageOK(p, opening[p], history)
      BY <1>4 DEF PageOK, Asked
  <2>2. SaltsLeft(p, opening[p], posts, history)
      BY <1>2, <1>4, SaltsDiffer DEF SaltsLeft, Unused, VaultInitInit
  <2> QED  BY <1>4, <2>1, <2>2 DEF VaultInitInit
<1> QED  BY <1>2, <1>5, <1>6 DEF SetupInv, VaultInitInit, PostsDiffer

LEMMA NextKeeps == SetupInv /\ [VaultInitNext]_initVars => SetupInv'
<1> SUFFICES ASSUME SetupInv, [VaultInitNext]_initVars PROVE SetupInv'
    OBVIOUS
<1>1. CASE UNCHANGED initVars
    BY <1>1
    DEF initVars, SetupInv, VaultInitTypeOK, TreesOK, PageOK, SaltsLeft, PostOK, AskedByPage,
        PostsDiffer, Unused, LastOf, Sound, Follows
<1>2. ASSUME NEW p \in Pages, Probe(p) \/ Submit(p) \/ PageSteps(p) \/ ReadFails(p)
      PROVE  SetupInv'
    BY <1>2, ProbeKeeps, SubmitKeeps, ReadManifestKeeps, BeginEnsuringKeeps, EnsuredKeeps,
       ReadHeadKeeps, ReadTreeKeeps, ReadFailsKeeps DEF PageSteps
<1>3. ASSUME NEW i \in Isolates, ListAttributes(i) \/ ListFails(i)
      PROVE  SetupInv'
    BY <1>3, ListAttributesKeeps, ListFailsKeeps
<1>4. ASSUME NEW c \in posts, StoreTakes(c) \/ TooMany(c) \/ Ambiguous(c)
      PROVE  SetupInv'
    BY <1>4, StoreTakesKeeps, TooManyKeeps, AmbiguousKeeps
<1> QED  BY <1>1, <1>2, <1>3, <1>4 DEF VaultInitNext

LEMMA SetupKept == VaultInitSpec => []SetupInv
<1>1. VaultInitInit => SetupInv
    BY InitHasInv
<1>2. SetupInv /\ [VaultInitNext]_initVars => SetupInv'
    BY NextKeeps
<1> QED  BY <1>1, <1>2, PTL DEF VaultInitSpec

LEMMA SetupIsJust == SetupInv => VaultInitIsJust
<1> SUFFICES ASSUME SetupInv PROVE VaultInitIsJust
    OBVIOUS
<1>1. TreesOK(history)
    BY DEF SetupInv
<1>2. CreatedOnce
  <2> SUFFICES ASSUME NEW r \in DOMAIN history, NEW later \in DOMAIN history,
                      r <= later, history[r].manifest # NoSalt
               PROVE  /\ history[later].manifest = history[r].manifest
                      /\ history[later].salt = history[r].salt
      BY DEF CreatedOnce
  <2> QED  BY <1>1 DEF TreesOK, Follows, Sound
<1>3. SaltFits
    BY <1>1 DEF SaltFits, TreesOK, Sound
<1>4. ToldTheTruth
  <2> SUFFICES ASSUME NEW p \in Pages
               PROVE  /\ opening[p].told = "ok" => MainTree.manifest = opening[p].salt
                      /\ opening[p].told = "VAULT_INITIALIZED" => MainTree.manifest # NoSalt
                      /\ opening[p].told = "VAULT_STALE" /\ opening[p].salt # OldSalt =>
                             /\ MainTree.manifest # opening[p].salt
                             /\ \A post \in posts : post.manifest # opening[p].salt
                      /\ opening[p].told # "wrong_passphrase"
      BY DEF ToldTheTruth
  <2>1. PageOK(p, opening[p], history) /\ SaltsLeft(p, opening[p], posts, history)
      BY PageParts
  <2>2. ASSUME opening[p].told = "VAULT_STALE", opening[p].salt # OldSalt
        PROVE  /\ LastOf(history).manifest # opening[p].salt
               /\ \A post \in posts : post.manifest # opening[p].salt
    <3>1. Unused(opening[p].salt, posts, history)
        BY <2>1, <2>2 DEF SaltsLeft
    <3>2. opening[p].salt # NoSalt
      <4>1. opening[p].mode = "create" /\ opening[p].tries \in 1 .. MaxMishaps + 1
        <5>1. /\ opening[p].mode \in {"checking", "create", "unlock"}
              /\ opening[p].tries \in 0 .. MaxMishaps + 1 /\ opening[p].tries # 0
            BY <2>1, <2>2 DEF PageOK, OpenPage
        <5>2. opening[p].mode = "create"
            BY <2>1, <2>2, <5>1 DEF PageOK
        <5> QED  BY <5>1, <5>2, PageParts
      <4>2. opening[p].salt = <<p, opening[p].tries>>
          BY <2>1, <4>1 DEF PageOK
      <4> QED  BY <4>1, <4>2, SaltsDiffer
    <3>3. CASE Len(history) = 0
        BY <3>1, <3>2, <3>3 DEF LastOf, NoTree, Unused
    <3>4. CASE Len(history) # 0
      <4>1. Len(history) \in DOMAIN history
          BY <1>1, <3>4 DEF TreesOK
      <4> QED  BY <3>1, <3>4, <4>1 DEF LastOf, Unused
    <3> QED  BY <3>1, <3>3, <3>4 DEF Unused
  <2> QED  BY <2>1, <2>2, MainIsLast DEF PageOK
<1> QED  BY <1>2, <1>3, <1>4 DEF VaultInitIsJust

\* The variables keep their types: a page is told one of the answers the
\* Worker gives, and the branch is a sequence of trees.
THEOREM SetupTypesKept == VaultInitSpec => []VaultInitTypeOK
<1>1. SetupInv => VaultInitTypeOK
    BY DEF SetupInv
<1> QED  BY <1>1, SetupKept, PTL

\* A vault is created once, with the salt of its key beside it, and each
\* page is told the truth of it, for any number of pages, isolates of the
\* Worker, commit attempts and mishaps (worker/index.js, Unlock.jsx).
THEOREM SetupStaysJust == VaultInitSpec => []VaultInitIsJust
  BY SetupKept, SetupIsJust, PTL

-----------------------------------------------------------------------------
(***************************************************************************)
(* All parts together.                                                     *)
(***************************************************************************)
\* A step of the whole is a step of each part or leaves it as it was.
PartsStep ==
    /\ part' = part
    /\ [StreamNext]_streamVars
    /\ [AccessNext]_accessVars
    /\ [VaultInitNext]_initVars
    /\ [WorkerUploadNext]_uploadVars
    /\ header' = header

LEMMA StepOfParts == [Next]_vars => PartsStep
<1> SUFFICES ASSUME [Next]_vars PROVE PartsStep  OBVIOUS
<1>1. CASE part = "plans" /\ PlansNext
           /\ UNCHANGED <<part, streamVars, accessVars, initVars, uploadVars>>
  <2>1. header' = header
    BY <1>1 DEF PlansNext, AddPage, AddPointer, Finish
  <2> QED  BY <1>1, <2>1 DEF PartsStep
<1>2. CASE StreamNext /\ UNCHANGED <<part, inputs, accessVars, initVars, uploadVars>>
  BY <1>2 DEF PartsStep, inputs
<1>3. CASE AccessNext /\ UNCHANGED <<part, inputs, streamVars, initVars, uploadVars>>
  BY <1>3 DEF PartsStep, inputs
<1>4. CASE VaultInitNext /\ UNCHANGED <<part, inputs, streamVars, accessVars, uploadVars>>
  BY <1>4 DEF PartsStep, inputs
<1>5. CASE WorkerUploadNext /\ UNCHANGED <<part, inputs, streamVars, accessVars, initVars>>
  BY <1>5 DEF PartsStep, inputs
<1>6. CASE UNCHANGED vars
  BY <1>6 DEF PartsStep, vars, inputs
<1> QED  BY <1>1, <1>2, <1>3, <1>4, <1>5, <1>6 DEF Next

\* Every part behaves as it does alone.
LEMMA PartsAlone ==
    Spec => StreamSpec /\ AccessSpec /\ VaultInitSpec /\ WorkerUploadSpec
<1>1. Init => StreamInit /\ AccessInit /\ VaultInitInit /\ WorkerUploadInit
  BY DEF Init
<1>2. [Next]_vars => /\ [StreamNext]_streamVars
                     /\ [AccessNext]_accessVars
                     /\ [VaultInitNext]_initVars
                     /\ [WorkerUploadNext]_uploadVars
  BY StepOfParts DEF PartsStep
<1> QED  BY <1>1, <1>2, PTL
         DEF Spec, StreamSpec, AccessSpec, VaultInitSpec, WorkerUploadSpec

\* The header asked about in a behaviour about ranges stays what it is.
HeaderInv == header \in Headers

LEMMA HeaderStays == Spec => []HeaderInv
<1>1. Init => HeaderInv  BY DEF Init, HeaderInv, Headers
<1>2. HeaderInv /\ [Next]_vars => HeaderInv'
  BY StepOfParts DEF PartsStep, HeaderInv
<1> QED  BY <1>1, <1>2, PTL DEF Spec

\* Whatever the size of the medium and of its chunks, a Range header is
\* refused exactly when it names no byte of the medium, the range of one that
\* is not consists of the bytes it names, and a response carries those.
THEOREM RangesStayRight == Spec => []RangesRight
<1>1. ASSUME HeaderInv, RangeServed
      PROVE  RangesRight
  <2>1. header \in AnyHeader
    <3>1. MediaSize + 1 \in Nat  BY StreamAssumption
    <3>2. (0 .. MediaSize + 1) \cup {Absent} \subseteq Nat \cup {Absent}  BY <3>1
    <3> QED  BY <1>1, <3>2 DEF HeaderInv, Headers, AnyHeader
  <2>2. Requested(header) = IF ParseRange(header) = Absent THEN {}
                            ELSE ParseRange(header).start .. ParseRange(header).end
    BY <2>1, RequestedRange, RefusedRange
  <2> QED  BY <1>1, <2>2 DEF RangesRight
<1>2. HeaderInv /\ RangeServed => RangesRight  BY <1>1
<1> QED  BY <1>2, PartsAlone, HeaderStays, RangesAreServed, PTL

\* Every part keeps to its types, for every value of the constants.
THEOREM PartsKeepTypes == Spec => []PartsTypeOK
<1>1. /\ HeaderInv /\ StreamTypeOK /\ AccessTypeOK
      /\ VaultInitTypeOK /\ WorkerUploadTypeOK
      => PartsTypeOK
  BY DEF PartsTypeOK, HeaderInv
<1> QED  BY <1>1, PartsAlone, HeaderStays, StreamTypesKept, AccessTypesKept,
            SetupTypesKept, UploadTypesKept, PTL

-----------------------------------------------------------------------------
(***************************************************************************)
(* The two algorithms that cut a publication up.  The theorem is about     *)
(* every request and every batch, of any size: the planner's arithmetic    *)
(* first, then what its batches hold, then the loop of the grouping as it  *)
(* takes one item after another.                                           *)
(***************************************************************************)

\* The division rounds up.
LEMMA Ceiling ==
    ASSUME NEW a \in Nat, NEW b \in Nat \ {0}
    PROVE  /\ (a + b - 1) \div b \in Nat
           /\ a <= ((a + b - 1) \div b) * b
           /\ ((a + b - 1) \div b) * b <= a + b - 1
  OBVIOUS

LEMMA Products ==
    ASSUME NEW i \in Nat, NEW j \in Nat, NEW b \in Nat
    PROVE  /\ i * b \in Nat /\ (i + 1) * b = i * b + b
           /\ i <= j => i * b <= j * b
<1>1. i * b \in Nat /\ (i + 1) * b = i * b + b  OBVIOUS
<1>2. i <= j => i * b <= j * b  OBVIOUS
<1> QED  BY <1>1, <1>2

LEMMA ProductsBound ==
    ASSUME NEW i \in Nat, NEW j \in Nat, NEW b \in Nat \ {0}, i * b < j * b + b
    PROVE  i <= j
OBVIOUS

\* The planner's arithmetic, for any number of metadata files and pointers.
LEMMA PlanCounts ==
    ASSUME NEW m \in Nat \ {0}, NEW p \in Nat
    PROVE  /\ BatchCount(m, p) \in Nat \ {0} /\ EarlyBatchCount(m, p) \in Nat
           /\ EarlyPointerCount(m, p) = MinOf(p, EarlyBatchCount(m, p) * MaxOps)
           /\ EarlyPointerCount(m, p) \in 0 .. p
           /\ FinalPointerCount(m, p) = p - EarlyPointerCount(m, p)
           /\ m <= MaxOps => m + FinalPointerCount(m, p) <= MaxOps
           /\ m <= MaxOps /\ EarlyBatchCount(m, p) # 0 =>
                  (EarlyBatchCount(m, p) - 1) * MaxOps < EarlyPointerCount(m, p)
<1> DEFINE n == BatchCount(m, p)
           k == EarlyBatchCount(m, p)
<1>1. MaxOps \in Nat \ {0} /\ m + p \in Nat  BY MaxOpsAssumption
<1>2. n \in Nat /\ m + p <= n * MaxOps /\ n * MaxOps <= m + p + MaxOps - 1
  BY <1>1, Ceiling DEF BatchCount
<1>3. k = n - 1  BY DEF EarlyBatchCount
<1> HIDE DEF n
<1>4. n # 0
  <2>1. n = 0 => n * MaxOps = 0  BY <1>1
  <2> QED  BY <1>1, <1>2, <2>1
<1>5. k \in Nat /\ n = k + 1  BY <1>2, <1>3, <1>4
<1>6. k * MaxOps \in Nat /\ n * MaxOps = k * MaxOps + MaxOps  BY <1>1, <1>5, Products
<1> DEFINE cap == k * MaxOps
           F == FinalPointerCount(m, p)
           E == EarlyPointerCount(m, p)
<1>7. F = MaxOf(0, p - cap) /\ E = p - F  BY DEF FinalPointerCount, EarlyPointerCount
<1>8. k # 0 => (k - 1) * MaxOps = cap - MaxOps
  <2>1. SUFFICES ASSUME k # 0 PROVE (k - 1) * MaxOps = cap - MaxOps  OBVIOUS
  <2>2. k - 1 \in Nat /\ (k - 1) + 1 = k  BY <1>5, <2>1
  <2> DEFINE j == k - 1
  <2> HIDE DEF j
  <2>3. j \in Nat /\ j + 1 = k  BY <2>2 DEF j
  <2>4. j * MaxOps \in Nat /\ k * MaxOps = j * MaxOps + MaxOps  BY <1>1, <2>3, Products
  <2> QED  BY <1>1, <2>4 DEF j
<1> DEFINE less == (k - 1) * MaxOps
<1> HIDE DEF cap, F, E, k, less
<1>9. cap \in Nat /\ n * MaxOps = cap + MaxOps /\ (k # 0 => less = cap - MaxOps)
  BY <1>6, <1>8 DEF cap, less
<1>10. /\ m + p <= cap + MaxOps /\ cap + MaxOps <= m + p + MaxOps - 1
  BY <1>2, <1>9
<1>11. F = (IF p - cap > 0 THEN p - cap ELSE 0) /\ F \in 0 .. p
  BY <1>7, <1>9 DEF MaxOf
<1>12. E \in 0 .. p /\ F = p - E /\ E = MinOf(p, cap)
  <2>1. E = p - F  BY <1>7
  <2>2. E \in 0 .. p /\ F = p - E  BY <1>11, <2>1
  <2>3. CASE p - cap > 0  BY <1>9, <1>11, <2>1, <2>2, <2>3 DEF MinOf
  <2>4. CASE ~(p - cap > 0)  BY <1>9, <1>11, <2>1, <2>2, <2>4 DEF MinOf
  <2> QED  BY <2>2, <2>3, <2>4
<1>13. m <= MaxOps => m + F <= MaxOps  BY <1>1, <1>10, <1>9, <1>11
<1>14. m <= MaxOps /\ k # 0 => less < E
  <2>1. m <= MaxOps => cap - MaxOps < p  BY <1>1, <1>9, <1>10
  <2>2. cap - MaxOps < cap  BY <1>1, <1>9
  <2>3. E = p \/ E = cap  BY <1>12 DEF MinOf
  <2> QED  BY <1>9, <2>1, <2>2, <2>3
<1> QED  BY <1>2, <1>4, <1>5, <1>12, <1>13, <1>14 DEF cap, F, E, k, n, less

LEMMA PlanOffsets ==
    ASSUME NEW m \in Nat \ {0}, NEW p \in Nat
    PROVE  /\ EarlyOffset(m, p, 0) = 0
           /\ EarlyOffset(m, p, EarlyBatchCount(m, p)) = EarlyPointerCount(m, p)
           /\ \A i \in 0 .. EarlyBatchCount(m, p) :
                  EarlyOffset(m, p, i) \in 0 .. EarlyPointerCount(m, p)
           /\ \A i \in 1 .. EarlyBatchCount(m, p) :
                  /\ EarlyTake(m, p, i - 1) =
                         MinOf(MaxOps, EarlyPointerCount(m, p) - EarlyOffset(m, p, i - 1))
                  /\ EarlyOffset(m, p, i) = EarlyOffset(m, p, i - 1) + EarlyTake(m, p, i - 1)
                  /\ EarlyTake(m, p, i - 1) \in 0 .. MaxOps
                  /\ m <= MaxOps => EarlyTake(m, p, i - 1) # 0
<1> DEFINE k == EarlyBatchCount(m, p)
           E == EarlyPointerCount(m, p)
           O(i) == EarlyOffset(m, p, i)
           T(i) == EarlyTake(m, p, i)
<1>1. /\ MaxOps \in Nat \ {0} /\ k \in Nat /\ E \in 0 .. p /\ E \in Nat
      /\ E = MinOf(p, k * MaxOps)
      /\ m <= MaxOps /\ k # 0 => (k - 1) * MaxOps < E
  BY PlanCounts, MaxOpsAssumption
<1>2. \A i : O(i) = MinOf(i * MaxOps, E)  BY DEF EarlyOffset
<1>3. \A i : T(i) = MinOf(MaxOps, E - O(i))  BY DEF EarlyTake
<1> HIDE DEF k, E, O, T
<1>4. \A i \in Nat : i * MaxOps \in Nat /\ O(i) \in 0 .. E
  <2> SUFFICES ASSUME NEW i \in Nat PROVE i * MaxOps \in Nat /\ O(i) \in 0 .. E  OBVIOUS
  <2>1. i * MaxOps \in Nat  BY <1>1, Products
  <2> DEFINE c == i * MaxOps
  <2> HIDE DEF c
  <2>2. O(i) = MinOf(c, E) /\ c \in Nat  BY <1>2, <2>1 DEF c
  <2>3. O(i) \in 0 .. E  BY <1>1, <2>2 DEF MinOf
  <2> QED  BY <2>1, <2>3
<1>5. O(0) = 0
  <2>1. 0 * MaxOps = 0  BY <1>1
  <2> QED  BY <1>1, <1>2, <2>1 DEF MinOf
<1>6. O(k) = E
  <2>1. k * MaxOps \in Nat  BY <1>1, <1>4
  <2> DEFINE c == k * MaxOps
  <2> HIDE DEF c
  <2>2. c \in Nat /\ E = MinOf(p, c) /\ O(k) = MinOf(c, E)  BY <1>1, <1>2, <2>1 DEF c
  <2> QED  BY <1>1, <2>2 DEF MinOf
<1>7. ASSUME NEW i \in 1 .. k
      PROVE  /\ O(i) = O(i - 1) + T(i - 1) /\ T(i - 1) \in 0 .. MaxOps
             /\ m <= MaxOps => T(i - 1) # 0
  <2> DEFINE j == i - 1
             a == j * MaxOps
             b == i * MaxOps
             d == (k - 1) * MaxOps
  <2>1. j \in Nat /\ i = j + 1 /\ k - 1 \in Nat /\ j <= k - 1 /\ k # 0  BY <1>1
  <2> HIDE DEF j
  <2>2. a \in Nat /\ b = a + MaxOps  BY <1>1, <2>1, Products
  <2>3. a <= d /\ d \in Nat  BY <1>1, <2>1, Products
  <2> HIDE DEF a, b, d
  <2>4. O(j) = MinOf(a, E) /\ O(i) = MinOf(b, E) /\ T(j) = MinOf(MaxOps, E - O(j))
    BY <1>2, <1>3 DEF a, b
  <2>5. O(i) = O(j) + T(j) /\ T(j) \in 0 .. MaxOps  BY <1>1, <2>2, <2>4 DEF MinOf
  <2>6. m <= MaxOps => a < E  BY <1>1, <2>1, <2>2, <2>3 DEF d
  <2>7. m <= MaxOps => T(j) # 0  BY <1>1, <2>2, <2>4, <2>6 DEF MinOf
  <2> QED  BY <2>5, <2>7 DEF j
<1>8. \A i \in 0 .. k : i \in Nat  OBVIOUS
<1> QED  BY <1>3, <1>4, <1>5, <1>6, <1>7, <1>8 DEF k, E, O, T

-----------------------------------------------------------------------------
(* Sequences one after the other.  FlattenSeq is defined by a recursive     *)
(* function over the places of its argument.                               *)
Joined(f, seqs) ==
    f = [i \in 1 .. Len(seqs) |-> IF i = 1 THEN seqs[i] ELSE f[i - 1] \o seqs[i]]

\* A function that grows with the sequence is what FlattenSeq computes.
LEMMA FlattenRuns ==
    ASSUME NEW S, NEW seqs \in Seq(Seq(S)), seqs # <<>>,
           NEW g \in [1 .. Len(seqs) -> Seq(S)], g[1] = seqs[1],
           \A i \in 2 .. Len(seqs) : g[i] = g[i - 1] \o seqs[i]
    PROVE  FlattenSeq(seqs) = g[Len(seqs)]
<1> DEFINE n == Len(seqs)
           f == CHOOSE f : Joined(f, seqs)
<1>1. n \in Nat \ {0}  OBVIOUS
<1>2. FlattenSeq(seqs) = f[n]
  BY <1>1 DEF FlattenSeq, Joined
<1> HIDE DEF f
<1>3. Joined(g, seqs)
  <2> SUFFICES ASSUME NEW i \in 1 .. n
               PROVE  g[i] = IF i = 1 THEN seqs[i] ELSE g[i - 1] \o seqs[i]
    BY DEF Joined
  <2>1. i = 1 \/ i \in 2 .. n  BY <1>1
  <2> QED  BY <2>1
<1>4. Joined(f, seqs)  BY <1>3 DEF f
<1>5. f = [i \in 1 .. n |-> IF i = 1 THEN seqs[i] ELSE f[i - 1] \o seqs[i]]
  BY <1>4 DEF Joined
<1> HIDE DEF n
<1>6. \A i \in 1 .. n : f[i] = IF i = 1 THEN seqs[i] ELSE f[i - 1] \o seqs[i]
  BY <1>5
<1> DEFINE Bad == {i \in 1 .. n : f[i] # g[i]}
<1>7. Bad = {}
  <2> SUFFICES ASSUME Bad # {} PROVE FALSE  OBVIOUS
  <2>1. Bad \in SUBSET Nat  BY <1>1
  <2>2. PICK i \in Bad : \A o \in Bad : i <= o  BY <2>1, LeastNatural
  <2>3. i \in 1 .. n /\ f[i] # g[i]  OBVIOUS
  <2>4. CASE i = 1  BY <1>6, <2>3, <2>4
  <2>5. CASE i # 1
    <3>1. i \in 2 .. n /\ i - 1 \in 1 .. n /\ ~(i <= i - 1)  BY <1>1, <2>3, <2>5
    <3>2. f[i - 1] = g[i - 1]  BY <2>2, <3>1
    <3> QED  BY <1>6, <2>3, <2>5, <3>1, <3>2 DEF n
  <2> QED  BY <2>4, <2>5
<1>8. n \in 1 .. n  BY <1>1
<1> QED  BY <1>2, <1>7, <1>8 DEF n

\* One more sequence goes to the end.
LEMMA FlattenOne ==
    ASSUME NEW S, NEW s \in Seq(S)
    PROVE  FlattenSeq(<<s>>) = s
<1> DEFINE seqs == <<s>>
           g == [i \in 1 .. 1 |-> s]
<1>1. seqs \in Seq(Seq(S)) /\ Len(seqs) = 1 /\ seqs[1] = s /\ seqs # <<>>  OBVIOUS
<1>2. 2 .. 1 = {} /\ 1 \in 1 .. 1 OBVIOUS
<1>3. g \in [1 .. 1 -> Seq(S)] /\ g[1] = s  OBVIOUS
<1> HIDE DEF seqs, g
<1>4. \A i \in 2 .. Len(seqs) : g[i] = g[i - 1] \o seqs[i]  BY <1>1, <1>2
<1>5. FlattenSeq(seqs) = g[Len(seqs)]  BY <1>1, <1>3, <1>4, FlattenRuns
<1> QED  BY <1>1, <1>3, <1>5 DEF seqs

LEMMA FlattenExists ==
    ASSUME NEW S, NEW seqs \in Seq(Seq(S)), NEW n \in 1 .. Len(seqs)
    PROVE  \E g \in [1 .. n -> Seq(S)] :
               g[1] = seqs[1] /\ \A i \in 2 .. n : g[i] = g[i - 1] \o seqs[i]
<1> DEFINE There(k) == \E g \in [1 .. k -> Seq(S)] :
                           g[1] = seqs[1] /\ \A i \in 2 .. k : g[i] = g[i - 1] \o seqs[i]
           Bad == {k \in 1 .. Len(seqs) : ~There(k)}
<1> SUFFICES ASSUME Bad # {} PROVE FALSE  OBVIOUS
<1>1. Bad \in SUBSET Nat /\ Len(seqs) \in Nat /\ \A i \in 1 .. Len(seqs) : seqs[i] \in Seq(S)
  <2>1. Bad \in SUBSET Nat
    <3> HIDE DEF There
    <3> QED  OBVIOUS
  <2>2. Len(seqs) \in Nat  OBVIOUS
  <2>3. \A i \in 1 .. Len(seqs) : seqs[i] \in Seq(S)
    <3> HIDE DEF Bad
    <3> QED  OBVIOUS
  <2> QED  BY <2>1, <2>2, <2>3
<1>2. PICK k \in Bad : \A o \in Bad : k <= o  BY <1>1, LeastNatural
<1>3. CASE k = 1
  <2> DEFINE g == [i \in 1 .. 1 |-> seqs[1]]
  <2>1. 1 \in 1 .. Len(seqs) /\ 2 .. 1 = {}  BY <1>2, <1>3
  <2>2. g \in [1 .. 1 -> Seq(S)] /\ g[1] = seqs[1]  BY <1>1, <2>1
  <2> HIDE DEF g
  <2>3. There(1)  BY <2>1, <2>2
  <2> QED  BY <1>2, <1>3, <2>3
<1>4. CASE k # 1
  <2>1. /\ k - 1 \in 1 .. Len(seqs) /\ ~(k <= k - 1) /\ k \in 2 .. Len(seqs) /\ k \in Nat
    BY <1>1, <1>2, <1>4
  <2>2. There(k - 1)  BY <1>2, <2>1
  <2>3. PICK g \in [1 .. (k - 1) -> Seq(S)] :
            g[1] = seqs[1] /\ \A i \in 2 .. (k - 1) : g[i] = g[i - 1] \o seqs[i]
    BY <2>2
  <2> DEFINE h == [i \in 1 .. k |-> IF i = k THEN g[k - 1] \o seqs[k] ELSE g[i]]
  <2>4. \A i \in 1 .. k : i # k => i \in 1 .. (k - 1)  BY <2>1
  <2>5. g[k - 1] \in Seq(S) /\ seqs[k] \in Seq(S) /\ g[k - 1] \o seqs[k] \in Seq(S)
    <3>1. k - 1 \in 1 .. (k - 1) /\ k \in 1 .. Len(seqs)  BY <2>1
    <3>2. g[k - 1] \in Seq(S) /\ seqs[k] \in Seq(S)  BY <1>1, <2>3, <3>1
    <3> QED  BY <3>2
  <2>6. h \in [1 .. k -> Seq(S)]  BY <2>3, <2>4, <2>5
  <2>7. h[1] = seqs[1]
    <3>1. 1 \in 1 .. k /\ 1 # k  BY <2>1
    <3> QED  BY <2>3, <3>1
  <2>8. \A i \in 2 .. k : h[i] = h[i - 1] \o seqs[i]
    <3> SUFFICES ASSUME NEW i \in 2 .. k PROVE h[i] = h[i - 1] \o seqs[i]  OBVIOUS
    <3>1. i \in 1 .. k /\ i - 1 \in 1 .. k /\ i - 1 # k  BY <2>1
    <3>2. h[i - 1] = g[i - 1]  BY <3>1
    <3>3. CASE i = k  BY <3>1, <3>2, <3>3
    <3>4. CASE i # k
      <4>1. i \in 2 .. (k - 1) /\ h[i] = g[i]  BY <2>1, <3>1, <3>4
      <4> QED  BY <2>3, <3>2, <4>1
    <3> QED  BY <3>3, <3>4
  <2> HIDE DEF h
  <2>9. There(k)  BY <2>6, <2>7, <2>8
  <2> QED  BY <1>2, <2>9
<1> QED  BY <1>3, <1>4

LEMMA FlattenAppend ==
    ASSUME NEW S, NEW seqs \in Seq(Seq(S)), NEW s \in Seq(S)
    PROVE  /\ FlattenSeq(seqs) \in Seq(S)
           /\ FlattenSeq(Append(seqs, s)) = FlattenSeq(seqs) \o s
<1> DEFINE n == Len(seqs)
           more == Append(seqs, s)
<1>1. /\ n \in Nat /\ more \in Seq(Seq(S)) /\ Len(more) = n + 1 /\ more[n + 1] = s
      /\ \A i \in 1 .. n : more[i] = seqs[i]
  OBVIOUS
<1>2. more # <<>>
  <2> HIDE DEF more
  <2>1. Len(more) # 0  BY <1>1
  <2> QED  BY <2>1
<1>3. CASE n = 0
  <2>1. seqs = <<>> /\ more = <<s>>  BY <1>3
  <2>2. FlattenSeq(seqs) = <<>>  BY <2>1 DEF FlattenSeq
  <2>3. FlattenSeq(<<s>>) = s  BY FlattenOne
  <2>4. <<>> \in Seq(S) /\ <<>> \o s = s  OBVIOUS
  <2> QED  BY <2>1, <2>2, <2>3, <2>4
<1>4. CASE n # 0
  <2> HIDE DEF more
  <2>1. n \in 1 .. n /\ n \in 1 .. Len(seqs)  BY <1>1, <1>4
  <2>2. PICK g \in [1 .. n -> Seq(S)] :
            g[1] = seqs[1] /\ \A i \in 2 .. n : g[i] = g[i - 1] \o seqs[i]
    BY <2>1, FlattenExists
  <2>3. FlattenSeq(seqs) = g[n] /\ g[n] \in Seq(S)
    <3>1. seqs # <<>>  BY <1>4
    <3> QED  BY <2>1, <2>2, <3>1, FlattenRuns
  <2> HIDE DEF n
  <2> DEFINE h == [i \in 1 .. (n + 1) |-> IF i = n + 1 THEN g[n] \o s ELSE g[i]]
  <2>4. \A i \in 1 .. (n + 1) : i # n + 1 => i \in 1 .. n  BY <1>1
  <2>5. g[n] \o s \in Seq(S)  BY <2>3
  <2>6. h \in [1 .. (n + 1) -> Seq(S)]  BY <2>2, <2>4, <2>5
  <2>7. 1 \in 1 .. n /\ 1 \in 1 .. (n + 1) /\ 1 # n + 1 /\ n + 1 \in 1 .. (n + 1)
    BY <1>1, <1>4, <2>1
  <2>8. h[1] = more[1]  BY <1>1, <2>2, <2>7
  <2>9. \A i \in 2 .. (n + 1) : h[i] = h[i - 1] \o more[i]
    <3> SUFFICES ASSUME NEW i \in 2 .. (n + 1) PROVE h[i] = h[i - 1] \o more[i]  OBVIOUS
    <3>1. i \in 1 .. (n + 1) /\ i - 1 \in 1 .. (n + 1) /\ i - 1 # n + 1  BY <1>1
    <3>2. h[i - 1] = g[i - 1]  BY <3>1
    <3>3. CASE i = n + 1
      <4>1. i - 1 = n  BY <1>1, <3>3
      <4> QED  BY <1>1, <3>1, <3>2, <3>3, <4>1
    <3>4. CASE i # n + 1
      <4>1. i \in 2 .. n /\ i \in 1 .. n /\ h[i] = g[i]  BY <1>1, <3>1, <3>4
      <4> QED  BY <1>1, <2>2, <3>2, <4>1
    <3> QED  BY <3>3, <3>4
  <2>10. h[n + 1] = g[n] \o s  BY <2>7
  <2> HIDE DEF h
  <2>11. FlattenSeq(more) = h[n + 1]
    <3>1. \A i \in 2 .. Len(more) : h[i] = h[i - 1] \o more[i]  BY <1>1, <2>9
    <3>2. h \in [1 .. Len(more) -> Seq(S)]  BY <1>1, <2>6
    <3> QED  BY <1>1, <1>2, <2>8, <3>1, <3>2, FlattenRuns
  <2> QED  BY <2>3, <2>10, <2>11 DEF more
<1> QED  BY <1>3, <1>4

-----------------------------------------------------------------------------
(* The plan.  Its commits carry the pointers up to the running offset.     *)
LEMMA SubSeqJoins ==
    ASSUME NEW S, NEW s \in Seq(S), NEW i \in 0 .. Len(s), NEW j \in i .. Len(s)
    PROVE  /\ SubSeq(s, 1, i) \in Seq(S) /\ SubSeq(s, i + 1, j) \in Seq(S)
           /\ SubSeq(s, 1, i) \o SubSeq(s, i + 1, j) = SubSeq(s, 1, j)
           /\ Len(SubSeq(s, i + 1, j)) = j - i
           /\ SubSeq(s, 1, Len(s)) = s
<1> DEFINE a == SubSeq(s, 1, i)
           b == SubSeq(s, i + 1, j)
           c == SubSeq(s, 1, j)
<1>1. Len(s) \in Nat /\ i \in Nat /\ j \in Nat /\ i <= j  OBVIOUS
<1>2. /\ a \in Seq(S) /\ Len(a) = i /\ c \in Seq(S) /\ Len(c) = j
      /\ \A k \in 1 .. i : a[k] = s[k]
      /\ \A k \in 1 .. j : c[k] = s[k]
  BY <1>1
<1>3. b \in Seq(S) /\ Len(b) = j - i /\ \A k \in 1 .. (j - i) : b[k] = s[i + k]
  BY <1>1
<1>4. SubSeq(s, 1, Len(s)) = s  OBVIOUS
<1> HIDE DEF a, b, c
<1>5. /\ a \o b \in Seq(S) /\ Len(a \o b) = j
      /\ \A k \in 1 .. j : (a \o b)[k] = IF k <= i THEN a[k] ELSE b[k - i]
  <2>1. /\ a \o b \in Seq(S) /\ Len(a \o b) = Len(a) + Len(b)
        /\ \A k \in 1 .. Len(a) + Len(b) :
               (a \o b)[k] = IF k <= Len(a) THEN a[k] ELSE b[k - Len(a)]
    BY <1>2, <1>3
  <2>2. Len(a) = i /\ Len(a) + Len(b) = j  BY <1>1, <1>2, <1>3
  <2> QED  BY <2>1, <2>2
<1>6. \A k \in 1 .. j : (a \o b)[k] = c[k]
  <2> SUFFICES ASSUME NEW k \in 1 .. j PROVE (a \o b)[k] = c[k]  OBVIOUS
  <2>1. CASE k <= i
    <3>1. k \in 1 .. i  BY <1>1, <2>1
    <3> QED  BY <1>2, <1>5, <2>1, <3>1
  <2>2. CASE ~(k <= i)
    <3>1. k - i \in 1 .. (j - i) /\ i + (k - i) = k  BY <1>1, <2>2
    <3> QED  BY <1>2, <1>3, <1>5, <2>2, <3>1
  <2> QED  BY <2>1, <2>2
<1>7. a \o b = c
  <2> DEFINE d == a \o b
  <2>1. d \in Seq(S) /\ Len(d) = j /\ \A k \in 1 .. j : d[k] = c[k]  BY <1>5, <1>6
  <2> HIDE DEF d
  <2>2. d = [k \in 1 .. j |-> d[k]] /\ c = [k \in 1 .. j |-> c[k]]  BY <1>2, <2>1
  <2>3. d = c  BY <2>1, <2>2
  <2> QED  BY <2>3 DEF d
<1> QED  BY <1>2, <1>3, <1>4, <1>7 DEF a, b, c

LEMMA PlanShape ==
    ASSUME NEW S, NEW metadata \in Seq(S), metadata # <<>>, NEW P, NEW pointers \in Seq(P)
    PROVE  LET plan  == PlanAtomicCommitBatches(metadata, pointers)
               m     == Len(metadata)
               p     == Len(pointers)
               early == EarlyBatchCount(m, p)
           IN  /\ m \in Nat \ {0} /\ p \in Nat /\ early \in Nat
               /\ plan \in Seq([files : {<<>>, OrderedMetadata(metadata)}, lfs : Seq(P)])
               /\ Len(plan) = early + 1
               /\ \A i \in 1 .. early :
                     /\ plan[i].files = <<>>
                     /\ plan[i].lfs = SubSeq(pointers, EarlyOffset(m, p, i - 1) + 1,
                                             EarlyOffset(m, p, i))
               /\ plan[early + 1].files = OrderedMetadata(metadata)
               /\ plan[early + 1].lfs = SubSeq(pointers, EarlyPointerCount(m, p) + 1, p)
<1> DEFINE plan  == PlanAtomicCommitBatches(metadata, pointers)
           m     == Len(metadata)
           p     == Len(pointers)
           early == EarlyBatchCount(m, p)
           O(i)  == EarlyOffset(m, p, i)
           E     == EarlyPointerCount(m, p)
           n     == BatchCount(m, p)
           files == OrderedMetadata(metadata)
           Commit(i) == IF i <= early
                        THEN [files |-> <<>>,
                              lfs |-> SubSeq(pointers, O(i - 1) + 1,
                                             O(i - 1) + EarlyTake(m, p, i - 1))]
                        ELSE [files |-> files, lfs |-> SubSeq(pointers, O(early) + 1, p)]
<1>1. m \in Nat \ {0} /\ p \in Nat  OBVIOUS
<1>2. plan = [i \in 1 .. n |-> Commit(i)]  BY DEF PlanAtomicCommitBatches
<1> HIDE DEF m, p, plan, files
<1>3. n \in Nat \ {0} /\ early \in Nat /\ n = early + 1 /\ E \in 0 .. p
  <2>1. n \in Nat \ {0} /\ early \in Nat /\ E \in 0 .. p  BY <1>1, PlanCounts
  <2>2. early = n - 1  BY DEF EarlyBatchCount
  <2> HIDE DEF n, early
  <2> QED  BY <2>1, <2>2
<1>4. /\ O(early) = E /\ \A i \in 0 .. early : O(i) \in 0 .. E
      /\ \A i \in 1 .. early : O(i) = O(i - 1) + EarlyTake(m, p, i - 1)
  BY <1>1, PlanOffsets
<1> HIDE DEF n, early, O, E
<1>5. \A i \in 1 .. early :
          Commit(i) = [files |-> <<>>, lfs |-> SubSeq(pointers, O(i - 1) + 1, O(i))]
  <2> TAKE i \in 1 .. early
  <2>1. i <= early  BY <1>3
  <2>2. O(i) = O(i - 1) + EarlyTake(m, p, i - 1)  BY <1>4
  <2> QED  BY <2>1, <2>2
<1>6. Commit(early + 1) = [files |-> files, lfs |-> SubSeq(pointers, E + 1, p)]
  BY <1>3, <1>4
<1> HIDE DEF Commit
<1>7. \A a, b \in 0 .. p : SubSeq(pointers, a + 1, b) \in Seq(P)
  BY <1>1 DEF p
<1>8. \A i \in 1 .. n : Commit(i) \in [files : {<<>>, files}, lfs : Seq(P)]
  <2> TAKE i \in 1 .. n
  <2>1. CASE i \in 1 .. early
    <3>1. i \in 0 .. early /\ i - 1 \in 0 .. early  BY <1>3, <2>1
    <3>2. O(i) \in 0 .. p /\ O(i - 1) \in 0 .. p  BY <1>1, <1>3, <1>4, <3>1
    <3> DEFINE sent == SubSeq(pointers, O(i - 1) + 1, O(i))
    <3>3. sent \in Seq(P)  BY <1>7, <3>2
    <3>4. Commit(i) = [files |-> <<>>, lfs |-> sent]  BY <1>5, <2>1
    <3> HIDE DEF sent
    <3> QED  BY <3>3, <3>4
  <2>2. CASE i = early + 1
    <3>1. E \in 0 .. p /\ p \in 0 .. p  BY <1>1, <1>3
    <3> DEFINE sent == SubSeq(pointers, E + 1, p)
    <3>2. sent \in Seq(P)  BY <1>7, <3>1
    <3>3. Commit(i) = [files |-> files, lfs |-> sent]  BY <1>6, <2>2
    <3> HIDE DEF sent
    <3> QED  BY <3>2, <3>3
  <2> QED  BY <1>3, <2>1, <2>2
<1>9. plan \in Seq([files : {<<>>, files}, lfs : Seq(P)]) /\ Len(plan) = n
  BY <1>2, <1>3, <1>8
<1>10. \A i \in 1 .. n : plan[i] = Commit(i)  BY <1>2
<1>11. /\ \A i \in 1 .. early : i \in 1 .. n
       /\ early + 1 \in 1 .. n
  BY <1>3
<1>12. \A i \in 1 .. early :
           plan[i].files = <<>> /\ plan[i].lfs = SubSeq(pointers, O(i - 1) + 1, O(i))
  BY <1>5, <1>10, <1>11
<1>13. /\ plan[early + 1].files = files
       /\ plan[early + 1].lfs = SubSeq(pointers, E + 1, p)
  BY <1>6, <1>10, <1>11
<1> QED  BY <1>1, <1>3, <1>9, <1>12, <1>13 DEF plan, m, p, early, O, E, files

LEMMA PointersOnce ==
    ASSUME NEW S, NEW metadata \in Seq(S), metadata # <<>>, NEW P, NEW pointers \in Seq(P)
    PROVE  LET plan == PlanAtomicCommitBatches(metadata, pointers)
           IN  FlattenSeq([i \in DOMAIN plan |-> plan[i].lfs]) = pointers
<1> DEFINE plan  == PlanAtomicCommitBatches(metadata, pointers)
           m     == Len(metadata)
           p     == Len(pointers)
           early == EarlyBatchCount(m, p)
           n     == early + 1
           O(i)  == EarlyOffset(m, p, i)
           E     == EarlyPointerCount(m, p)
           seqs  == [i \in DOMAIN plan |-> plan[i].lfs]
           g     == [i \in 1 .. n |-> SubSeq(pointers, 1, IF i = n THEN p ELSE O(i))]
<1>1. /\ m \in Nat \ {0} /\ p \in Nat /\ early \in Nat
      /\ plan \in Seq([files : {<<>>, OrderedMetadata(metadata)}, lfs : Seq(P)])
      /\ Len(plan) = n
      /\ \A i \in 1 .. early : plan[i].lfs = SubSeq(pointers, O(i - 1) + 1, O(i))
      /\ plan[n].lfs = SubSeq(pointers, E + 1, p)
  BY PlanShape
<1> HIDE DEF m, plan
<1>2. /\ O(0) = 0 /\ O(early) = E /\ E \in 0 .. p
      /\ \A i \in 0 .. early : O(i) \in 0 .. E
      /\ \A i \in 1 .. early : O(i) = O(i - 1) + EarlyTake(m, p, i - 1)
                               /\ EarlyTake(m, p, i - 1) \in 0 .. MaxOps
  BY <1>1, PlanCounts, PlanOffsets
<1>3. n \in Nat \ {0} /\ DOMAIN plan = 1 .. n  BY <1>1
<1> HIDE DEF p, early, O, E
<1>4. seqs \in Seq(Seq(P)) /\ Len(seqs) = n /\ \A i \in 1 .. n : seqs[i] = plan[i].lfs
  <2>1. \A i \in 1 .. n : plan[i].lfs \in Seq(P)
    <3> DEFINE C == [files : {<<>>, OrderedMetadata(metadata)}, lfs : Seq(P)]
    <3>1. \A c \in C : c.lfs \in Seq(P)  OBVIOUS
    <3> HIDE DEF C
    <3>2. plan \in Seq(C)  BY <1>1 DEF C
    <3>3. \A i \in 1 .. n : plan[i] \in C  BY <1>3, <3>2
    <3> QED  BY <3>1, <3>3
  <2> QED  BY <1>3, <2>1
<1> HIDE DEF seqs
<1>5. \A i \in 0 .. early : O(i) \in 0 .. p  BY <1>1, <1>2
<1>6. ASSUME NEW i \in 1 .. n
      PROVE  (IF i = n THEN p ELSE O(i)) \in 0 .. p
  BY <1>1, <1>5
<1>7. \A a \in 0 .. p : SubSeq(pointers, 1, a) \in Seq(P)  BY SubSeqJoins DEF p
<1>8. g \in [1 .. n -> Seq(P)] /\ \A i \in 1 .. n : g[i] = SubSeq(pointers, 1, IF i = n THEN p ELSE O(i))
  BY <1>6, <1>7
<1> HIDE DEF g
<1>9. ASSUME NEW i \in 1 .. n
      PROVE  seqs[i] = SubSeq(pointers, O(i - 1) + 1, IF i = n THEN p ELSE O(i))
  <2>1. CASE i = n
    <3>1. O(i - 1) = E  BY <1>1, <1>2, <2>1
    <3> QED  BY <1>1, <1>4, <2>1, <3>1
  <2>2. CASE i # n
    <3>1. i \in 1 .. early  BY <1>1, <2>2
    <3> QED  BY <1>1, <1>4, <2>2, <3>1
  <2> QED  BY <2>1, <2>2
<1>10. ASSUME NEW i \in 1 .. n
       PROVE  O(i - 1) \in 0 .. (IF i = n THEN p ELSE O(i))
  <2>1. i - 1 \in 0 .. early  BY <1>1
  <2>2. CASE i = n  BY <1>5, <2>1, <2>2
  <2>3. CASE i # n
    <3>1. i \in 1 .. early /\ i \in 0 .. early  BY <1>1, <2>3
    <3>2. O(i) = O(i - 1) + EarlyTake(m, p, i - 1) /\ EarlyTake(m, p, i - 1) \in Nat
      BY <1>2, <3>1, MaxOpsAssumption
    <3>3. O(i - 1) \in Nat /\ O(i) \in Nat  BY <1>5, <2>1, <3>1
    <3> QED  BY <2>3, <3>2, <3>3
  <2> QED  BY <2>2, <2>3
<1>11. g[1] = seqs[1]
  <2> DEFINE one == 1
             b   == IF one = n THEN p ELSE O(one)
  <2>1. one \in 1 .. n /\ O(one - 1) = 0  BY <1>2, <1>3
  <2>2. O(one - 1) + 1 = 1  BY <2>1
  <2> HIDE DEF one
  <2>3. g[one] = SubSeq(pointers, 1, b)  BY <1>8, <2>1
  <2>4. seqs[one] = SubSeq(pointers, O(one - 1) + 1, b)  BY <1>9, <2>1
  <2> QED  BY <2>2, <2>3, <2>4 DEF one
<1>12. ASSUME NEW i \in 2 .. n PROVE g[i] = g[i - 1] \o seqs[i]
  <2> DEFINE a == O(i - 1)
             b == IF i = n THEN p ELSE O(i)
  <2>1. i \in 1 .. n /\ i - 1 \in 1 .. n /\ i - 1 # n  BY <1>3
  <2>2. a \in 0 .. p /\ b \in a .. p
    <3>1. a \in 0 .. b /\ b \in 0 .. p  BY <1>6, <1>10, <2>1
    <3> HIDE DEF a, b
    <3> QED  BY <1>1, <3>1
  <2>3. /\ g[i] = SubSeq(pointers, 1, b) /\ seqs[i] = SubSeq(pointers, a + 1, b)
    BY <1>8, <1>9, <2>1
  <2>4. g[i - 1] = SubSeq(pointers, 1, a)
    <3> DEFINE j == i - 1
    <3>1. j \in 1 .. n /\ j # n  BY <2>1
    <3> HIDE DEF j
    <3>2. g[j] = SubSeq(pointers, 1, O(j))  BY <1>8, <3>1
    <3> QED  BY <3>2 DEF j
  <2> HIDE DEF a, b
  <2>5. pointers \in Seq(P) /\ a \in 0 .. Len(pointers) /\ b \in a .. Len(pointers)
    BY <2>2 DEF p
  <2>6. SubSeq(pointers, 1, a) \o SubSeq(pointers, a + 1, b) = SubSeq(pointers, 1, b)
    BY <2>5, SubSeqJoins
  <2> QED  BY <2>3, <2>4, <2>6
<1>13. seqs # <<>>
  <2>1. Len(seqs) # 0  BY <1>3, <1>4
  <2> QED  BY <2>1
<1>14. FlattenSeq(seqs) = g[n]
  <2>1. /\ g \in [1 .. Len(seqs) -> Seq(P)]
        /\ \A i \in 2 .. Len(seqs) : g[i] = g[i - 1] \o seqs[i]
    BY <1>4, <1>8, <1>12
  <2>2. FlattenSeq(seqs) = g[Len(seqs)]  BY <1>4, <1>11, <1>13, <2>1, FlattenRuns
  <2> QED  BY <1>4, <2>2
<1>15. g[n] = pointers
  <2>1. n \in 1 .. n  BY <1>3
  <2>2. g[n] = SubSeq(pointers, 1, p)  BY <1>8, <2>1
  <2> QED  BY <2>2 DEF p
<1> QED  BY <1>14, <1>15 DEF seqs, plan
\* The loop of the planner, iterated.
LEMMA LoopOffsets ==
    ASSUME NEW m \in Nat \ {0}, NEW p \in Nat
    PROVE  LET early == EarlyPointerCount(m, p)
               loop[i \in 0 .. EarlyBatchCount(m, p)] ==
                   IF i = 0 THEN 0
                   ELSE loop[i - 1] + MinOf(MaxOps, early - loop[i - 1])
           IN  \A i \in DOMAIN loop : EarlyOffset(m, p, i) = loop[i]
<1> DEFINE k == EarlyBatchCount(m, p)
           E == EarlyPointerCount(m, p)
           O(i) == EarlyOffset(m, p, i)
           Loops(f) == f = [i \in 0 .. k |-> IF i = 0 THEN 0
                                             ELSE f[i - 1] + MinOf(MaxOps, E - f[i - 1])]
           loop == CHOOSE f : Loops(f)
           h == [i \in 0 .. k |-> O(i)]
<1>1. k \in Nat /\ O(0) = 0
      /\ \A i \in 1 .. k : O(i) = O(i - 1) + MinOf(MaxOps, E - O(i - 1))
  BY PlanCounts, PlanOffsets
<1> SUFFICES \A i \in DOMAIN loop : O(i) = loop[i]  OBVIOUS
<1> HIDE DEF loop, k, E, O
<1>2. h = [i \in 0 .. k |-> IF i = 0 THEN 0 ELSE h[i - 1] + MinOf(MaxOps, E - h[i - 1])]
  <2>1. ASSUME NEW i \in 0 .. k
        PROVE  O(i) = IF i = 0 THEN 0 ELSE h[i - 1] + MinOf(MaxOps, E - h[i - 1])
    <3>1. CASE i = 0  BY <1>1, <3>1
    <3>2. CASE i # 0
      <4>1. i \in 1 .. k /\ i - 1 \in 0 .. k  BY <1>1, <3>2
      <4>2. h[i - 1] = O(i - 1)  BY <4>1
      <4> QED  BY <1>1, <3>2, <4>1, <4>2
    <3> QED  BY <3>1, <3>2
  <2> QED  BY <2>1
<1>3. Loops(h)  BY <1>2
<1>4. Loops(loop)  BY <1>3 DEF loop
<1>5. /\ DOMAIN loop = 0 .. k
      /\ \A i \in 0 .. k : loop[i] = IF i = 0 THEN 0
                                     ELSE loop[i - 1] + MinOf(MaxOps, E - loop[i - 1])
  <2> DEFINE After(i) == IF i = 0 THEN 0 ELSE loop[i - 1] + MinOf(MaxOps, E - loop[i - 1])
  <2>1. loop = [i \in 0 .. k |-> After(i)]  BY <1>4
  <2> HIDE DEF After
  <2>2. DOMAIN loop = 0 .. k /\ \A i \in 0 .. k : loop[i] = After(i)  BY <2>1
  <2> QED  BY <2>2 DEF After
<1> DEFINE Bad == {i \in 0 .. k : loop[i] # O(i)}
<1>6. Bad = {}
  <2> SUFFICES ASSUME Bad # {} PROVE FALSE  OBVIOUS
  <2>1. Bad \in SUBSET Nat  BY <1>1
  <2>2. PICK i \in Bad : \A o \in Bad : i <= o  BY <2>1, LeastNatural
  <2>3. i \in 0 .. k /\ loop[i] # O(i)  OBVIOUS
  <2>4. i # 0  BY <1>1, <1>5, <2>3
  <2>5. i \in 1 .. k /\ i - 1 \in 0 .. k /\ ~(i <= i - 1)  BY <1>1, <2>3, <2>4
  <2>6. loop[i - 1] = O(i - 1)  BY <2>2, <2>5
  <2> QED  BY <1>1, <1>5, <2>3, <2>4, <2>5, <2>6
<1> QED  BY <1>5, <1>6

-----------------------------------------------------------------------------
(* The order of the metadata.                                              *)

LEMMA OthersRun ==
    ASSUME NEW S, NEW files \in Seq(S)
    PROVE  \E h \in [0 .. Len(files) -> Seq(S)] :
               /\ h[0] = <<>>
               /\ \A i \in 1 .. Len(files) : h[i] = WithOther(h[i - 1], files[i])
               /\ FoldLeft(WithOther, <<>>, files) = h[Len(files)]
<1> DEFINE T == Seq(S)
           A == S
           D == SUBSET (DOMAIN files)
           op == [p \in T \X A |-> WithOther(p[1], p[2])]
           Is(f) == f = [s \in D |-> IF s = {} THEN <<>> ELSE WithOther(f[s \ {Max(s)}], files[Max(s)])]
           iter == CHOOSE f : Is(f)
<1>1. FoldLeft(WithOther, <<>>, files) = iter[DOMAIN files]
  BY DEF FoldLeft, MapThenFoldSet
<1>2. \A t \in T, a \in A : WithOther(t, a) \in T
  BY DEF WithOther
<1>3. op \in [T \X A -> T] /\ \A t \in T, a \in A : op[<<t, a>>] = WithOther(t, a)
  BY <1>2
<1>4. files \in Seq(A) /\ <<>> \in T
  OBVIOUS
<1> HIDE DEF op, T, A
<1>5. PICK g, h : IsRun(g, h, op, <<>>, files, T)
  BY <1>3, <1>4, FoldRuns
<1>6. \A s \in D : s # {} => s \ {Max(s)} \in D /\ files[Max(s)] \in A
  BY <1>4, GreatestPlace
<1>7. Is(g)
  <2> SUFFICES ASSUME NEW s \in D
               PROVE  g[s] = IF s = {} THEN <<>> ELSE WithOther(g[s \ {Max(s)}], files[Max(s)])
    BY <1>5 DEF IsRun
  <2>1. g[s] = IF s = {} THEN <<>> ELSE op[<<g[s \ {Max(s)}], files[Max(s)]>>]
    BY <1>5 DEF IsRun, FoldsOver
  <2>2. s # {} => g[s \ {Max(s)}] \in T  BY <1>5, <1>6 DEF IsRun
  <2> QED  BY <1>3, <1>6, <2>1, <2>2
<1>8. Is(iter)  BY <1>7
<1> HIDE DEF iter
<1>9. iter[{}] = <<>>  BY <1>8
<1>10. ASSUME NEW s \in D, s # {}, iter[s \ {Max(s)}] \in T
       PROVE  iter[s] = op[<<iter[s \ {Max(s)}], files[Max(s)]>>]
  <2>1. iter[s] = WithOther(iter[s \ {Max(s)}], files[Max(s)])  BY <1>8, <1>10
  <2> QED  BY <1>3, <1>6, <1>10, <2>1
<1>11. iter[DOMAIN files] = h[Len(files)]  BY <1>5, <1>9, <1>10 DEF IsRun
<1>12. \A i \in 1 .. Len(files) : h[i] = WithOther(h[i - 1], files[i])
  <2> TAKE i \in 1 .. Len(files)
  <2>1. i - 1 \in 0 .. Len(files) /\ files[i] \in A  BY <1>4
  <2>2. h[i - 1] \in T  BY <1>5, <2>1 DEF IsRun
  <2> QED  BY <1>3, <1>5, <2>1, <2>2 DEF IsRun
<1> QED  BY <1>1, <1>5, <1>11, <1>12 DEF IsRun, T

LEMMA ManifestRun ==
    ASSUME NEW S, NEW files \in Seq(S)
    PROVE  \E h \in [0 .. Len(files) -> Seq(S)] :
               /\ h[0] = <<>>
               /\ \A i \in 1 .. Len(files) : h[i] = WithManifest(h[i - 1], files[i])
               /\ FoldLeft(WithManifest, <<>>, files) = h[Len(files)]
<1> DEFINE T == Seq(S)
           A == S
           D == SUBSET (DOMAIN files)
           op == [p \in T \X A |-> WithManifest(p[1], p[2])]
           Is(f) == f = [s \in D |-> IF s = {} THEN <<>> ELSE WithManifest(f[s \ {Max(s)}], files[Max(s)])]
           iter == CHOOSE f : Is(f)
<1>1. FoldLeft(WithManifest, <<>>, files) = iter[DOMAIN files]
  BY DEF FoldLeft, MapThenFoldSet
<1>2. \A t \in T, a \in A : WithManifest(t, a) \in T
  BY DEF WithManifest
<1>3. op \in [T \X A -> T] /\ \A t \in T, a \in A : op[<<t, a>>] = WithManifest(t, a)
  BY <1>2
<1>4. files \in Seq(A) /\ <<>> \in T
  OBVIOUS
<1> HIDE DEF op, T, A
<1>5. PICK g, h : IsRun(g, h, op, <<>>, files, T)
  BY <1>3, <1>4, FoldRuns
<1>6. \A s \in D : s # {} => s \ {Max(s)} \in D /\ files[Max(s)] \in A
  BY <1>4, GreatestPlace
<1>7. Is(g)
  <2> SUFFICES ASSUME NEW s \in D
               PROVE  g[s] = IF s = {} THEN <<>> ELSE WithManifest(g[s \ {Max(s)}], files[Max(s)])
    BY <1>5 DEF IsRun
  <2>1. g[s] = IF s = {} THEN <<>> ELSE op[<<g[s \ {Max(s)}], files[Max(s)]>>]
    BY <1>5 DEF IsRun, FoldsOver
  <2>2. s # {} => g[s \ {Max(s)}] \in T  BY <1>5, <1>6 DEF IsRun
  <2> QED  BY <1>3, <1>6, <2>1, <2>2
<1>8. Is(iter)  BY <1>7
<1> HIDE DEF iter
<1>9. iter[{}] = <<>>  BY <1>8
<1>10. ASSUME NEW s \in D, s # {}, iter[s \ {Max(s)}] \in T
       PROVE  iter[s] = op[<<iter[s \ {Max(s)}], files[Max(s)]>>]
  <2>1. iter[s] = WithManifest(iter[s \ {Max(s)}], files[Max(s)])  BY <1>8, <1>10
  <2> QED  BY <1>3, <1>6, <1>10, <2>1
<1>11. iter[DOMAIN files] = h[Len(files)]  BY <1>5, <1>9, <1>10 DEF IsRun
<1>12. \A i \in 1 .. Len(files) : h[i] = WithManifest(h[i - 1], files[i])
  <2> TAKE i \in 1 .. Len(files)
  <2>1. i - 1 \in 0 .. Len(files) /\ files[i] \in A  BY <1>4
  <2>2. h[i - 1] \in T  BY <1>5, <2>1 DEF IsRun
  <2> QED  BY <1>3, <1>5, <2>1, <2>2 DEF IsRun
<1> QED  BY <1>1, <1>5, <1>11, <1>12 DEF IsRun, T

\* The pages of a publication, and the manifest.
MetadataPath == {Manifest} \cup {Page(i) : i \in Nat}
PagePaths(n) == [i \in 1 .. n |-> Page(i - 1)]

LEMMA PathTypes ==
    ASSUME NEW n \in Nat
    PROVE  /\ PagePaths(n) \in Seq(MetadataPath) /\ Len(PagePaths(n)) = n
           /\ \A i \in 1 .. n : PagePaths(n)[i] # Manifest
           /\ <<Manifest>> \in Seq(MetadataPath)
<1>1. \A i \in 1 .. n : Page(i - 1) \in MetadataPath  BY DEF MetadataPath
<1>2. PagePaths(n) \in Seq(MetadataPath) /\ Len(PagePaths(n)) = n  BY <1>1 DEF PagePaths
<1>3. \A i : Page(i) # Manifest
  <2> TAKE i
  <2>1. Len(Page(i)) = 2 /\ Len(Manifest) = 1  BY DEF Page, Manifest
  <2> QED  BY <2>1
<1>4. \A i \in 1 .. n : PagePaths(n)[i] # Manifest  BY <1>3 DEF PagePaths
<1>5. Manifest \in MetadataPath  BY DEF MetadataPath
<1>6. <<Manifest>> \in Seq(MetadataPath)  BY <1>5
<1> QED  BY <1>2, <1>4, <1>6

\* Joined in either order they have the same members.
LEMMA JoinedMembers ==
    ASSUME NEW S, NEW a \in Seq(S), NEW b \in Seq(S)
    PROVE  ToSet(a \o b) = ToSet(a) \cup ToSet(b)
<1> DEFINE c == a \o b
<1>1. /\ c \in Seq(S) /\ Len(c) = Len(a) + Len(b) /\ Len(a) \in Nat /\ Len(b) \in Nat
      /\ \A k \in 1 .. Len(a) + Len(b) : c[k] = IF k <= Len(a) THEN a[k] ELSE b[k - Len(a)]
  OBVIOUS
<1>2. DOMAIN a = 1 .. Len(a) /\ DOMAIN b = 1 .. Len(b) /\ DOMAIN c = 1 .. Len(c)
  BY <1>1
<1> HIDE DEF c
<1>3. ASSUME NEW i \in 1 .. Len(c) PROVE c[i] \in ToSet(a) \cup ToSet(b)
  <2>1. CASE i <= Len(a)
    <3>1. i \in DOMAIN a /\ c[i] = a[i]  BY <1>1, <1>2, <2>1
    <3> QED  BY <3>1 DEF ToSet
  <2>2. CASE ~(i <= Len(a))
    <3>1. i - Len(a) \in DOMAIN b /\ c[i] = b[i - Len(a)]  BY <1>1, <1>2, <2>2
    <3> QED  BY <3>1 DEF ToSet
  <2> QED  BY <2>1, <2>2
<1>4. ASSUME NEW i \in 1 .. Len(a) PROVE a[i] \in ToSet(c)
  <2>1. i \in DOMAIN c /\ c[i] = a[i]  BY <1>1, <1>2
  <2> QED  BY <2>1 DEF ToSet
<1>5. ASSUME NEW i \in 1 .. Len(b) PROVE b[i] \in ToSet(c)
  <2> DEFINE k == i + Len(a)
  <2>1. k \in 1 .. Len(a) + Len(b) /\ ~(k <= Len(a)) /\ k - Len(a) = i  BY <1>1
  <2> HIDE DEF k
  <2>2. k \in DOMAIN c /\ c[k] = b[i]  BY <1>1, <1>2, <2>1
  <2> QED  BY <2>2 DEF ToSet
<1>6. ToSet(c) \subseteq ToSet(a) \cup ToSet(b)  BY <1>2, <1>3 DEF ToSet
<1>7. ToSet(a) \subseteq ToSet(c)  BY <1>2, <1>4 DEF ToSet
<1>8. ToSet(b) \subseteq ToSet(c)  BY <1>2, <1>5 DEF ToSet
<1> QED  BY <1>6, <1>7, <1>8 DEF c

LEMMA OneMore ==
    ASSUME NEW S, NEW s \in Seq(S), NEW j \in Nat, j < Len(s)
    PROVE  Append(SubSeq(s, 1, j), s[j + 1]) = SubSeq(s, 1, j + 1)
<1> DEFINE a == SubSeq(s, 1, j)
           x == s[j + 1]
           c == SubSeq(s, 1, j + 1)
           d == Append(a, x)
<1>1. Len(s) \in Nat /\ j + 1 \in 1 .. Len(s) /\ x \in S  OBVIOUS
<1>2. a \in Seq(S) /\ Len(a) = j /\ \A k \in 1 .. j : a[k] = s[k]  BY <1>1
<1>3. c \in Seq(S) /\ Len(c) = j + 1 /\ \A k \in 1 .. (j + 1) : c[k] = s[k]  BY <1>1
<1> HIDE DEF a, c
<1>4. d \in Seq(S) /\ Len(d) = j + 1 /\ \A k \in 1 .. j : d[k] = a[k] /\ d[j + 1] = x
  BY <1>1, <1>2
<1> HIDE DEF d, x
<1>5. d[j + 1] = x  BY <1>2 DEF d
<1>6. \A k \in 1 .. (j + 1) : d[k] = c[k]
  <2> TAKE k \in 1 .. (j + 1)
  <2>1. k = j + 1 \/ k \in 1 .. j  OBVIOUS
  <2> QED  BY <1>2, <1>3, <1>4, <1>5, <2>1 DEF x
<1>7. d = [k \in 1 .. (j + 1) |-> d[k]] /\ c = [k \in 1 .. (j + 1) |-> c[k]]
  BY <1>3, <1>4
<1>8. d = c  BY <1>6, <1>7
<1> QED  BY <1>8 DEF a, x, c, d

\* However many pages there are, the manifest goes to the end.
LEMMA ManifestGoesLast ==
    ASSUME NEW n \in Nat
    PROVE  /\ <<Manifest>> \o PagePaths(n) \in Seq(MetadataPath)
           /\ OrderedMetadata(<<Manifest>> \o PagePaths(n)) = PagePaths(n) \o <<Manifest>>
<1> DEFINE pp == PagePaths(n)
           first == <<Manifest>>
           files == first \o pp
<1>1. /\ pp \in Seq(MetadataPath) /\ Len(pp) = n /\ \A i \in 1 .. n : pp[i] # Manifest
      /\ first \in Seq(MetadataPath) /\ Manifest \in MetadataPath
  BY PathTypes DEF MetadataPath
<1>2. Len(first) = 1 /\ first[1] = Manifest  OBVIOUS
<1>3. SubSeq(pp, 1, 0) = <<>> /\ SubSeq(pp, 1, n) = pp  BY <1>1
<1> HIDE DEF pp, first
<1>4. /\ files \in Seq(MetadataPath) /\ Len(files) = n + 1
      /\ \A k \in 1 .. n + 1 : files[k] = IF k <= 1 THEN first[k] ELSE pp[k - 1]
  <2>1. /\ files \in Seq(MetadataPath) /\ Len(files) = Len(first) + Len(pp)
        /\ \A k \in 1 .. Len(first) + Len(pp) :
              files[k] = IF k <= Len(first) THEN first[k] ELSE pp[k - Len(first)]
    BY <1>1
  <2>2. Len(first) + Len(pp) = n + 1  BY <1>1, <1>2
  <2> HIDE DEF files
  <2> QED  BY <1>1, <1>2, <2>1, <2>2
<1> HIDE DEF files
<1>5. files[1] = Manifest /\ \A k \in 2 .. n + 1 : files[k] = pp[k - 1] /\ pp[k - 1] # Manifest
  <2>1. 1 \in 1 .. n + 1  OBVIOUS
  <2>2. \A k \in 2 .. n + 1 : k \in 1 .. n + 1 /\ ~(k <= 1) /\ k - 1 \in 1 .. n  OBVIOUS
  <2> QED  BY <1>1, <1>2, <1>4, <2>1, <2>2
<1>6. FoldLeft(WithOther, <<>>, files) = pp
  <2>1. PICK h \in [0 .. n + 1 -> Seq(MetadataPath)] :
            /\ h[0] = <<>>
            /\ \A i \in 1 .. n + 1 : h[i] = WithOther(h[i - 1], files[i])
            /\ FoldLeft(WithOther, <<>>, files) = h[n + 1]
    <3>1. \E h \in [0 .. Len(files) -> Seq(MetadataPath)] :
              /\ h[0] = <<>>
              /\ \A i \in 1 .. Len(files) : h[i] = WithOther(h[i - 1], files[i])
              /\ FoldLeft(WithOther, <<>>, files) = h[Len(files)]
      BY <1>4, OthersRun
    <3>2. Len(files) = n + 1  BY <1>4
    <3> QED  BY <3>1, <3>2
  <2> DEFINE Bad == {i \in 1 .. n + 1 : h[i] # SubSeq(pp, 1, i - 1)}
  <2>2. Bad = {}
    <3> SUFFICES ASSUME Bad # {} PROVE FALSE  OBVIOUS
    <3>1. Bad \in SUBSET Nat  OBVIOUS
    <3>2. PICK i \in Bad : \A o \in Bad : i <= o  BY <3>1, LeastNatural
    <3>3. i \in 1 .. n + 1 /\ h[i] # SubSeq(pp, 1, i - 1)  OBVIOUS
    <3>4. h[i] = WithOther(h[i - 1], files[i])  BY <2>1, <3>3
    <3>5. CASE i = 1
      <4>1. i - 1 = 0 /\ h[i] = WithOther(h[0], Manifest)  BY <1>5, <3>4, <3>5
      <4>2. h[i] = <<>>  BY <2>1, <4>1 DEF WithOther
      <4> QED  BY <1>3, <3>3, <4>1, <4>2
    <3>6. CASE i # 1
      <4> DEFINE j == i - 2
      <4>1. /\ i - 1 \in 1 .. n + 1 /\ ~(i <= i - 1) /\ i \in 2 .. n + 1
            /\ j \in Nat /\ j < n /\ j + 1 = i - 1 /\ (i - 1) - 1 = j
        BY <3>3, <3>6
      <4>2. h[i - 1] = SubSeq(pp, 1, (i - 1) - 1)  BY <3>2, <4>1
      <4>3. h[i] = Append(h[i - 1], pp[i - 1])  BY <1>5, <3>4, <4>1 DEF WithOther
      <4> HIDE DEF j
      <4>4. h[i] = Append(SubSeq(pp, 1, j), pp[j + 1])  BY <4>1, <4>2, <4>3
      <4>5. h[i] = SubSeq(pp, 1, j + 1)  BY <1>1, <4>1, <4>4, OneMore
      <4> QED  BY <3>3, <4>1, <4>5
    <3> QED  BY <3>5, <3>6
  <2>3. n + 1 \in 1 .. n + 1 /\ (n + 1) - 1 = n  OBVIOUS
  <2>4. h[n + 1] = SubSeq(pp, 1, (n + 1) - 1)  BY <2>2, <2>3
  <2> QED  BY <1>3, <2>1, <2>3, <2>4
<1>7. FoldLeft(WithManifest, <<>>, files) = first
  <2>1. PICK h \in [0 .. n + 1 -> Seq(MetadataPath)] :
            /\ h[0] = <<>>
            /\ \A i \in 1 .. n + 1 : h[i] = WithManifest(h[i - 1], files[i])
            /\ FoldLeft(WithManifest, <<>>, files) = h[n + 1]
    <3>1. \E h \in [0 .. Len(files) -> Seq(MetadataPath)] :
              /\ h[0] = <<>>
              /\ \A i \in 1 .. Len(files) : h[i] = WithManifest(h[i - 1], files[i])
              /\ FoldLeft(WithManifest, <<>>, files) = h[Len(files)]
      BY <1>4, ManifestRun
    <3>2. Len(files) = n + 1  BY <1>4
    <3> QED  BY <3>1, <3>2
  <2> DEFINE Bad == {i \in 1 .. n + 1 : h[i] # first}
  <2>2. Bad = {}
    <3> SUFFICES ASSUME Bad # {} PROVE FALSE  OBVIOUS
    <3>1. Bad \in SUBSET Nat  OBVIOUS
    <3>2. PICK i \in Bad : \A o \in Bad : i <= o  BY <3>1, LeastNatural
    <3>3. i \in 1 .. n + 1 /\ h[i] # first  OBVIOUS
    <3>4. h[i] = WithManifest(h[i - 1], files[i])  BY <2>1, <3>3
    <3>5. CASE i = 1
      <4>1. i - 1 = 0 /\ h[i] = WithManifest(h[0], Manifest)  BY <1>5, <3>4, <3>5
      <4>2. h[i] = Append(<<>>, Manifest)  BY <2>1, <4>1 DEF WithManifest
      <4> QED  BY <3>3, <4>2 DEF first
    <3>6. CASE i # 1
      <4>1. i - 1 \in 1 .. n + 1 /\ ~(i <= i - 1) /\ i \in 2 .. n + 1  BY <3>3, <3>6
      <4>2. h[i] = h[i - 1]  BY <1>5, <3>4, <4>1 DEF WithManifest
      <4> QED  BY <3>2, <3>3, <4>1, <4>2
    <3> QED  BY <3>5, <3>6
  <2>3. n + 1 \in 1 .. n + 1  OBVIOUS
  <2> QED  BY <2>1, <2>2, <2>3
<1> QED  BY <1>4, <1>6, <1>7 DEF OrderedMetadata, pp, first, files
-----------------------------------------------------------------------------
(* The split of a publication, for any number of pages and pointers.       *)

LEMMA PlanInputs ==
    ASSUME pages \in Nat, lfs \in Nat
    PROVE  /\ Metadata \in Seq(MetadataPath) /\ Metadata # <<>> /\ Len(Metadata) = pages + 1
           /\ Pointers \in Seq(Nat) /\ Len(Pointers) = lfs
           /\ OrderedMetadata(Metadata) = PagePaths(pages) \o <<Manifest>>
           /\ OrderedMetadata(Metadata) \in Seq(MetadataPath)
           /\ Len(OrderedMetadata(Metadata)) = Len(Metadata)
           /\ OrderedMetadata(Metadata)[Len(Metadata)] = Manifest
           /\ ToSet(OrderedMetadata(Metadata)) = ToSet(Metadata)
<1> DEFINE pp == PagePaths(pages)
           last == <<Manifest>>
<1>1. Metadata = last \o pp  BY DEF Metadata, PagePaths
<1>2. pp \in Seq(MetadataPath) /\ Len(pp) = pages /\ last \in Seq(MetadataPath)
  BY PathTypes
<1>3. Len(last) = 1 /\ last[1] = Manifest  OBVIOUS
<1>4. OrderedMetadata(last \o pp) = pp \o last  BY ManifestGoesLast
<1>5. Pointers \in Seq(Nat) /\ Len(Pointers) = lfs  BY DEF Pointers
<1> HIDE DEF pp, last
<1>6. last \o pp \in Seq(MetadataPath) /\ Len(last \o pp) = Len(last) + Len(pp)
  BY <1>2
<1>7. /\ pp \o last \in Seq(MetadataPath) /\ Len(pp \o last) = Len(pp) + Len(last)
      /\ \A k \in 1 .. Len(pp) + Len(last) :
             (pp \o last)[k] = IF k <= Len(pp) THEN pp[k] ELSE last[k - Len(pp)]
  BY <1>2
<1>8. (pp \o last)[pages + 1] = Manifest
  <2>1. pages + 1 \in 1 .. Len(pp) + Len(last)  BY <1>2, <1>3
  <2>2. ~(pages + 1 <= Len(pp)) /\ (pages + 1) - Len(pp) = 1  BY <1>2
  <2> HIDE DEF pp, last
  <2> QED  BY <1>3, <1>7, <2>1, <2>2
<1>9. ToSet(last \o pp) = ToSet(last) \cup ToSet(pp) /\ ToSet(pp \o last) = ToSet(pp) \cup ToSet(last)
  BY <1>2, JoinedMembers
<1>10. Len(last \o pp) = pages + 1 /\ Len(pp \o last) = pages + 1  BY <1>2, <1>3, <1>6, <1>7
<1>11. Metadata # <<>>
  <2>1. Len(Metadata) # 0  BY <1>1, <1>10
  <2> QED  BY <2>1
<1> QED  BY <1>1, <1>4, <1>5, <1>6, <1>7, <1>8, <1>9, <1>10, <1>11 DEF pp, last

LEMMA PlanMade ==
    ASSUME pages \in Nat, lfs \in Nat
    PROVE  LET m     == Len(Metadata)
               early == EarlyBatchCount(m, lfs)
           IN  /\ early \in Nat /\ Len(Plan) = early + 1 /\ DOMAIN Plan = 1 .. early + 1
               /\ \A i \in 1 .. early :
                     /\ Plan[i].files = <<>>
                     /\ Plan[i].lfs = SubSeq(Pointers, EarlyOffset(m, lfs, i - 1) + 1,
                                            EarlyOffset(m, lfs, i))
               /\ Plan[early + 1].files = OrderedMetadata(Metadata)
               /\ Plan[early + 1].lfs = SubSeq(Pointers, EarlyPointerCount(m, lfs) + 1, lfs)
<1> DEFINE p == Len(Pointers)
           m == Len(Metadata)
<1>1. /\ Metadata \in Seq(MetadataPath) /\ Metadata # <<>>
      /\ Pointers \in Seq(Nat) /\ p = lfs
  BY PlanInputs
<1>2. /\ EarlyBatchCount(m, p) \in Nat
      /\ Plan \in Seq([files : {<<>>, OrderedMetadata(Metadata)}, lfs : Seq(Nat)])
      /\ Len(Plan) = EarlyBatchCount(m, p) + 1
      /\ \A i \in 1 .. EarlyBatchCount(m, p) :
            /\ Plan[i].files = <<>>
            /\ Plan[i].lfs = SubSeq(Pointers, EarlyOffset(m, p, i - 1) + 1, EarlyOffset(m, p, i))
      /\ Plan[EarlyBatchCount(m, p) + 1].files = OrderedMetadata(Metadata)
      /\ Plan[EarlyBatchCount(m, p) + 1].lfs =
             SubSeq(Pointers, EarlyPointerCount(m, p) + 1, p)
  <2> HIDE DEF m
  <2>1. m = Len(Metadata)  BY DEF m
  <2> QED  BY <1>1, <2>1, PlanShape DEF Plan
<1>3. DOMAIN Plan = 1 .. Len(Plan)  BY <1>2
<1> HIDE DEF p, m
<1> QED  BY <1>1, <1>2, <1>3 DEF m

LEMMA CommitsFit ==
    ASSUME pages \in Nat, lfs \in Nat
    PROVE  EveryCommitFits
<1> DEFINE m == Len(Metadata)
           k == EarlyBatchCount(m, lfs)
           early == EarlyPointerCount(m, lfs)
           O(i) == EarlyOffset(m, lfs, i)
<1>1. /\ Metadata \in Seq(MetadataPath) /\ Metadata # <<>> /\ m \in Nat \ {0}
      /\ Pointers \in Seq(Nat) /\ Len(Pointers) = lfs
      /\ Len(OrderedMetadata(Metadata)) = m
  BY PlanInputs
<1>2. /\ k \in Nat /\ Len(Plan) = k + 1 /\ DOMAIN Plan = 1 .. k + 1
      /\ \A i \in 1 .. k : Plan[i].files = <<>> /\ Plan[i].lfs = SubSeq(Pointers, O(i - 1) + 1, O(i))
      /\ Plan[k + 1].files = OrderedMetadata(Metadata)
      /\ Plan[k + 1].lfs = SubSeq(Pointers, early + 1, lfs)
  BY PlanMade
<1> SUFFICES ASSUME ~MetadataTooLarge(Metadata), NEW i \in DOMAIN Plan
             PROVE  Len(Plan[i].files) + Len(Plan[i].lfs) \in 1 .. MaxOps
  BY DEF EveryCommitFits
<1>a. m <= MaxOps  BY <1>1, MaxOpsAssumption DEF MetadataTooLarge
<1>b. i \in 1 .. k + 1  BY <1>2
<1>3. /\ early \in 0 .. lfs /\ m + (lfs - early) <= MaxOps
      /\ \A j \in 0 .. k : O(j) \in 0 .. early
      /\ \A j \in 1 .. k : O(j) - O(j - 1) \in 1 .. MaxOps
  <2>1. early \in 0 .. lfs /\ m + FinalPointerCount(m, lfs) <= MaxOps
        /\ FinalPointerCount(m, lfs) = lfs - early
    BY <1>1, <1>a, PlanCounts
  <2>2. \A j \in 0 .. k : O(j) \in 0 .. early  BY <1>1, PlanOffsets
  <2>3. \A j \in 1 .. k : /\ O(j) = O(j - 1) + EarlyTake(m, lfs, j - 1)
                          /\ EarlyTake(m, lfs, j - 1) \in 0 .. MaxOps
                          /\ EarlyTake(m, lfs, j - 1) # 0
    BY <1>1, <1>a, PlanOffsets
  <2> HIDE DEF O, early, k
  <2>4. ASSUME NEW j \in 1 .. k PROVE O(j) - O(j - 1) \in 1 .. MaxOps
    <3>1. j \in 0 .. k /\ j - 1 \in 0 .. k  BY <1>2
    <3>2. O(j) \in Nat /\ O(j - 1) \in Nat  BY <2>1, <2>2, <3>1
    <3> QED  BY <2>3, <3>2, MaxOpsAssumption
  <2> QED  BY <2>1, <2>2, <2>4
<1> HIDE DEF m, k, early, O
<1>4. CASE i \in 1 .. k
  <2>1. i - 1 \in 0 .. k /\ i \in 0 .. k  BY <1>2, <1>4
  <2>2. O(i - 1) \in 0 .. lfs /\ O(i) \in O(i - 1) .. lfs /\ O(i) - O(i - 1) \in 1 .. MaxOps
    BY <1>3, <1>4, <2>1, MaxOpsAssumption
  <2>3. Len(SubSeq(Pointers, O(i - 1) + 1, O(i))) = O(i) - O(i - 1)
    BY <1>1, <2>2, SubSeqJoins
  <2>4. Len(Plan[i].files) = 0  BY <1>2, <1>4
  <2> QED  BY <1>2, <1>4, <2>2, <2>3, <2>4, MaxOpsAssumption
<1>5. CASE i = k + 1
  <2>1. early \in 0 .. Len(Pointers) /\ lfs \in early .. Len(Pointers)  BY <1>1, <1>3
  <2>2. Len(SubSeq(Pointers, early + 1, lfs)) = lfs - early  BY <1>1, <2>1, SubSeqJoins
  <2>3. Len(Plan[i].files) = m /\ Len(Plan[i].lfs) = lfs - early  BY <1>1, <1>2, <1>5, <2>2
  <2> QED  BY <1>1, <1>3, <2>3, MaxOpsAssumption
<1>6. i \in 1 .. k \/ i = k + 1  BY <1>2, <1>b
<1> QED  BY <1>4, <1>5, <1>6

LEMMA SplitIsRight ==
    ASSUME pages \in Nat, lfs \in Nat
    PROVE  PlanIsRight
<1>1. EveryPointerOnce
  <2> DEFINE m == Len(Metadata)
             early == EarlyPointerCount(m, lfs)
             loop[i \in 0 .. EarlyBatchCount(m, lfs)] ==
                 IF i = 0 THEN 0
                 ELSE loop[i - 1] + MinOf(MaxOps, early - loop[i - 1])
  <2>1. /\ Metadata \in Seq(MetadataPath) /\ Metadata # <<>> /\ m \in Nat \ {0}
        /\ Pointers \in Seq(Nat)
    BY PlanInputs
  <2>2. FlattenSeq([i \in DOMAIN Plan |-> Plan[i].lfs]) = Pointers
    BY <2>1, PointersOnce DEF Plan
  <2>3. \A i \in DOMAIN loop : EarlyOffset(m, lfs, i) = loop[i]
    BY <2>1, LoopOffsets
  <2> QED  BY <2>2, <2>3 DEF EveryPointerOnce
<1>2. EveryCommitFits  BY CommitsFit
<1>3. MetadataOnlyInLastCommit
  <2> DEFINE k == EarlyBatchCount(Len(Metadata), lfs)
             ordered == OrderedMetadata(Metadata)
  <2>1. /\ Metadata \in Seq(MetadataPath) /\ Metadata # <<>>
        /\ Pointers \in Seq(Nat) /\ Len(Pointers) = lfs
        /\ Len(ordered) = Len(Metadata) /\ ordered[Len(Metadata)] = Manifest
        /\ ToSet(ordered) = ToSet(Metadata)
    BY PlanInputs
  <2>2. /\ k \in Nat /\ Len(Plan) = k + 1 /\ \A i \in 1 .. k : Plan[i].files = <<>>
        /\ Plan[k + 1].files = ordered
    BY PlanMade
  <2> HIDE DEF k, ordered
  <2>3. (k + 1) - 1 = k  BY <2>2
  <2>4. \A i \in 1 .. Len(Plan) - 1 : Plan[i].files = <<>>  BY <2>2, <2>3
  <2>5. Plan[Len(Plan)].files = ordered  BY <2>2
  <2> QED  BY <2>1, <2>4, <2>5 DEF MetadataOnlyInLastCommit
<1> QED  BY <1>1, <1>2, <1>3 DEF PlanIsRight
-----------------------------------------------------------------------------
(* The groups of a batch.                                                  *)

Counts   == 1 .. MaxPointers
LoopType == [groups : Seq(Seq(Counts)), group : Seq(Counts), pointers : Nat, failed : BOOLEAN]

LEMMA PointersRun ==
    ASSUME NEW group \in Seq(Nat)
    PROVE  \E h \in [0 .. Len(group) -> Nat] :
               /\ h[0] = 0
               /\ \A i \in 1 .. Len(group) : h[i] = h[i - 1] + group[i]
               /\ PointersOf(group) = h[Len(group)]
<1> DEFINE T == Nat
           A == Nat
           D == SUBSET (DOMAIN group)
           op == [p \in T \X A |-> p[1] + p[2]]
           Is(f) == f = [s \in D |-> IF s = {} THEN 0 ELSE f[s \ {Max(s)}] + group[Max(s)]]
           iter == CHOOSE f : Is(f)
<1>1. PointersOf(group) = iter[DOMAIN group]
  BY DEF PointersOf, FoldLeft, MapThenFoldSet
<1>2. \A t \in T, a \in A : t + a \in T
  OBVIOUS
<1>3. op \in [T \X A -> T] /\ \A t \in T, a \in A : op[<<t, a>>] = t + a
  BY <1>2
<1>4. group \in Seq(A) /\ 0 \in T
  OBVIOUS
<1> HIDE DEF op, T, A
<1>5. PICK g, h : IsRun(g, h, op, 0, group, T)
  BY <1>3, <1>4, FoldRuns
<1>6. \A s \in D : s # {} => s \ {Max(s)} \in D /\ group[Max(s)] \in A
  <2> TAKE s \in D
  <2>1. Len(group) \in Nat /\ DOMAIN group = 1 .. Len(group)  BY <1>4
  <2>2. s # {} => Max(s) \in s /\ Max(s) \in 1 .. Len(group)  BY <2>1, GreatestPlace
  <2>3. s # {} => group[Max(s)] \in A  BY <1>4, <2>2
  <2> QED  BY <2>2, <2>3
<1>7. Is(g)
  <2> SUFFICES ASSUME NEW s \in D
               PROVE  g[s] = IF s = {} THEN 0 ELSE g[s \ {Max(s)}] + group[Max(s)]
    BY <1>5 DEF IsRun
  <2>1. g[s] = IF s = {} THEN 0 ELSE op[<<g[s \ {Max(s)}], group[Max(s)]>>]
    BY <1>5 DEF IsRun, FoldsOver
  <2>2. s # {} => g[s \ {Max(s)}] \in T  BY <1>5, <1>6 DEF IsRun
  <2> QED  BY <1>3, <1>6, <2>1, <2>2
<1>8. Is(iter)  BY <1>7
<1> HIDE DEF iter
<1>9. iter[{}] = 0  BY <1>8
<1>10. ASSUME NEW s \in D, s # {}, iter[s \ {Max(s)}] \in T
       PROVE  iter[s] = op[<<iter[s \ {Max(s)}], group[Max(s)]>>]
  <2>1. iter[s] = iter[s \ {Max(s)}] + group[Max(s)]  BY <1>8, <1>10
  <2> QED  BY <1>3, <1>6, <1>10, <2>1
<1>11. iter[DOMAIN group] = h[Len(group)]  BY <1>5, <1>9, <1>10 DEF IsRun
<1>12. \A i \in 1 .. Len(group) : h[i] = h[i - 1] + group[i]
  <2> TAKE i \in 1 .. Len(group)
  <2>1. i - 1 \in 0 .. Len(group) /\ group[i] \in A  BY <1>4
  <2>2. h[i - 1] \in T  BY <1>5, <2>1 DEF IsRun
  <2> QED  BY <1>3, <1>5, <2>1, <2>2 DEF IsRun
<1> QED  BY <1>1, <1>5, <1>11, <1>12 DEF IsRun, T

LEMMA AddItemTypes ==
    ASSUME NEW loop \in LoopType, NEW c \in Nat
    PROVE  AddItem(loop, c) \in LoopType
<1> SUFFICES ASSUME c \in Counts PROVE AddItem(loop, c) \in LoopType
  BY DEF AddItem, Unsupported, Counts, LoopType
<1>1. /\ loop.groups \in Seq(Seq(Counts)) /\ loop.group \in Seq(Counts)
      /\ loop.pointers \in Nat /\ c \in Nat
  BY GroupLimits DEF LoopType, Counts
<1>2. /\ Append(loop.groups, loop.group) \in Seq(Seq(Counts))
      /\ <<c>> \in Seq(Counts) /\ Append(loop.group, c) \in Seq(Counts)
      /\ loop.pointers + c \in Nat
  BY <1>1
<1> QED  BY <1>1, <1>2 DEF AddItem, LoopType

LEMMA LoopRun ==
    ASSUME NEW done \in Seq(Nat)
    PROVE  \E h \in [0 .. Len(done) -> LoopType] :
               /\ h[0] = EmptyLoop
               /\ \A i \in 1 .. Len(done) : h[i] = AddItem(h[i - 1], done[i])
               /\ FoldLeft(AddItem, EmptyLoop, done) = h[Len(done)]
<1> DEFINE T == LoopType
           A == Nat
           D == SUBSET (DOMAIN done)
           op == [p \in T \X A |-> AddItem(p[1], p[2])]
           Is(f) == f = [s \in D |-> IF s = {} THEN EmptyLoop ELSE AddItem(f[s \ {Max(s)}], done[Max(s)])]
           iter == CHOOSE f : Is(f)
<1>1. FoldLeft(AddItem, EmptyLoop, done) = iter[DOMAIN done]
  BY DEF FoldLeft, MapThenFoldSet
<1>2. \A t \in T, a \in A : AddItem(t, a) \in T
  BY AddItemTypes
<1>3. op \in [T \X A -> T] /\ \A t \in T, a \in A : op[<<t, a>>] = AddItem(t, a)
  BY <1>2
<1>4. done \in Seq(A) /\ EmptyLoop \in T
  BY DEF EmptyLoop, LoopType
<1> HIDE DEF op, T, A
<1>5. PICK g, h : IsRun(g, h, op, EmptyLoop, done, T)
  BY <1>3, <1>4, FoldRuns
<1>6. \A s \in D : s # {} => s \ {Max(s)} \in D /\ done[Max(s)] \in A
  BY <1>4, GreatestPlace
<1>7. Is(g)
  <2> SUFFICES ASSUME NEW s \in D
               PROVE  g[s] = IF s = {} THEN EmptyLoop ELSE AddItem(g[s \ {Max(s)}], done[Max(s)])
    BY <1>5 DEF IsRun
  <2>1. g[s] = IF s = {} THEN EmptyLoop ELSE op[<<g[s \ {Max(s)}], done[Max(s)]>>]
    BY <1>5 DEF IsRun, FoldsOver
  <2>2. s # {} => g[s \ {Max(s)}] \in T  BY <1>5, <1>6 DEF IsRun
  <2> QED  BY <1>3, <1>6, <2>1, <2>2
<1>8. Is(iter)  BY <1>7
<1> HIDE DEF iter
<1>9. iter[{}] = EmptyLoop  BY <1>8
<1>10. ASSUME NEW s \in D, s # {}, iter[s \ {Max(s)}] \in T
       PROVE  iter[s] = op[<<iter[s \ {Max(s)}], done[Max(s)]>>]
  <2>1. iter[s] = AddItem(iter[s \ {Max(s)}], done[Max(s)])  BY <1>8, <1>10
  <2> QED  BY <1>3, <1>6, <1>10, <2>1
<1>11. iter[DOMAIN done] = h[Len(done)]  BY <1>5, <1>9, <1>10 DEF IsRun
<1>12. \A i \in 1 .. Len(done) : h[i] = AddItem(h[i - 1], done[i])
  <2> TAKE i \in 1 .. Len(done)
  <2>1. i - 1 \in 0 .. Len(done) /\ done[i] \in A  BY <1>4
  <2>2. h[i - 1] \in T  BY <1>5, <2>1 DEF IsRun
  <2> QED  BY <1>3, <1>5, <2>1, <2>2 DEF IsRun
<1> QED  BY <1>1, <1>5, <1>11, <1>12 DEF IsRun, T

\* What AddItem adds to a group.
LEMMA PointersAppend ==
    ASSUME NEW g \in Seq(Nat), NEW c \in Nat
    PROVE  PointersOf(g) \in Nat /\ PointersOf(Append(g, c)) = PointersOf(g) + c
<1> DEFINE n == Len(g)
           b == Append(g, c)
<1>1. /\ b \in Seq(Nat) /\ Len(b) = n + 1 /\ b[n + 1] = c /\ n \in Nat
      /\ \A i \in 1 .. n : b[i] = g[i]
  OBVIOUS
<1>2. PICK h \in [0 .. n -> Nat] :
          h[0] = 0 /\ (\A i \in 1 .. n : h[i] = h[i - 1] + g[i]) /\ PointersOf(g) = h[n]
  BY PointersRun
<1> HIDE DEF b, n
<1>3. PICK k \in [0 .. Len(b) -> Nat] :
          /\ k[0] = 0 /\ \A i \in 1 .. Len(b) : k[i] = k[i - 1] + b[i]
          /\ PointersOf(b) = k[Len(b)]
  BY <1>1, PointersRun
<1> DEFINE Bad == {i \in 0 .. n : h[i] # k[i]}
<1>4. Bad = {}
  <2> SUFFICES ASSUME Bad # {} PROVE FALSE  OBVIOUS
  <2>1. Bad \in SUBSET Nat  OBVIOUS
  <2>2. PICK i \in Bad : \A o \in Bad : i <= o  BY <2>1, LeastNatural
  <2>3. i \in 0 .. n /\ h[i] # k[i]  OBVIOUS
  <2>4. i # 0  BY <1>2, <1>3, <2>3
  <2>5. i \in 1 .. n /\ i \in 1 .. Len(b) /\ i - 1 \in 0 .. n /\ ~(i <= i - 1)
    BY <1>1, <2>3, <2>4
  <2>6. h[i - 1] = k[i - 1]  BY <2>2, <2>5
  <2> QED  BY <1>1, <1>2, <1>3, <2>3, <2>5, <2>6
<1>5. n \in 0 .. n /\ n + 1 \in 1 .. Len(b) /\ (n + 1) - 1 = n  BY <1>1
<1>6. k[n + 1] = k[n] + c /\ k[n] = h[n] /\ h[n] \in Nat  BY <1>1, <1>2, <1>3, <1>4, <1>5
<1> QED  BY <1>1, <1>2, <1>3, <1>6 DEF b

LEMMA PointersOfNone == PointersOf(<<>>) = 0
<1>1. <<>> \in Seq(Nat) /\ Len(<<>>) = 0  OBVIOUS
<1> QED  BY <1>1, PointersRun

\* The group has no room for one item more, of c pointers.
NoRoom(group, c) == Len(group) = MaxItems \/ PointersOf(group) + c > MaxPointers
Fits(group)      == Len(group) \in 1 .. MaxItems /\ PointersOf(group) <= MaxPointers

\* The loop of groupPublications when it has taken the items done: it threw at
\* an item that fits in no group, or it cut what it took.
LoopCutRight(loop, done) ==
    /\ FlattenSeq(loop.groups) \o loop.group = done
    /\ loop.pointers = PointersOf(loop.group)
    /\ \A j \in 1 .. Len(loop.groups) : Fits(loop.groups[j])
    /\ \A j \in 1 .. Len(loop.groups) - 1 : NoRoom(loop.groups[j], loop.groups[j + 1][1])
    /\ loop.group # <<>> => Fits(loop.group)
    /\ loop.groups # <<>> => /\ loop.group # <<>>
                             /\ NoRoom(loop.groups[Len(loop.groups)], loop.group[1])

LoopIsRight(loop, done) ==
    IF \E i \in 1 .. Len(done) : done[i] \notin Counts
    THEN loop.failed
    ELSE ~loop.failed /\ LoopCutRight(loop, done)

LEMMA LoopStarts == LoopIsRight(EmptyLoop, <<>>)
<1>1. FlattenSeq(<<>>) = <<>>  BY DEF FlattenSeq
<1>2. <<>> \o <<>> = <<>> /\ Len(<<>>) = 0  OBVIOUS
<1> QED  BY <1>1, <1>2, PointersOfNone DEF LoopIsRight, LoopCutRight, EmptyLoop

LEMMA EmptyHasNone == Len(<<>>) = 0
  OBVIOUS

LEMMA LoopCuts ==
    ASSUME NEW loop \in LoopType, NEW done \in Seq(Counts), NEW c \in Counts,
           ~loop.failed, LoopCutRight(loop, done)
    PROVE  LoopCutRight(AddItem(loop, c), Append(done, c))
<1> DEFINE groups == loop.groups
           group == loop.group
           all == FlattenSeq(groups)
           n == Len(groups)
<1>1. groups \in Seq(Seq(Counts)) /\ group \in Seq(Counts) /\ all \in Seq(Counts)
      /\ loop.pointers \in Nat
  BY FlattenAppend DEF LoopType
<1>2. group \in Seq(Nat) /\ c \in Nat /\ c <= MaxPointers /\ n \in Nat
      /\ PointersOf(group) \in Nat /\ Len(group) \in Nat
      /\ MaxItems \in Nat \ {0} /\ MaxPointers \in Nat \ {0}
  <2>1. Counts \subseteq Nat /\ c \in Nat /\ c <= MaxPointers  BY GroupLimits DEF Counts
  <2>2. group \in Seq(Nat)  BY <1>1, <2>1, SeqMonotonic
  <2>3. PointersOf(group) \in Nat  BY <2>1, <2>2, PointersAppend
  <2>4. n \in Nat /\ Len(group) \in Nat  BY <1>1
  <2> QED  BY <2>1, <2>2, <2>3, <2>4, GroupLimits
<1>3. /\ all \o group = done /\ loop.pointers = PointersOf(group)
      /\ \A j \in 1 .. n : Fits(groups[j])
      /\ \A j \in 1 .. n - 1 : NoRoom(groups[j], groups[j + 1][1])
      /\ group # <<>> => Fits(group)
      /\ groups # <<>> => group # <<>> /\ NoRoom(groups[n], group[1])
  BY DEF LoopCutRight
<1>4. PointersOf(<<c>>) = c
  <2>1. <<c>> = Append(<<>>, c) /\ <<>> \in Seq(Nat)  OBVIOUS
  <2>2. PointersOf(Append(<<>>, c)) = PointersOf(<<>>) + c  BY <1>2, <2>1, PointersAppend
  <2> QED  BY <1>2, <2>1, <2>2, PointersOfNone
<1>5. <<c>> \in Seq(Counts) /\ Len(<<c>>) = 1 /\ <<c>>[1] = c /\ <<c>> # <<>>  OBVIOUS
<1>0. ~(loop.failed \/ Unsupported(c))  BY DEF Unsupported, Counts
<1>6. CASE IsFull(loop, c)
  <2> DEFINE next == [groups |-> Append(groups, group), group |-> <<c>>, pointers |-> c,
                      failed |-> loop.failed]
  <2>1. AddItem(loop, c) = next  BY <1>0, <1>6 DEF AddItem, LoopType
  <2>2. group # <<>> /\ Fits(group) /\ NoRoom(group, c)
    <3>1. group # <<>> /\ (Len(group) >= MaxItems \/ PointersOf(group) + c > MaxPointers)
      BY <1>3, <1>6 DEF IsFull
    <3>2. Fits(group)  BY <1>3, <3>1
    <3>3. Len(group) >= MaxItems => Len(group) = MaxItems  BY <1>2, <3>2 DEF Fits
    <3> QED  BY <3>1, <3>2, <3>3 DEF NoRoom
  <2>3. FlattenSeq(Append(groups, group)) \o <<c>> = Append(done, c)
    <3>1. FlattenSeq(Append(groups, group)) = all \o group  BY <1>1, FlattenAppend
    <3>2. done \o <<c>> = Append(done, c)  BY AppendIsConcat
    <3> QED  BY <1>3, <3>1, <3>2
  <2>4. /\ Append(groups, group) # <<>> /\ Len(Append(groups, group)) = n + 1
        /\ Append(groups, group)[n + 1] = group
        /\ \A j \in 1 .. n : Append(groups, group)[j] = groups[j]
    <3> HIDE DEF groups, group
    <3>1. Append(groups, group) \in Seq(Seq(Counts)) /\ Len(Append(groups, group)) = n + 1
          /\ Append(groups, group)[n + 1] = group
          /\ \A j \in 1 .. n : Append(groups, group)[j] = groups[j]
      BY <1>1
    <3>2. Append(groups, group) # <<>>
      <4>1. Len(Append(groups, group)) # 0  BY <1>2, <3>1
      <4> QED  BY <4>1, EmptyHasNone
    <3> QED  BY <3>1, <3>2
  <2> DEFINE gs == Append(groups, group)
  <2> HIDE DEF gs, groups, group, all, n
  <2>5. \A j \in 1 .. Len(gs) : Fits(gs[j])
    <3> TAKE j \in 1 .. Len(gs)
    <3>1. j \in 1 .. n \/ j = n + 1  BY <1>2, <2>4 DEF gs
    <3> QED  BY <1>3, <2>2, <2>4, <3>1 DEF gs
  <2>6. \A j \in 1 .. Len(gs) - 1 : NoRoom(gs[j], gs[j + 1][1])
    <3> TAKE j \in 1 .. Len(gs) - 1
    <3>1. j \in 1 .. n  BY <1>2, <2>4 DEF gs
    <3>2. CASE j = n
      <4>1. groups # <<>>
        <5>1. Len(groups) # 0  BY <1>2, <3>1 DEF n
        <5> QED  BY <5>1
      <4>2. NoRoom(groups[n], group[1])  BY <1>3, <4>1
      <4> QED  BY <2>4, <3>1, <3>2, <4>2 DEF gs
    <3>3. CASE j # n
      <4>1. j \in 1 .. n - 1 /\ j + 1 \in 1 .. n  BY <1>2, <3>1, <3>3
      <4>2. gs[j] = groups[j] /\ gs[j + 1] = groups[j + 1]  BY <2>4, <3>1, <4>1 DEF gs
      <4> QED  BY <1>3, <4>1, <4>2
    <3> QED  BY <3>2, <3>3
  <2>7. Fits(<<c>>)  BY <1>2, <1>4, <1>5 DEF Fits
  <2>8. NoRoom(gs[Len(gs)], <<c>>[1])  BY <1>5, <2>2, <2>4 DEF gs
  <2>9. next = [groups |-> gs, group |-> <<c>>, pointers |-> c, failed |-> loop.failed]
    BY DEF gs
  <2> HIDE DEF next
  <2>10. next.groups = gs /\ next.group = <<c>> /\ next.pointers = c  BY <2>9
  <2>11. FlattenSeq(gs) \o <<c>> = Append(done, c)  BY <2>3 DEF gs
  <2> HIDE DEF NoRoom, Fits
  <2>12. LoopCutRight(next, Append(done, c))
    BY <1>4, <1>5, <2>5, <2>6, <2>7, <2>8, <2>10, <2>11 DEF LoopCutRight
  <2> QED  BY <2>1, <2>12 DEF next, gs, groups, group
<1>7. CASE ~IsFull(loop, c)
  <2> DEFINE more == Append(group, c)
             next == [loop EXCEPT !.group = Append(@, c), !.pointers = @ + c]
  <2>1. AddItem(loop, c) = next  BY <1>0, <1>7 DEF AddItem
  <2>2. next.groups = groups /\ next.group = more /\ next.pointers = loop.pointers + c
    BY DEF LoopType
  <2>3. PointersOf(more) = PointersOf(group) + c  BY <1>2, PointersAppend
  <2>4. more # <<>> /\ Len(more) = Len(group) + 1 /\ (group # <<>> => more[1] = group[1])
    <3> HIDE DEF group
    <3>1. /\ Len(more) = Len(group) + 1 /\ \A j \in 1 .. Len(group) : more[j] = group[j]
      BY <1>1
    <3>2. Len(more) # 0  BY <1>2, <3>1
    <3>3. more # <<>>  BY <3>2, EmptyHasNone
    <3>4. group # <<>> => 1 \in 1 .. Len(group)  BY <1>1, <1>2
    <3> QED  BY <3>1, <3>3, <3>4
  <2>5. all \o more = Append(done, c)
    <3>1. more = group \o <<c>>  BY <1>1, AppendIsConcat
    <3>2. (all \o group) \o <<c>> = all \o (group \o <<c>>)  
      <4>1. <<c>> \in Seq(Counts) /\ all \in Seq(Counts) /\ group \in Seq(Counts)
        BY <1>1, <1>5
      <4> HIDE DEF all, group
      <4> QED  BY <4>1, ConcatAssociative
    <3>3. done \o <<c>> = Append(done, c)  BY AppendIsConcat
    <3> QED  BY <1>3, <3>1, <3>2, <3>3
  <2>6. Fits(more)
    <3>1. CASE group = <<>>
      <4>1. Len(group) = 0 /\ PointersOf(group) = 0  BY <3>1, PointersOfNone
      <4> QED  BY <1>2, <2>3, <2>4, <4>1 DEF Fits
    <3>2. CASE group # <<>>
      <4>1. ~(Len(group) >= MaxItems) /\ ~(PointersOf(group) + c > MaxPointers)
        BY <1>3, <1>7, <3>2 DEF IsFull
      <4> HIDE DEF more, group
      <4> QED  BY <1>2, <2>3, <2>4, <4>1 DEF Fits
    <3> QED  BY <3>1, <3>2
  <2> HIDE DEF next, more, groups, group, all, n
  <2>7. groups # <<>> => NoRoom(groups[n], more[1])  BY <1>3, <2>4
  <2>8. next.pointers = PointersOf(more)  BY <1>3, <2>2, <2>3
  <2>9. FlattenSeq(next.groups) \o next.group = Append(done, c)  BY <2>2, <2>5 DEF all
  <2>10. LoopCutRight(next, Append(done, c))
    BY <1>3, <2>2, <2>4, <2>6, <2>7, <2>8, <2>9 DEF LoopCutRight, n
  <2> QED  BY <2>1, <2>10
<1> QED  BY <1>6, <1>7

LEMMA AddFails ==
    ASSUME NEW loop \in LoopType, NEW c \in Nat
    PROVE  AddItem(loop, c).failed <=> loop.failed \/ c \notin Counts
BY DEF AddItem, Unsupported, Counts, LoopType

LEMMA LoopKeeps ==
    ASSUME NEW loop \in LoopType, NEW done \in Seq(Nat), NEW c \in Nat,
           LoopIsRight(loop, done)
    PROVE  LoopIsRight(AddItem(loop, c), Append(done, c))
<1> DEFINE more == Append(done, c)
<1>1. /\ more \in Seq(Nat) /\ Len(more) = Len(done) + 1 /\ more[Len(done) + 1] = c
      /\ \A i \in 1 .. Len(done) : more[i] = done[i]
  OBVIOUS
<1>2. Len(done) \in Nat  OBVIOUS
<1> HIDE DEF more
<1>3. (\E i \in 1 .. Len(more) : more[i] \notin Counts)
        <=> (\E i \in 1 .. Len(done) : done[i] \notin Counts) \/ c \notin Counts
  <2>1. \A i \in 1 .. Len(more) : i \in 1 .. Len(done) \/ i = Len(done) + 1
    BY <1>1, <1>2
  <2>2. \A i \in 1 .. Len(done) : i \in 1 .. Len(more)  BY <1>1, <1>2
  <2>3. Len(done) + 1 \in 1 .. Len(more)  BY <1>1, <1>2
  <2> QED  BY <1>1, <2>1, <2>2, <2>3
<1>4. AddItem(loop, c).failed <=> loop.failed \/ c \notin Counts
  BY AddFails
<1>5. CASE \E i \in 1 .. Len(more) : more[i] \notin Counts
  BY <1>3, <1>4, <1>5 DEF LoopIsRight, more
<1>6. CASE ~(\E i \in 1 .. Len(more) : more[i] \notin Counts)
  <2>1. c \in Counts /\ ~loop.failed /\ LoopCutRight(loop, done)
        /\ \A i \in 1 .. Len(done) : done[i] \in Counts
    BY <1>3, <1>6 DEF LoopIsRight
  <2>2. done \in Seq(Counts)  BY <2>1
  <2>3. LoopCutRight(AddItem(loop, c), Append(done, c))  BY <2>1, <2>2, LoopCuts
  <2> QED  BY <1>4, <1>6, <2>1, <2>3 DEF LoopIsRight, more
<1> QED  BY <1>5, <1>6

\* However many uploads finish, groupPublications cuts them right.
LEMMA GroupsCutRight ==
    ASSUME items \in Seq(Nat)
    PROVE  GroupsAreRight
<1> DEFINE n == Len(items)
           done(i) == SubSeq(items, 1, i)
<1>1. n \in Nat /\ done(0) = <<>> /\ done(n) = items  OBVIOUS
<1>2. \A i \in 0 .. n : done(i) \in Seq(Nat)  OBVIOUS
<1>3. \A i \in 1 .. n : items[i] \in Nat /\ Append(done(i - 1), items[i]) = done(i)
  <2> TAKE i \in 1 .. n
  <2>1. i - 1 \in Nat /\ i - 1 < Len(items) /\ (i - 1) + 1 = i  OBVIOUS
  <2>2. Append(SubSeq(items, 1, i - 1), items[(i - 1) + 1]) = SubSeq(items, 1, (i - 1) + 1)
    BY <2>1, OneMore
  <2> QED  BY <2>1, <2>2
<1> HIDE DEF n, done
<1>4. PICK h \in [0 .. n -> LoopType] :
          /\ h[0] = EmptyLoop
          /\ \A i \in 1 .. n : h[i] = AddItem(h[i - 1], items[i])
          /\ FoldLeft(AddItem, EmptyLoop, items) = h[n]
  BY LoopRun DEF n
<1> DEFINE Bad == {i \in 0 .. n : ~LoopIsRight(h[i], done(i))}
<1>5. Bad = {}
  <2> SUFFICES ASSUME Bad # {} PROVE FALSE  OBVIOUS
  <2>1. Bad \in SUBSET Nat  OBVIOUS
  <2>2. PICK i \in Bad : \A o \in Bad : i <= o  BY <2>1, LeastNatural
  <2>3. i \in 0 .. n /\ ~LoopIsRight(h[i], done(i))  OBVIOUS
  <2>4. i # 0  BY <1>1, <1>4, <2>3, LoopStarts
  <2>5. i \in 1 .. n /\ i - 1 \in 0 .. n /\ ~(i <= i - 1)  BY <1>1, <2>3, <2>4
  <2>6. LoopIsRight(h[i - 1], done(i - 1))  BY <2>2, <2>5
  <2>7. h[i - 1] \in LoopType  BY <1>4, <2>5
  <2>8. LoopIsRight(AddItem(h[i - 1], items[i]), Append(done(i - 1), items[i]))
    BY <1>2, <1>3, <2>5, <2>6, <2>7, LoopKeeps
  <2> QED  BY <1>3, <1>4, <2>3, <2>5, <2>8
<1> DEFINE end == FoldLeft(AddItem, EmptyLoop, items)
           groups == end.groups
           group == end.group
           k == Len(groups)
<1>6. end \in LoopType /\ LoopIsRight(end, items)
  <2>1. n \in 0 .. n  BY <1>1
  <2> QED  BY <1>1, <1>4, <1>5, <2>1
<1>A. CASE \E i \in DOMAIN items : items[i] \notin Counts
  <2>1. end.failed  BY <1>6, <1>A DEF LoopIsRight
  <2>2. GroupPublications(items).error /\ Groups = <<>>
    BY <2>1 DEF Groups, GroupPublications
  <2> QED  BY <1>A, <2>2 DEF GroupsAreRight, Counts
<1> SUFFICES ASSUME ~(\E i \in DOMAIN items : items[i] \notin Counts)
             PROVE  GroupsAreRight
  BY <1>A
<1>B. ~end.failed /\ LoopCutRight(end, items)
  <2>1. DOMAIN items = 1 .. Len(items)  OBVIOUS
  <2> QED  BY <1>6, <2>1 DEF LoopIsRight
<1>C. ~GroupPublications(items).error
  BY <1>B DEF GroupPublications
<1>7. groups \in Seq(Seq(Counts)) /\ group \in Seq(Counts) /\ k \in Nat
  BY <1>6 DEF LoopType
<1>8. /\ FlattenSeq(groups) \o group = items
      /\ \A j \in 1 .. k : Fits(groups[j])
      /\ \A j \in 1 .. k - 1 : NoRoom(groups[j], groups[j + 1][1])
      /\ group # <<>> => Fits(group)
      /\ groups # <<>> => group # <<>> /\ NoRoom(groups[k], group[1])
  BY <1>B DEF LoopCutRight
<1>9. Groups = IF group = <<>> THEN groups ELSE Append(groups, group)
  BY <1>B DEF Groups, GroupPublications
<1> HIDE DEF groups, group
<1> SUFFICES /\ Groups \in Seq(Seq(Counts)) /\ FlattenSeq(Groups) = items
             /\ \A i \in 1 .. Len(Groups) : Fits(Groups[i])
             /\ \A i \in 1 .. Len(Groups) - 1 : NoRoom(Groups[i], Groups[i + 1][1])
  <2>1. Groups \in Seq(Seq(Counts)) => DOMAIN Groups = 1 .. Len(Groups)  OBVIOUS
  <2> QED  BY <1>C, <2>1 DEF GroupsAreRight, Fits, NoRoom, Counts
<1>10. CASE group = <<>>
  <2>1. Groups = groups /\ groups = <<>>  BY <1>8, <1>9, <1>10
  <2>2. FlattenSeq(Groups) = items
    <3>1. FlattenSeq(<<>>) = <<>> /\ <<>> \o <<>> = <<>>  BY DEF FlattenSeq
    <3> QED  BY <1>8, <1>10, <2>1, <3>1
  <2>3. Len(Groups) = 0  BY <2>1
  <2> QED  BY <1>7, <2>1, <2>2, <2>3
<1>11. CASE group # <<>>
  <2>1. Groups = Append(groups, group)  BY <1>9, <1>11
  <2>2. /\ Groups \in Seq(Seq(Counts)) /\ Len(Groups) = k + 1 /\ Groups[k + 1] = group
        /\ \A j \in 1 .. k : Groups[j] = groups[j]
    BY <1>7, <2>1
  <2>3. FlattenSeq(Groups) = items  BY <1>7, <1>8, <2>1, FlattenAppend
  <2> HIDE DEF k
  <2>4. ASSUME NEW i \in 1 .. Len(Groups) PROVE Fits(Groups[i])
    <3>1. i \in 1 .. k \/ i = k + 1  BY <1>7, <2>2
    <3> QED  BY <1>8, <1>11, <2>2, <3>1
  <2>5. ASSUME NEW i \in 1 .. Len(Groups) - 1 PROVE NoRoom(Groups[i], Groups[i + 1][1])
    <3>1. i \in 1 .. k  BY <1>7, <2>2
    <3>2. CASE i = k
      <4>1. groups # <<>>
        <5>1. Len(groups) # 0  BY <1>7, <3>1 DEF k
        <5> QED  BY <5>1
      <4> QED  BY <1>8, <2>2, <3>1, <3>2, <4>1
    <3>3. CASE i # k
      <4>1. i \in 1 .. k - 1 /\ i + 1 \in 1 .. k  BY <1>7, <3>1, <3>3
      <4> QED  BY <1>8, <2>2, <3>1, <4>1
    <3> QED  BY <3>2, <3>3
  <2> QED  BY <2>2, <2>3, <2>4, <2>5
<1> QED  BY <1>10, <1>11

\* What a behaviour cuts up.
CutInputs == pages \in Nat /\ lfs \in Nat /\ items \in Seq(Nat)

LEMMA CutInputsStay == Spec => []CutInputs
<1>1. Init => CutInputs
  BY DEF Init, CutInputs
<1>2. ASSUME CutInputs, [Next]_vars PROVE CutInputs'
  <2>1. CASE PlansNext
    <3>1. CASE AddPage  BY <1>2, <3>1 DEF AddPage, CutInputs
    <3>2. CASE AddPointer  BY <1>2, <3>2 DEF AddPointer, CutInputs
    <3>3. CASE Finish
      <4>1. PICK count \in 0 .. MaxPointers + 1 : items' = Append(items, count)
        BY <3>3 DEF Finish
      <4>2. items' \in Seq(Nat)  BY <1>2, <4>1, GroupLimits DEF CutInputs
      <4> QED  BY <1>2, <3>3, <4>2 DEF Finish, CutInputs
    <3> QED  BY <2>1, <3>1, <3>2, <3>3 DEF PlansNext
  <2>2. CASE UNCHANGED inputs  BY <1>2, <2>2 DEF inputs, CutInputs
  <2>3. PlansNext \/ UNCHANGED inputs  BY <1>2 DEF Next, vars
  <2> QED  BY <2>1, <2>2, <2>3
<1>3. CutInputs /\ [Next]_vars => CutInputs'  BY <1>2
<1> QED  BY <1>1, <1>3, PTL DEF Spec

\* The planner and the grouping are right for requests and batches of any
\* size, and for every value of the limits.
THEOREM CutsStayRight == Spec => []CutsAreRight
<1>1. CutInputs => CutsAreRight
  BY SplitIsRight, GroupsCutRight DEF CutInputs, CutsAreRight
<1> QED  BY <1>1, CutInputsStay, PTL
=============================================================================
