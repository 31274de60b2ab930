---------------------------- MODULE WorkerUpload ----------------------------
(***************************************************************************)
(* The staging of encrypted media in the Worker (worker/index.js): the     *)
(* handlers of /upload-file and /upload-chunk, the streamed upload with    *)
(* its digest, its timeout and its abort, the buffered one where the       *)
(* runtime lacks the streams, and the one of clients that declare nothing. *)
(*                                                                         *)
(* All uploads are of the same object, as when one is sent again while the *)
(* first is still under way; a body may be another one than was declared.  *)
(* The storage service is external.  If its answers ask for a verification *)
(* what is PUT is staged, and becomes the object when the upload is        *)
(* verified.  If they ask for none, the body becomes the object, whatever  *)
(* it is, as soon as the service has taken all of it.                      *)
(***************************************************************************)
EXTENDS Integers, FiniteSets

CONSTANTS
    Uploads,     \* the requests
    DeclaredSize \* the size of the object

ASSUME WorkerUploadAssumption == DeclaredSize \in Nat \ {0}

VARIABLES
    up,          \* the requests
    object,      \* what the service keeps under the hash: "none" or a body
    verifies     \* its answers have actions.verify

uploadVars == <<up, object, verifies>>

UploadBodies == {"right", "wrong", "short", "long"}
Length(body) ==
    CASE body = "short" -> DeclaredSize - 1
      [] body = "long"  -> DeclaredSize + 1
      [] OTHER            -> DeclaredSize

BatchErrors == {"refused", "STORAGE_FAILED", "LFS_RESPONSE_INVALID",
                "LFS_OBJECT_REJECTED", "LFS_RESPONSE_MISMATCH"}
Codes == BatchErrors \cup
         {"none", "ok", "UPLOAD_BODY_MISSING", "LFS_DIGEST_FAILED", "LFS_UPLOAD_TIMEOUT",
          "LFS_UPLOAD_ABORTED", "LFS_UPLOAD_FAILED", "SIZE_MISMATCH", "DIGEST_MISMATCH",
          "REQUEST_TOO_LARGE"}
Refusals == {"bad_id", "bad_index", "COMMIT_NOT_ALLOWED"}

WorkerUploadTypeOK ==
    /\ up \in [Uploads ->
          [kind   : {"native", "buffered", "legacy"},
           body   : UploadBodies \cup {"missing"},
           step   : {"none", "reading", "preupload", "batch", "buffering", "put", "pipe",
                     "check", "verify", "ended"},
           got    : 0 .. DeclaredSize + 1,                  \* bytes past the pass-through
           pipe   : {"none", "running", "done", "failed"},   \* state.pipe
           digest : {"none", "open", "closed", "aborted"},   \* state.digestWriter
           sent   : BOOLEAN,                                 \* the PUT was accepted
           timer  : BOOLEAN, timedOut : BOOLEAN,
           gone   : BOOLEAN,                                 \* request.signal is aborted
           code   : Codes \cup Refusals]]
    /\ object \in UploadBodies \cup {"none"}
    /\ verifies \in BOOLEAN

WorkerUploadInit ==
    /\ up = [u \in Uploads |->
          [kind |-> "native", body |-> "right", step |-> "none", got |-> 0,
           pipe |-> "none", digest |-> "none", sent |-> FALSE,
           timer |-> FALSE, timedOut |-> FALSE, gone |-> FALSE, code |-> "none"]]
    /\ object = "none"
    /\ verifies \in BOOLEAN

Becomes(u, record) == up' = [up EXCEPT ![u] = record] /\ UNCHANGED verifies
AtStep(u, step) == up[u].step = step

\* The finally block clears the timer and the listener, whatever happened;
\* the bytes are gone.
Ended(record, code) ==
    [record EXCEPT !.step = "ended", !.code = code, !.got = 0,
                   !.timer = FALSE, !.timedOut = FALSE, !.gone = FALSE]

(* Mutant of AbortUploadPipeline: the digest writer is left as it is.      *)
AbortBodyOnly(record) ==
    [record EXCEPT !.pipe = IF @ = "running" THEN "failed" ELSE @]

(* abortUploadPipeline: the body is cancelled and with it the pipe, and    *)
(* the digest writer is aborted unless it was closed.                      *)
AbortUploadPipeline(record) ==
    [record EXCEPT !.pipe = IF @ = "running" THEN "failed" ELSE @,
                   !.digest = IF @ = "open" THEN "aborted" ELSE @]

ClassifyUploadFailure(record) ==
    IF record.timedOut THEN "LFS_UPLOAD_TIMEOUT"
    ELSE IF record.gone THEN "LFS_UPLOAD_ABORTED"
    ELSE "LFS_UPLOAD_FAILED"

\* What follows the PUT, and the check of what was streamed.
VerifyOrEnd(record) ==
    IF verifies THEN [record EXCEPT !.step = "verify"] ELSE Ended(record, "ok")

\* The service has taken as many bytes as it was told would come.
HasAll(record) == record.kind # "native" \/ record.got >= DeclaredSize

\* It keeps them under the hash, unless it has something there already, which
\* it may prefer.
Keeps(record) ==
    IF HasAll(record) /\ ~verifies
    THEN object' \in {record.body} \cup ({object} \ {"none"})
    ELSE UNCHANGED object

-----------------------------------------------------------------------------
(* The handlers: what they refuse, and which way an upload goes.           *)
Refuse(u) ==
    /\ AtStep(u, "none")
    /\ \E code \in Refusals : Becomes(u, Ended(up[u], code))
    /\ UNCHANGED object

Ask(u) ==
    /\ AtStep(u, "none")
    /\ \E kind \in {"native", "buffered", "legacy"}, body \in UploadBodies \cup {"missing"} :
          /\ kind = "legacy" => body = "right"
          /\ Becomes(u,
                IF kind = "legacy"
                THEN [up[u] EXCEPT !.kind = kind, !.step = "reading"]
                ELSE IF body = "missing"
                THEN Ended([up[u] EXCEPT !.body = body], "UPLOAD_BODY_MISSING")
                ELSE [up[u] EXCEPT !.kind = kind, !.body = body, !.step = "batch"])
    /\ UNCHANGED object

\* readRawBody, up to its limit; then the hash is that of the bytes.
ReadRawBody(u) ==
    /\ AtStep(u, "reading")
    /\ \/ Becomes(u, [up[u] EXCEPT !.step = "preupload"])
       \/ Becomes(u, Ended(up[u], "REQUEST_TOO_LARGE"))
       \/ up[u].gone /\ Becomes(u, Ended(up[u], "STORAGE_FAILED"))
    /\ UNCHANGED object

\* Anything but LFS cannot be uploaded without a commit.
Preupload(u) ==
    /\ AtStep(u, "preupload")
    /\ \/ Becomes(u, [up[u] EXCEPT !.step = "batch"])
       \/ \E code \in {"refused", "STORAGE_FAILED"} : Becomes(u, Ended(up[u], code))
    /\ UNCHANGED object

-----------------------------------------------------------------------------
(* requestLfsUpload: the object is there already, or is to be sent.  A     *)
(* request that was cancelled gives up here, if it streams.                *)
Exists(u) ==
    /\ AtStep(u, "batch")
    /\ object # "none"
    /\ Becomes(u, Ended(up[u], "ok"))
    /\ UNCHANGED object

MustSend(u) ==
    /\ AtStep(u, "batch")
    /\ object = "none"
    /\ Becomes(u, CASE up[u].kind = "native" ->
                         [up[u] EXCEPT !.step = "put", !.pipe = "running",
                                       !.digest = "open", !.timer = TRUE]
                    [] up[u].kind = "buffered" ->
                         [up[u] EXCEPT !.step = "buffering", !.timer = TRUE]
                    [] OTHER -> [up[u] EXCEPT !.step = "put"])
    /\ UNCHANGED object

\* The request or its answer fails, is aborted, or is not what was asked for.
BatchFails(u) ==
    /\ AtStep(u, "batch")
    /\ \E code \in BatchErrors : Becomes(u, Ended(up[u], code))
    /\ UNCHANGED object

-----------------------------------------------------------------------------
Streaming(u) == up[u].step \in {"put", "pipe"} /\ up[u].pipe = "running"

(* A byte passes: to the digest first, then on to the PUT.  The byte past  *)
(* the declared size breaks the FixedLengthStream.                         *)
Flow(u) ==
    /\ Streaming(u) /\ ~up[u].gone
    /\ up[u].got < Length(up[u].body)
    /\ LET record == [up[u] EXCEPT !.got = @ + 1,
                                   !.pipe = IF up[u].got = DeclaredSize THEN "failed" ELSE @]
       IN  /\ Becomes(u, record)
           /\ IF up[u].sent THEN Keeps(record) ELSE UNCHANGED object

\* The body ends: the digest is closed; then the FixedLengthStream, which
\* wants its full length.
BodyEnds(u) ==
    /\ Streaming(u) /\ ~up[u].gone
    /\ up[u].got = Length(up[u].body)
    /\ Becomes(u, [up[u] EXCEPT !.digest = "closed",
                                !.pipe = IF up[u].got = DeclaredSize THEN "done" ELSE "failed"])
    /\ UNCHANGED object

\* The source breaks off, or nobody takes the bytes any more, after the answer.
PipeBreaks(u) ==
    /\ AtStep(u, "pipe") /\ Streaming(u)
    /\ Becomes(u, [up[u] EXCEPT !.pipe = "failed"])
    /\ UNCHANGED object

\* bufferStream: whatever the body is, up to a limit that no declared size
\* exceeds here.
BufferStream(u) ==
    /\ AtStep(u, "buffering")
    /\ \/ ~up[u].gone /\ Becomes(u, [up[u] EXCEPT !.step = "put", !.got = Length(up[u].body)])
       \/ Becomes(u, Ended(up[u], "STORAGE_FAILED"))
       \/ up[u].body = "long" /\ Becomes(u, Ended(up[u], "REQUEST_TOO_LARGE"))
    /\ UNCHANGED object

(* The client goes away, while anything is left that looks at it: its      *)
(* body, or the signal that requests of a streamed upload share.           *)
ClientGoes(u) ==
    /\ up[u].step \in {"reading", "batch", "buffering", "put", "pipe"} /\ ~up[u].gone
    /\ up[u].kind = "legacy" => AtStep(u, "reading")
    /\ Becomes(u, [up[u] EXCEPT !.gone = TRUE])
    /\ UNCHANGED object

(* The timer fires.                                                        *)
TimeOut(u) ==
    /\ up[u].timer /\ ~up[u].timedOut
    /\ Becomes(u, [up[u] EXCEPT !.timedOut = TRUE])
    /\ UNCHANGED object

-----------------------------------------------------------------------------
Aborted(u) == (up[u].gone \/ up[u].timedOut) /\ up[u].kind # "legacy"

\* The PUT breaks off: it was aborted, its body failed, or the network did,
\* perhaps with the answer only.
PutRejects(u) ==
    /\ AtStep(u, "put")
    /\ Becomes(u, Ended(AbortUploadPipeline(up[u]),
                        IF up[u].kind = "legacy" THEN "STORAGE_FAILED"
                        ELSE ClassifyUploadFailure(up[u])))
    /\ Keeps(up[u]) \/ UNCHANGED object

PutRefused(u) ==
    /\ AtStep(u, "put")
    /\ Becomes(u, Ended(AbortUploadPipeline(up[u]), "refused"))
    /\ UNCHANGED object

\* The service says yes, perhaps before it has the whole body.
PutOk(u) ==
    /\ AtStep(u, "put")
    /\ ~Aborted(u)
    /\ LET record == [up[u] EXCEPT !.sent = TRUE]
       IN  Becomes(u, CASE up[u].kind = "native"   -> [record EXCEPT !.step = "pipe"]
                        [] up[u].kind = "buffered" -> [record EXCEPT !.step = "check"]
                        [] OTHER                   -> VerifyOrEnd(record))
    /\ Keeps(up[u])

\* The pipe is awaited after a yes: its failure is an upload that failed.
AwaitPipe(u) ==
    /\ AtStep(u, "pipe") /\ up[u].pipe \in {"done", "failed"}
    /\ Becomes(u, IF up[u].pipe = "done" THEN [up[u] EXCEPT !.step = "check"]
                  ELSE Ended(AbortUploadPipeline(up[u]), "LFS_UPLOAD_FAILED"))
    /\ UNCHANGED object

(* Mutant of VerifyUploadedBytes: only the size is compared.               *)
VerifySizeOnly(u) ==
    /\ AtStep(u, "check")
    /\ Becomes(u,
          IF up[u].kind = "buffered" /\ up[u].got # DeclaredSize
          THEN Ended(up[u], "SIZE_MISMATCH")
          ELSE VerifyOrEnd(up[u]))
    /\ UNCHANGED object

(* The digest, which may have failed, then the size, where the body was    *)
(* buffered, then the hash.                                                *)
VerifyUploadedBytes(u) ==
    /\ AtStep(u, "check")
    /\ \/ up[u].kind = "native" /\ Becomes(u, Ended(up[u], "LFS_DIGEST_FAILED"))
       \/ Becomes(u,
             IF up[u].kind = "buffered" /\ up[u].got # DeclaredSize
             THEN Ended(up[u], "SIZE_MISMATCH")
             ELSE IF up[u].body # "right" THEN Ended(up[u], "DIGEST_MISMATCH")
             ELSE VerifyOrEnd(up[u]))
    /\ UNCHANGED object

(* verifyLfsUpload, which no signal ends: its answer may still be lost.    *)
VerifyLfsUpload(u) ==
    /\ AtStep(u, "verify")
    /\ object' = IF object = "none" THEN up[u].body ELSE object
    /\ \E code \in {"ok", "STORAGE_FAILED"} : Becomes(u, Ended(up[u], code))

VerifyFails(u) ==
    /\ AtStep(u, "verify")
    /\ \E code \in {"refused", "STORAGE_FAILED"} : Becomes(u, Ended(up[u], code))
    /\ UNCHANGED object

-----------------------------------------------------------------------------
ServiceAnswers(u) ==
    \/ Preupload(u) \/ Exists(u) \/ MustSend(u) \/ BatchFails(u)
    \/ AwaitPipe(u) \/ VerifyUploadedBytes(u) \/ VerifyLfsUpload(u) \/ VerifyFails(u)

WorkerUploadNext ==
    \E u \in Uploads :
        \/ Refuse(u) \/ Ask(u) \/ ReadRawBody(u) \/ ServiceAnswers(u)
        \/ Flow(u) \/ BodyEnds(u) \/ PipeBreaks(u) \/ BufferStream(u)
        \/ ClientGoes(u) \/ TimeOut(u)
        \/ PutRejects(u) \/ PutRefused(u) \/ PutOk(u)

(* The service answers all but a PUT whose body stalls, which the timer    *)
(* ends, as it ends a pipe that is awaited; a body that is read before     *)
(* anything is sent ends or breaks off.                                    *)
WorkerUploadFairness ==
    \A u \in Uploads :
        /\ WF_uploadVars(ServiceAnswers(u))
        /\ WF_uploadVars(ReadRawBody(u) \/ BufferStream(u))
        /\ WF_uploadVars(TimeOut(u))
        /\ WF_uploadVars((Aborted(u) \/ up[u].kind = "legacy") /\ (PutRejects(u) \/ PutOk(u)))
        /\ WF_uploadVars(Aborted(u) /\ PipeBreaks(u))

WorkerUploadSpec ==
    WorkerUploadInit /\ [][WorkerUploadNext]_uploadVars /\ WorkerUploadFairness

-----------------------------------------------------------------------------
(***************************************************************************)
(* Properties.                                                             *)
(***************************************************************************)

\* A receipt for bytes that were sent is only given if all of them were taken
\* and hash to what was declared, however early the service said yes.  One for
\* bytes that were there already is for the right ones, unless the service
\* asks for no verification and kept the wrong body of an upload that was
\* given no receipt.
ReceiptIsTrue ==
    /\ \A u \in Uploads : up[u].code = "ok" =>
          /\ object # "none"
          /\ up[u].sent => up[u].body = "right" /\ up[u].pipe \in {"none", "done"}
    /\ \/ object \in {"none", "right"}
       \/ ~verifies /\ \E u \in Uploads : up[u].body = object /\ up[u].code # "ok"

\* An upload that has ended leaves nothing running: no timer, no pipe and no
\* digest that is still waited for, however it ended.
NothingRunsOn ==
    \A u \in Uploads : AtStep(u, "ended") =>
        /\ ~up[u].timer
        /\ up[u].pipe # "running"
        /\ up[u].digest # "open"

\* A client that sent what it declared is not told that its bytes are wrong,
\* however early, late or not at all the service answered.  (It may be refused
\* for good even so: a failure of the network that nothing classifies ends as
\* STORAGE_FAILED, which is not offered for a retry.)
VerdictIsTrue ==
    \A u \in Uploads :
        up[u].code \in {"SIZE_MISMATCH", "DIGEST_MISMATCH"} => up[u].body # "right"

WorkerUploadIsJust == ReceiptIsTrue /\ NothingRunsOn /\ VerdictIsTrue
=============================================================================
