---------------------------- MODULE StreamClient ----------------------------
(***************************************************************************)
(* The page's side of video streaming (services/videoStreamService.js, and *)
(* the streaming branch of hooks/useViewer.js): one stream of one tab,     *)
(* registered with the service worker that controls the page, registered   *)
(* again when another worker takes over or says that it has no session,    *)
(* and cleaned up when the viewer closes.                                  *)
(*                                                                         *)
(* Workers are numbered in the order in which they control the page.  What *)
(* a worker does with a session is in StreamWorker; here it only has one   *)
(* or not.  Messages to one worker arrive in order.                        *)
(***************************************************************************)
EXTENDS Integers, Sequences

CONSTANTS
    MaxWorkers,      \* bound: service workers that take over, one by one
    MaxFaults,       \* bound: stopped workers, refusals and timeouts
    NoRegistration   \* state.registering = null

ASSUME ClientAssumption ==
    MaxWorkers \in Nat /\ MaxFaults \in Nat

VARIABLES
    controller,      \* navigator.serviceWorker.controller, 0 for null
    viewer,          \* useViewer: "none", "watching", "left" (unmounted)
    unlocked,        \* there is an active key
    create,          \* what createVideoStream has come to
    cleaned,         \* state.cleaned
    target,          \* state.controller
    registeredAt,    \* state.registeredController
    registering,     \* state.registering
    again,           \* state.reRegisterPromise: where requestReRegister is
    found,           \* the controller it got
    reported,        \* an error has been shown
    expired,         \* a vault-stream-expired message is on its way
    inbox,           \* messages to each worker
    sessionAt,       \* the workers that hold a session of the stream
    posted, faults   \* registrations posted, faults so far

streamClientVars == <<controller, viewer, unlocked, create, cleaned, target,
    registeredAt, registering, again, found, reported, expired, inbox,
    sessionAt, posted, faults>>

ServiceWorkers == 1 .. MaxWorkers

\* A registration under way, by its number, and the messages to a worker.
Registration == [n : Nat, worker : ServiceWorkers, by : {"create", "again"},
                 answer : {"none", "ok", "error"}]
Message      == {"remove"} \X {0} \cup {"register"} \X Nat

ASSUME RegistrationAssumption == NoRegistration \notin Registration

StreamClientTypeOK ==
    /\ controller \in 0 .. MaxWorkers
    /\ viewer \in {"none", "watching", "left"}
    /\ unlocked \in BOOLEAN
    /\ create \in {"none", "finding", "registering", "open", "fallback", "failed"}
    /\ cleaned \in BOOLEAN /\ reported \in BOOLEAN /\ expired \in BOOLEAN
    /\ {target, registeredAt, found} \subseteq 0 .. MaxWorkers
    /\ registering \in Registration \cup {NoRegistration}
    /\ again \in {"none", "finding", "waiting", "registering"}
    /\ inbox \in [ServiceWorkers -> Seq(Message)]
    /\ sessionAt \subseteq ServiceWorkers
    /\ posted \in Nat /\ faults \in 0 .. MaxFaults

StreamClientInit ==
    /\ controller = 0
    /\ viewer = "none" /\ unlocked = TRUE
    /\ create = "none" /\ cleaned = FALSE
    /\ target = 0 /\ registeredAt = 0 /\ found = 0
    /\ registering = NoRegistration /\ again = "none"
    /\ reported = FALSE /\ expired = FALSE
    /\ inbox = [w \in ServiceWorkers |-> <<>>]
    /\ sessionAt = {}
    /\ posted = 0 /\ faults = 0

-----------------------------------------------------------------------------
(* A stream is in activeStreams while it is this.                          *)
Active == create \in {"registering", "open"} /\ ~cleaned

Send(boxes, worker, message) ==
    [boxes EXCEPT ![worker] = Append(@, message)]

RemoveSession == <<"remove", 0>>

(* The body of registerStream up to its wait.                              *)
PostRegistration(worker, by) ==
    /\ target' = worker
    /\ registering' = [n |-> posted + 1, worker |-> worker, by |-> by, answer |-> "none"]
    /\ posted' = posted + 1

-----------------------------------------------------------------------------
(* The viewer opens on a chunked video.                                    *)
Watch ==
    /\ viewer = "none"
    /\ unlocked
    /\ viewer' = "watching"
    /\ create' = "finding"
    /\ UNCHANGED <<controller, unlocked, cleaned, target, registeredAt, registering,
                   again, found, reported, expired, inbox, sessionAt, posted, faults>>

(* createVideoStream has its controller, or waited for one in vain and     *)
(* leaves the video to loadFullMedia.                                      *)
CreateRegisters ==
    /\ create = "finding"
    /\ controller # 0
    /\ IF unlocked
       THEN /\ create' = "registering"
            /\ PostRegistration(controller, "create")
            /\ inbox' = Send(inbox, controller, <<"register", posted + 1>>)
            /\ UNCHANGED <<cleaned, reported>>
       ELSE /\ create' = "failed" /\ cleaned' = TRUE
            /\ reported' = (reported \/ viewer = "watching")
            /\ target' = controller
            /\ inbox' = Send(inbox, controller, RemoveSession)
            /\ UNCHANGED <<registering, posted>>
    /\ UNCHANGED <<controller, viewer, unlocked, registeredAt, again, found, expired,
                   sessionAt, faults>>

CreateGivesUp ==
    /\ create = "finding"
    /\ controller = 0
    /\ create' = "fallback"
    /\ UNCHANGED <<controller, viewer, unlocked, cleaned, target, registeredAt,
                   registering, again, found, reported, expired, inbox, sessionAt,
                   posted, faults>>

(* The effect is cleaned up: an open stream with it, one that is still     *)
(* being created when it is there.  A lock closes the viewer too.          *)
Leave ==
    /\ viewer = "watching"
    /\ viewer' = "left"
    /\ unlocked' \in {unlocked, FALSE}
    /\ IF create = "open" /\ ~cleaned
       THEN cleaned' = TRUE /\ inbox' = Send(inbox, target, RemoveSession)
       ELSE UNCHANGED <<cleaned, inbox>>
    /\ UNCHANGED <<controller, create, target, registeredAt, registering, again, found,
                   reported, expired, sessionAt, posted, faults>>

-----------------------------------------------------------------------------
(* requestReRegister: one run at a time, whatever asked for it.            *)
RequestReRegister ==
    again' = IF Active /\ again = "none" THEN "finding" ELSE again

(* Another worker takes control of the page, and tells it so again in a    *)
(* message when it has been activated.                                     *)
TakeOver ==
    /\ controller < MaxWorkers
    /\ controller' = controller + 1
    /\ expired' = TRUE
    /\ RequestReRegister
    /\ UNCHANGED <<viewer, unlocked, create, cleaned, target, registeredAt, registering,
                   found, reported, inbox, sessionAt, posted, faults>>

(* The player asks for bytes, and the worker knows no session.             *)
RequestFails ==
    /\ create = "open" /\ ~cleaned
    /\ controller \notin sessionAt
    /\ expired' = TRUE
    /\ UNCHANGED <<controller, viewer, unlocked, create, cleaned, target, registeredAt,
                   registering, again, found, reported, inbox, sessionAt, posted, faults>>

Expired ==
    /\ expired
    /\ expired' = FALSE
    /\ RequestReRegister
    /\ UNCHANGED <<controller, viewer, unlocked, create, cleaned, target, registeredAt,
                   registering, found, reported, inbox, sessionAt, posted, faults>>

(* Mutant of AgainFinds: it does not look whether the stream was closed.   *)
AgainFindsOpen ==
    /\ again = "finding"
    /\ found' = controller
    /\ IF registering # NoRegistration
       THEN again' = "waiting" /\ UNCHANGED <<target, registering, posted, inbox, reported>>
       ELSE /\ again' = "registering"
            /\ PostRegistration(controller, "again")
            /\ inbox' = Send(inbox, controller, <<"register", posted + 1>>)
            /\ UNCHANGED reported
    /\ UNCHANGED <<controller, viewer, unlocked, create, cleaned, registeredAt, expired,
                   sessionAt, faults>>

(* The re-registration has a controller: it ends if the stream was closed, *)
(* and waits for a registration under way.  The key is there: a lock       *)
(* closes the viewer, and with it a stream that is open.                   *)
AgainFinds ==
    /\ again = "finding"
    /\ found' = controller
    /\ \/ /\ cleaned
          /\ again' = "none"
          /\ UNCHANGED <<target, registering, posted, inbox, reported>>
       \/ /\ ~cleaned
          /\ registering # NoRegistration
          /\ again' = "waiting"
          /\ UNCHANGED <<target, registering, posted, inbox, reported>>
       \/ /\ ~cleaned
          /\ registering = NoRegistration
          /\ again' = "registering"
          /\ PostRegistration(controller, "again")
          /\ inbox' = Send(inbox, controller, <<"register", posted + 1>>)
          /\ UNCHANGED reported
    /\ UNCHANGED <<controller, viewer, unlocked, create, cleaned, registeredAt, expired,
                   sessionAt, faults>>

-----------------------------------------------------------------------------
(* The registration of createVideoStream is over.  A re-registration that  *)
(* waited for it goes on first, and registers with the worker it found     *)
(* unless that is the same; then a viewer that has left cleans up.         *)
CreateEnds(ok) ==
    LET fails  == ~ok
        turns  == ok /\ again = "waiting" /\ found # registering.worker
        onward == turns /\ unlocked
        boxes  == IF onward THEN Send(inbox, found, <<"register", posted + 1>>) ELSE inbox
        last   == IF turns THEN found ELSE target
        closes == fails \/ viewer = "left"
    IN  /\ registering.by = "create"
        /\ create' = IF fails THEN "failed" ELSE "open"
        /\ registeredAt' = IF fails THEN registeredAt ELSE registering.worker
        /\ cleaned' = closes
        /\ inbox' = IF closes THEN Send(boxes, last, RemoveSession) ELSE boxes
        /\ reported' = (reported \/ (fails /\ viewer = "watching"))
        /\ IF onward
           THEN PostRegistration(found, "again") /\ again' = "registering"
           ELSE /\ registering' = NoRegistration
                /\ again' = IF again = "waiting" THEN "none" ELSE again
                /\ target' = last
                /\ UNCHANGED posted

(* A re-registration is over.  If the stream was closed meanwhile, its     *)
(* session is removed.                                                     *)
AgainEnds(ok) ==
    /\ registering.by = "again"
    /\ registering' = NoRegistration
    /\ again' = "none"
    /\ IF ok /\ cleaned
       THEN inbox' = Send(inbox, registering.worker, RemoveSession)
       ELSE UNCHANGED inbox
    /\ registeredAt' = IF ok /\ ~cleaned THEN registering.worker ELSE registeredAt
    /\ reported' = (reported \/ (~ok /\ viewer = "watching"))
    /\ UNCHANGED <<create, cleaned, target, posted>>

RegistrationEnds(ok) ==
    /\ CreateEnds(ok) \/ AgainEnds(ok)
    /\ UNCHANGED <<controller, viewer, unlocked, found, expired, sessionAt>>

(* The answer of the worker, or the timeout of postWithAck: early, before  *)
(* an answer that is still to come, or for good, when none will.           *)
Answered ==
    /\ registering # NoRegistration
    /\ registering.answer # "none"
    /\ RegistrationEnds(registering.answer = "ok")
    /\ UNCHANGED faults

TimedOut ==
    /\ registering # NoRegistration
    /\ faults < MaxFaults
    /\ faults' = faults + 1
    /\ RegistrationEnds(FALSE)

Unanswered ==
    /\ registering # NoRegistration
    /\ registering.answer = "none"
    /\ \A i \in DOMAIN inbox[registering.worker] :
          inbox[registering.worker][i] # <<"register", registering.n>>
    /\ RegistrationEnds(FALSE)
    /\ UNCHANGED faults

-----------------------------------------------------------------------------
(* A worker takes its next message.  It may refuse a registration, and has *)
(* dropped an older session of the stream by then.  The answer goes to     *)
(* whoever still waits for it.                                             *)
WorkerHandles(w) ==
    /\ inbox[w] # <<>>
    /\ inbox' = [inbox EXCEPT ![w] = Tail(@)]
    /\ LET n == Head(inbox[w])[2]
           Answers(type) ==
               registering' = IF registering # NoRegistration /\ registering.n = n
                              THEN [registering EXCEPT !.answer = type] ELSE registering
       IN  \/ /\ Head(inbox[w]) = RemoveSession
              /\ sessionAt' = sessionAt \ {w}
              /\ UNCHANGED <<registering, faults>>
           \/ /\ Head(inbox[w]) # RemoveSession
              /\ sessionAt' = sessionAt \cup {w}
              /\ Answers("ok")
              /\ UNCHANGED faults
           \/ /\ Head(inbox[w]) # RemoveSession
              /\ faults < MaxFaults
              /\ faults' = faults + 1
              /\ sessionAt' = sessionAt \ {w}
              /\ Answers("error")
    /\ UNCHANGED <<controller, viewer, unlocked, create, cleaned, target, registeredAt,
                   again, found, reported, expired, posted>>

(* A worker is stopped, and forgets its sessions; one that does not        *)
(* control the page any more is not started again for its messages.        *)
WorkerForgets(w) ==
    /\ faults < MaxFaults
    /\ faults' = faults + 1
    /\ sessionAt' = sessionAt \ {w}
    /\ inbox' = IF w = controller THEN inbox ELSE [inbox EXCEPT ![w] = <<>>]
    /\ UNCHANGED <<controller, viewer, unlocked, create, cleaned, target, registeredAt,
                   registering, again, found, reported, expired, posted>>

StreamClientNext ==
    \/ Watch \/ CreateRegisters \/ CreateGivesUp \/ Leave
    \/ TakeOver \/ RequestFails \/ Expired \/ AgainFinds
    \/ Answered \/ TimedOut \/ Unanswered
    \/ \E w \in ServiceWorkers : WorkerHandles(w) \/ WorkerForgets(w)

(* A player whose video does not come asks again; events are delivered.    *)
StreamClientFairness ==
    /\ WF_streamClientVars(RequestFails)
    /\ WF_streamClientVars(Expired)
    /\ WF_streamClientVars(AgainFinds)
    /\ WF_streamClientVars(Answered)
    /\ WF_streamClientVars(Unanswered)
    /\ \A w \in ServiceWorkers : WF_streamClientVars(WorkerHandles(w))

StreamClientSpec ==
    StreamClientInit /\ [][StreamClientNext]_streamClientVars /\ StreamClientFairness

-----------------------------------------------------------------------------
(***************************************************************************)
(* Properties.                                                             *)
(***************************************************************************)

\* No session, and so no key, outlives its stream in a worker that could
\* still serve it: once the messages are through, neither the worker in
\* control nor the one the stream last turned to holds a session of a
\* stream that was closed, however registrations, takeovers, timeouts and
\* the close overlapped.
NoSessionLeft ==
    \A w \in {controller, target} \ {0} :
        cleaned /\ inbox[w] = <<>> => w \notin sessionAt

\* A re-registration that was asked for is never forgotten: it is under way,
\* or waits for the first registration, which is; and it never runs without
\* the key.
ReRegistrationInStep ==
    /\ again = "finding" /\ registering = NoRegistration /\ ~cleaned => unlocked
    /\ again = "registering" <=>
           (registering # NoRegistration /\ registering.by = "again")
    /\ again = "waiting" =>
           (registering # NoRegistration /\ registering.by = "create")

StreamClientIsJust == NoSessionLeft /\ ReRegistrationInStep

\* A stream that stays open ends up registered with the worker in control,
\* or has shown an error: also when a takeover falls into a re-registration
\* that is under way with the worker before, and so asks for none.
Unserved == create = "open" /\ ~cleaned /\ ~reported /\ controller \notin sessionAt
=============================================================================
