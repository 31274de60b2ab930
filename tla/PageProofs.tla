----------------------------- MODULE PageProofs ------------------------------
(***************************************************************************)
(* Proofs about parts of a page: the client of the streaming worker, the   *)
(* pool of crypto workers, the gallery and the viewer, for any bounds and  *)
(* sizes.                                                                  *)
(***************************************************************************)
EXTENDS MCPage, StoreProofs, TLAPS

(***************************************************************************)
(* The client of the streaming worker.                                     *)
(***************************************************************************)

\* How the parts of a stream go together.  Its target is the newest worker it
\* has turned to; a first registration is under way while the stream is being
\* created, and one that waits for it found no older worker.
ClientInStep ==
    /\ target <= controller /\ found <= controller
    /\ viewer = "none" => create = "none"
    /\ ~unlocked => viewer = "left"
    /\ create \in {"none", "finding", "fallback"} =>
           target = 0 /\ again = "none" /\ registering = NoRegistration /\ ~cleaned
    /\ create \in {"registering", "open", "failed"} => target # 0
    /\ create = "registering" <=>
           (registering # NoRegistration /\ registering.by = "create")
    /\ create = "registering" => ~cleaned
    /\ create = "failed" => cleaned
    /\ create = "open" /\ viewer = "left" => cleaned
    /\ registering # NoRegistration => registering.worker = target
    /\ again = "registering" <=>
           (registering # NoRegistration /\ registering.by = "again")
    /\ again = "waiting" => create = "registering" /\ target <= found

\* No worker newer than the target has heard of the stream, and once it is
\* closed the last word to the target is to remove the session.
ClosedIsLast ==
    /\ \A w \in ServiceWorkers : w > target => w \notin sessionAt /\ inbox[w] = <<>>
    /\ cleaned /\ target # 0 =>
           /\ inbox[target] = <<>> => target \notin sessionAt
           /\ inbox[target] # <<>> => inbox[target][Len(inbox[target])] = RemoveSession

ClientInv == StreamClientTypeOK /\ ClientInStep /\ ClosedIsLast

LEMMA Sent ==
    ASSUME NEW boxes \in [ServiceWorkers -> Seq(Message)], NEW w \in ServiceWorkers,
           NEW m \in Message
    PROVE  /\ Send(boxes, w, m) \in [ServiceWorkers -> Seq(Message)]
           /\ Send(boxes, w, m)[w] # <<>>
           /\ Send(boxes, w, m)[w][Len(Send(boxes, w, m)[w])] = m
           /\ \A v \in ServiceWorkers : v # w => Send(boxes, w, m)[v] = boxes[v]
<1> DEFINE b == Append(boxes[w], m)
<1>1. /\ Send(boxes, w, m) = [boxes EXCEPT ![w] = b]
      /\ Send(boxes, w, m)[w] = b
  BY DEF Send
<1>2. b \in Seq(Message) /\ b # <<>> /\ b[Len(b)] = m  OBVIOUS
<1> HIDE DEF b
<1> QED  BY <1>1, <1>2

LEMMA MessageTypes ==
    /\ RemoveSession \in Message
    /\ \A n \in Nat : <<"register", n>> \in Message /\ <<"register", n>> # RemoveSession
  BY DEF Message, RemoveSession

LEMMA WorkerTypes ==
    ASSUME StreamClientTypeOK
    PROVE  /\ MaxWorkers \in Nat /\ ServiceWorkers = 1 .. MaxWorkers
           /\ controller \in Nat /\ controller <= MaxWorkers
           /\ target \in Nat /\ found \in Nat /\ found <= MaxWorkers
           /\ target <= MaxWorkers
           /\ \A w \in 1 .. MaxWorkers : w \in ServiceWorkers
  BY ClientAssumption DEF StreamClientTypeOK, ServiceWorkers

\* The registration that is posted.
LEMMA Posted ==
    ASSUME StreamClientTypeOK, NEW w \in ServiceWorkers, NEW by \in {"create", "again"},
           PostRegistration(w, by)
    PROVE  /\ target' = w /\ posted' = posted + 1 /\ posted' \in Nat
           /\ registering' \in Registration /\ registering' # NoRegistration
           /\ registering'.worker = w /\ registering'.by = by
<1> DEFINE r == [n |-> posted + 1, worker |-> w, by |-> by, answer |-> "none"]
<1>1. posted \in Nat  BY DEF StreamClientTypeOK
<1>2. r \in Registration /\ r.worker = w /\ r.by = by  BY <1>1 DEF Registration
<1>3. registering' = r /\ target' = w /\ posted' = posted + 1  BY DEF PostRegistration
<1> HIDE DEF r
<1> QED  BY <1>1, <1>2, <1>3, RegistrationAssumption

\* A step that sends nothing to a worker newer than the target, and after
\* which the stream is open, or was closed by that step with a last message.
LEMMA ClosedKept ==
    ASSUME ClientInv, target' \in Nat, target <= target', sessionAt' = sessionAt,
           \A w \in ServiceWorkers : w > target' => inbox'[w] = inbox[w],
           cleaned' =>
               \/ /\ inbox'[target'] # <<>>
                  /\ inbox'[target'][Len(inbox'[target'])] = RemoveSession
               \/ cleaned /\ target' = target /\ inbox'[target'] = inbox[target]
    PROVE  ClosedIsLast'
<1>1. ClosedIsLast /\ target \in Nat /\ ServiceWorkers \subseteq Nat
  BY WorkerTypes DEF ClientInv
<1>2. \A w \in ServiceWorkers : w > target' => w \notin sessionAt' /\ inbox'[w] = <<>>
  BY <1>1 DEF ClosedIsLast
<1>3. cleaned' /\ target' # 0 =>
           /\ inbox'[target'] = <<>> => target' \notin sessionAt'
           /\ inbox'[target'] # <<>> => inbox'[target'][Len(inbox'[target'])] = RemoveSession
  BY <1>1 DEF ClosedIsLast
<1> QED  BY <1>2, <1>3 DEF ClosedIsLast

LEMMA QuietSteps ==
    ASSUME ClientInv, Watch \/ CreateGivesUp \/ TakeOver \/ RequestFails \/ Expired
    PROVE  ClientInv'
<1>1. StreamClientTypeOK /\ ClientInStep  BY DEF ClientInv
<1>2. UNCHANGED <<cleaned, target, registeredAt, registering, found, reported, inbox,
                  sessionAt, posted, faults, unlocked>>
  BY DEF Watch, CreateGivesUp, TakeOver, RequestFails, Expired
<1>3. ClosedIsLast'  BY <1>1, <1>2, WorkerTypes, ClosedKept
<1>4. CASE Watch \/ CreateGivesUp
  <2>1. StreamClientTypeOK'
    BY <1>1, <1>2, <1>4 DEF StreamClientTypeOK, Watch, CreateGivesUp
  <2>2. ClientInStep'
    BY <1>1, <1>2, <1>4 DEF ClientInStep, Watch, CreateGivesUp
  <2> QED  BY <1>3, <2>1, <2>2 DEF ClientInv
<1>5. CASE TakeOver \/ RequestFails \/ Expired
  <2>1. /\ UNCHANGED <<viewer, create>> /\ controller' \in 0 .. MaxWorkers
        /\ controller <= controller'
        /\ again' = again \/ (Active /\ again = "none" /\ again' = "finding")
        /\ expired' \in BOOLEAN
    <3>1. RequestReRegister =>
            again' = again \/ (Active /\ again = "none" /\ again' = "finding")
      BY DEF RequestReRegister
    <3>2. controller \in 0 .. MaxWorkers /\ expired \in BOOLEAN
      BY <1>1 DEF StreamClientTypeOK
    <3>3. CASE TakeOver
      <4>1. controller < MaxWorkers /\ controller' = controller + 1  BY <3>3 DEF TakeOver
      <4>2. controller' \in 0 .. MaxWorkers /\ controller <= controller'
        BY <1>1, <4>1, WorkerTypes
      <4> QED  BY <3>1, <3>3, <4>2 DEF TakeOver
    <3>4. controller <= controller  BY <1>1, WorkerTypes
    <3>5. CASE RequestFails  BY <3>2, <3>4, <3>5 DEF RequestFails
    <3>6. CASE Expired  BY <3>1, <3>2, <3>4, <3>6 DEF Expired
    <3> QED  BY <1>5, <3>3, <3>5, <3>6
  <2>2. StreamClientTypeOK'  BY <1>1, <1>2, <2>1 DEF StreamClientTypeOK
  <2>3. controller' \in Nat  BY <2>1, ClientAssumption
  <2>4. ClientInStep'
    BY <1>1, <1>2, <2>1, <2>3, WorkerTypes DEF ClientInStep, Active
  <2> QED  BY <1>3, <2>2, <2>4 DEF ClientInv
<1> QED  BY <1>4, <1>5

LEMMA CreateRegistersKept ==
    ASSUME ClientInv, CreateRegisters
    PROVE  ClientInv'
<1>1. StreamClientTypeOK /\ ClientInStep  BY DEF ClientInv
<1>2. /\ create = "finding" /\ controller \in ServiceWorkers
      /\ UNCHANGED <<controller, viewer, unlocked, registeredAt, again, found, expired,
                     sessionAt, faults>>
      /\ target = 0 /\ again = "none" /\ registering = NoRegistration /\ ~cleaned
      /\ posted \in Nat /\ inbox \in [ServiceWorkers -> Seq(Message)]
      /\ found \in Nat /\ found <= controller
  BY <1>1, WorkerTypes DEF CreateRegisters, StreamClientTypeOK, ServiceWorkers, ClientInStep
<1>3. CASE unlocked
  <2> DEFINE m == <<"register", posted + 1>>
  <2>1. /\ create' = "registering" /\ PostRegistration(controller, "create")
        /\ inbox' = Send(inbox, controller, m)
        /\ UNCHANGED <<cleaned, reported>>
    BY <1>3 DEF CreateRegisters
  <2>2. m \in Message  BY <1>2, MessageTypes
  <2> HIDE DEF m
  <2>3. /\ inbox' \in [ServiceWorkers -> Seq(Message)]
        /\ \A v \in ServiceWorkers : v # controller => inbox'[v] = inbox[v]
    BY <1>2, <2>1, <2>2, Sent
  <2>4. /\ target' = controller /\ posted' \in Nat
        /\ registering' \in Registration /\ registering' # NoRegistration
        /\ registering'.worker = controller /\ registering'.by = "create"
    BY <1>1, <1>2, <2>1, Posted
  <2>5. StreamClientTypeOK'
    BY <1>1, <1>2, <2>1, <2>3, <2>4 DEF StreamClientTypeOK
  <2>6. ClientInStep'
    BY <1>1, <1>2, <1>3, <2>1, <2>4, WorkerTypes DEF ClientInStep
  <2>7. ClosedIsLast'
    BY <1>1, <1>2, <2>1, <2>3, <2>4, WorkerTypes, ClosedKept
  <2> QED  BY <2>5, <2>6, <2>7 DEF ClientInv
<1>4. CASE ~unlocked
  <2>1. /\ create' = "failed" /\ cleaned' = TRUE /\ target' = controller
        /\ reported' = (reported \/ (viewer = "watching"))
        /\ inbox' = Send(inbox, controller, RemoveSession)
        /\ UNCHANGED <<registering, posted>>
    BY <1>4 DEF CreateRegisters
  <2>2. /\ inbox' \in [ServiceWorkers -> Seq(Message)]
        /\ inbox'[controller] # <<>>
        /\ inbox'[controller][Len(inbox'[controller])] = RemoveSession
        /\ \A v \in ServiceWorkers : v # controller => inbox'[v] = inbox[v]
    BY <1>2, <2>1, MessageTypes, Sent
  <2>3. reported' \in BOOLEAN  BY <1>1, <2>1 DEF StreamClientTypeOK
  <2>4. StreamClientTypeOK'
    BY <1>1, <1>2, <2>1, <2>2, <2>3 DEF StreamClientTypeOK
  <2>5. ClientInStep'
    BY <1>1, <1>2, <1>4, <2>1, WorkerTypes DEF ClientInStep
  <2>6. ClosedIsLast'
    BY <1>1, <1>2, <2>1, <2>2, WorkerTypes, ClosedKept
  <2> QED  BY <2>4, <2>5, <2>6 DEF ClientInv
<1> QED  BY <1>3, <1>4

LEMMA LeaveKept ==
    ASSUME ClientInv, Leave
    PROVE  ClientInv'
<1>1. StreamClientTypeOK /\ ClientInStep  BY DEF ClientInv
<1>2. /\ viewer = "watching" /\ viewer' = "left" /\ unlocked' \in BOOLEAN
      /\ UNCHANGED <<controller, create, target, registeredAt, registering, again, found,
                     reported, expired, sessionAt, posted, faults>>
      /\ inbox \in [ServiceWorkers -> Seq(Message)] /\ target \in Nat
      /\ unlocked
  BY <1>1, WorkerTypes DEF Leave, StreamClientTypeOK, ClientInStep
<1>3. CASE create = "open" /\ ~cleaned
  <2>1. cleaned' = TRUE /\ inbox' = Send(inbox, target, RemoveSession)
    BY <1>3 DEF Leave
  <2>2. target \in ServiceWorkers
    BY <1>1, <1>3, WorkerTypes DEF ClientInStep
  <2>3. /\ inbox' \in [ServiceWorkers -> Seq(Message)]
        /\ inbox'[target] # <<>>
        /\ inbox'[target][Len(inbox'[target])] = RemoveSession
        /\ \A v \in ServiceWorkers : v # target => inbox'[v] = inbox[v]
    BY <1>2, <2>1, <2>2, MessageTypes, Sent
  <2>4. StreamClientTypeOK'  BY <1>1, <1>2, <2>1, <2>3 DEF StreamClientTypeOK
  <2>5. ClientInStep'  BY <1>1, <1>2, <1>3, <2>1 DEF ClientInStep
  <2>6. ClosedIsLast'  BY <1>1, <1>2, <2>1, <2>2, <2>3, WorkerTypes, ClosedKept
  <2> QED  BY <2>4, <2>5, <2>6 DEF ClientInv
<1>4. CASE ~(create = "open" /\ ~cleaned)
  <2>1. UNCHANGED <<cleaned, inbox>>  BY <1>4 DEF Leave
  <2>2. StreamClientTypeOK'  BY <1>1, <1>2, <2>1 DEF StreamClientTypeOK
  <2>3. ClientInStep'  BY <1>1, <1>2, <1>4, <2>1 DEF ClientInStep
  <2>4. ClosedIsLast'  BY <1>1, <1>2, <2>1, WorkerTypes, ClosedKept
  <2> QED  BY <2>2, <2>3, <2>4 DEF ClientInv
<1> QED  BY <1>3, <1>4

LEMMA AgainFindsKept ==
    ASSUME ClientInv, AgainFinds
    PROVE  ClientInv'
<1>1. StreamClientTypeOK /\ ClientInStep  BY DEF ClientInv
<1>2. /\ again = "finding" /\ found' = controller
      /\ UNCHANGED <<controller, viewer, unlocked, create, cleaned, registeredAt, expired,
                     sessionAt, faults>>
      /\ posted \in Nat /\ inbox \in [ServiceWorkers -> Seq(Message)]
      /\ target \in Nat /\ controller \in Nat /\ target <= controller
      /\ controller \in ServiceWorkers
      /\ create \in {"registering", "open", "failed"}
  BY <1>1, WorkerTypes DEF AgainFinds, StreamClientTypeOK, ServiceWorkers, ClientInStep
<1>3. CASE /\ cleaned \/ registering # NoRegistration
           /\ again' \in {"none", "waiting"}
           /\ again' = "waiting" => ~cleaned /\ registering # NoRegistration
           /\ UNCHANGED <<target, registering, posted, inbox, reported>>
  <2>1. StreamClientTypeOK'  BY <1>1, <1>2, <1>3 DEF StreamClientTypeOK
  <2>2. again' = "waiting" => create = "registering"
    <3>1. registering # NoRegistration => registering.by \in {"create", "again"}
      BY <1>1 DEF StreamClientTypeOK, Registration
    <3> QED  BY <1>1, <1>2, <1>3, <3>1 DEF ClientInStep
  <2>3. ClientInStep'  BY <1>1, <1>2, <1>3, <2>2 DEF ClientInStep
  <2>4. ClosedIsLast'  BY <1>1, <1>2, <1>3, WorkerTypes, ClosedKept
  <2> QED  BY <2>1, <2>3, <2>4 DEF ClientInv
<1>4. CASE /\ ~cleaned /\ registering = NoRegistration /\ again' = "registering"
           /\ PostRegistration(controller, "again")
           /\ inbox' = Send(inbox, controller, <<"register", posted + 1>>)
           /\ UNCHANGED reported
  <2> DEFINE m == <<"register", posted + 1>>
  <2>1. inbox' = Send(inbox, controller, m)  BY <1>4
  <2>2. m \in Message  BY <1>2, MessageTypes
  <2> HIDE DEF m
  <2>3. /\ inbox' \in [ServiceWorkers -> Seq(Message)]
        /\ \A v \in ServiceWorkers : v # controller => inbox'[v] = inbox[v]
    BY <1>2, <2>1, <2>2, Sent
  <2>4. /\ target' = controller /\ posted' \in Nat
        /\ registering' \in Registration /\ registering' # NoRegistration
        /\ registering'.worker = controller /\ registering'.by = "again"
    BY <1>1, <1>2, <1>4, Posted
  <2>5. StreamClientTypeOK'
    BY <1>1, <1>2, <1>4, <2>3, <2>4 DEF StreamClientTypeOK
  <2>6. ClientInStep'
    BY <1>1, <1>2, <1>4, <2>4, WorkerTypes DEF ClientInStep
  <2>7. ~cleaned'  BY <1>2, <1>4
  <2>8. ClosedIsLast'
    BY <1>2, <2>3, <2>4, <2>7, WorkerTypes, ClosedKept
  <2> QED  BY <2>5, <2>6, <2>8 DEF ClientInv
<1> QED  BY <1>3, <1>4 DEF AgainFinds

\* The first registration ends; the waiting one goes on, or the viewer that
\* has left cleans up, or both.
LEMMA CreateEndsKept ==
    ASSUME ClientInv, NEW ok \in BOOLEAN, registering # NoRegistration, CreateEnds(ok),
           UNCHANGED <<controller, viewer, unlocked, found, expired, sessionAt>>,
           faults' \in 0 .. MaxFaults
    PROVE  ClientInv'
<1> DEFINE fails  == ~ok
           turns  == ok /\ again = "waiting" /\ found # registering.worker
           onward == turns /\ unlocked
           boxes  == IF onward THEN Send(inbox, found, <<"register", posted + 1>>) ELSE inbox
           last   == IF turns THEN found ELSE target
           closes == fails \/ viewer = "left"
<1>1. StreamClientTypeOK /\ ClientInStep  BY DEF ClientInv
<1>2. /\ registering.by = "create" /\ create = "registering" /\ ~cleaned
      /\ registering.worker = target /\ target \in ServiceWorkers
      /\ again # "registering"
      /\ again = "waiting" => found \in ServiceWorkers /\ target <= found
      /\ target \in Nat /\ found \in Nat /\ found <= controller /\ target <= controller
      /\ controller \in Nat
      /\ posted \in Nat /\ inbox \in [ServiceWorkers -> Seq(Message)]
      /\ again \in {"none", "finding", "waiting", "registering"}
      /\ ~unlocked => viewer = "left"
      /\ viewer # "none"
      /\ registering \in Registration
  BY <1>1, WorkerTypes DEF CreateEnds, StreamClientTypeOK, ClientInStep
<1>3. /\ create' = (IF fails THEN "failed" ELSE "open")
      /\ registeredAt' = (IF fails THEN registeredAt ELSE registering.worker)
      /\ cleaned' = closes
      /\ inbox' = (IF closes THEN Send(boxes, last, RemoveSession) ELSE boxes)
      /\ reported' = (reported \/ (fails /\ viewer = "watching"))
      /\ onward => PostRegistration(found, "again") /\ again' = "registering"
      /\ ~onward => /\ registering' = NoRegistration
                    /\ again' = (IF again = "waiting" THEN "none" ELSE again)
                    /\ target' = last /\ posted' = posted
  BY DEF CreateEnds
<1>4. /\ onward => /\ target' = found /\ posted' \in Nat
                   /\ registering' \in Registration /\ registering' # NoRegistration
                   /\ registering'.worker = found /\ registering'.by = "again"
  BY <1>1, <1>2, <1>3, Posted
<1>5. last \in ServiceWorkers /\ target <= last /\ last <= controller
      /\ (onward => last = found) /\ (turns => again = "waiting")
  BY <1>2
<1>6. /\ boxes \in [ServiceWorkers -> Seq(Message)]
      /\ \A v \in ServiceWorkers : v # last => boxes[v] = inbox[v]
  <2>1. CASE onward
    <3>1. <<"register", posted + 1>> \in Message  BY <1>2, MessageTypes
    <3>2. PICK m \in Message : boxes = Send(inbox, found, m)  BY <2>1, <3>1
    <3>3. found \in ServiceWorkers /\ last = found  BY <1>2, <2>1
    <3>4. inbox \in [ServiceWorkers -> Seq(Message)]  BY <1>2
    <3> HIDE DEF boxes, last
    <3>5. /\ Send(inbox, found, m) \in [ServiceWorkers -> Seq(Message)]
          /\ \A v \in ServiceWorkers : v # found => Send(inbox, found, m)[v] = inbox[v]
      BY <3>3, <3>4, Sent
    <3> QED  BY <3>2, <3>3, <3>5
  <2>2. CASE ~onward  BY <1>2, <2>2
  <2> QED  BY <2>1, <2>2
<1>7. (onward => unlocked) /\ (turns /\ ~onward => viewer = "left")
      /\ (fails => ~turns) /\ (viewer = "left" => closes) /\ (fails => closes)
      /\ fails = ~ok
  BY <1>2
<1> HIDE DEF boxes, last, closes, onward, turns, fails
<1>8. target' = last  BY <1>3, <1>4, <1>5
<1>9. /\ inbox' \in [ServiceWorkers -> Seq(Message)]
      /\ \A v \in ServiceWorkers : v # last => inbox'[v] = inbox[v]
      /\ closes => inbox'[last] # <<>> /\ inbox'[last][Len(inbox'[last])] = RemoveSession
  <2>1. CASE closes
    BY <1>3, <1>5, <1>6, <2>1, Sent, MessageTypes
  <2>2. CASE ~closes  BY <1>3, <1>6, <2>2
  <2> QED  BY <2>1, <2>2
<1>10. closes \in BOOLEAN /\ reported' \in BOOLEAN
  BY <1>1, <1>3 DEF closes, StreamClientTypeOK
<1>11. again' \in {"none", "finding", "registering"} /\ posted' \in Nat
       /\ registering' \in Registration \cup {NoRegistration}
  BY <1>2, <1>3, <1>4
<1>12. StreamClientTypeOK'
  <2>1. target' \in 0 .. MaxWorkers /\ registeredAt' \in 0 .. MaxWorkers
    BY <1>1, <1>2, <1>3, <1>5, <1>8, WorkerTypes DEF StreamClientTypeOK
  <2>2. create' \in {"failed", "open"} /\ cleaned' \in BOOLEAN  BY <1>3, <1>10
  <2> QED  BY <1>1, <1>9, <1>10, <1>11, <2>1, <2>2 DEF StreamClientTypeOK
<1>13. ClientInStep'
  <2>1. onward <=> (registering' # NoRegistration /\ registering'.by = "again")
    BY <1>3, <1>4
  <2>2. onward <=> again' = "registering"  BY <1>2, <1>3
  <2>3. ~(registering' # NoRegistration /\ registering'.by = "create")  BY <1>3, <1>4
  <2>4. registering' # NoRegistration => registering'.worker = target'
    BY <1>3, <1>4
  <2>5. last # 0 /\ last <= controller'  BY <1>2, <1>5, WorkerTypes, <1>1
  <2>6. /\ create' \in {"failed", "open"}
        /\ create' = "failed" => cleaned'
        /\ viewer' = "left" => cleaned'
    BY <1>3, <1>7
  <2>7. again' # "waiting" /\ found' <= controller' /\ viewer' # "none"
        /\ (~unlocked' => viewer' = "left")
    BY <1>2, <1>11
  <2> QED  BY <1>8, <2>1, <2>2, <2>3, <2>4, <2>5, <2>6, <2>7 DEF ClientInStep
<1>14. ClosedIsLast'
  <2>1. target' \in Nat /\ target <= target'
    BY <1>1, <1>5, <1>8, WorkerTypes
  <2>2. \A w \in ServiceWorkers : w > target' => inbox'[w] = inbox[w]
    BY <1>1, <1>8, <1>9, <2>1, WorkerTypes
  <2> QED  BY <1>3, <1>8, <1>9, <2>1, <2>2, ClosedKept
<1> QED  BY <1>12, <1>13, <1>14 DEF ClientInv

\* A re-registration ends; if the stream was closed meanwhile, its session is
\* removed where it was registered.
LEMMA AgainEndsKept ==
    ASSUME ClientInv, NEW ok \in BOOLEAN, registering # NoRegistration, AgainEnds(ok),
           UNCHANGED <<controller, viewer, unlocked, found, expired, sessionAt>>,
           faults' \in 0 .. MaxFaults
    PROVE  ClientInv'
<1>1. StreamClientTypeOK /\ ClientInStep  BY DEF ClientInv
<1>2. /\ registering.by = "again" /\ registering' = NoRegistration /\ again' = "none"
      /\ UNCHANGED <<create, cleaned, target, posted>>
      /\ registeredAt' \in {registering.worker, registeredAt}
      /\ reported' = (reported \/ (~ok /\ viewer = "watching"))
      /\ registering.worker = target /\ target \in ServiceWorkers
      /\ inbox \in [ServiceWorkers -> Seq(Message)] /\ target \in Nat
      /\ create # "registering"
  <2>1. create \in {"registering", "open", "failed"}
    BY <1>1 DEF StreamClientTypeOK, ClientInStep
  <2> QED  BY <1>1, <2>1, WorkerTypes DEF AgainEnds, StreamClientTypeOK, ClientInStep
<1>3. /\ inbox' \in [ServiceWorkers -> Seq(Message)]
      /\ \A v \in ServiceWorkers : v # target => inbox'[v] = inbox[v]
      /\ \/ inbox' = inbox
         \/ inbox'[target] # <<>> /\ inbox'[target][Len(inbox'[target])] = RemoveSession
  <2>1. CASE ok /\ cleaned
    <3>1. inbox' = Send(inbox, target, RemoveSession)  BY <1>2, <2>1 DEF AgainEnds
    <3> QED  BY <1>2, <3>1, Sent, MessageTypes
  <2>2. CASE ~(ok /\ cleaned)  BY <1>2, <2>2 DEF AgainEnds
  <2> QED  BY <2>1, <2>2
<1>4. StreamClientTypeOK'
  <2>1. reported' \in BOOLEAN  BY <1>1, <1>2 DEF StreamClientTypeOK
  <2>2. registeredAt' \in 0 .. MaxWorkers  BY <1>1, <1>2, WorkerTypes DEF StreamClientTypeOK
  <2> QED  BY <1>1, <1>2, <1>3, <2>1, <2>2 DEF StreamClientTypeOK
<1>5. ClientInStep'  BY <1>1, <1>2 DEF ClientInStep
<1>6. ClosedIsLast'  BY <1>1, <1>2, <1>3, WorkerTypes, ClosedKept
<1> QED  BY <1>4, <1>5, <1>6 DEF ClientInv

LEMMA RegistrationEndsKept ==
    ASSUME ClientInv, Answered \/ TimedOut \/ Unanswered
    PROVE  ClientInv'
<1>1. faults \in 0 .. MaxFaults /\ MaxFaults \in Nat
  BY ClientAssumption DEF ClientInv, StreamClientTypeOK
<1>2. faults' = faults \/ (faults < MaxFaults /\ faults' = faults + 1)
  BY DEF Answered, TimedOut, Unanswered
<1>3. /\ registering # NoRegistration
      /\ \E ok \in BOOLEAN : RegistrationEnds(ok)
  BY DEF Answered, TimedOut, Unanswered
<1>4. faults' \in 0 .. MaxFaults  BY <1>1, <1>2
<1> QED  BY <1>3, <1>4, CreateEndsKept, AgainEndsKept DEF RegistrationEnds

\* A worker that handles the last message of a closed stream has no session
\* of it any more.
LEMMA WorkerHandlesKept ==
    ASSUME ClientInv, NEW w \in ServiceWorkers, WorkerHandles(w)
    PROVE  ClientInv'
<1>1. StreamClientTypeOK /\ ClientInStep /\ ClosedIsLast  BY DEF ClientInv
<1>2. /\ inbox[w] # <<>> /\ inbox' = [inbox EXCEPT ![w] = Tail(@)]
      /\ UNCHANGED <<controller, viewer, unlocked, create, cleaned, target, registeredAt,
                     again, found, reported, expired, posted>>
      /\ inbox \in [ServiceWorkers -> Seq(Message)]
  BY <1>1 DEF WorkerHandles, StreamClientTypeOK
<1>3. /\ inbox' \in [ServiceWorkers -> Seq(Message)]
      /\ inbox'[w] = Tail(inbox[w])
      /\ \A v \in ServiceWorkers : v # w => inbox'[v] = inbox[v]
  BY <1>2
<1> DEFINE r(type) == [registering EXCEPT !.answer = type]
<1>4. /\ registering' \in Registration \cup {NoRegistration}
      /\ registering' # NoRegistration <=> registering # NoRegistration
      /\ registering # NoRegistration =>
             registering'.worker = registering.worker /\ registering'.by = registering.by
  <2>1. \/ registering' = registering
        \/ \E type \in {"ok", "error"} : /\ registering # NoRegistration
                                        /\ registering' = r(type)
    BY DEF WorkerHandles
  <2>2. registering \in Registration \cup {NoRegistration}
    BY <1>1 DEF StreamClientTypeOK
  <2>3. registering # NoRegistration => \A type \in {"ok", "error"} :
            /\ r(type) \in Registration
            /\ r(type).worker = registering.worker /\ r(type).by = registering.by
    BY <2>2 DEF Registration
  <2> HIDE DEF r
  <2> QED  BY <2>1, <2>2, <2>3, RegistrationAssumption
<1>5. /\ faults' \in 0 .. MaxFaults
      /\ sessionAt' \in {sessionAt \cup {w}, sessionAt \ {w}}
      /\ Head(inbox[w]) = RemoveSession => sessionAt' = sessionAt \ {w}
  <2>1. faults \in 0 .. MaxFaults /\ MaxFaults \in Nat
    BY <1>1, ClientAssumption DEF StreamClientTypeOK
  <2> QED  BY <2>1 DEF WorkerHandles
<1>6. StreamClientTypeOK'  BY <1>1, <1>2, <1>3, <1>4, <1>5 DEF StreamClientTypeOK
<1>7. ClientInStep'  BY <1>1, <1>2, <1>4 DEF ClientInStep
<1>8. w <= target
  <2>1. ~(w > target)  BY <1>1, <1>2 DEF ClosedIsLast
  <2>2. w \in Nat /\ target \in Nat  BY <1>1, WorkerTypes
  <2> QED  BY <2>1, <2>2
<1>9. ClosedIsLast'
  <2>1. \A v \in ServiceWorkers : v > target => v # w  BY <1>1, <1>8, WorkerTypes
  <2>2. \A v \in ServiceWorkers : v > target' => v \notin sessionAt' /\ inbox'[v] = <<>>
    BY <1>1, <1>2, <1>3, <1>5, <2>1 DEF ClosedIsLast
  <2>3. ASSUME cleaned, target # 0
        PROVE  /\ inbox'[target] = <<>> => target \notin sessionAt'
               /\ inbox'[target] # <<>> =>
                      inbox'[target][Len(inbox'[target])] = RemoveSession
    <3>1. target \in ServiceWorkers  BY <1>1, <2>3, WorkerTypes
    <3>2. CASE target # w
      BY <1>1, <1>3, <1>5, <2>3, <3>1, <3>2 DEF ClosedIsLast
    <3>3. CASE target = w
      <4>1. inbox[w][Len(inbox[w])] = RemoveSession  BY <1>1, <1>2, <2>3, <3>3 DEF ClosedIsLast
      <4> DEFINE box == inbox[w]
      <4>2. box \in Seq(Message) /\ box # <<>>  BY <1>2
      <4>3. box[Len(box)] = RemoveSession /\ inbox'[w] = Tail(box)  BY <1>3, <4>1
      <4>4. Head(box) = RemoveSession => w \notin sessionAt'  BY <1>5
      <4> HIDE DEF box
      <4>5. Tail(box) = <<>> => Head(box) = box[Len(box)]
        <5>1. Len(box) \in Nat \ {0} /\ Len(Tail(box)) = Len(box) - 1 /\ Head(box) = box[1]
          BY <4>2
        <5>2. ASSUME Tail(box) = <<>> PROVE Len(Tail(box)) = 0
          <6>1. Len(<<>>) = 0  OBVIOUS
          <6> QED  BY <5>2, <6>1
        <5> QED  BY <5>1, <5>2
      <4>6. Tail(box) # <<>> => Tail(box)[Len(Tail(box))] = box[Len(box)]  BY <4>2
      <4> QED  BY <3>3, <4>3, <4>4, <4>5, <4>6
    <3> QED  BY <3>2, <3>3
  <2> QED  BY <1>2, <2>2, <2>3 DEF ClosedIsLast
<1> QED  BY <1>6, <1>7, <1>9 DEF ClientInv

LEMMA WorkerForgetsKept ==
    ASSUME ClientInv, NEW w \in ServiceWorkers, WorkerForgets(w)
    PROVE  ClientInv'
<1>1. StreamClientTypeOK /\ ClientInStep /\ ClosedIsLast  BY DEF ClientInv
<1>2. /\ UNCHANGED <<controller, viewer, unlocked, create, cleaned, target, registeredAt,
                     registering, again, found, reported, expired, posted>>
      /\ sessionAt' = sessionAt \ {w}
      /\ inbox' = inbox \/ inbox' = [inbox EXCEPT ![w] = <<>>]
      /\ inbox \in [ServiceWorkers -> Seq(Message)]
  BY <1>1 DEF WorkerForgets, StreamClientTypeOK
<1>3. /\ inbox' \in [ServiceWorkers -> Seq(Message)]
      /\ inbox'[w] = inbox[w] \/ inbox'[w] = <<>>
      /\ \A v \in ServiceWorkers : v # w => inbox'[v] = inbox[v]
  <2>1. <<>> \in Seq(Message)  OBVIOUS
  <2>2. CASE inbox' = inbox  BY <1>2, <2>2
  <2>3. CASE inbox' = [inbox EXCEPT ![w] = <<>>]  BY <1>2, <2>1, <2>3
  <2> QED  BY <1>2, <2>2, <2>3
<1>4. faults' \in 0 .. MaxFaults
  <2>1. faults \in 0 .. MaxFaults /\ MaxFaults \in Nat
    BY <1>1, ClientAssumption DEF StreamClientTypeOK
  <2> QED  BY <2>1 DEF WorkerForgets
<1>5. StreamClientTypeOK'  BY <1>1, <1>2, <1>3, <1>4 DEF StreamClientTypeOK
<1>6. ClientInStep'  BY <1>1, <1>2 DEF ClientInStep
<1>7. ClosedIsLast'
  <2>1. \A v \in ServiceWorkers : inbox'[v] = inbox[v] \/ (inbox'[v] = <<>> /\ v \notin sessionAt')
    BY <1>2, <1>3
  <2>2. \A v \in ServiceWorkers : v > target' => v \notin sessionAt' /\ inbox'[v] = <<>>
    BY <1>1, <1>2, <2>1 DEF ClosedIsLast
  <2>3. target # 0 => target \in ServiceWorkers  BY <1>1, WorkerTypes
  <2>4. ASSUME cleaned, target # 0
        PROVE  /\ inbox'[target] = <<>> => target \notin sessionAt'
               /\ inbox'[target] # <<>> =>
                      inbox'[target][Len(inbox'[target])] = RemoveSession
    <3>1. inbox'[target] = inbox[target] \/ (inbox'[target] = <<>> /\ target \notin sessionAt')
      BY <2>1, <2>3, <2>4
    <3>2. CASE inbox'[target] = inbox[target]
      BY <1>1, <1>2, <2>4, <3>2 DEF ClosedIsLast
    <3> QED  BY <3>1, <3>2
  <2> QED  BY <1>2, <2>2, <2>4 DEF ClosedIsLast
<1> QED  BY <1>5, <1>6, <1>7 DEF ClientInv

LEMMA ClientStarts == StreamClientInit => ClientInv
<1> SUFFICES ASSUME StreamClientInit PROVE ClientInv  OBVIOUS
<1>1. StreamClientTypeOK
  <2>1. inbox \in [ServiceWorkers -> Seq(Message)]
    <3>1. <<>> \in Seq(Message)  OBVIOUS
    <3> QED  BY <3>1 DEF StreamClientInit
  <2>2. 0 \in 0 .. MaxWorkers /\ 0 \in 0 .. MaxFaults  BY ClientAssumption
  <2> QED  BY <2>1, <2>2 DEF StreamClientInit, StreamClientTypeOK
<1>2. ClientInStep  BY DEF StreamClientInit, ClientInStep
<1>3. ClosedIsLast  BY DEF StreamClientInit, ClosedIsLast
<1> QED  BY <1>1, <1>2, <1>3 DEF ClientInv

LEMMA ClientNextKeeps == ClientInv /\ [StreamClientNext]_streamClientVars => ClientInv'
<1> SUFFICES ASSUME ClientInv, [StreamClientNext]_streamClientVars PROVE ClientInv'
  OBVIOUS
<1>1. CASE UNCHANGED streamClientVars
  BY <1>1 DEF streamClientVars, ClientInv, StreamClientTypeOK, ClientInStep, ClosedIsLast
<1>2. CASE StreamClientNext
  BY <1>2, QuietSteps, CreateRegistersKept, LeaveKept, AgainFindsKept,
     RegistrationEndsKept, WorkerHandlesKept, WorkerForgetsKept DEF StreamClientNext
<1> QED  BY <1>1, <1>2

LEMMA ClientInvariant == StreamClientSpec => []ClientInv
<1> QED  BY ClientStarts, ClientNextKeeps, PTL DEF StreamClientSpec

\* No worker that could still serve it keeps a session, and so the key, of a
\* closed stream, however registrations, takeovers, timeouts and the close
\* overlap, with any number of workers and faults; and a re-registration that
\* was asked for is never forgotten.
THEOREM StreamsStayJust == StreamClientSpec => []StreamClientIsJust
<1>1. ClientInv => NoSessionLeft
  <2> SUFFICES ASSUME ClientInv, NEW w \in {controller, target} \ {0},
                      cleaned, inbox[w] = <<>>
               PROVE  w \notin sessionAt
    BY DEF NoSessionLeft
  <2>1. StreamClientTypeOK /\ ClientInStep /\ ClosedIsLast  BY DEF ClientInv
  <2>2. CASE w = target  BY <2>1, <2>2 DEF ClosedIsLast
  <2>3. CASE w = controller /\ w # target
    <3>1. w \in ServiceWorkers /\ w > target  BY <2>1, <2>3, WorkerTypes DEF ClientInStep
    <3> QED  BY <2>1, <3>1 DEF ClosedIsLast
  <2> QED  BY <2>2, <2>3
<1>2. ClientInv => ReRegistrationInStep
  <2> SUFFICES ASSUME ClientInv PROVE ReRegistrationInStep  OBVIOUS
  <2>1. StreamClientTypeOK /\ ClientInStep  BY DEF ClientInv
  <2> QED  BY <2>1 DEF ReRegistrationInStep, ClientInStep, StreamClientTypeOK
<1> QED  BY <1>1, <1>2, ClientInvariant, PTL DEF StreamClientIsJust

(***************************************************************************)
(* The pool.                                                               *)
(***************************************************************************)

\* Slots s, queue q and promises p: a task is pending where it is queued or
\* at work, and it is so once.
Accounted(s, q, p) ==
    /\ \A i, j \in DOMAIN q : q[i] = q[j] => i = j
    /\ \A i, j \in DOMAIN s : s[i] = s[j] /\ s[i] # NoTask => i = j
    /\ \A i \in DOMAIN s, j \in DOMAIN q : s[i] # q[j]
    /\ \A t \in CryptoTasks :
          p[t] = "pending" <=> \/ \E i \in DOMAIN q : q[i] = t
                               \/ \E i \in DOMAIN s : s[i] = t

PoolInv ==
    /\ PoolTypeOK
    /\ Accounted(slots, queue, promise)
    /\ terminated \/ slots = <<>> => slots = <<>> /\ queue = <<>>
    /\ slots = <<>> /\ ~terminated => microtasks = 0 /\ shutdowns = 0
    /\ NoneIdleWhileQueued
\* The idle slots are counted one by one.
LEMMA IdleRank ==
    ASSUME NEW n \in Nat, NEW s
    PROVE  /\ IdleUpTo(s, n) \in Nat /\ IdleUpTo(s, n) <= n
           /\ \A i \in 1 .. n : /\ IdleUpTo(s, i) \in Nat /\ IdleUpTo(s, i) <= IdleUpTo(s, n)
                                /\ s[i] = NoTask => IdleUpTo(s, i) >= 1
           /\ \A i, j \in 1 .. n :
                  i < j /\ s[j] = NoTask => IdleUpTo(s, i) < IdleUpTo(s, j)
<1> DEFINE I(i) == {j \in 1 .. i : s[j] = NoTask}
<1>1. \A i \in Nat : IsFiniteSet(I(i)) /\ Cardinality(I(i)) \in Nat /\ Cardinality(I(i)) <= i
  <2> TAKE i \in Nat
  <2>1. IsFiniteSet(1 .. i) /\ Cardinality(1 .. i) = i  BY FS_Interval
  <2>2. I(i) \in SUBSET (1 .. i)  OBVIOUS
  <2> HIDE DEF I
  <2>3. IsFiniteSet(I(i)) /\ Cardinality(I(i)) <= i  BY <2>1, <2>2, FS_Subset
  <2> QED  BY <2>3, FS_CardinalityType
<1>2. \A i, j \in Nat : i <= j => I(i) \in SUBSET I(j)  OBVIOUS
<1>3. \A j \in Nat : j >= 1 /\ s[j] = NoTask => j \in I(j) /\ \A i \in Nat : i < j => j \notin I(i)
  OBVIOUS
<1>4. \A i \in Nat : IdleUpTo(s, i) = Cardinality(I(i))  BY DEF IdleUpTo
<1> HIDE DEF I
<1>5. \A i, j \in Nat : i <= j => Cardinality(I(i)) <= Cardinality(I(j))
  BY <1>1, <1>2, FS_Subset
<1>6. \A i, j \in Nat : j >= 1 /\ i < j /\ s[j] = NoTask => Cardinality(I(i)) < Cardinality(I(j))
  <2> SUFFICES ASSUME NEW i \in Nat, NEW j \in Nat, j >= 1, i < j, s[j] = NoTask
               PROVE  Cardinality(I(i)) < Cardinality(I(j))
    OBVIOUS
  <2>1. I(i) \in SUBSET I(j) /\ I(i) # I(j)  BY <1>2, <1>3
  <2>2. Cardinality(I(i)) <= Cardinality(I(j)) /\ Cardinality(I(i)) # Cardinality(I(j))
    BY <1>1, <2>1, FS_Subset
  <2> QED  BY <1>1, <2>2
<1>7. \A i \in 1 .. n : i \in Nat /\ i >= 1 /\ i <= n  OBVIOUS
<1>8. \A i \in 1 .. n : s[i] = NoTask => Cardinality(I(i)) >= 1
  <2> SUFFICES ASSUME NEW i \in 1 .. n, s[i] = NoTask PROVE Cardinality(I(i)) >= 1
    OBVIOUS
  <2>1. I(i) # {}  BY <1>3, <1>7
  <2>2. Cardinality(I(i)) # 0  BY <1>1, <1>7, <2>1, FS_EmptySet
  <2> QED  BY <1>1, <1>7, <2>2
<1> QED  BY <1>1, <1>4, <1>5, <1>6, <1>7, <1>8

\* Every number up to their count is the number of one of them.
LEMMA IdleRankOnto ==
    ASSUME NEW n \in Nat, NEW s, NEW k \in 1 .. IdleUpTo(s, n)
    PROVE  \E i \in 1 .. n : s[i] = NoTask /\ IdleUpTo(s, i) = k
<1> DEFINE I == {j \in 1 .. n : s[j] = NoTask}
           c == IdleUpTo(s, n)
           f == [i \in I |-> IdleUpTo(s, i)]
<1>1. c \in Nat /\ c = Cardinality(I)  BY IdleRank DEF IdleUpTo
<1>2. f \in Injection(I, 1 .. c)
  <2>1. f \in [I -> 1 .. c]
    <3> SUFFICES ASSUME NEW i \in I PROVE IdleUpTo(s, i) \in 1 .. c  OBVIOUS
    <3>1. i \in 1 .. n /\ s[i] = NoTask  OBVIOUS
    <3>2. IdleUpTo(s, i) \in Nat /\ IdleUpTo(s, i) <= c /\ IdleUpTo(s, i) >= 1
      BY <3>1, IdleRank
    <3> QED  BY <1>1, <3>2
  <2>2. ASSUME NEW i \in I, NEW j \in I, f[i] = f[j] PROVE i = j
    <3>1. i \in 1 .. n /\ j \in 1 .. n /\ s[i] = NoTask /\ s[j] = NoTask
          /\ IdleUpTo(s, i) = IdleUpTo(s, j)
      BY <2>2
    <3>2. ~(i < j) /\ ~(j < i) /\ IdleUpTo(s, i) \in Nat  BY <3>1, IdleRank
    <3> QED  BY <3>1, <3>2
  <2> HIDE DEF f
  <2> QED  BY <2>1, <2>2 DEF Injection, IsInjective
<1>3. IsFiniteSet(1 .. c) /\ Cardinality(1 .. c) = c  BY <1>1, FS_Interval
<1> HIDE DEF c
<1>4. f \in Surjection(I, 1 .. c)
  <2> HIDE DEF f, I
  <2> QED  BY <1>1, <1>2, <1>3, FS_Injection
<1>5. \E i \in I : f[i] = k
  <2>1. k \in 1 .. c  BY DEF c
  <2> HIDE DEF f, I
  <2> QED  BY <1>4, <2>1 DEF Surjection
<1> QED  BY <1>5
PoolSlots == [1 .. POOL_SIZE -> CryptoTasks \cup {NoTask}]
Promises  == [CryptoTasks -> {"none", "pending", "result", "error"}]

\* What the idle slots take: the first c tasks of the queue, each once.
Drawn(s, q) == {TakenBy(s, q, i) : i \in DOMAIN s} \ {NoTask}

TakesFirst(s, q, taken, c) ==
    /\ taken \subseteq CryptoTasks /\ IsFiniteSet(taken)
    /\ c \in 0 .. Len(q)
    /\ \A t \in taken : \E k \in 1 .. c : t = q[k]
    /\ \A k \in 1 .. c : \E i \in DOMAIN s : TakenBy(s, q, i) = q[k]
    /\ \A i \in DOMAIN s : TakenBy(s, q, i) # NoTask =>
           s[i] = NoTask /\ \E k \in 1 .. c : TakenBy(s, q, i) = q[k]
    /\ \A i, j \in DOMAIN s :
           TakenBy(s, q, i) = TakenBy(s, q, j) /\ TakenBy(s, q, i) # NoTask => i = j
    /\ c < Len(q) => \A i \in DOMAIN s : s[i] = NoTask => TakenBy(s, q, i) # NoTask

LEMMA WhatIsTaken ==
    ASSUME NEW s \in PoolSlots, NEW q \in Seq(CryptoTasks),
           \A i, j \in DOMAIN q : q[i] = q[j] => i = j
    PROVE  TakesFirst(s, q, Drawn(s, q), Cardinality(Drawn(s, q)))
<1> DEFINE n == IdleUpTo(s, POOL_SIZE)
           c == IF n <= Len(q) THEN n ELSE Len(q)
           f == [k \in 1 .. c |-> q[k]]
           taken == Drawn(s, q)
<1>1. /\ POOL_SIZE \in Nat /\ DOMAIN s = 1 .. POOL_SIZE /\ Len(q) \in Nat
      /\ NoTask \notin CryptoTasks /\ DOMAIN q = 1 .. Len(q)
      /\ \A k \in 1 .. Len(q) : q[k] \in CryptoTasks
  BY PoolAssumption DEF PoolSlots
<1>2. n \in Nat  BY <1>1, IdleRank
<1>3. c \in Nat /\ c <= n /\ c <= Len(q) /\ (c < Len(q) => c = n)  BY <1>1, <1>2
<1>4. \A i \in 1 .. POOL_SIZE : IdleUpTo(s, i) \in Nat /\ IdleUpTo(s, i) <= n
  BY <1>1, IdleRank
<1>5. \A i \in 1 .. POOL_SIZE : s[i] = NoTask => IdleUpTo(s, i) >= 1
  BY <1>1, IdleRank
<1>6. \A i, j \in 1 .. POOL_SIZE :
          s[i] = NoTask /\ s[j] = NoTask /\ IdleUpTo(s, i) = IdleUpTo(s, j) => i = j
  <2> SUFFICES ASSUME NEW i \in 1 .. POOL_SIZE, NEW j \in 1 .. POOL_SIZE,
                      s[i] = NoTask, s[j] = NoTask, IdleUpTo(s, i) = IdleUpTo(s, j)
               PROVE  i = j
    OBVIOUS
  <2>1. \A k, l \in 1 .. POOL_SIZE :
            k < l /\ s[l] = NoTask => IdleUpTo(s, k) < IdleUpTo(s, l)
    BY <1>1, IdleRank
  <2>2. IdleUpTo(s, i) \in Nat  BY <1>4
  <2>3. ~(i < j) /\ ~(j < i)  BY <2>1, <2>2
  <2> QED  BY <1>1, <2>3
<1>7. \A k \in 1 .. n : \E i \in 1 .. POOL_SIZE : s[i] = NoTask /\ IdleUpTo(s, i) = k
  BY <1>1, IdleRankOnto
<1> HIDE DEF n, c
<1>8. \A i \in 1 .. POOL_SIZE :
          IF s[i] = NoTask /\ IdleUpTo(s, i) <= c
          THEN TakenBy(s, q, i) = q[IdleUpTo(s, i)] /\ IdleUpTo(s, i) \in 1 .. c
          ELSE TakenBy(s, q, i) = NoTask
  <2> TAKE i \in 1 .. POOL_SIZE
  <2>1. CASE s[i] = NoTask /\ IdleUpTo(s, i) <= c
    BY <1>1, <1>3, <1>4, <1>5, <2>1 DEF TakenBy
  <2>2. CASE ~(s[i] = NoTask /\ IdleUpTo(s, i) <= c)
    <3>1. s[i] = NoTask => ~(IdleUpTo(s, i) <= Len(q))
      BY <1>1, <1>2, <1>3, <1>4, <2>2
    <3> QED  BY <2>2, <3>1 DEF TakenBy
  <2> QED  BY <2>1, <2>2
<1>9. \A k \in 1 .. c : q[k] \in CryptoTasks /\ k \in DOMAIN q /\ k \in 1 .. n
  BY <1>1, <1>2, <1>3
<1>10. taken = {q[k] : k \in 1 .. c}
  <2> USE DEF Drawn
  <2>1. ASSUME NEW t \in taken PROVE t \in {q[k] : k \in 1 .. c}
    BY <1>1, <1>8
  <2>2. ASSUME NEW k \in 1 .. c PROVE q[k] \in taken
    <3>1. PICK i \in 1 .. POOL_SIZE : s[i] = NoTask /\ IdleUpTo(s, i) = k  BY <1>7, <1>9
    <3>2. k <= c  BY <1>3
    <3>3. TakenBy(s, q, i) = q[k]  BY <1>8, <3>1, <3>2
    <3> QED  BY <1>1, <1>9, <3>3
  <2> QED  BY <2>1, <2>2
<1> HIDE DEF taken
<1>11. IsFiniteSet(taken) /\ Cardinality(taken) = c
  <2>1. f \in [1 .. c -> taken]  BY <1>10
  <2>2. \A t \in taken : \E k \in 1 .. c : f[k] = t  BY <1>10
  <2>3. \A k, l \in 1 .. c : f[k] = f[l] => k = l  BY <1>9
  <2> HIDE DEF f
  <2>4. f \in Bijection(1 .. c, taken)
    BY <2>1, <2>2, <2>3 DEF Bijection, Injection, Surjection, IsInjective
  <2>5. IsFiniteSet(1 .. c) /\ Cardinality(1 .. c) = c  BY <1>3, FS_Interval
  <2> QED  BY <2>4, <2>5, FS_Bijection DEF ExistsBijection
<1>12. \A k \in 1 .. c : \E i \in DOMAIN s : TakenBy(s, q, i) = q[k]
  <2> TAKE k \in 1 .. c
  <2>1. PICK i \in 1 .. POOL_SIZE : s[i] = NoTask /\ IdleUpTo(s, i) = k  BY <1>7, <1>9
  <2>2. k <= c  BY <1>3
  <2> QED  BY <1>1, <1>8, <2>1, <2>2
<1>13. \A i \in DOMAIN s : TakenBy(s, q, i) # NoTask =>
           s[i] = NoTask /\ \E k \in 1 .. c : TakenBy(s, q, i) = q[k]
  BY <1>1, <1>8
<1>14. \A i, j \in DOMAIN s :
           TakenBy(s, q, i) = TakenBy(s, q, j) /\ TakenBy(s, q, i) # NoTask => i = j
  <2> SUFFICES ASSUME NEW i \in 1 .. POOL_SIZE, NEW j \in 1 .. POOL_SIZE,
                      TakenBy(s, q, i) = TakenBy(s, q, j), TakenBy(s, q, i) # NoTask
               PROVE  i = j
    BY <1>1
  <2>1. /\ s[i] = NoTask /\ IdleUpTo(s, i) \in 1 .. c
        /\ TakenBy(s, q, i) = q[IdleUpTo(s, i)]
    BY <1>8
  <2>2. /\ s[j] = NoTask /\ IdleUpTo(s, j) \in 1 .. c
        /\ TakenBy(s, q, j) = q[IdleUpTo(s, j)]
    BY <1>8
  <2>3. IdleUpTo(s, i) = IdleUpTo(s, j)  BY <1>9, <2>1, <2>2
  <2> QED  BY <1>6, <2>1, <2>2, <2>3
<1>15. ASSUME c < Len(q), NEW i \in DOMAIN s, s[i] = NoTask PROVE TakenBy(s, q, i) # NoTask
  <2>1. i \in 1 .. POOL_SIZE /\ IdleUpTo(s, i) <= c  BY <1>1, <1>3, <1>4, <1>15
  <2>2. TakenBy(s, q, i) = q[IdleUpTo(s, i)] /\ IdleUpTo(s, i) \in 1 .. c
    BY <1>8, <1>15, <2>1
  <2> QED  BY <1>1, <1>9, <2>2
<1>16. taken \subseteq CryptoTasks  BY <1>9, <1>10
<1>17. c \in 0 .. Len(q)  BY <1>1, <1>3
<1>18. TakesFirst(s, q, taken, c)
  BY <1>10, <1>11, <1>12, <1>13, <1>14, <1>15, <1>16, <1>17 DEF TakesFirst
<1> QED  BY <1>11, <1>18 DEF taken

\* A pump keeps the tasks accounted for, and leaves no idle slot beside a
\* queued task unless another pump is due.
LEMMA Pumped ==
    ASSUME NEW s \in PoolSlots, NEW q \in Seq(CryptoTasks), NEW p \in Promises, NEW m \in Nat,
           Accounted(s, q, p), PumpQueue(s, q, p, m)
    PROVE  /\ slots' \in PoolSlots /\ queue' \in Seq(CryptoTasks) /\ promise' \in Promises
           /\ microtasks' \in Nat
           /\ Accounted(slots', queue', promise')
           /\ queue' # <<>> =>
                  microtasks' > 0 \/ \A i \in DOMAIN slots' : slots'[i] # NoTask
<1>1. PICK taken : taken = Drawn(s, q)  OBVIOUS
<1>2. PICK refused \in SUBSET taken :
          /\ slots' = [i \in DOMAIN s |->
                          IF TakenBy(s, q, i) \notin refused \cup {NoTask}
                          THEN TakenBy(s, q, i) ELSE s[i]]
          /\ queue' = SubSeq(q, Cardinality(taken) + 1, Len(q))
          /\ promise' = [t \in DOMAIN p |-> IF t \in refused THEN "error" ELSE p[t]]
          /\ microtasks' = m + Cardinality(refused)
  BY <1>1 DEF PumpQueue, Drawn
<1> DEFINE c == Cardinality(taken)
<1>3. /\ \A i, j \in DOMAIN q : q[i] = q[j] => i = j
      /\ \A i, j \in DOMAIN s : s[i] = s[j] /\ s[i] # NoTask => i = j
      /\ \A i \in DOMAIN s, j \in DOMAIN q : s[i] # q[j]
      /\ \A t \in CryptoTasks :
            p[t] = "pending" <=> \/ \E i \in DOMAIN q : q[i] = t
                                 \/ \E i \in DOMAIN s : s[i] = t
  BY DEF Accounted
<1>4. /\ taken \subseteq CryptoTasks /\ IsFiniteSet(taken)
      /\ c \in 0 .. Len(q)
      /\ \A t \in taken : \E k \in 1 .. c : t = q[k]
      /\ \A k \in 1 .. c : \E i \in DOMAIN s : TakenBy(s, q, i) = q[k]
      /\ \A i \in DOMAIN s : TakenBy(s, q, i) # NoTask =>
             s[i] = NoTask /\ \E k \in 1 .. c : TakenBy(s, q, i) = q[k]
      /\ \A i, j \in DOMAIN s :
             TakenBy(s, q, i) = TakenBy(s, q, j) /\ TakenBy(s, q, i) # NoTask => i = j
      /\ c < Len(q) => \A i \in DOMAIN s : s[i] = NoTask => TakenBy(s, q, i) # NoTask
  <2>1. \A i, j \in DOMAIN q : q[i] = q[j] => i = j  BY <1>3
  <2>2. TakesFirst(s, q, taken, c)  BY <1>1, <2>1, WhatIsTaken
  <2> QED  BY <2>2 DEF TakesFirst
<1>5. Cardinality(refused) \in Nat /\ (refused # {} => Cardinality(refused) > 0)
  <2>1. IsFiniteSet(refused) /\ Cardinality(refused) \in Nat
    BY <1>4, FS_Subset, FS_CardinalityType
  <2>2. refused # {} => Cardinality(refused) # 0  BY <2>1, FS_EmptySet
  <2> QED  BY <2>1, <2>2
<1> HIDE DEF c
<1>6. /\ DOMAIN s = 1 .. POOL_SIZE /\ Len(q) \in Nat /\ DOMAIN q = 1 .. Len(q)
      /\ NoTask \notin CryptoTasks
      /\ \A k \in 1 .. Len(q) : q[k] \in CryptoTasks
      /\ DOMAIN p = CryptoTasks /\ c \in Nat /\ c <= Len(q)
      /\ \A k \in 1 .. c : k \in DOMAIN q
  BY <1>4, PoolAssumption DEF PoolSlots, Promises
<1>7. /\ queue' \in Seq(CryptoTasks) /\ Len(queue') = Len(q) - c
      /\ DOMAIN queue' = 1 .. Len(q) - c
      /\ \A k \in 1 .. Len(q) - c :
             queue'[k] = q[c + k] /\ c + k \in DOMAIN q /\ c + k \notin 1 .. c
  <2>1. queue' = SubSeq(q, c + 1, Len(q))  BY <1>2 DEF c
  <2>2. Len(queue') = Len(q) - c  BY <1>6, <2>1
  <2>3. queue' \in Seq(CryptoTasks)  BY <1>6, <2>1
  <2>4. \A k \in 1 .. Len(q) - c : queue'[k] = q[c + k]  BY <1>6, <2>1
  <2>5. \A k \in 1 .. Len(q) - c : c + k \in DOMAIN q /\ c + k \notin 1 .. c  BY <1>6
  <2> QED  BY <2>2, <2>3, <2>4, <2>5
<1>8. \A i \in DOMAIN s :
          \/ /\ slots'[i] = TakenBy(s, q, i) /\ slots'[i] \notin refused
             /\ slots'[i] # NoTask
             /\ s[i] = NoTask /\ \E k \in 1 .. c : slots'[i] = q[k]
          \/ slots'[i] = s[i] /\ TakenBy(s, q, i) \in refused \cup {NoTask}
  BY <1>2, <1>4
<1>9. DOMAIN slots' = DOMAIN s  BY <1>2
<1>10. slots' \in PoolSlots
  <2>1. \A i \in DOMAIN s : slots'[i] \in CryptoTasks \cup {NoTask}
    BY <1>6, <1>8 DEF PoolSlots
  <2> QED  BY <1>2, <1>6, <2>1 DEF PoolSlots
<1>11. /\ promise' \in Promises
       /\ \A t \in CryptoTasks :
              promise'[t] = "pending" <=> p[t] = "pending" /\ t \notin refused
  BY <1>2, <1>6 DEF Promises
<1>12. microtasks' \in Nat /\ (refused # {} => microtasks' > 0)  BY <1>2, <1>5
<1>13. \A t \in refused : \E k \in 1 .. c : t = q[k]  BY <1>4
<1>14. Accounted(slots', queue', promise')
  <2>1. \A i, j \in DOMAIN queue' : queue'[i] = queue'[j] => i = j
    <3> SUFFICES ASSUME NEW i \in 1 .. Len(q) - c, NEW j \in 1 .. Len(q) - c,
                        queue'[i] = queue'[j]
                 PROVE  i = j
      BY <1>7
    <3>1. q[c + i] = q[c + j] /\ c + i \in DOMAIN q /\ c + j \in DOMAIN q  BY <1>7
    <3>2. c + i = c + j  BY <1>3, <3>1
    <3> QED  BY <1>6, <3>2
  <2>2. \A i, j \in DOMAIN slots' : slots'[i] = slots'[j] /\ slots'[i] # NoTask => i = j
    <3> SUFFICES ASSUME NEW i \in DOMAIN s, NEW j \in DOMAIN s,
                        slots'[i] = slots'[j], slots'[i] # NoTask
                 PROVE  i = j
      BY <1>9
    <3>1. CASE slots'[i] = s[i] /\ slots'[j] = s[j]  BY <1>3, <3>1
    <3>2. CASE slots'[i] = TakenBy(s, q, i) /\ slots'[j] = TakenBy(s, q, j)
      BY <1>4, <3>2
    <3>3. ASSUME NEW k \in 1 .. c PROVE s[i] # q[k] /\ s[j] # q[k]  BY <1>3, <1>6
    <3> QED  BY <1>8, <3>1, <3>2, <3>3
  <2>3. \A i \in DOMAIN slots', j \in DOMAIN queue' : slots'[i] # queue'[j]
    <3> SUFFICES ASSUME NEW i \in DOMAIN s, NEW j \in 1 .. Len(q) - c,
                        slots'[i] = queue'[j]
                 PROVE  FALSE
      BY <1>7, <1>9
    <3>1. queue'[j] = q[c + j] /\ c + j \in DOMAIN q /\ c + j \notin 1 .. c  BY <1>7
    <3>2. s[i] # q[c + j]  BY <1>3, <3>1
    <3>3. PICK k \in 1 .. c : slots'[i] = q[k]  BY <1>8, <3>1, <3>2
    <3> QED  BY <1>3, <1>6, <3>1, <3>3
  <2>4. ASSUME NEW t \in CryptoTasks
        PROVE  promise'[t] = "pending" <=> \/ \E i \in DOMAIN queue' : queue'[i] = t
                                           \/ \E i \in DOMAIN slots' : slots'[i] = t
    <3>1. ASSUME NEW i \in DOMAIN queue', queue'[i] = t PROVE promise'[t] = "pending"
      <4>1. t = q[c + i] /\ c + i \in DOMAIN q /\ c + i \notin 1 .. c  BY <1>7, <3>1
      <4>2. t \notin refused  BY <1>3, <1>6, <1>13, <4>1
      <4> QED  BY <1>3, <1>11, <4>1, <4>2
    <3>2. ASSUME NEW i \in DOMAIN slots', slots'[i] = t PROVE promise'[t] = "pending"
      <4>1. i \in DOMAIN s  BY <1>9
      <4>2. CASE t \notin refused /\ \E k \in 1 .. c : t = q[k]
        BY <1>3, <1>6, <1>11, <4>2
      <4>3. CASE t = s[i]
        <5>1. t \notin refused  BY <1>3, <1>6, <1>13, <4>1, <4>3
        <5> QED  BY <1>3, <1>11, <4>1, <4>3, <5>1
      <4> QED  BY <1>8, <3>2, <4>1, <4>2, <4>3
    <3>3. ASSUME p[t] = "pending", t \notin refused
          PROVE  \/ \E i \in DOMAIN queue' : queue'[i] = t
                 \/ \E i \in DOMAIN slots' : slots'[i] = t
      <4>1. CASE \E k \in DOMAIN q : q[k] = t
        <5>1. PICK k \in DOMAIN q : q[k] = t  BY <4>1
        <5>2. CASE k \in 1 .. c
          <6>1. PICK i \in DOMAIN s : TakenBy(s, q, i) = t  BY <1>4, <5>1, <5>2
          <6>2. slots'[i] = t  BY <1>2, <1>6, <3>3, <6>1
          <6> QED  BY <1>9, <6>2
        <5>3. CASE k \notin 1 .. c
          <6>1. k - c \in 1 .. Len(q) - c /\ c + (k - c) = k  BY <1>6, <5>3
          <6> QED  BY <1>7, <5>1, <6>1
        <5> QED  BY <5>2, <5>3
      <4>2. CASE \E i \in DOMAIN s : s[i] = t
        <5>1. PICK i \in DOMAIN s : s[i] = t  BY <4>2
        <5>2. slots'[i] = t  BY <1>6, <1>8, <5>1
        <5> QED  BY <1>9, <5>2
      <4> QED  BY <1>3, <3>3, <4>1, <4>2
    <3> QED  BY <1>11, <3>1, <3>2, <3>3
  <2> QED  BY <2>1, <2>2, <2>3, <2>4 DEF Accounted
<1>15. ASSUME queue' # <<>>, refused = {}, NEW i \in DOMAIN slots'
       PROVE  slots'[i] # NoTask
  <2>1. c < Len(q)
    <3> DEFINE r == queue'
    <3> HIDE DEF r
    <3>0. r \in Seq(CryptoTasks) /\ r # <<>>  BY <1>7, <1>15 DEF r
    <3>1. Len(queue') # 0
      <4>1. Len(r) # 0  BY <3>0
      <4> QED  BY <4>1 DEF r
    <3>2. Len(q) \in Nat /\ c \in Nat /\ c <= Len(q)  BY <1>6
    <3>3. Len(queue') = Len(q) - c  BY <1>7
    <3> QED  BY <3>1, <3>2, <3>3
  <2>2. i \in DOMAIN s /\ (s[i] = NoTask => TakenBy(s, q, i) # NoTask)
    BY <1>4, <1>9, <2>1
  <2> QED  BY <1>8, <1>15, <2>2
<1> QED  BY <1>7, <1>10, <1>11, <1>12, <1>14, <1>15
LEMMA PoolSlotsTypes ==
    /\ \A s \in PoolSlots : s # <<>> /\ DOMAIN s = 1 .. POOL_SIZE
    /\ FreshSlots \in PoolSlots /\ \A i \in DOMAIN FreshSlots : FreshSlots[i] = NoTask
    /\ PoolTypeOK => slots = <<>> \/ slots \in PoolSlots
<1>1. 1 \in 1 .. POOL_SIZE  BY PoolAssumption
<1>2. ASSUME NEW s \in PoolSlots PROVE s # <<>> /\ DOMAIN s = 1 .. POOL_SIZE
  <2>1. DOMAIN s = 1 .. POOL_SIZE  BY DEF PoolSlots
  <2>2. DOMAIN <<>> = {}  OBVIOUS
  <2> QED  BY <1>1, <2>1, <2>2
<1>3. FreshSlots \in PoolSlots  BY DEF FreshSlots, PoolSlots
<1>4. \A i \in DOMAIN FreshSlots : FreshSlots[i] = NoTask  BY DEF FreshSlots
<1>5. PoolTypeOK => slots = <<>> \/ slots \in PoolSlots  BY DEF PoolTypeOK, PoolSlots
<1> QED  BY <1>2, <1>3, <1>4, <1>5

\* A step that ends in a pump of a pool that is there.
LEMMA PumpKept ==
    ASSUME NEW s \in PoolSlots, NEW q \in Seq(CryptoTasks), NEW p \in Promises, NEW m \in Nat,
           Accounted(s, q, p), PumpQueue(s, q, p, m),
           terminated' = FALSE, shutdowns' \in 0 .. MaxShutdowns
    PROVE  PoolInv'
<1>1. /\ slots' \in PoolSlots /\ queue' \in Seq(CryptoTasks) /\ promise' \in Promises
      /\ microtasks' \in Nat
      /\ Accounted(slots', queue', promise')
      /\ queue' # <<>> =>
             microtasks' > 0 \/ \A i \in DOMAIN slots' : slots'[i] # NoTask
  BY Pumped
<1>2. PoolTypeOK'  BY <1>1 DEF PoolTypeOK, PoolSlots, Promises
<1>3. slots' # <<>>  BY <1>1, PoolSlotsTypes
<1>4. NoneIdleWhileQueued'  BY <1>1, <1>3 DEF NoneIdleWhileQueued
<1> QED  BY <1>1, <1>2, <1>3, <1>4 DEF PoolInv

LEMMA PoolTypes ==
    ASSUME PoolInv
    PROVE  /\ queue \in Seq(CryptoTasks) /\ promise \in Promises
           /\ microtasks \in Nat /\ shutdowns \in 0 .. MaxShutdowns
           /\ NoTask \notin CryptoTasks
           /\ DOMAIN queue = 1 .. Len(queue) /\ Len(queue) \in Nat
           /\ slots # <<>> => slots \in PoolSlots /\ terminated = FALSE
           /\ slots = <<>> => queue = <<>> /\ DOMAIN slots = {}
<1>1. PoolTypeOK  BY DEF PoolInv
<1>2. /\ queue \in Seq(CryptoTasks) /\ promise \in Promises
      /\ microtasks \in Nat /\ shutdowns \in 0 .. MaxShutdowns
      /\ terminated \in BOOLEAN
  BY <1>1 DEF PoolTypeOK, Promises
<1>3. slots # <<>> => slots \in PoolSlots /\ terminated = FALSE
  BY <1>1, <1>2, PoolSlotsTypes DEF PoolInv
<1>4. slots = <<>> => queue = <<>> /\ DOMAIN slots = {}
  <2>1. DOMAIN <<>> = {}  OBVIOUS
  <2> QED  BY <2>1 DEF PoolInv
<1> QED  BY <1>2, <1>3, <1>4, PoolAssumption

LEMMA DispatchKept ==
    ASSUME PoolInv, NEW t \in CryptoTasks, Dispatch(t)
    PROVE  PoolInv'
<1>1. PICK s : s = IF slots = <<>> THEN FreshSlots ELSE slots  OBVIOUS
<1>2. PICK q : q = Append(queue, t)  OBVIOUS
<1>3. PICK p : p = [promise EXCEPT ![t] = "pending"]  OBVIOUS
<1>4. /\ promise[t] = "none" /\ PumpQueue(s, q, p, microtasks) /\ shutdowns' = shutdowns
      /\ terminated' = IF slots = <<>> THEN FALSE ELSE terminated
  BY <1>1, <1>2, <1>3 DEF Dispatch
<1>5. s \in PoolSlots /\ terminated' = FALSE  BY <1>1, <1>4, PoolTypes, PoolSlotsTypes
<1>6. /\ q \in Seq(CryptoTasks) /\ DOMAIN q = 1 .. Len(queue) + 1
      /\ q[Len(queue) + 1] = t
      /\ \A k \in DOMAIN queue : q[k] = queue[k]
  BY <1>2, PoolTypes
<1>7. p \in Promises /\ \A u \in CryptoTasks : p[u] = IF u = t THEN "pending" ELSE promise[u]
  BY <1>3, PoolTypes DEF Promises
<1>8. Accounted(slots, queue, promise)  BY DEF PoolInv
<1>9. /\ \A k \in DOMAIN queue : queue[k] # t
      /\ \A i \in DOMAIN slots : slots[i] # t
  BY <1>4, <1>8 DEF Accounted
<1>10. \A k \in DOMAIN q : k \in DOMAIN queue \/ k = Len(queue) + 1  BY <1>6, PoolTypes
<1>11. \A i \in DOMAIN s : s[i] = NoTask \/ (i \in DOMAIN slots /\ s[i] = slots[i])
  BY <1>1, PoolSlotsTypes
<1>12. \A i \in DOMAIN slots : i \in DOMAIN s /\ s[i] = slots[i]  BY <1>1, PoolTypes
<1>13. Len(queue) + 1 \in DOMAIN q /\ \A k \in DOMAIN queue : k \in DOMAIN q
  BY <1>6, PoolTypes
<1>14. NoTask \notin CryptoTasks /\ \A k \in DOMAIN q : q[k] \in CryptoTasks
  BY <1>6, PoolTypes
<1>15. Accounted(s, q, p)
  <2>1. \A i, j \in DOMAIN q : q[i] = q[j] => i = j
    BY <1>6, <1>8, <1>9, <1>10 DEF Accounted
  <2>2. \A i, j \in DOMAIN s : s[i] = s[j] /\ s[i] # NoTask => i = j
    BY <1>8, <1>11 DEF Accounted
  <2>3. \A i \in DOMAIN s, j \in DOMAIN q : s[i] # q[j]
    BY <1>6, <1>8, <1>9, <1>10, <1>11, <1>14 DEF Accounted
  <2>4. ASSUME NEW u \in CryptoTasks
        PROVE  p[u] = "pending" <=> \/ \E i \in DOMAIN q : q[i] = u
                                    \/ \E i \in DOMAIN s : s[i] = u
    <3>1. promise[u] = "pending" <=> \/ \E i \in DOMAIN queue : queue[i] = u
                                     \/ \E i \in DOMAIN slots : slots[i] = u
      BY <1>8 DEF Accounted
    <3>2. (\E i \in DOMAIN s : s[i] = u) <=> \E i \in DOMAIN slots : slots[i] = u
      BY <1>11, <1>12, <1>14
    <3>3. (\E i \in DOMAIN q : q[i] = u) <=> u = t \/ \E i \in DOMAIN queue : queue[i] = u
      BY <1>6, <1>10, <1>13
    <3> QED  BY <1>7, <3>1, <3>2, <3>3
  <2> QED  BY <2>1, <2>2, <2>3, <2>4 DEF Accounted
<1> QED  BY <1>4, <1>5, <1>6, <1>7, <1>15, PoolTypes, PumpKept

\* A slot is freed, and its task's promise is settled.
LEMMA SlotFreed ==
    ASSUME PoolInv, NEW i \in DOMAIN slots, NEW p,
           \A t \in CryptoTasks :
               p[t] = "pending" <=> promise[t] = "pending" /\ t # slots[i]
    PROVE  /\ [slots EXCEPT ![i] = NoTask] \in PoolSlots
           /\ Accounted([slots EXCEPT ![i] = NoTask], queue, p)
<1>1. PICK s : s = [slots EXCEPT ![i] = NoTask]  OBVIOUS
<1>2. slots \in PoolSlots  BY PoolTypes
<1>3. /\ s \in PoolSlots /\ DOMAIN s = DOMAIN slots
      /\ \A j \in DOMAIN s : s[j] = IF j = i THEN NoTask ELSE slots[j]
  BY <1>1, <1>2 DEF PoolSlots
<1>4. Accounted(slots, queue, promise)  BY DEF PoolInv
<1>5. NoTask \notin CryptoTasks /\ \A k \in DOMAIN queue : queue[k] \in CryptoTasks
  BY PoolTypes
<1>6. Accounted(s, queue, p)
  <2>1. \A j, k \in DOMAIN s : s[j] = s[k] /\ s[j] # NoTask => j = k
    BY <1>3, <1>4 DEF Accounted
  <2>2. \A j \in DOMAIN s, k \in DOMAIN queue : s[j] # queue[k]
    BY <1>3, <1>4, <1>5 DEF Accounted
  <2>3. ASSUME NEW t \in CryptoTasks
        PROVE  p[t] = "pending" <=> \/ \E k \in DOMAIN queue : queue[k] = t
                                    \/ \E j \in DOMAIN s : s[j] = t
    <3>1. promise[t] = "pending" <=> \/ \E k \in DOMAIN queue : queue[k] = t
                                     \/ \E j \in DOMAIN slots : slots[j] = t
      BY <1>4 DEF Accounted
    <3>2. CASE t = slots[i]
      <4>1. ~\E k \in DOMAIN queue : queue[k] = t  BY <1>4, <3>2 DEF Accounted
      <4>2. ~\E j \in DOMAIN s : s[j] = t  BY <1>3, <1>4, <1>5, <3>2 DEF Accounted
      <4> QED  BY <3>2, <4>1, <4>2
    <3>3. CASE t # slots[i]
      <4>1. (\E j \in DOMAIN s : s[j] = t) <=> \E j \in DOMAIN slots : slots[j] = t
        BY <1>3, <1>5, <3>3
      <4> QED  BY <3>1, <3>3, <4>1
    <3> QED  BY <3>2, <3>3
  <2>4. \A j, k \in DOMAIN queue : queue[j] = queue[k] => j = k  BY <1>4 DEF Accounted
  <2> QED  BY <2>1, <2>2, <2>3, <2>4 DEF Accounted
<1> QED  BY <1>1, <1>3, <1>6

LEMMA AnswerKept ==
    ASSUME PoolInv, NEW i, NEW type \in {"result", "error"}, Answer(i, type)
    PROVE  PoolInv'
<1>1. PICK s : s = [slots EXCEPT ![i] = NoTask]  OBVIOUS
<1>2. PICK p : p = [promise EXCEPT ![slots[i]] = type]  OBVIOUS
<1>3. /\ i \in DOMAIN slots /\ slots[i] # NoTask /\ PumpQueue(s, queue, p, microtasks)
      /\ terminated' = terminated /\ shutdowns' = shutdowns
  BY <1>1, <1>2 DEF Answer
<1>4. slots \in PoolSlots /\ terminated = FALSE  BY <1>3, PoolTypes
<1>5. slots[i] \in CryptoTasks  BY <1>3, <1>4 DEF PoolSlots
<1>6. p \in Promises /\ \A t \in CryptoTasks : p[t] = IF t = slots[i] THEN type ELSE promise[t]
  BY <1>2, <1>5, PoolTypes DEF Promises
<1>7. s \in PoolSlots /\ Accounted(s, queue, p)
  <2>1. \A t \in CryptoTasks : p[t] = "pending" <=> promise[t] = "pending" /\ t # slots[i]
    BY <1>6
  <2> QED  BY <1>1, <1>3, <2>1, SlotFreed
<1> QED  BY <1>3, <1>4, <1>6, <1>7, PoolTypes, PumpKept

LEMMA CrashKept ==
    ASSUME PoolInv, NEW i, Crash(i)
    PROVE  PoolInv'
<1>1. PICK s : s = [slots EXCEPT ![i] = NoTask]  OBVIOUS
<1>2. PICK p : p = [t \in CryptoTasks |-> IF t = slots[i] THEN "error" ELSE promise[t]]
  OBVIOUS
<1>3. /\ i \in DOMAIN slots /\ PumpQueue(s, queue, p, microtasks)
      /\ terminated' = terminated /\ shutdowns' = shutdowns
  BY <1>1, <1>2 DEF Crash
<1>4. terminated = FALSE  BY <1>3, PoolTypes
<1>5. p \in Promises /\ \A t \in CryptoTasks : p[t] = IF t = slots[i] THEN "error" ELSE promise[t]
  BY <1>2, PoolTypes DEF Promises
<1>6. s \in PoolSlots /\ Accounted(s, queue, p)
  <2>1. \A t \in CryptoTasks : p[t] = "pending" <=> promise[t] = "pending" /\ t # slots[i]
    BY <1>5
  <2> QED  BY <1>1, <1>3, <2>1, SlotFreed
<1> QED  BY <1>3, <1>4, <1>5, <1>6, PoolTypes, PumpKept

\* A due pump, and a late event, of a pool that is there or is not.
LEMMA PumpAgainKept ==
    ASSUME PoolInv, NEW m \in Nat, PumpAgain(m), microtasks > 0 \/ shutdowns > 0
    PROVE  PoolInv'
<1>1. UNCHANGED <<terminated, shutdowns>>  BY DEF PumpAgain
<1>2. CASE terminated
  <2>1. UNCHANGED <<slots, queue, promise>> /\ microtasks' = m  BY <1>2 DEF PumpAgain
  <2> QED
    BY <1>1, <1>2, <2>1 DEF PoolInv, PoolTypeOK, NoneIdleWhileQueued
<1>3. CASE ~terminated
  <2>1. PumpQueue(slots, queue, promise, m)  BY <1>3 DEF PumpAgain
  <2>2. slots # <<>>  BY <1>3 DEF PoolInv
  <2>3. Accounted(slots, queue, promise)  BY DEF PoolInv
  <2> QED  BY <1>1, <2>1, <2>2, <2>3, PoolTypes, PumpKept
<1> QED  BY <1>2, <1>3

LEMMA ShutdownKept ==
    ASSUME PoolInv, ShutdownPool
    PROVE  PoolInv'
<1>1. /\ shutdowns < MaxShutdowns /\ shutdowns' = shutdowns + 1 /\ terminated' = TRUE
      /\ queue' = <<>> /\ slots' = <<>> /\ microtasks' = microtasks
      /\ promise' = [t \in CryptoTasks |->
                        IF \/ \E i \in DOMAIN queue : queue[i] = t
                           \/ \E i \in DOMAIN slots : slots[i] = t
                        THEN "error" ELSE promise[t]]
  BY DEF ShutdownPool
<1>2. DOMAIN queue' = {} /\ DOMAIN slots' = {} /\ queue' \in Seq(CryptoTasks)
  <2>1. DOMAIN <<>> = {} /\ <<>> \in Seq(CryptoTasks)  OBVIOUS
  <2> QED  BY <1>1, <2>1
<1>3. \A t \in CryptoTasks : promise'[t] # "pending"
  <2>1. Accounted(slots, queue, promise)  BY DEF PoolInv
  <2> QED  BY <1>1, <2>1 DEF Accounted
<1>4. Accounted(slots', queue', promise')  BY <1>2, <1>3 DEF Accounted
<1>5. promise' \in Promises  BY <1>1, PoolTypes DEF Promises
<1>6. shutdowns' \in 0 .. MaxShutdowns  BY <1>1, PoolTypes, PoolAssumption
<1>7. PoolTypeOK'  BY <1>1, <1>2, <1>5, <1>6, PoolTypes DEF PoolTypeOK, Promises
<1> QED  BY <1>1, <1>4, <1>7 DEF PoolInv, NoneIdleWhileQueued

LEMMA PoolStarts == PoolInit => PoolInv
<1> SUFFICES ASSUME PoolInit PROVE PoolInv  OBVIOUS
<1>1. <<>> \in Seq(CryptoTasks) /\ DOMAIN <<>> = {}  OBVIOUS
<1>2. 0 \in 0 .. MaxShutdowns  BY PoolAssumption
<1>3. PoolTypeOK  BY <1>1, <1>2 DEF PoolInit, PoolTypeOK
<1>4. Accounted(slots, queue, promise)  BY <1>1 DEF PoolInit, Accounted
<1> QED  BY <1>3, <1>4 DEF PoolInit, PoolInv, NoneIdleWhileQueued

LEMMA PoolNextKeeps == PoolInv /\ [PoolNext]_poolVars => PoolInv'
<1> SUFFICES ASSUME PoolInv, [PoolNext]_poolVars PROVE PoolInv'  OBVIOUS
<1>1. CASE UNCHANGED poolVars
  BY <1>1 DEF poolVars, PoolInv, PoolTypeOK, NoneIdleWhileQueued
<1>2. CASE Microtask
  <2>1. microtasks > 0 /\ microtasks - 1 \in Nat /\ PumpAgain(microtasks - 1)
    BY <1>2, PoolTypes DEF Microtask
  <2> QED  BY <2>1, PumpAgainKept
<1>3. CASE LateEvent
  <2>1. shutdowns > 0 /\ PumpAgain(microtasks)  BY <1>3 DEF LateEvent
  <2> QED  BY <2>1, PoolTypes, PumpAgainKept
<1>4. CASE \E t \in CryptoTasks : Dispatch(t)  BY <1>4, DispatchKept
<1>5. CASE \E i \in 1 .. POOL_SIZE : Finishes(i)
  BY <1>5, AnswerKept, CrashKept DEF Finishes
<1>6. CASE ShutdownPool  BY <1>6, ShutdownKept
<1> QED  BY <1>1, <1>2, <1>3, <1>4, <1>5, <1>6 DEF PoolNext

LEMMA PoolInvariant == PoolSpec => []PoolInv
<1> QED  BY PoolStarts, PoolNextKeeps, PTL DEF PoolSpec

\* With any number of tasks and of workers, a task whose promise is open is in
\* exactly one place, a settled one in none, and no task is queued beside an
\* idle worker unless a pump is due: whatever crashes, refused messages,
\* shutdowns and late events come, no caller is stranded.
THEOREM PoolStaysJust == PoolSpec => []PoolIsJust
<1>1. PoolInv => TasksAccountedFor
  <2> SUFFICES ASSUME PoolInv, NEW t \in CryptoTasks
               PROVE  Cardinality(Places(t)) = IF promise[t] = "pending" THEN 1 ELSE 0
    BY DEF TasksAccountedFor
  <2>1. /\ \A i, j \in DOMAIN queue : queue[i] = queue[j] => i = j
        /\ \A i, j \in DOMAIN slots : slots[i] = slots[j] /\ slots[i] # NoTask => i = j
        /\ \A i \in DOMAIN slots, j \in DOMAIN queue : slots[i] # queue[j]
        /\ promise[t] = "pending" <=> \/ \E i \in DOMAIN queue : queue[i] = t
                                      \/ \E i \in DOMAIN slots : slots[i] = t
    BY DEF PoolInv, Accounted
  <2>2. t # NoTask  BY PoolAssumption
  <2>3. CASE promise[t] # "pending"
    <3>1. Places(t) = {}  BY <2>1, <2>3 DEF Places
    <3> QED  BY <2>3, <3>1, FS_EmptySet
  <2>4. CASE \E i \in DOMAIN queue : queue[i] = t
    <3>1. PICK i \in DOMAIN queue : queue[i] = t  BY <2>4
    <3>2. /\ {j \in DOMAIN queue : queue[j] = t} = {i}
          /\ {j \in DOMAIN slots : slots[j] = t} = {}
      BY <2>1, <3>1
    <3>3. Places(t) = {<<"queue", i>>}  BY <3>2 DEF Places
    <3> QED  BY <2>1, <2>4, <3>3, FS_Singleton
  <2>5. CASE \E i \in DOMAIN slots : slots[i] = t
    <3>1. PICK i \in DOMAIN slots : slots[i] = t  BY <2>5
    <3>2. /\ {j \in DOMAIN slots : slots[j] = t} = {i}
          /\ {j \in DOMAIN queue : queue[j] = t} = {}
      BY <2>1, <2>2, <3>1
    <3>3. Places(t) = {<<"slot", i>>}  BY <3>2 DEF Places
    <3> QED  BY <2>1, <2>5, <3>3, FS_Singleton
  <2> QED  BY <2>1, <2>3, <2>4, <2>5
<1>2. PoolInv => NoneIdleWhileQueued  BY DEF PoolInv
<1> QED  BY <1>1, <1>2, PoolInvariant, PTL DEF PoolIsJust

(***************************************************************************)
(* The gallery.                                                            *)
(***************************************************************************)

LEMMA MinIsThere ==
    ASSUME NEW S \in SUBSET Nat, S # {}
    PROVE  Min(S) \in S
  BY LeastNatural DEF Min

\* What a load of the gallery has read is not newer than the vault, and, once
\* it is about to be shown, not older than the mark was when it began.
LoadsInStep ==
    \A load \in galleryLoads :
        /\ load.rev <= Latest /\ load.floor <= mark
        /\ load.at \in {"check", "confirm", "thumbs", "page"} => load.rev > 0
        /\ load.at \in {"thumbs", "page"} => load.floor <= load.rev

\* A page is loaded for the entries that a revision has in it.
PageLoadsInStep ==
    \A load \in pageLoads :
        /\ load.rev > 0 /\ load.rev <= Latest
        /\ load.ids = {e \in contents[load.rev] : PageIndex[e] = load.page}

GalleryInStep ==
    /\ Latest > 0 /\ Latest <= MaxRevision
    /\ mark <= Latest
    /\ manifestCache # NoManifest => manifestCache <= Latest
    /\ \A rev \in persisting : rev <= Latest
    /\ grid.rev <= Latest /\ grid.oldest <= Latest
    /\ grid.state \in {"manifest", "done"} => grid.rev > 0 /\ grid.oldest > 0

GalleryInv == GalleryTypeOK /\ GalleryInStep /\ LoadsInStep /\ PageLoadsInStep /\ GalleryIsJust

LEMMA GalleryTypes ==
    ASSUME GalleryTypeOK
    PROVE  /\ contents \in Seq(SUBSET Entries) /\ Latest \in Nat
           /\ \A r \in 1 .. Latest : contents[r] \subseteq Entries
           /\ mark \in Nat /\ MaxRevision \in Nat /\ MaxGalleryLoads \in Nat
           /\ loadSession \in Nat
           /\ Revisions = 1 .. MaxRevision /\ NoManifest \notin Nat
           /\ grid.rev \in Nat /\ grid.oldest \in Nat /\ grid.floor \in Nat
           /\ \A load \in galleryLoads : load.rev \in Nat /\ load.floor \in Nat
           /\ \A load \in pageLoads : load.rev \in Nat
  BY GalleryAssumption DEF GalleryTypeOK, Latest, Revisions, GalleryLoad, PageLoad, Grid

\* A step that leaves the vault and the mark, or raises the mark.
LEMMA MarkRaised ==
    ASSUME GalleryInv, contents' = contents, mark' \in Nat, mark <= mark',
           NEW load \in galleryLoads
    PROVE  /\ load.rev <= Latest' /\ load.floor <= mark'
           /\ load.at \in {"check", "confirm", "thumbs", "page"} => load.rev > 0
           /\ load.at \in {"thumbs", "page"} => load.floor <= load.rev
  BY GalleryTypes DEF GalleryInv, LoadsInStep, Latest

LEMMA ChangeKept ==
    ASSUME GalleryInv, NEW own \in BOOLEAN, Change(own)
    PROVE  GalleryInv'
<1>1. GalleryTypeOK /\ GalleryInStep /\ LoadsInStep /\ PageLoadsInStep /\ GalleryIsJust
  BY DEF GalleryInv
<1>2. PICK s \in SUBSET Entries : contents' = Append(contents, s)
  <2>1. contents[Latest] \subseteq Entries  BY <1>1, GalleryTypes DEF GalleryInStep
  <2>2. CASE \E e \in Entries \ contents[Latest] :
                 contents' = Append(contents, contents[Latest] \cup {e})
    BY <2>1, <2>2
  <2>3. CASE \E e \in contents[Latest] :
                 contents' = Append(contents, contents[Latest] \ {e})
    BY <2>1, <2>3
  <2> QED  BY <2>2, <2>3 DEF Change
<1>3. /\ Latest < MaxRevision /\ mark' = (IF own THEN Latest + 1 ELSE mark)
      /\ invalidating' = (invalidating \/ own)
      /\ UNCHANGED <<manifestCache, persisting, thumbCache, loadSession, galleryLoads,
                     pageLoads, grid>>
  BY DEF Change
<1>4. /\ contents' \in Seq(SUBSET Entries) /\ Latest' = Latest + 1
      /\ \A r \in 1 .. Latest : contents'[r] = contents[r]
  BY <1>1, <1>2, GalleryTypes DEF Latest
<1>5. mark' \in 0 .. MaxRevision /\ mark <= mark' /\ mark' <= Latest'
  BY <1>1, <1>3, <1>4, GalleryTypes DEF GalleryInStep
<1>6. GalleryTypeOK'  BY <1>1, <1>3, <1>4, <1>5 DEF GalleryTypeOK
<1>7. GalleryInStep'
  BY <1>1, <1>3, <1>4, <1>5, GalleryTypes DEF GalleryInStep, GalleryTypeOK
<1>8. LoadsInStep'  BY <1>1, <1>3, <1>4, <1>5, GalleryTypes DEF LoadsInStep
<1>9. PageLoadsInStep'
  <2> SUFFICES ASSUME NEW load \in pageLoads
               PROVE  /\ load.rev > 0 /\ load.rev <= Latest'
                      /\ load.ids = {e \in contents'[load.rev] : PageIndex[e] = load.page}
    BY <1>3 DEF PageLoadsInStep
  <2>1. load.rev \in 1 .. Latest  BY <1>1, GalleryTypes DEF PageLoadsInStep
  <2> QED  BY <1>1, <1>4, <2>1, GalleryTypes DEF PageLoadsInStep
<1>10. GalleryIsJust'
  <2>1. ShownIsNotOld' /\ ShownIsLast'
    BY <1>1, <1>3 DEF GalleryIsJust, ShownIsNotOld, ShownIsLast
  <2>2. LoadedIsThere'
    <3> SUFFICES ASSUME grid.state = "done", NEW e \in contents'[grid.rev],
                        PageIndex[e] \in grid.loaded, e \notin grid.thumbs
                 PROVE  \E r \in grid.oldest .. Latest' : e \notin contents'[r]
      BY <1>3 DEF LoadedIsThere
    <3>1. grid.rev \in 1 .. Latest /\ grid.oldest > 0
      BY <1>1, GalleryTypes DEF GalleryInStep
    <3>2. PICK r \in grid.oldest .. Latest : e \notin contents[r]
      BY <1>1, <1>4, <3>1 DEF GalleryIsJust, LoadedIsThere
    <3>3. r \in 1 .. Latest /\ r \in grid.oldest .. Latest'
      BY <1>1, <1>4, <3>1, GalleryTypes
    <3> QED  BY <1>4, <3>2, <3>3
  <2> QED  BY <2>1, <2>2 DEF GalleryIsJust
<1> QED  BY <1>6, <1>7, <1>8, <1>9, <1>10 DEF GalleryInv

LEMMA ClearCacheKept ==
    ASSUME GalleryInv, ClearCache
    PROVE  GalleryInv'
  BY DEF GalleryInv, ClearCache, GalleryTypeOK, GalleryInStep, LoadsInStep, PageLoadsInStep,
         GalleryIsJust, ShownIsNotOld, ShownIsLast, LoadedIsThere, Latest

LEMMA PersistKept ==
    ASSUME GalleryInv, NEW rev \in persisting, PersistManifest(rev)
    PROVE  GalleryInv'
<1>1. GalleryTypeOK /\ GalleryInStep /\ LoadsInStep /\ PageLoadsInStep /\ GalleryIsJust
  BY DEF GalleryInv
<1>2. /\ persisting' = persisting \ {rev} /\ manifestCache' \in {rev, manifestCache}
      /\ UNCHANGED <<contents, mark, thumbCache, invalidating, loadSession,
                     galleryLoads, pageLoads, grid>>
  BY DEF PersistManifest
<1>3. GalleryTypeOK'  BY <1>1, <1>2 DEF GalleryTypeOK
<1>4. GalleryInStep' /\ LoadsInStep' /\ PageLoadsInStep'
  BY <1>1, <1>2 DEF GalleryInStep, LoadsInStep, PageLoadsInStep, Latest
<1>5. GalleryIsJust'
  BY <1>1, <1>2 DEF GalleryIsJust, ShownIsNotOld, ShownIsLast, LoadedIsThere, Latest
<1> QED  BY <1>3, <1>4, <1>5 DEF GalleryInv

\* A load has come further, or has ended.
LEMMA LoadGoesOn ==
    ASSUME GalleryInv, NEW next \in GalleryLoad, contents' = contents,
           mark' \in Nat, mark <= mark', galleryLoads' \subseteq galleryLoads \cup {next},
           next.rev <= Latest, next.floor <= mark',
           next.at \in {"check", "confirm", "thumbs", "page"} => next.rev > 0,
           next.at \in {"thumbs", "page"} => next.floor <= next.rev
    PROVE  galleryLoads' \subseteq GalleryLoad /\ LoadsInStep'
<1>1. GalleryTypeOK /\ LoadsInStep  BY DEF GalleryInv
<1>2. galleryLoads' \subseteq GalleryLoad  BY <1>1 DEF GalleryTypeOK
<1>3. LoadsInStep'
  <2> SUFFICES ASSUME NEW load \in galleryLoads'
               PROVE  /\ load.rev <= Latest' /\ load.floor <= mark'
                      /\ load.at \in {"check", "confirm", "thumbs", "page"} => load.rev > 0
                      /\ load.at \in {"thumbs", "page"} => load.floor <= load.rev
    BY DEF LoadsInStep
  <2>1. CASE load \in galleryLoads  BY <2>1, MarkRaised
  <2>2. CASE load = next  BY <2>2 DEF Latest
  <2> QED  BY <2>1, <2>2
<1> QED  BY <1>2, <1>3

\* The grid stays, or a load failed.
LEMMA GridStays ==
    ASSUME GalleryInv, contents' = contents, loadSession' = loadSession,
           grid' = grid \/ grid' = [grid EXCEPT !.state = "error"]
    PROVE  /\ grid' \in Grid /\ GalleryIsJust'
           /\ grid'.rev <= Latest' /\ grid'.oldest <= Latest'
           /\ grid'.state \in {"manifest", "done"} => grid'.rev > 0 /\ grid'.oldest > 0
<1>1. GalleryTypeOK /\ GalleryInStep /\ GalleryIsJust  BY DEF GalleryInv
<1>2. grid \in Grid  BY <1>1 DEF GalleryTypeOK
<1>3. /\ grid' \in Grid
      /\ grid'.rev = grid.rev /\ grid'.oldest = grid.oldest /\ grid'.floor = grid.floor
      /\ grid'.of = grid.of /\ grid'.thumbs = grid.thumbs /\ grid'.loaded = grid.loaded
      /\ grid'.state = grid.state \/ grid'.state = "error"
  BY <1>2 DEF Grid
<1>4. GalleryIsJust'
  BY <1>1, <1>3 DEF GalleryIsJust, ShownIsNotOld, ShownIsLast, LoadedIsThere, Latest
<1> QED  BY <1>1, <1>3, <1>4 DEF GalleryInStep, Latest

\* The parts of the invariant that a step of a load leaves or renews.
LEMMA GalleryAssembled ==
    ASSUME GalleryInv, contents' = contents, mark' \in Nat, mark' <= Latest,
           manifestCache' = manifestCache, persisting' \subseteq persisting \cup 1 .. Latest,
           thumbCache' \subseteq Entries, invalidating' = invalidating,
           loadSession' \in 0 .. MaxGalleryLoads,
           galleryLoads' \subseteq GalleryLoad, LoadsInStep',
           pageLoads' \subseteq PageLoad, PageLoadsInStep',
           grid' \in Grid, grid'.rev <= Latest', grid'.oldest <= Latest',
           grid'.state \in {"manifest", "done"} => grid'.rev > 0 /\ grid'.oldest > 0,
           GalleryIsJust'
    PROVE  GalleryInv'
<1>1. GalleryTypeOK /\ GalleryInStep  BY DEF GalleryInv
<1>2. Latest' = Latest  BY DEF Latest
<1>3. mark' \in 0 .. MaxRevision /\ persisting' \subseteq Revisions
  BY <1>1, GalleryTypes DEF GalleryInStep, GalleryTypeOK
<1>4. GalleryTypeOK'  BY <1>1, <1>3 DEF GalleryTypeOK
<1>5. \A rev \in persisting' : rev <= Latest
  BY <1>1, GalleryTypes DEF GalleryInStep
<1>6. GalleryInStep'  BY <1>1, <1>2, <1>5 DEF GalleryInStep
<1> QED  BY <1>4, <1>6 DEF GalleryInv

LEMMA PageLoadsStay ==
    ASSUME GalleryInv, contents' = contents, pageLoads' \subseteq pageLoads
    PROVE  pageLoads' \subseteq PageLoad /\ PageLoadsInStep'
  BY DEF GalleryInv, GalleryTypeOK, PageLoadsInStep, Latest

LEMMA RunLoadKept ==
    ASSUME GalleryInv, RunLoad
    PROVE  GalleryInv'
<1>1. GalleryTypeOK /\ GalleryInStep /\ LoadsInStep /\ GalleryIsJust  BY DEF GalleryInv
<1> DEFINE next == [session |-> loadSession + 1, at |-> "cache", rev |-> 0,
                    floor |-> mark, thumbs |-> {}]
<1>2. /\ loadSession < MaxGalleryLoads /\ loadSession' = loadSession + 1
      /\ galleryLoads' = galleryLoads \cup {next}
      /\ grid' = [grid EXCEPT !.loaded = {}, !.state = "loading"]
      /\ UNCHANGED <<contents, mark, manifestCache, persisting, thumbCache,
                     invalidating, pageLoads>>
  BY DEF RunLoad
<1>3. next \in GalleryLoad /\ next.rev = 0 /\ next.floor = mark /\ next.at = "cache"
  BY <1>1, GalleryTypes DEF GalleryLoad, GalleryTypeOK
<1> HIDE DEF next
<1>4. galleryLoads' \subseteq GalleryLoad /\ LoadsInStep'
  BY <1>1, <1>2, <1>3, LoadGoesOn, GalleryTypes
<1>5. grid \in Grid  BY <1>1 DEF GalleryTypeOK
<1>6. /\ grid' \in Grid /\ grid'.state = "loading"
      /\ grid'.rev = grid.rev /\ grid'.oldest = grid.oldest /\ grid'.floor = grid.floor
  BY <1>2, <1>5 DEF Grid
<1>7. GalleryIsJust'
  BY <1>1, <1>6 DEF GalleryIsJust, ShownIsNotOld, ShownIsLast, LoadedIsThere
<1>8. loadSession' \in 0 .. MaxGalleryLoads  BY <1>1, <1>2, GalleryTypes DEF GalleryTypeOK
<1>9. grid'.rev <= Latest' /\ grid'.oldest <= Latest' /\ mark <= Latest
  BY <1>1, <1>2, <1>6 DEF GalleryInStep, Latest
<1>10. thumbCache \subseteq Entries  BY <1>1 DEF GalleryTypeOK
<1> QED
  BY <1>1, <1>2, <1>4, <1>6, <1>7, <1>8, <1>9, <1>10, PageLoadsStay, GalleryAssembled,
     GalleryTypes

\* Steps of a load before it shows anything.
LEMMA ManifestStepsKept ==
    ASSUME GalleryInv, NEW load \in galleryLoads,
           ReadCache(load) \/ CheckCached(load) \/ FetchManifest(load) \/ Confirm(load)
               \/ NetworkFails(load)
    PROVE  GalleryInv'
<1>1. GalleryTypeOK /\ GalleryInStep /\ LoadsInStep  BY DEF GalleryInv
<1>2. /\ load \in GalleryLoad /\ load.rev \in Nat /\ load.floor \in Nat
      /\ load.rev <= Latest /\ load.floor <= mark
      /\ load.at \in {"check", "confirm", "thumbs", "page"} => load.rev > 0
      /\ load.at \in {"thumbs", "page"} => load.floor <= load.rev
  BY <1>1, GalleryTypes DEF GalleryTypeOK, LoadsInStep
<1>3. /\ UNCHANGED <<contents, manifestCache, thumbCache, invalidating, loadSession, pageLoads>>
      /\ grid' = grid \/ grid' = [grid EXCEPT !.state = "error"]
  BY DEF ReadCache, CheckCached, FetchManifest, Confirm, NetworkFails, GalleryFails
<1>4. /\ mark' \in Nat /\ mark <= mark' /\ mark' <= Latest
      /\ persisting' \subseteq persisting \cup 1 .. Latest
  <2>1. mark \in Nat /\ mark <= Latest /\ Latest \in Nat
    BY <1>1, GalleryTypes DEF GalleryInStep
  <2>2. CASE mark' = mark /\ persisting' = persisting  BY <2>1, <2>2
  <2>3. CASE CheckCached(load)  BY <1>2, <2>1, <2>3 DEF CheckCached, LaterOf
  <2>4. CASE Confirm(load) /\ ~(load.rev < mark)
    <3>1. mark' = load.rev /\ persisting' = persisting \cup {load.rev} /\ load.rev > 0
      BY <1>2, <2>4 DEF Confirm
    <3> QED  BY <1>2, <2>1, <2>4, <3>1
  <2> QED
    BY <2>2, <2>3, <2>4 DEF ReadCache, FetchManifest, Confirm, NetworkFails
<1>5. \E next \in GalleryLoad :
          /\ galleryLoads' \subseteq galleryLoads \cup {next}
          /\ next.rev <= Latest /\ next.floor <= mark'
          /\ next.at \in {"check", "confirm", "thumbs", "page"} => next.rev > 0
          /\ next.at \in {"thumbs", "page"} => next.floor <= next.rev
  <2>1. load.floor <= mark'  BY <1>1, <1>2, <1>4, GalleryTypes
  <2>2. CASE NetworkFails(load) \/ (Confirm(load) /\ load.rev < mark)
    <3>1. galleryLoads' \subseteq galleryLoads \cup {load}
      BY <2>2 DEF NetworkFails, Confirm, GalleryFails
    <3> QED  BY <1>2, <2>1, <3>1
  <2>3. CASE ReadCache(load)
    <3>1. CASE manifestCache = NoManifest
      <4> DEFINE next == [load EXCEPT !.at = "network"]
      <4>1. galleryLoads' \subseteq galleryLoads \cup {next}
        BY <2>3, <3>1 DEF ReadCache, Step
      <4>2. /\ next \in GalleryLoad /\ next.rev = load.rev /\ next.floor = load.floor
            /\ next.at = "network"
        BY <1>2 DEF GalleryLoad
      <4> HIDE DEF next
      <4> QED  BY <1>2, <2>1, <4>1, <4>2
    <3>2. CASE manifestCache # NoManifest
      <4> DEFINE next == [load EXCEPT !.at = "check", !.rev = manifestCache]
      <4>1. galleryLoads' \subseteq galleryLoads \cup {next}
        BY <2>3, <3>2 DEF ReadCache, Step
      <4>2. /\ manifestCache \in 0 .. MaxRevision /\ manifestCache > 0
            /\ manifestCache <= Latest
        BY <1>1, <3>2, GalleryTypes DEF GalleryTypeOK, GalleryInStep
      <4>3. /\ next \in GalleryLoad /\ next.rev = manifestCache /\ next.floor = load.floor
            /\ next.at = "check"
        BY <1>2, <4>2 DEF GalleryLoad
      <4> HIDE DEF next
      <4> QED  BY <1>2, <2>1, <4>1, <4>2, <4>3
    <3> QED  BY <3>1, <3>2
  <2>4. CASE CheckCached(load)
    <3> DEFINE next == [load EXCEPT !.at = IF load.rev < mark THEN "network" ELSE "thumbs"]
    <3>1. galleryLoads' \subseteq galleryLoads \cup {next} /\ load.at = "check"
      BY <2>4 DEF CheckCached, Step
    <3>2. /\ next \in GalleryLoad /\ next.rev = load.rev /\ next.floor = load.floor
          /\ next.at = (IF load.rev < mark THEN "network" ELSE "thumbs")
      BY <1>2 DEF GalleryLoad
    <3> HIDE DEF next
    <3>3. next.at = "thumbs" => load.floor <= load.rev
      BY <1>1, <1>2, <3>2, GalleryTypes
    <3> QED  BY <1>2, <2>1, <3>1, <3>2, <3>3
  <2>5. CASE FetchManifest(load)
    <3> DEFINE next == [load EXCEPT !.at = "confirm", !.rev = Latest]
    <3>1. galleryLoads' \subseteq galleryLoads \cup {next}
      BY <2>5 DEF FetchManifest, Step
    <3>2. Latest \in 0 .. MaxRevision /\ Latest > 0
      BY <1>1, GalleryTypes DEF GalleryInStep
    <3>3. /\ next \in GalleryLoad /\ next.rev = Latest /\ next.floor = load.floor
          /\ next.at = "confirm"
      BY <1>2, <3>2 DEF GalleryLoad
    <3> HIDE DEF next
    <3> QED  BY <1>2, <2>1, <3>1, <3>2, <3>3
  <2>6. CASE Confirm(load) /\ ~(load.rev < mark)
    <3> DEFINE next == [load EXCEPT !.at = "thumbs"]
    <3>1. galleryLoads' \subseteq galleryLoads \cup {next} /\ load.at = "confirm"
      BY <2>6 DEF Confirm, Step
    <3>2. /\ next \in GalleryLoad /\ next.rev = load.rev /\ next.floor = load.floor
          /\ next.at = "thumbs"
      BY <1>2 DEF GalleryLoad
    <3> HIDE DEF next
    <3>3. load.floor <= load.rev  BY <1>1, <1>2, <2>6, GalleryTypes
    <3> QED  BY <1>2, <2>1, <3>1, <3>2, <3>3
  <2> QED  BY <2>2, <2>3, <2>4, <2>5, <2>6
<1>6. galleryLoads' \subseteq GalleryLoad /\ LoadsInStep'
  BY <1>3, <1>4, <1>5, LoadGoesOn
<1>7. loadSession \in 0 .. MaxGalleryLoads /\ thumbCache \subseteq Entries
  BY <1>1 DEF GalleryTypeOK
<1>8. /\ grid' \in Grid /\ GalleryIsJust'
      /\ grid'.rev <= Latest' /\ grid'.oldest <= Latest'
      /\ grid'.state \in {"manifest", "done"} => grid'.rev > 0 /\ grid'.oldest > 0
  BY <1>3, GridStays
<1>9. pageLoads' \subseteq PageLoad /\ PageLoadsInStep'  BY <1>3, PageLoadsStay
<1> QED  BY <1>3, <1>4, <1>6, <1>7, <1>8, <1>9, GalleryAssembled

LEMMA LoadedPage ==
    ASSUME NEW ids, NEW thumbs
    PROVE  InitialPage(ids, thumbs) \in PageNames
<1> DEFINE missing == {i \in DOMAIN NewestFirst : NewestFirst[i] \in ids \ thumbs}
<1>1. DOMAIN NewestFirst = 1 .. Len(NewestFirst)  BY GalleryAssumption
<1>2. CASE missing = {}  BY <1>2, GalleryAssumption DEF InitialPage
<1>3. CASE missing # {}
  <2>1. missing \in SUBSET Nat  BY <1>1
  <2> HIDE DEF missing
  <2>2. Min(missing) \in missing  BY <1>3, <2>1, MinIsThere
  <2>3. NewestFirst[Min(missing)] \in Entries  BY <2>2 DEF missing, Entries, ToSet
  <2>4. InitialPage(ids, thumbs) = PageIndex[NewestFirst[Min(missing)]]
    BY <1>3 DEF InitialPage, missing
  <2> QED  BY <2>3, <2>4 DEF PageNames
<1> QED  BY <1>2, <1>3

\* A load shows what it has, unless another one has begun.
LEMMA ShowsKept ==
    ASSUME GalleryInv, NEW load \in galleryLoads, load.rev > 0, load.floor <= load.rev,
           NEW thumbs \in SUBSET Entries, NEW loaded \in SUBSET PageNames,
           NEW state \in {"manifest", "done"},
           Shows(load, thumbs, loaded, state), contents' = contents,
           loadSession' = loadSession,
           state = "done" => \A e \in contents[load.rev] :
               PageIndex[e] \in loaded /\ e \notin thumbs => e \notin contents[Latest]
    PROVE  /\ grid' \in Grid /\ GalleryIsJust'
           /\ grid'.rev <= Latest' /\ grid'.oldest <= Latest'
           /\ grid'.state \in {"manifest", "done"} => grid'.rev > 0 /\ grid'.oldest > 0
<1>1. GalleryTypeOK /\ GalleryInStep /\ LoadsInStep /\ GalleryIsJust  BY DEF GalleryInv
<1>2. CASE load.session # loadSession
  <2>1. grid' = grid  BY <1>2 DEF Shows
  <2> QED  BY <2>1, GridStays
<1>3. CASE load.session = loadSession
  <2>1. grid' = [rev |-> load.rev, of |-> load.session, floor |-> load.floor,
                 thumbs |-> thumbs, loaded |-> loaded, state |-> state,
                 oldest |-> load.rev]
    BY <1>3 DEF Shows
  <2>2. load \in GalleryLoad /\ load.rev <= Latest  BY <1>1 DEF GalleryTypeOK, LoadsInStep
  <2>3. /\ grid' \in Grid
        /\ grid'.rev = load.rev /\ grid'.oldest = load.rev /\ grid'.floor = load.floor
        /\ grid'.of = loadSession /\ grid'.state = state
        /\ grid'.thumbs = thumbs /\ grid'.loaded = loaded
    BY <1>3, <2>1, <2>2 DEF Grid, GalleryLoad
  <2>4. load.rev \in Nat /\ Latest \in Nat  BY <1>1, GalleryTypes
  <2>5. LoadedIsThere'
    <3> SUFFICES ASSUME state = "done", NEW e \in contents[load.rev],
                        PageIndex[e] \in loaded, e \notin thumbs
                 PROVE  \E r \in load.rev .. Latest : e \notin contents[r]
      BY <2>3 DEF LoadedIsThere, Latest
    <3>1. Latest \in load.rev .. Latest  BY <2>2, <2>4
    <3> QED  BY <3>1
  <2>6. ShownIsNotOld' /\ ShownIsLast'  BY <2>3 DEF ShownIsNotOld, ShownIsLast
  <2> QED  BY <2>2, <2>3, <2>5, <2>6 DEF GalleryIsJust, Latest
<1> QED  BY <1>2, <1>3

LEMMA ReadThumbsKept ==
    ASSUME GalleryInv, NEW load \in galleryLoads, ReadThumbs(load)
    PROVE  GalleryInv'
<1>1. GalleryTypeOK /\ GalleryInStep /\ LoadsInStep  BY DEF GalleryInv
<1>2. /\ load \in GalleryLoad /\ load.rev > 0 /\ load.rev <= Latest /\ load.rev \in Nat
      /\ load.floor <= load.rev /\ load.floor <= mark /\ load.at = "thumbs"
  BY <1>1, GalleryTypes DEF ReadThumbs, LoadsInStep, GalleryTypeOK
<1>3. UNCHANGED <<contents, mark, manifestCache, persisting, thumbCache,
                  invalidating, loadSession, pageLoads>>
  BY DEF ReadThumbs
<1> DEFINE ids    == contents[load.rev]
           cached == ids \cap thumbCache
           next   == [load EXCEPT !.at = "page", !.thumbs = cached]
           pages  == {p \in PageNames : p <= LastPage(ids)}
<1>4. ids \subseteq Entries /\ cached \subseteq Entries  BY <1>1, <1>2, GalleryTypes
<1>5. \/ /\ cached = ids /\ Shows(load, cached, pages, "done")
         /\ galleryLoads' = galleryLoads \ {load}
      \/ /\ Shows(load, cached, {0}, "manifest")
         /\ galleryLoads' = (galleryLoads \ {load}) \cup {next}
  BY DEF ReadThumbs, Step
<1>6. /\ next \in GalleryLoad /\ next.rev = load.rev /\ next.floor = load.floor
      /\ next.at = "page"
  BY <1>2, <1>4 DEF GalleryLoad
<1>7. pages \in SUBSET PageNames /\ {0} \in SUBSET PageNames  BY GalleryAssumption
<1> HIDE DEF next, pages, cached
<1>8. galleryLoads' \subseteq GalleryLoad /\ LoadsInStep'
  <2>1. galleryLoads' \subseteq galleryLoads \cup {next}  BY <1>5
  <2>2. mark \in Nat  BY <1>1, GalleryTypes
  <2> QED  BY <1>2, <1>3, <1>6, <2>1, <2>2, LoadGoesOn
<1>9. /\ grid' \in Grid /\ GalleryIsJust'
      /\ grid'.rev <= Latest' /\ grid'.oldest <= Latest'
      /\ grid'.state \in {"manifest", "done"} => grid'.rev > 0 /\ grid'.oldest > 0
  <2>1. CASE cached = ids /\ Shows(load, cached, pages, "done")
    BY <1>2, <1>3, <1>4, <1>7, <2>1, ShowsKept
  <2>2. CASE Shows(load, cached, {0}, "manifest")
    BY <1>2, <1>3, <1>4, <1>7, <2>2, ShowsKept
  <2> QED  BY <1>5, <2>1, <2>2
<1>10. /\ loadSession \in 0 .. MaxGalleryLoads /\ thumbCache \subseteq Entries
       /\ mark \in Nat /\ mark <= Latest
  BY <1>1, GalleryTypes DEF GalleryTypeOK, GalleryInStep
<1>11. pageLoads' \subseteq PageLoad /\ PageLoadsInStep'  BY <1>3, PageLoadsStay
<1> QED  BY <1>3, <1>8, <1>9, <1>10, <1>11, GalleryAssembled

LEMMA ReadInitialPageKept ==
    ASSUME GalleryInv, NEW load \in galleryLoads, ReadInitialPage(load)
    PROVE  GalleryInv'
<1>1. GalleryTypeOK /\ GalleryInStep /\ LoadsInStep  BY DEF GalleryInv
<1>2. /\ load \in GalleryLoad /\ load.rev > 0 /\ load.rev <= Latest /\ load.rev \in Nat
      /\ load.floor <= load.rev /\ load.floor <= mark
  BY <1>1, GalleryTypes DEF ReadInitialPage, LoadsInStep, GalleryTypeOK
<1> DEFINE ids    == contents[load.rev]
           page   == InitialPage(ids, load.thumbs)
           fresh  == (PageThumbs(page) \cap ids) \ load.thumbs
           thumbs == load.thumbs \cup fresh
<1>3. /\ thumbCache' \in {thumbCache, thumbCache \cup fresh}
      /\ Shows(load, thumbs, {page}, "done")
      /\ galleryLoads' = galleryLoads \ {load}
      /\ UNCHANGED <<contents, mark, manifestCache, persisting, invalidating, loadSession,
                     pageLoads>>
  BY DEF ReadInitialPage
<1>4. ids \subseteq Entries /\ load.thumbs \subseteq Entries
  BY <1>1, <1>2, GalleryTypes DEF GalleryLoad
<1>5. fresh \subseteq Entries /\ thumbs \in SUBSET Entries  BY <1>4
<1>6. page \in PageNames /\ {page} \in SUBSET PageNames  BY LoadedPage
<1>7. \A e \in ids : PageIndex[e] \in {page} /\ e \notin thumbs => e \notin contents[Latest]
  BY DEF PageThumbs
<1> HIDE DEF thumbs, page, fresh
<1>8. galleryLoads' \subseteq GalleryLoad /\ LoadsInStep'
  <2>1. galleryLoads' \subseteq galleryLoads \cup {load}  BY <1>3
  <2>2. mark \in Nat  BY <1>1, GalleryTypes
  <2> QED  BY <1>2, <1>3, <2>1, <2>2, LoadGoesOn
<1>9. /\ grid' \in Grid /\ GalleryIsJust'
      /\ grid'.rev <= Latest' /\ grid'.oldest <= Latest'
      /\ grid'.state \in {"manifest", "done"} => grid'.rev > 0 /\ grid'.oldest > 0
  BY <1>2, <1>3, <1>5, <1>6, <1>7, ShowsKept
<1>10. /\ loadSession \in 0 .. MaxGalleryLoads /\ thumbCache' \subseteq Entries
       /\ mark \in Nat /\ mark <= Latest
  BY <1>1, <1>3, <1>5, GalleryTypes DEF GalleryTypeOK, GalleryInStep
<1>11. pageLoads' \subseteq PageLoad /\ PageLoadsInStep'  BY <1>3, PageLoadsStay
<1> QED  BY <1>3, <1>8, <1>9, <1>10, <1>11, GalleryAssembled

\* What a page load has is merged into the grid: what it was to load and is
\* still missing is gone from a revision that the grid is not older than.
LEMMA MergesKept ==
    ASSUME GalleryInv, NEW load \in pageLoads, NEW thumbs \in SUBSET Entries,
           NEW pageLoaded \in BOOLEAN, Merges(load, thumbs, pageLoaded),
           contents' = contents, loadSession' = loadSession,
           pageLoaded => \A e \in Entries :
               PageIndex[e] = load.page /\ e \notin thumbs =>
                   \E r \in load.rev .. Latest : e \notin contents[r]
    PROVE  /\ grid' \in Grid /\ GalleryIsJust'
           /\ grid'.rev <= Latest' /\ grid'.oldest <= Latest'
           /\ grid'.state \in {"manifest", "done"} => grid'.rev > 0 /\ grid'.oldest > 0
<1>1. GalleryTypeOK /\ GalleryInStep /\ PageLoadsInStep /\ GalleryIsJust  BY DEF GalleryInv
<1>2. CASE load.session # loadSession
  <2>1. grid' = grid  BY <1>2 DEF Merges
  <2> QED  BY <2>1, GridStays
<1>3. CASE load.session = loadSession
  <2> DEFINE oldest == IF load.rev < grid.oldest THEN load.rev ELSE grid.oldest
             loaded == IF pageLoaded THEN grid.loaded \cup {load.page} ELSE grid.loaded
  <2>1. grid' = [grid EXCEPT !.thumbs = grid.thumbs \cup thumbs, !.loaded = loaded,
                             !.oldest = oldest]
    BY <1>3 DEF Merges
  <2>2. /\ load.rev \in Nat /\ grid.oldest \in Nat /\ Latest \in Nat
        /\ load.rev > 0 /\ load.rev <= Latest /\ load.page \in PageNames
        /\ load.rev \in 0 .. MaxRevision /\ grid.oldest \in 0 .. MaxRevision
    BY <1>1, GalleryTypes DEF PageLoadsInStep, GalleryTypeOK, PageLoad, Grid
  <2>3. /\ oldest \in 0 .. MaxRevision /\ oldest <= load.rev /\ oldest <= grid.oldest
        /\ grid.oldest > 0 => oldest > 0
    BY <2>2
  <2>4. grid \in Grid /\ loaded \subseteq PageNames  BY <1>1, <2>2 DEF GalleryTypeOK, Grid
  <2> HIDE DEF oldest
  <2>5. /\ grid' \in Grid
        /\ grid'.rev = grid.rev /\ grid'.oldest = oldest /\ grid'.floor = grid.floor
        /\ grid'.of = grid.of /\ grid'.state = grid.state
        /\ grid'.thumbs = grid.thumbs \cup thumbs /\ grid'.loaded = loaded
    BY <2>1, <2>3, <2>4 DEF Grid
  <2>6. LoadedIsThere'
    <3> SUFFICES ASSUME grid.state = "done", NEW e \in contents[grid.rev],
                        PageIndex[e] \in loaded, e \notin grid.thumbs, e \notin thumbs
                 PROVE  \E r \in oldest .. Latest : e \notin contents[r]
      BY <2>5 DEF LoadedIsThere, Latest
    <3>1. CASE PageIndex[e] \in grid.loaded
      <4>1. PICK r \in grid.oldest .. Latest : e \notin contents[r]
        BY <1>1, <3>1 DEF GalleryIsJust, LoadedIsThere
      <4>2. r \in oldest .. Latest  BY <2>2, <2>3
      <4> QED  BY <4>1, <4>2
    <3>2. CASE pageLoaded /\ PageIndex[e] = load.page
      <4>1. e \in Entries  BY <1>1, GalleryTypes DEF GalleryInStep
      <4>2. PICK r \in load.rev .. Latest : e \notin contents[r]  BY <3>2, <4>1
      <4>3. r \in oldest .. Latest  BY <2>2, <2>3
      <4> QED  BY <4>2, <4>3
    <3> QED  BY <3>1, <3>2
  <2>7. ShownIsNotOld' /\ ShownIsLast'
    BY <1>1, <2>5 DEF GalleryIsJust, ShownIsNotOld, ShownIsLast
  <2>8. grid.rev <= Latest /\ oldest <= Latest
    BY <1>1, <2>2, <2>3 DEF GalleryInStep
  <2>9. grid'.state \in {"manifest", "done"} => grid'.rev > 0 /\ grid'.oldest > 0
    BY <1>1, <2>3, <2>5 DEF GalleryInStep
  <2> QED  BY <2>5, <2>6, <2>7, <2>8, <2>9 DEF GalleryIsJust, Latest
<1> QED  BY <1>2, <1>3

\* A page load that goes on stays one for the same entries.
LEMMA PageLoadGoesOn ==
    ASSUME GalleryInv, NEW next \in PageLoad, contents' = contents,
           pageLoads' \subseteq pageLoads \cup {next},
           next.rev > 0, next.rev <= Latest,
           next.ids = {e \in contents[next.rev] : PageIndex[e] = next.page}
    PROVE  pageLoads' \subseteq PageLoad /\ PageLoadsInStep'
  BY DEF GalleryInv, GalleryTypeOK, PageLoadsInStep, Latest

\* A step of a page load, which changes nothing of the loads of the gallery.
LEMMA PageStepAssembled ==
    ASSUME GalleryInv,
           UNCHANGED <<contents, mark, manifestCache, persisting, invalidating,
                       loadSession, galleryLoads>>,
           thumbCache' \subseteq Entries,
           pageLoads' \subseteq PageLoad, PageLoadsInStep',
           grid' \in Grid, grid'.rev <= Latest', grid'.oldest <= Latest',
           grid'.state \in {"manifest", "done"} => grid'.rev > 0 /\ grid'.oldest > 0,
           GalleryIsJust'
    PROVE  GalleryInv'
<1>1. /\ mark \in Nat /\ mark <= Latest /\ galleryLoads \subseteq GalleryLoad
      /\ loadSession \in 0 .. MaxGalleryLoads
  BY GalleryTypes DEF GalleryInv, GalleryTypeOK, GalleryInStep
<1>2. LoadsInStep'  BY DEF GalleryInv, LoadsInStep, Latest
<1> QED  BY <1>1, <1>2, GalleryAssembled

LEMMA DemandKept ==
    ASSUME GalleryInv, NEW page \in PageNames, Demand(page)
    PROVE  GalleryInv'
<1>1. GalleryTypeOK /\ GalleryInStep  BY DEF GalleryInv
<1> DEFINE next == [session |-> loadSession, at |-> "thumbs", page |-> page, thumbs |-> {},
                    rev |-> grid.rev,
                    ids |-> {e \in contents[grid.rev] : PageIndex[e] = page}]
<1>2. /\ grid.rev > 0 /\ pageLoads' = pageLoads \cup {next}
      /\ UNCHANGED <<contents, mark, manifestCache, persisting, thumbCache,
                     invalidating, loadSession, galleryLoads, grid>>
  BY DEF Demand
<1>3. grid.rev \in 1 .. Latest /\ grid.rev \in 0 .. MaxRevision /\ loadSession \in Nat
  BY <1>1, <1>2, GalleryTypes DEF GalleryInStep, GalleryTypeOK, Grid
<1>4. contents[grid.rev] \subseteq Entries  BY <1>1, <1>3, GalleryTypes
<1>5. /\ next \in PageLoad /\ next.rev = grid.rev /\ next.page = page
      /\ next.ids = {e \in contents[grid.rev] : PageIndex[e] = page}
  BY <1>3, <1>4 DEF PageLoad
<1> HIDE DEF next
<1>6. grid.rev > 0 /\ grid.rev <= Latest  BY <1>1, <1>3, GalleryTypes
<1>7. pageLoads' \subseteq PageLoad /\ PageLoadsInStep'
  BY <1>2, <1>5, <1>6, PageLoadGoesOn
<1>8. thumbCache \subseteq Entries  BY <1>1 DEF GalleryTypeOK
<1> QED  BY <1>2, <1>7, <1>8, GridStays, PageStepAssembled

LEMMA PageFailsKept ==
    ASSUME GalleryInv, NEW load \in pageLoads, PageFails(load)
    PROVE  GalleryInv'
<1>1. thumbCache \subseteq Entries  BY DEF GalleryInv, GalleryTypeOK
<1>2. /\ pageLoads' \subseteq pageLoads
      /\ UNCHANGED <<contents, mark, manifestCache, persisting, thumbCache,
                     invalidating, loadSession, galleryLoads, grid>>
  BY DEF PageFails
<1> QED  BY <1>1, <1>2, PageLoadsStay, GridStays, PageStepAssembled

LEMMA PageFromCacheKept ==
    ASSUME GalleryInv, NEW load \in pageLoads, PageFromCache(load)
    PROVE  GalleryInv'
<1>1. GalleryTypeOK /\ PageLoadsInStep  BY DEF GalleryInv
<1>2. /\ load \in PageLoad /\ load.rev > 0 /\ load.rev <= Latest /\ load.rev \in Nat
      /\ load.ids = {e \in contents[load.rev] : PageIndex[e] = load.page}
      /\ thumbCache \subseteq Entries /\ Latest \in Nat /\ load.ids \subseteq Entries
  BY <1>1, GalleryTypes DEF PageLoadsInStep, GalleryTypeOK, PageLoad
<1>3. UNCHANGED <<contents, mark, manifestCache, persisting, thumbCache,
                  invalidating, loadSession, galleryLoads>>
  BY DEF PageFromCache
<1> DEFINE cached == load.ids \cap thumbCache
<1>4. cached \in SUBSET Entries  BY <1>2
<1>5. CASE cached = load.ids /\ Merges(load, cached, TRUE)
  <2>1. \A e \in Entries : PageIndex[e] = load.page /\ e \notin cached =>
            \E r \in load.rev .. Latest : e \notin contents[r]
    BY <1>2, <1>5
  <2> HIDE DEF cached
  <2>2. pageLoads' \subseteq pageLoads  BY <1>5 DEF Merges
  <2> QED
    BY <1>2, <1>3, <1>4, <1>5, <2>1, <2>2, MergesKept, PageLoadsStay, PageStepAssembled
<1>6. CASE /\ PageStep(load, [load EXCEPT !.at = "page", !.thumbs = cached])
           /\ UNCHANGED grid
  <2> DEFINE next == [load EXCEPT !.at = "page", !.thumbs = cached]
  <2>1. /\ next \in PageLoad /\ next.rev = load.rev /\ next.ids = load.ids
        /\ next.page = load.page
    BY <1>2, <1>4 DEF PageLoad
  <2>2. pageLoads' \subseteq pageLoads \cup {next}  BY <1>6 DEF PageStep
  <2> HIDE DEF next
  <2>3. pageLoads' \subseteq PageLoad /\ PageLoadsInStep'
    BY <1>2, <1>3, <2>1, <2>2, PageLoadGoesOn
  <2> QED  BY <1>2, <1>3, <1>6, <2>3, GridStays, PageStepAssembled
<1> QED  BY <1>5, <1>6 DEF PageFromCache

LEMMA PageFromBundleKept ==
    ASSUME GalleryInv, NEW load \in pageLoads, PageFromBundle(load)
    PROVE  GalleryInv'
<1>1. GalleryTypeOK /\ PageLoadsInStep /\ GalleryInStep  BY DEF GalleryInv
<1>2. /\ load \in PageLoad /\ load.rev > 0 /\ load.rev <= Latest /\ load.rev \in Nat
      /\ load.ids = {e \in contents[load.rev] : PageIndex[e] = load.page}
      /\ thumbCache \subseteq Entries /\ Latest \in Nat /\ load.thumbs \subseteq Entries
      /\ load.ids \subseteq Entries
  BY <1>1, GalleryTypes DEF PageLoadsInStep, GalleryTypeOK, PageLoad
<1> DEFINE fresh  == (PageThumbs(load.page) \cap load.ids) \ load.thumbs
           thumbs == load.thumbs \cup fresh
           some   == PageThumbs(load.page) # {}
<1>3. /\ thumbCache' \in {thumbCache, thumbCache \cup fresh}
      /\ Merges(load, thumbs, some)
      /\ UNCHANGED <<contents, mark, manifestCache, persisting, invalidating,
                     loadSession, galleryLoads>>
  BY DEF PageFromBundle
<1>4. fresh \subseteq Entries /\ thumbs \in SUBSET Entries /\ some \in BOOLEAN  BY <1>2
<1>5. \A e \in Entries : PageIndex[e] = load.page /\ e \notin thumbs =>
          \E r \in load.rev .. Latest : e \notin contents[r]
  <2> SUFFICES ASSUME NEW e \in Entries, PageIndex[e] = load.page, e \notin thumbs
               PROVE  \E r \in load.rev .. Latest : e \notin contents[r]
    OBVIOUS
  <2>1. load.rev \in load.rev .. Latest /\ Latest \in load.rev .. Latest  BY <1>2
  <2>2. e \notin contents[load.rev] \/ e \notin contents[Latest]  BY <1>2 DEF PageThumbs
  <2> QED  BY <2>1, <2>2
<1> HIDE DEF thumbs, fresh, some
<1>6. pageLoads' \subseteq pageLoads  BY <1>3 DEF Merges
<1>7. thumbCache' \subseteq Entries  BY <1>2, <1>3, <1>4
<1> QED  BY <1>3, <1>4, <1>5, <1>6, <1>7, MergesKept, PageLoadsStay, PageStepAssembled

LEMMA GalleryStarts == GalleryInit => GalleryInv
<1> SUFFICES ASSUME GalleryInit PROVE GalleryInv  OBVIOUS
<1> DEFINE first == {e \in Entries : PageIndex[e] = 0}
<1>1. contents = <<first>> /\ first \in SUBSET Entries  BY DEF GalleryInit
<1> HIDE DEF first
<1>2. Latest = 1 /\ contents \in Seq(SUBSET Entries)  BY <1>1 DEF Latest
<1>3. grid \in Grid  BY GalleryAssumption DEF GalleryInit, Grid
<1>4. GalleryTypeOK
  <2>1. /\ mark = 0 /\ manifestCache = NoManifest /\ persisting = {} /\ thumbCache = {}
        /\ invalidating = FALSE /\ loadSession = 0 /\ galleryLoads = {} /\ pageLoads = {}
    BY DEF GalleryInit
  <2>2. mark \in 0 .. MaxRevision /\ loadSession \in 0 .. MaxGalleryLoads
    BY <2>1, GalleryAssumption
  <2> QED  BY <1>2, <1>3, <2>1, <2>2 DEF GalleryTypeOK
<1>5. GalleryInStep /\ LoadsInStep /\ PageLoadsInStep
  BY <1>2, GalleryAssumption DEF GalleryInit, GalleryInStep, LoadsInStep, PageLoadsInStep
<1>6. GalleryIsJust
  BY DEF GalleryInit, GalleryIsJust, ShownIsNotOld, ShownIsLast, LoadedIsThere
<1> QED  BY <1>4, <1>5, <1>6 DEF GalleryInv

LEMMA GalleryNextKeeps == GalleryInv /\ [GalleryNext]_galleryVars => GalleryInv'
<1> SUFFICES ASSUME GalleryInv, [GalleryNext]_galleryVars PROVE GalleryInv'  OBVIOUS
<1>1. CASE \E own \in BOOLEAN : Change(own)  BY <1>1, ChangeKept
<1>2. CASE ClearCache  BY <1>2, ClearCacheKept
<1>3. CASE RunLoad  BY <1>3, RunLoadKept
<1>4. CASE \E load \in galleryLoads : GallerySteps(load) \/ NetworkFails(load)
  BY <1>4, ManifestStepsKept, ReadThumbsKept, ReadInitialPageKept DEF GallerySteps
<1>5. CASE \E rev \in persisting : PersistManifest(rev)  BY <1>5, PersistKept
<1>6. CASE \E page \in PageNames : Demand(page)  BY <1>6, DemandKept
<1>7. CASE \E load \in pageLoads : PageFromCache(load) \/ PageFromBundle(load) \/ PageFails(load)
  BY <1>7, PageFromCacheKept, PageFromBundleKept, PageFailsKept
<1>8. CASE UNCHANGED galleryVars
  BY <1>8 DEF galleryVars, GalleryInv, GalleryTypeOK, GalleryInStep, LoadsInStep,
     PageLoadsInStep, GalleryIsJust, ShownIsNotOld, ShownIsLast, LoadedIsThere, Latest
<1> QED  BY <1>1, <1>2, <1>3, <1>4, <1>5, <1>6, <1>7, <1>8 DEF GalleryNext

\* The gallery of GallerySpec: what is shown is of the last load and not older
\* than what this browser had seen, and what counts as loaded is there.
THEOREM GalleryStaysJust == GallerySpec => []GalleryIsJust
<1>1. GalleryInv => GalleryIsJust  BY DEF GalleryInv
<1> QED  BY <1>1, GalleryStarts, GalleryNextKeeps, PTL DEF GallerySpec

(***************************************************************************)
(* The viewer and its prefetch.  The parts of the invariant take the loads *)
(* and what refers to them as arguments, for the steps that change the     *)
(* loads twice.                                                            *)
(***************************************************************************)

\* What is known of any load: one without a key never comes to have a URL, one
\* that was cancelled or claimed was prefetched, and not both.
LoadIsSound(load) ==
    /\ load.url = "live" => ~load.aborted
    /\ ~load.keyed => load.url \in {"loading", "failed"}
    /\ load.claimed => load.prefetched /\ ~load.aborted
    /\ load.aborted => load.prefetched
    /\ load.prefetched /\ load.url = "revoked" => load.aborted \/ load.claimed

\* A prefetch that is neither cancelled nor claimed, and has not failed.
Waits(load) ==
    /\ load.prefetched /\ ~load.aborted /\ ~load.claimed
    /\ load.url \in {"loading", "live"}

\* Those are what is cached, each under its medium.
CacheIsWaiting(ls, c) ==
    /\ \A m \in Media : c[m] # 0 => ls[c[m]].media = m /\ Waits(ls[c[m]])
    /\ \A l \in DOMAIN ls : Waits(ls[l]) => c[ls[l].media] = l

\* Every other live URL has its owner.
OthersAreOwned(ls, v, r) ==
    \A l \in DOMAIN ls :
        ls[l].url = "live" /\ ~Waits(ls[l]) => v.shown = l \/ l \in r

\* What is to be revoked was claimed, and the viewer has left it.
RevokingIsLeft(ls, v, r) ==
    \A l \in r : ls[l].claimed /\ ls[l].url = "live" /\ v.effect # l /\ v.shown # l

\* What the viewer waits for, or shows, is a load of its medium and its own: not
\* a prefetch that can still be evicted.
EffectIsOwn(ls, v) ==
    /\ v.shown \in {0, v.effect}
    /\ v.effect # 0 => ls[v.effect].media = v.media /\ ~Waits(ls[v.effect])
    /\ v.effect # 0 /\ v.shown = 0 =>
           ls[v.effect].url = "loading" /\ ~ls[v.effect].aborted
    /\ v.shown # 0 =>
           \/ ls[v.shown].url = "live"
           \/ ls[v.shown].url = "revoked" /\ ls[v.shown].aborted

\* Before it has found the entry, the viewer holds nothing but the promise of a
\* prefetch, which may have been evicted or may have failed.
SeekingHoldsMemo(ls, v) ==
    /\ ~v.found =>
           /\ v.retryKey = 0 /\ v.effect = 0
           /\ v.memo # 0 => /\ ls[v.memo].media = v.media
                            /\ ls[v.memo].prefetched /\ ~ls[v.memo].claimed
    /\ v.media = NoMedia => v = Closed

\* Without a key the viewer is closed and what is cached will fail; with one,
\* no load that has not ended was cancelled.
KeyDecides(ls, c, v, k) ==
    /\ ~k => v.media = NoMedia /\ \A m \in Media : c[m] # 0 => ~ls[c[m]].keyed
    /\ k => \A l \in DOMAIN ls : ls[l].url = "loading" => ~ls[l].aborted

MediaTypes(ls, c, v, r, k) ==
    /\ ls \in Seq(Load) /\ c \in [Media -> 0 .. Len(ls)]
    /\ v \in Viewer /\ v.effect <= Len(ls) /\ v.memo <= Len(ls)
    /\ r \subseteq DOMAIN ls /\ k \in BOOLEAN

MediaIsSound(ls, c, v, r, k) ==
    /\ MediaTypes(ls, c, v, r, k)
    /\ \A l \in DOMAIN ls : LoadIsSound(ls[l])
    /\ CacheIsWaiting(ls, c) /\ OthersAreOwned(ls, v, r) /\ RevokingIsLeft(ls, v, r)
    /\ EffectIsOwn(ls, v) /\ SeekingHoldsMemo(ls, v) /\ KeyDecides(ls, c, v, k)

LoadingIn(ls) == {l \in DOMAIN ls : ls[l].prefetched /\ ls[l].url = "loading"}
HeldIn(c)     == {m \in Media : c[m] # 0}

CounterIsRight(ls, a)  == a = Cardinality(LoadingIn(ls)) /\ a <= MAX_PREFETCHES
CacheHasRoom(c) == Cardinality(HeldIn(c)) <= MAX_ITEMS /\ BytesOf(HeldIn(c)) <= MAX_BYTES

MediaInv ==
    /\ MediaIsSound(loads, prefetchCache, viewing, revoking, keyThere)
    /\ CounterIsRight(loads, active)
    /\ CacheHasRoom(prefetchCache)

LEMMA LoadsReplaced ==
    ASSUME NEW ls \in Seq(Load), NEW new \in [DOMAIN ls -> Load]
    PROVE  /\ new \in Seq(Load) /\ Len(new) = Len(ls) /\ DOMAIN new = DOMAIN ls
           /\ DOMAIN ls = 1 .. Len(ls) /\ Len(ls) \in Nat
<1>1. DOMAIN ls = 1 .. Len(ls) /\ Len(ls) \in Nat  OBVIOUS
<1>2. new \in [1 .. Len(ls) -> Load]  BY <1>1
<1> QED  BY <1>1, <1>2

\* What every step on the loads starts from.
LEMMA MediaFacts ==
    ASSUME NEW ls, NEW c, NEW v, NEW r, NEW k, MediaIsSound(ls, c, v, r, k)
    PROVE  /\ ls \in Seq(Load) /\ DOMAIN ls = 1 .. Len(ls) /\ Len(ls) \in Nat
           /\ \A l \in DOMAIN ls : ls[l] \in Load
           /\ c \in [Media -> 0 .. Len(ls)]
           /\ \A m \in Media : c[m] # 0 => c[m] \in DOMAIN ls
           /\ v \in Viewer /\ v.effect \in Nat /\ v.memo \in Nat
           /\ v.shown = 0 \/ v.shown = v.effect
           /\ v.effect # 0 => v.effect \in DOMAIN ls
           /\ v.memo # 0 => v.memo \in DOMAIN ls
<1>1. /\ ls \in Seq(Load) /\ c \in [Media -> 0 .. Len(ls)] /\ v \in Viewer
      /\ v.effect <= Len(ls) /\ v.memo <= Len(ls) /\ v.shown \in {0, v.effect}
  BY DEF MediaIsSound, MediaTypes, EffectIsOwn
<1>2. DOMAIN ls = 1 .. Len(ls) /\ Len(ls) \in Nat /\ \A l \in DOMAIN ls : ls[l] \in Load
  BY <1>1
<1>3. v.effect \in Nat /\ v.memo \in Nat  BY <1>1 DEF Viewer
<1> QED  BY <1>1, <1>2, <1>3

CancelledIn(ls, c, gone) ==
    [l \in DOMAIN ls |->
        IF \E m \in gone : c[m] = l
        THEN [ls[l] EXCEPT !.aborted = TRUE, !.url = IF @ = "live" THEN "revoked" ELSE @]
        ELSE ls[l]]

\* Prefetches are cancelled: with the key, only those that have a URL, and
\* without it all.
LEMMA CancelSound ==
    ASSUME NEW ls, NEW c, NEW v, NEW r, NEW k, MediaIsSound(ls, c, v, r, k),
           NEW gone \in SUBSET Media, NEW key \in BOOLEAN,
           key => k /\ \A m \in gone : c[m] # 0 => ls[c[m]].url # "loading",
           key # k => v.media = NoMedia /\ \A m \in Media : c[m] # 0 => m \in gone
    PROVE  MediaIsSound(CancelledIn(ls, c, gone), Without(c, gone), v, r, key)
<1> DEFINE new  == CancelledIn(ls, c, gone)
           left == Without(c, gone)
<1>1. /\ ls \in Seq(Load) /\ DOMAIN ls = 1 .. Len(ls) /\ Len(ls) \in Nat
      /\ \A l \in DOMAIN ls : ls[l] \in Load
      /\ c \in [Media -> 0 .. Len(ls)] /\ \A m \in Media : c[m] # 0 => c[m] \in DOMAIN ls
      /\ v \in Viewer /\ v.effect \in Nat /\ v.memo \in Nat
      /\ v.shown = 0 \/ v.shown = v.effect
      /\ v.effect # 0 => v.effect \in DOMAIN ls
      /\ v.memo # 0 => v.memo \in DOMAIN ls
  BY MediaFacts
<1>2. /\ \A l \in DOMAIN ls : LoadIsSound(ls[l])
      /\ CacheIsWaiting(ls, c) /\ OthersAreOwned(ls, v, r) /\ RevokingIsLeft(ls, v, r)
      /\ EffectIsOwn(ls, v) /\ SeekingHoldsMemo(ls, v) /\ KeyDecides(ls, c, v, k)
      /\ MediaTypes(ls, c, v, r, k)
  BY DEF MediaIsSound
<1> DEFINE Gone(l) == \E m \in gone : c[m] = l
<1>3. \A l \in DOMAIN ls : ~Gone(l) => new[l] = ls[l]  BY DEF CancelledIn
<1>4. \A l \in DOMAIN ls : Gone(l) =>
          /\ Waits(ls[l]) /\ new[l] \in Load /\ new[l].media = ls[l].media
          /\ new[l].aborted /\ new[l].prefetched /\ ~new[l].claimed
          /\ new[l].keyed = ls[l].keyed
          /\ new[l].url = IF ls[l].url = "live" THEN "revoked" ELSE "loading"
  <2> SUFFICES ASSUME NEW l \in DOMAIN ls, NEW m \in gone, c[m] = l
               PROVE  /\ Waits(ls[l]) /\ new[l] \in Load /\ new[l].media = ls[l].media
                      /\ new[l].aborted /\ new[l].prefetched /\ ~new[l].claimed
                      /\ new[l].keyed = ls[l].keyed
                      /\ new[l].url = IF ls[l].url = "live" THEN "revoked" ELSE "loading"
    OBVIOUS
  <2>1. Waits(ls[l])
    <3>1. m \in Media /\ c[m] # 0  BY <1>1
    <3> QED  BY <1>2, <3>1 DEF CacheIsWaiting
  <2>2. new[l] = [ls[l] EXCEPT !.aborted = TRUE,
                               !.url = IF ls[l].url = "live" THEN "revoked" ELSE ls[l].url]
    BY DEF CancelledIn
  <2> QED  BY <1>1, <2>1, <2>2 DEF Waits, Load
<1>5. \A l \in DOMAIN ls : new[l] \in Load  BY <1>1, <1>3, <1>4
<1>6. new \in Seq(Load) /\ Len(new) = Len(ls) /\ DOMAIN new = DOMAIN ls
  <2>1. DOMAIN new = DOMAIN ls /\ new = [l \in DOMAIN ls |-> new[l]]  BY DEF CancelledIn
  <2> HIDE DEF new
  <2>2. new \in [DOMAIN ls -> Load]  BY <1>5, <2>1
  <2> QED  BY <1>1, <2>2, LoadsReplaced
<1>7. /\ left \in [Media -> 0 .. Len(ls)]
      /\ \A m \in Media : left[m] = IF m \in gone THEN 0 ELSE c[m]
  BY <1>1 DEF Without
<1> HIDE DEF new, left
<1>8. MediaTypes(new, left, v, r, key)  BY <1>2, <1>6, <1>7 DEF MediaTypes
<1>9. \A l \in DOMAIN new : LoadIsSound(new[l])
  <2> SUFFICES ASSUME NEW l \in DOMAIN ls PROVE LoadIsSound(new[l])  BY <1>6
  <2>1. LoadIsSound(ls[l]) /\ ls[l] \in Load  BY <1>1, <1>2
  <2>2. CASE ~Gone(l)  BY <1>3, <2>1, <2>2
  <2>3. CASE Gone(l)  BY <1>4, <2>1, <2>3 DEF LoadIsSound, Waits
  <2> QED  BY <2>2, <2>3
<1>10. \A l \in DOMAIN ls : Waits(new[l]) <=> Waits(ls[l]) /\ ~Gone(l)
  <2> SUFFICES ASSUME NEW l \in DOMAIN ls PROVE Waits(new[l]) <=> Waits(ls[l]) /\ ~Gone(l)
    OBVIOUS
  <2>1. CASE ~Gone(l)  BY <1>3, <2>1
  <2>2. CASE Gone(l)  BY <1>4, <2>2 DEF Waits
  <2> QED  BY <2>1, <2>2
<1>11. \A m \in Media : left[m] # 0 =>
           left[m] = c[m] /\ left[m] \in DOMAIN ls /\ ~Gone(left[m])
               /\ ls[left[m]].media = m /\ Waits(ls[left[m]])
  <2> SUFFICES ASSUME NEW m \in Media, left[m] # 0
               PROVE  left[m] = c[m] /\ left[m] \in DOMAIN ls /\ ~Gone(left[m])
                        /\ ls[left[m]].media = m /\ Waits(ls[left[m]])
    OBVIOUS
  <2>1. m \notin gone /\ left[m] = c[m] /\ c[m] # 0  BY <1>7
  <2>2. ls[c[m]].media = m /\ Waits(ls[c[m]])  BY <1>2, <2>1 DEF CacheIsWaiting
  <2>3. \A o \in gone : c[o] = c[m] => o = m
    BY <1>2, <2>1, <2>2 DEF CacheIsWaiting
  <2> QED  BY <1>1, <2>1, <2>2, <2>3
<1>12. CacheIsWaiting(new, left)
  <2>1. \A m \in Media : left[m] # 0 => new[left[m]].media = m /\ Waits(new[left[m]])
    BY <1>3, <1>10, <1>11
  <2>2. ASSUME NEW l \in DOMAIN ls, Waits(new[l]) PROVE left[new[l].media] = l
    <3>1. Waits(ls[l]) /\ ~Gone(l) /\ new[l] = ls[l]  BY <1>3, <1>10, <2>2
    <3>2. c[ls[l].media] = l /\ ls[l].media \in Media
      BY <1>1, <1>2, <3>1 DEF CacheIsWaiting, Load
    <3> QED  BY <1>7, <3>1, <3>2
  <2> QED  BY <1>6, <2>1, <2>2 DEF CacheIsWaiting
<1>13. \A l \in DOMAIN ls : ~Waits(ls[l]) => new[l] = ls[l]  BY <1>3, <1>4
<1>14. OthersAreOwned(new, v, r)
  <2> SUFFICES ASSUME NEW l \in DOMAIN ls, new[l].url = "live", ~Waits(new[l])
               PROVE  v.shown = l \/ l \in r
    BY <1>6 DEF OthersAreOwned
  <2>1. ~Gone(l)  BY <1>4
  <2>2. new[l] = ls[l]  BY <1>3, <2>1
  <2> QED  BY <1>2, <2>2 DEF OthersAreOwned
<1>15. RevokingIsLeft(new, v, r)
  <2> SUFFICES ASSUME NEW l \in r
               PROVE  new[l].claimed /\ new[l].url = "live" /\ v.effect # l /\ v.shown # l
    BY DEF RevokingIsLeft
  <2>1. l \in DOMAIN ls  BY <1>2 DEF MediaTypes
  <2>2. ls[l].claimed /\ ls[l].url = "live" /\ v.effect # l /\ v.shown # l
    BY <1>2 DEF RevokingIsLeft
  <2>3. new[l] = ls[l]  BY <1>13, <2>1, <2>2 DEF Waits
  <2> QED  BY <2>2, <2>3
<1>16. EffectIsOwn(new, v)
  <2>1. v.effect # 0 => new[v.effect] = ls[v.effect]
    BY <1>1, <1>2, <1>13 DEF EffectIsOwn
  <2>2. v.shown # 0 => new[v.shown] = ls[v.shown]  BY <1>1, <2>1
  <2> QED  BY <1>2, <2>1, <2>2 DEF EffectIsOwn
<1>17. SeekingHoldsMemo(new, v)
  <2>1. \A l \in DOMAIN ls : /\ new[l].media = ls[l].media
                             /\ ls[l].prefetched => new[l].prefetched
                             /\ ~ls[l].claimed => ~new[l].claimed
    BY <1>3, <1>4
  <2>2. v.memo # 0 => v.memo \in DOMAIN ls  BY <1>2, <1>1 DEF MediaTypes
  <2> QED  BY <1>2, <2>1, <2>2 DEF SeekingHoldsMemo
<1>18. KeyDecides(new, left, v, key)
  <2>1. CASE key
    <3>1. k /\ \A m \in gone : c[m] # 0 => ls[c[m]].url # "loading"  BY <2>1
    <3>2. ASSUME NEW l \in DOMAIN ls, new[l].url = "loading" PROVE ~new[l].aborted
      <4>1. CASE Gone(l)
        <5>1. PICK m \in gone : c[m] = l  BY <4>1
        <5>2. ls[l].url # "loading" /\ ls[l].url # "live"
          BY <1>1, <1>4, <3>1, <3>2, <4>1, <5>1
        <5> QED  BY <1>4, <4>1, <5>2 DEF Waits
      <4>2. CASE ~Gone(l)
        <5>1. new[l] = ls[l]  BY <1>3, <4>2
        <5> QED  BY <1>2, <3>1, <3>2, <5>1 DEF KeyDecides
      <4> QED  BY <4>1, <4>2
    <3> QED  BY <1>6, <2>1, <3>2 DEF KeyDecides
  <2>2. CASE ~key
    <3>1. CASE k
      <4>1. v.media = NoMedia /\ \A m \in Media : c[m] # 0 => m \in gone
        BY <2>2, <3>1
      <4>2. \A m \in Media : left[m] = 0  BY <1>7, <4>1
      <4> QED  BY <2>2, <4>1, <4>2 DEF KeyDecides
    <3>2. CASE ~k
      <4>1. v.media = NoMedia /\ \A m \in Media : c[m] # 0 => ~ls[c[m]].keyed
        BY <1>2, <3>2 DEF KeyDecides
      <4>2. \A m \in Media : left[m] # 0 => ~new[left[m]].keyed
        BY <1>3, <1>11, <4>1
      <4> QED  BY <2>2, <4>1, <4>2 DEF KeyDecides
    <3> QED  BY <3>1, <3>2
  <2> QED  BY <2>1, <2>2
<1> QED
  BY <1>8, <1>9, <1>12, <1>14, <1>15, <1>16, <1>17, <1>18 DEF MediaIsSound, new, left

\* One load changes its state.
WithUrl(ls, l, url) == [ls EXCEPT ![l].url = url]

OnlyUrl(ls, l, url, new) ==
    /\ new \in Seq(Load) /\ Len(new) = Len(ls) /\ DOMAIN new = DOMAIN ls
    /\ \A o \in DOMAIN ls : o # l => new[o] = ls[o]
    /\ new[l].media = ls[l].media /\ new[l].prefetched = ls[l].prefetched
    /\ new[l].keyed = ls[l].keyed /\ new[l].aborted = ls[l].aborted
    /\ new[l].claimed = ls[l].claimed /\ new[l].url = url

LEMMA UrlChanged ==
    ASSUME NEW ls \in Seq(Load), NEW l \in DOMAIN ls,
           NEW url \in {"loading", "live", "revoked", "failed"},
           NEW new, new = WithUrl(ls, l, url)
    PROVE  OnlyUrl(ls, l, url, new)
<1> DEFINE x == [ls[l] EXCEPT !.url = url]
<1>1. ls[l] \in Load /\ new = [ls EXCEPT ![l] = x]  BY DEF WithUrl
<1>2. /\ x \in Load /\ x.media = ls[l].media /\ x.prefetched = ls[l].prefetched
      /\ x.keyed = ls[l].keyed /\ x.aborted = ls[l].aborted
      /\ x.claimed = ls[l].claimed /\ x.url = url
  BY <1>1 DEF Load
<1> HIDE DEF x
<1>3. new \in [DOMAIN ls -> Load]  BY <1>1, <1>2
<1>4. new \in Seq(Load) /\ Len(new) = Len(ls) /\ DOMAIN new = DOMAIN ls
  BY <1>3, LoadsReplaced
<1>5. new[l] = x /\ \A o \in DOMAIN ls : o # l => new[o] = ls[o]  BY <1>1
<1> QED  BY <1>2, <1>4, <1>5 DEF OnlyUrl

\* A viewer that waits for no load and shows none.
EmptyView(ls, view, k) ==
    /\ view \in Viewer /\ view.effect = 0 /\ view.shown = 0
    /\ view.memo <= Len(ls) /\ SeekingHoldsMemo(ls, view)
    /\ ~k => view.media = NoMedia

\* A load that is not waiting in the cache ends or has its URL revoked, and the
\* viewer leaves it or had nothing to do with it.
LEMMA EndsSound ==
    ASSUME NEW ls, NEW c, NEW v, NEW r, NEW k, MediaIsSound(ls, c, v, r, k),
           NEW l \in DOMAIN ls, NEW url \in {"revoked", "failed"}, ~Waits(ls[l]),
           url = "revoked" =>
               ls[l].keyed /\ (ls[l].prefetched => ls[l].aborted \/ ls[l].claimed),
           NEW rest, rest = r \ {l}, NEW view,
           \/ view = v /\ v.effect # l
           \/ EmptyView(ls, view, k) /\ v.shown \in {0, l},
           NEW new, new = WithUrl(ls, l, url)
    PROVE  MediaIsSound(new, c, view, rest, k)
<1>1. /\ ls \in Seq(Load) /\ DOMAIN ls = 1 .. Len(ls) /\ Len(ls) \in Nat
      /\ \A o \in DOMAIN ls : ls[o] \in Load
      /\ c \in [Media -> 0 .. Len(ls)] /\ \A m \in Media : c[m] # 0 => c[m] \in DOMAIN ls
      /\ v \in Viewer /\ v.effect \in Nat
      /\ v.effect # 0 => v.effect \in DOMAIN ls
  BY MediaFacts
<1>2. /\ \A o \in DOMAIN ls : LoadIsSound(ls[o])
      /\ CacheIsWaiting(ls, c) /\ OthersAreOwned(ls, v, r) /\ RevokingIsLeft(ls, v, r)
      /\ EffectIsOwn(ls, v) /\ SeekingHoldsMemo(ls, v) /\ KeyDecides(ls, c, v, k)
      /\ MediaTypes(ls, c, v, r, k)
  BY DEF MediaIsSound
<1>3. /\ new \in Seq(Load) /\ Len(new) = Len(ls) /\ DOMAIN new = DOMAIN ls
      /\ \A o \in DOMAIN ls : o # l => new[o] = ls[o]
      /\ new[l].media = ls[l].media /\ new[l].prefetched = ls[l].prefetched
      /\ new[l].keyed = ls[l].keyed /\ new[l].aborted = ls[l].aborted
      /\ new[l].claimed = ls[l].claimed /\ new[l].url = url
  <2>1. url \in {"loading", "live", "revoked", "failed"}  OBVIOUS
  <2>2. OnlyUrl(ls, l, url, new)  BY <1>1, <2>1, UrlChanged
  <2> QED  BY <2>2 DEF OnlyUrl
<1>4. ~Waits(new[l]) /\ \A o \in DOMAIN ls : Waits(new[o]) <=> Waits(ls[o])
  BY <1>3 DEF Waits
<1>5. MediaTypes(new, c, view, rest, k)
  <2>1. view \in Viewer /\ view.effect <= Len(ls) /\ view.memo <= Len(ls)
    BY <1>1, <1>2 DEF MediaTypes, EmptyView
  <2> QED  BY <1>2, <1>3, <2>1 DEF MediaTypes
<1>6. \A o \in DOMAIN new : LoadIsSound(new[o])
  <2>1. LoadIsSound(new[l])  BY <1>2, <1>3 DEF LoadIsSound
  <2> QED  BY <1>2, <1>3, <2>1
<1>7. CacheIsWaiting(new, c)
  <2>1. \A m \in Media : c[m] # 0 => new[c[m]].media = m /\ Waits(new[c[m]])
    BY <1>1, <1>2, <1>3, <1>4 DEF CacheIsWaiting
  <2>2. \A o \in DOMAIN new : Waits(new[o]) => c[new[o].media] = o
    BY <1>2, <1>3, <1>4 DEF CacheIsWaiting
  <2> QED  BY <2>1, <2>2 DEF CacheIsWaiting
<1>8. OthersAreOwned(new, view, rest)
  <2> SUFFICES ASSUME NEW o \in DOMAIN ls, new[o].url = "live", ~Waits(new[o])
               PROVE  view.shown = o \/ o \in rest
    BY <1>3 DEF OthersAreOwned
  <2>1. o # l /\ new[o] = ls[o]  BY <1>3
  <2>2. v.shown = o \/ o \in r  BY <1>2, <2>1 DEF OthersAreOwned
  <2>3. o # 0  BY <1>1
  <2> QED  BY <2>1, <2>2, <2>3 DEF EmptyView
<1>9. RevokingIsLeft(new, view, rest)
  <2> SUFFICES ASSUME NEW o \in rest
               PROVE  new[o].claimed /\ new[o].url = "live" /\ view.effect # o /\ view.shown # o
    BY DEF RevokingIsLeft
  <2>1. o \in DOMAIN ls /\ o # l /\ o # 0  BY <1>1, <1>2 DEF MediaTypes
  <2>2. ls[o].claimed /\ ls[o].url = "live" /\ v.effect # o /\ v.shown # o
    BY <1>2 DEF RevokingIsLeft
  <2>3. view.effect # o /\ view.shown # o  BY <2>1, <2>2 DEF EmptyView
  <2> QED  BY <1>3, <2>1, <2>2, <2>3
<1>10. EffectIsOwn(new, view)
  <2>1. CASE EmptyView(ls, view, k)  BY <2>1 DEF EffectIsOwn, EmptyView
  <2>2. CASE view = v /\ v.effect # l
    <3>1. v.effect # 0 => new[v.effect] = ls[v.effect]  BY <1>1, <1>3, <2>2
    <3> QED  BY <1>2, <2>2, <3>1 DEF EffectIsOwn
  <2> QED  BY <2>1, <2>2
<1>11. SeekingHoldsMemo(new, view)
  <2>1. \A o \in DOMAIN ls : /\ new[o].media = ls[o].media
                             /\ new[o].prefetched = ls[o].prefetched
                             /\ new[o].claimed = ls[o].claimed
    BY <1>3
  <2>2. view.memo # 0 => view.memo \in DOMAIN ls
    <3>1. view \in Viewer /\ view.memo <= Len(ls)  BY <1>3, <1>5 DEF MediaTypes
    <3>2. view.memo \in Nat  BY <3>1 DEF Viewer
    <3> QED  BY <1>1, <3>1, <3>2
  <2>3. SeekingHoldsMemo(ls, view)  BY <1>2 DEF EmptyView
  <2> QED  BY <2>1, <2>2, <2>3 DEF SeekingHoldsMemo
<1>12. KeyDecides(new, c, view, k)
  <2>1. \A m \in Media : c[m] # 0 => new[c[m]].keyed = ls[c[m]].keyed  BY <1>1, <1>3
  <2>2. \A o \in DOMAIN ls : new[o].url = "loading" => o # l /\ new[o] = ls[o]  BY <1>3
  <2>3. ~k => view.media = NoMedia  BY <1>2 DEF KeyDecides, EmptyView
  <2> QED  BY <1>2, <1>3, <2>1, <2>2, <2>3 DEF KeyDecides
<1> QED
  BY <1>5, <1>6, <1>7, <1>8, <1>9, <1>10, <1>11, <1>12 DEF MediaIsSound

\* The viewer leaves a load that has no URL, or has none.
LEMMA ViewSound ==
    ASSUME NEW ls, NEW c, NEW v, NEW r, NEW k, MediaIsSound(ls, c, v, r, k),
           NEW view, EmptyView(ls, view, k), v.shown = 0
    PROVE  MediaIsSound(ls, c, view, r, k)
<1>1. MediaTypes(ls, c, view, r, k)
  <2>1. view.effect = 0 /\ Len(ls) \in Nat  BY MediaFacts DEF EmptyView
  <2> QED  BY <2>1 DEF MediaIsSound, MediaTypes, EmptyView
<1>2. OthersAreOwned(ls, view, r)
  <2>1. \A l \in DOMAIN ls : l # 0  BY MediaFacts
  <2> QED  BY <2>1 DEF MediaIsSound, OthersAreOwned
<1>3. RevokingIsLeft(ls, view, r)
  <2>1. \A l \in r : l # 0  BY MediaFacts DEF MediaIsSound, MediaTypes
  <2> QED  BY <2>1 DEF MediaIsSound, RevokingIsLeft, EmptyView
<1>4. EffectIsOwn(ls, view)  BY DEF EffectIsOwn, EmptyView
<1>5. KeyDecides(ls, c, view, k)  BY DEF MediaIsSound, KeyDecides, EmptyView
<1> QED  BY <1>1, <1>2, <1>3, <1>4, <1>5 DEF MediaIsSound, EmptyView

\* The viewer leaves what it has, and revokes the URL it shows.
LEMMA LeaveSound ==
    ASSUME NEW ls, NEW c, NEW v, NEW r, NEW k, MediaIsSound(ls, c, v, r, k),
           NEW view, EmptyView(ls, view, k)
    PROVE  MediaIsSound(Revoked(ls, v.shown), c, view, r, k)
<1>1. CASE v.shown = 0  BY <1>1, ViewSound DEF Revoked
<1>2. CASE v.shown # 0
  <2> DEFINE l == v.shown
  <2>1. l \in DOMAIN ls /\ l = v.effect  BY <1>2, MediaFacts
  <2>2. ls[l] \in Load /\ LoadIsSound(ls[l]) /\ ~Waits(ls[l])
    BY <1>2, <2>1, MediaFacts DEF MediaIsSound, EffectIsOwn
  <2>3. ls[l].url = "live" \/ (ls[l].url = "revoked" /\ ls[l].aborted)
    BY <1>2 DEF MediaIsSound, EffectIsOwn
  <2>4. ls[l].keyed /\ (ls[l].prefetched => ls[l].aborted \/ ls[l].claimed)
    BY <2>2, <2>3 DEF LoadIsSound, Waits, Load
  <2>5. l \notin r  BY DEF MediaIsSound, RevokingIsLeft
  <2>6. r = r \ {l}  BY <2>5
  <2>7. Revoked(ls, v.shown) = WithUrl(ls, l, "revoked")  BY <1>2 DEF Revoked, WithUrl
  <2>8. v.shown \in {0, l}  OBVIOUS
  <2> HIDE DEF l
  <2> QED  BY <2>1, <2>2, <2>4, <2>6, <2>7, <2>8, EndsSound
<1> QED  BY <1>1, <1>2

\* A load begins: a prefetch, or one of the viewer's own.
BeginsPrefetch(ls, c, load, later) ==
    load.prefetched /\ c[load.media] = 0 /\ later = [c EXCEPT ![load.media] = Len(ls) + 1]

BeginsOwn(ls, v, load, view) ==
    /\ ~load.prefetched /\ v.effect = 0 /\ v.shown = 0
    /\ view \in Viewer /\ view.media = load.media /\ view.memo = v.memo
    /\ view.found /\ view.effect = Len(ls) + 1 /\ view.shown = 0

LEMMA BeginSound ==
    ASSUME NEW ls, NEW c, NEW v, NEW r, NEW k, MediaIsSound(ls, c, v, r, k),
           NEW load \in Load, load.url = "loading", ~load.aborted, ~load.claimed,
           load.keyed = k, NEW view, NEW later,
           \/ BeginsPrefetch(ls, c, load, later) /\ view = v
           \/ BeginsOwn(ls, v, load, view) /\ later = c /\ k
    PROVE  MediaIsSound(Append(ls, load), later, view, r, k)
<1> DEFINE new == Append(ls, load)
           n   == Len(ls) + 1
<1>1. /\ ls \in Seq(Load) /\ DOMAIN ls = 1 .. Len(ls) /\ Len(ls) \in Nat
      /\ \A o \in DOMAIN ls : ls[o] \in Load
      /\ c \in [Media -> 0 .. Len(ls)] /\ \A m \in Media : c[m] # 0 => c[m] \in DOMAIN ls
      /\ v \in Viewer /\ v.effect \in Nat /\ v.memo \in Nat
      /\ v.effect # 0 => v.effect \in DOMAIN ls
      /\ v.memo # 0 => v.memo \in DOMAIN ls
  BY MediaFacts
<1>2. /\ \A o \in DOMAIN ls : LoadIsSound(ls[o])
      /\ CacheIsWaiting(ls, c) /\ OthersAreOwned(ls, v, r) /\ RevokingIsLeft(ls, v, r)
      /\ EffectIsOwn(ls, v) /\ SeekingHoldsMemo(ls, v) /\ KeyDecides(ls, c, v, k)
      /\ MediaTypes(ls, c, v, r, k)
  BY DEF MediaIsSound
<1>3. /\ new \in Seq(Load) /\ Len(new) = n /\ n \in Nat /\ n # 0
      /\ DOMAIN new = DOMAIN ls \cup {n} /\ n \notin DOMAIN ls
      /\ new[n] = load /\ \A o \in DOMAIN ls : new[o] = ls[o]
  BY <1>1
<1> HIDE DEF new
<1>4. load.media \in Media /\ load.prefetched \in BOOLEAN  BY DEF Load
<1>5. /\ later \in [Media -> 0 .. n]
      /\ \A m \in Media : later[m] = IF load.prefetched /\ m = load.media THEN n ELSE c[m]
      /\ load.prefetched => c[load.media] = 0
  <2>1. CASE load.prefetched
    <3>1. c[load.media] = 0 /\ later = [c EXCEPT ![load.media] = n]
      BY <2>1 DEF BeginsPrefetch, BeginsOwn
    <3> QED  BY <1>1, <1>3, <1>4, <2>1, <3>1
  <2>2. CASE ~load.prefetched
    <3>1. later = c  BY <2>2 DEF BeginsPrefetch
    <3> QED  BY <1>1, <1>3, <2>2, <3>1
  <2> QED  BY <2>1, <2>2
<1>6. /\ load.prefetched => view = v
      /\ ~load.prefetched => /\ v.effect = 0 /\ v.shown = 0 /\ k
                             /\ view \in Viewer /\ view.media = load.media
                             /\ view.memo = v.memo /\ view.found
                             /\ view.effect = n /\ view.shown = 0
  BY DEF BeginsPrefetch, BeginsOwn
<1>7. Waits(load) <=> load.prefetched  BY DEF Waits
<1>8. MediaTypes(new, later, view, r, k)
  <2>1. view \in Viewer /\ view.effect <= n /\ view.memo <= n
    <3>1. CASE load.prefetched  BY <1>1, <1>2, <1>3, <1>6, <3>1 DEF MediaTypes
    <3>2. CASE ~load.prefetched  BY <1>1, <1>2, <1>3, <1>6, <3>2 DEF MediaTypes
    <3> QED  BY <1>4, <3>1, <3>2
  <2>2. r \subseteq DOMAIN new /\ k \in BOOLEAN  BY <1>2, <1>3 DEF MediaTypes
  <2> QED  BY <1>3, <1>5, <2>1, <2>2 DEF MediaTypes
<1>9. \A o \in DOMAIN new : LoadIsSound(new[o])
  <2>1. LoadIsSound(load)  BY DEF LoadIsSound
  <2> QED  BY <1>2, <1>3, <2>1
<1>10. CacheIsWaiting(new, later)
  <2>1. ASSUME NEW m \in Media, later[m] # 0
        PROVE  new[later[m]].media = m /\ Waits(new[later[m]])
    <3>1. CASE load.prefetched /\ m = load.media  BY <1>3, <1>5, <1>7, <3>1
    <3>2. CASE ~(load.prefetched /\ m = load.media)
      <4>1. later[m] = c[m] /\ c[m] \in DOMAIN ls  BY <1>1, <1>5, <2>1, <3>2
      <4> QED  BY <1>2, <1>3, <2>1, <4>1 DEF CacheIsWaiting
    <3> QED  BY <3>1, <3>2
  <2>2. ASSUME NEW o \in DOMAIN new, Waits(new[o]) PROVE later[new[o].media] = o
    <3>1. CASE o = n  BY <1>3, <1>4, <1>5, <1>7, <2>2, <3>1
    <3>2. CASE o # n
      <4>1. o \in DOMAIN ls /\ new[o] = ls[o] /\ o # 0  BY <1>1, <1>3, <3>2
      <4>2. c[ls[o].media] = o /\ ls[o].media \in Media
        BY <1>1, <1>2, <2>2, <4>1 DEF CacheIsWaiting, Load
      <4> QED  BY <1>5, <4>1, <4>2
    <3> QED  BY <3>1, <3>2
  <2> QED  BY <2>1, <2>2 DEF CacheIsWaiting
<1>11. OthersAreOwned(new, view, r)
  <2> SUFFICES ASSUME NEW o \in DOMAIN new, new[o].url = "live", ~Waits(new[o])
               PROVE  view.shown = o \/ o \in r
    BY DEF OthersAreOwned
  <2>1. o \in DOMAIN ls /\ new[o] = ls[o] /\ o # 0  BY <1>1, <1>3
  <2>2. v.shown = o \/ o \in r  BY <1>2, <2>1 DEF OthersAreOwned
  <2> QED  BY <1>4, <1>6, <2>1, <2>2
<1>12. RevokingIsLeft(new, view, r)
  <2> SUFFICES ASSUME NEW o \in r
               PROVE  new[o].claimed /\ new[o].url = "live" /\ view.effect # o /\ view.shown # o
    BY DEF RevokingIsLeft
  <2>1. o \in DOMAIN ls /\ o # n /\ o # 0  BY <1>1, <1>2, <1>3 DEF MediaTypes
  <2>2. ls[o].claimed /\ ls[o].url = "live" /\ v.effect # o /\ v.shown # o
    BY <1>2 DEF RevokingIsLeft
  <2> QED  BY <1>3, <1>4, <1>6, <2>1, <2>2
<1>13. EffectIsOwn(new, view)
  <2>1. CASE load.prefetched
    <3>1. v.effect # 0 => new[v.effect] = ls[v.effect]  BY <1>1, <1>3
    <3> QED  BY <1>2, <1>6, <2>1, <3>1 DEF EffectIsOwn
  <2>2. CASE ~load.prefetched  BY <1>3, <1>6, <1>7, <2>2 DEF EffectIsOwn
  <2> QED  BY <1>4, <2>1, <2>2
<1>14. SeekingHoldsMemo(new, view)
  <2>1. CASE load.prefetched
    <3>1. v.memo # 0 => new[v.memo] = ls[v.memo]  BY <1>1, <1>3
    <3> QED  BY <1>2, <1>6, <2>1, <3>1 DEF SeekingHoldsMemo
  <2>2. CASE ~load.prefetched
    <3>1. view.media # NoMedia  BY <1>4, <1>6, <2>2, MediaViewAssumption
    <3> QED  BY <1>6, <2>2, <3>1 DEF SeekingHoldsMemo
  <2> QED  BY <1>4, <2>1, <2>2
<1>15. KeyDecides(new, later, view, k)
  <2>1. \A o \in DOMAIN new : k /\ new[o].url = "loading" => ~new[o].aborted
    BY <1>2, <1>3 DEF KeyDecides
  <2>2. ASSUME ~k
        PROVE  view.media = NoMedia /\ \A m \in Media : later[m] # 0 => ~new[later[m]].keyed
    <3>1. v.media = NoMedia /\ view = v  BY <1>2, <1>4, <1>6, <2>2 DEF KeyDecides
    <3>2. \A m \in Media : later[m] # 0 => ~new[later[m]].keyed
      BY <1>1, <1>2, <1>3, <1>5, <2>2 DEF KeyDecides
    <3> QED  BY <3>1, <3>2
  <2> QED  BY <2>1, <2>2 DEF KeyDecides
<1> QED
  BY <1>8, <1>9, <1>10, <1>11, <1>12, <1>13, <1>14, <1>15 DEF MediaIsSound, new

\* The viewer takes a prefetched promise: it claims one that is still cached,
\* waits for one that loads, and takes over or gives up one that has ended.
ClaimedIn(ls, c, m, memo) ==
    IF c[m] = memo THEN [ls EXCEPT ![memo].claimed = TRUE] ELSE ls
ReleasedFrom(c, m, memo) == IF c[m] = memo THEN [c EXCEPT ![m] = 0] ELSE c

TakesPromise(load, memo, view) ==
    /\ view.effect = IF load.url = "failed" THEN 0 ELSE memo
    /\ view.shown = IF load.url \in {"loading", "failed"} THEN 0 ELSE memo

LEMMA ClaimSound ==
    ASSUME NEW ls, NEW c, NEW v, NEW r, NEW k, MediaIsSound(ls, c, v, r, k), k,
           v.effect = 0, v.shown = 0, NEW m \in Media, NEW memo \in DOMAIN ls,
           ls[memo].media = m, ls[memo].prefetched, ~ls[memo].claimed,
           NEW view \in Viewer, view.media = m, view.found, view.memo <= Len(ls),
           TakesPromise(ls[memo], memo, view)
    PROVE  MediaIsSound(ClaimedIn(ls, c, m, memo), ReleasedFrom(c, m, memo), view, r, k)
<1> DEFINE new  == ClaimedIn(ls, c, m, memo)
           left == ReleasedFrom(c, m, memo)
<1>1. /\ ls \in Seq(Load) /\ DOMAIN ls = 1 .. Len(ls) /\ Len(ls) \in Nat
      /\ \A o \in DOMAIN ls : ls[o] \in Load
      /\ c \in [Media -> 0 .. Len(ls)] /\ \A o \in Media : c[o] # 0 => c[o] \in DOMAIN ls
      /\ memo # 0 /\ memo <= Len(ls)
  <2>1. /\ ls \in Seq(Load) /\ DOMAIN ls = 1 .. Len(ls) /\ Len(ls) \in Nat
        /\ \A o \in DOMAIN ls : ls[o] \in Load
        /\ c \in [Media -> 0 .. Len(ls)] /\ \A o \in Media : c[o] # 0 => c[o] \in DOMAIN ls
    BY MediaFacts
  <2> QED  BY <2>1
<1>2. /\ \A o \in DOMAIN ls : LoadIsSound(ls[o])
      /\ CacheIsWaiting(ls, c) /\ OthersAreOwned(ls, v, r) /\ RevokingIsLeft(ls, v, r)
      /\ KeyDecides(ls, c, v, k) /\ MediaTypes(ls, c, v, r, k)
  BY DEF MediaIsSound
<1>3. Waits(ls[memo]) <=> c[m] = memo
  BY <1>1, <1>2 DEF CacheIsWaiting
<1>4. CASE c[m] = memo
  <2> DEFINE x == [ls[memo] EXCEPT !.claimed = TRUE]
  <2>1. new = [ls EXCEPT ![memo] = x] /\ left = [c EXCEPT ![m] = 0]
    BY <1>4 DEF ClaimedIn, ReleasedFrom
  <2>2. /\ x \in Load /\ x.media = m /\ x.prefetched /\ x.claimed /\ x.keyed = ls[memo].keyed
        /\ x.aborted = ls[memo].aborted /\ x.url = ls[memo].url
    BY <1>1 DEF Load
  <2> HIDE DEF x
  <2>3. new \in Seq(Load) /\ Len(new) = Len(ls) /\ DOMAIN new = DOMAIN ls
    <3>1. new \in [DOMAIN ls -> Load]  BY <1>1, <2>1, <2>2
    <3> HIDE DEF new
    <3> QED  BY <1>1, <3>1, LoadsReplaced
  <2>4. new[memo] = x /\ \A o \in DOMAIN ls : o # memo => new[o] = ls[o]  BY <1>1, <2>1
  <2>5. /\ left \in [Media -> 0 .. Len(ls)]
        /\ \A o \in Media : left[o] = IF o = m THEN 0 ELSE c[o]
    BY <1>1, <2>1
  <2> HIDE DEF new, left
  <2>6. Waits(ls[memo]) /\ ~Waits(x) /\ ~ls[memo].aborted /\ ls[memo].url \in {"loading", "live"}
    BY <1>3, <1>4, <2>2 DEF Waits
  <2>7. MediaTypes(new, left, view, r, k)
    <3>1. view.effect <= Len(ls)  BY <1>1 DEF TakesPromise
    <3> QED  BY <1>2, <2>3, <2>5, <3>1 DEF MediaTypes
  <2>8. \A o \in DOMAIN new : LoadIsSound(new[o])
    <3>1. LoadIsSound(x)  BY <1>2, <2>2, <2>6 DEF LoadIsSound
    <3> QED  BY <1>2, <2>3, <2>4, <3>1
  <2>9. CacheIsWaiting(new, left)
    <3>1. ASSUME NEW o \in Media, left[o] # 0
          PROVE  new[left[o]].media = o /\ Waits(new[left[o]])
      <4>1. o # m /\ left[o] = c[o] /\ c[o] \in DOMAIN ls  BY <1>1, <2>5, <3>1
      <4>2. ls[c[o]].media = o /\ Waits(ls[c[o]])  BY <1>2, <3>1, <4>1 DEF CacheIsWaiting
      <4>3. c[o] # memo  BY <4>1, <4>2
      <4> QED  BY <2>4, <4>1, <4>2, <4>3
    <3>2. ASSUME NEW o \in DOMAIN ls, Waits(new[o]) PROVE left[new[o].media] = o
      <4>1. o # memo /\ new[o] = ls[o]  BY <2>4, <2>6, <3>2
      <4>2. c[ls[o].media] = o /\ ls[o].media \in Media
        BY <1>1, <1>2, <3>2, <4>1 DEF CacheIsWaiting, Load
      <4>3. ls[o].media # m  BY <1>4, <4>1, <4>2
      <4> QED  BY <2>5, <4>1, <4>2, <4>3
    <3> QED  BY <2>3, <3>1, <3>2 DEF CacheIsWaiting
  <2>10. OthersAreOwned(new, view, r)
    <3> SUFFICES ASSUME NEW o \in DOMAIN ls, new[o].url = "live", ~Waits(new[o])
                 PROVE  view.shown = o \/ o \in r
      BY <2>3 DEF OthersAreOwned
    <3>1. CASE o = memo  BY <2>2, <2>4, <3>1 DEF TakesPromise
    <3>2. CASE o # memo
      <4>1. v.shown = o \/ o \in r  BY <1>2, <2>4, <3>2 DEF OthersAreOwned
      <4>2. o # 0  BY <1>1
      <4> QED  BY <4>1, <4>2
    <3> QED  BY <3>1, <3>2
  <2>11. RevokingIsLeft(new, view, r)
    <3> SUFFICES ASSUME NEW o \in r
                 PROVE  /\ new[o].claimed /\ new[o].url = "live"
                        /\ view.effect # o /\ view.shown # o
      BY DEF RevokingIsLeft
    <3>1. o \in DOMAIN ls /\ o # 0  BY <1>1, <1>2 DEF MediaTypes
    <3>2. ls[o].claimed /\ ls[o].url = "live"  BY <1>2 DEF RevokingIsLeft
    <3>3. o # memo  BY <3>2
    <3> QED  BY <2>4, <3>1, <3>2, <3>3 DEF TakesPromise
  <2>12. EffectIsOwn(new, view)
    BY <1>1, <2>2, <2>4, <2>6 DEF EffectIsOwn, TakesPromise
  <2>13. SeekingHoldsMemo(new, view)
    BY MediaViewAssumption DEF SeekingHoldsMemo
  <2>14. KeyDecides(new, left, view, k)
    BY <1>2, <2>2, <2>3, <2>4, <2>6 DEF KeyDecides
  <2> QED
    BY <2>7, <2>8, <2>9, <2>10, <2>11, <2>12, <2>13, <2>14 DEF MediaIsSound, new, left
<1>5. CASE c[m] # memo
  <2>1. new = ls /\ left = c  BY <1>5 DEF ClaimedIn, ReleasedFrom
  <2> HIDE DEF new, left
  <2>2. ls[memo].url \in {"loading", "live", "revoked", "failed"} /\ LoadIsSound(ls[memo])
    BY <1>1, <1>2 DEF Load
  <2>3. ~Waits(ls[memo])  BY <1>3, <1>5
  <2>4. \/ ls[memo].url = "failed"
        \/ ls[memo].url = "revoked" /\ ls[memo].aborted
    BY <1>2, <2>2, <2>3 DEF LoadIsSound, Waits, KeyDecides
  <2>5. MediaTypes(ls, c, view, r, k)
    <3>1. view.effect <= Len(ls)  BY <1>1 DEF TakesPromise
    <3> QED  BY <1>2, <3>1 DEF MediaTypes
  <2>6. OthersAreOwned(ls, view, r)
    <3>1. \A o \in DOMAIN ls : o # 0  BY <1>1
    <3> QED  BY <1>2, <3>1 DEF OthersAreOwned
  <2>7. RevokingIsLeft(ls, view, r)
    <3>1. \A o \in r : o # 0 /\ o # memo
      BY <1>1, <1>2 DEF MediaTypes, RevokingIsLeft
    <3> QED  BY <1>2, <3>1 DEF RevokingIsLeft, TakesPromise
  <2>8. EffectIsOwn(ls, view)
    BY <1>1, <2>3, <2>4 DEF EffectIsOwn, TakesPromise
  <2>9. SeekingHoldsMemo(ls, view)
    BY MediaViewAssumption DEF SeekingHoldsMemo
  <2>10. KeyDecides(ls, c, view, k)  BY <1>2 DEF KeyDecides
  <2> QED
    BY <1>2, <2>1, <2>5, <2>6, <2>7, <2>8, <2>9, <2>10 DEF MediaIsSound, new, left
<1> QED  BY <1>4, <1>5

\* A load ends in a URL: the viewer that waits for it shows it, a prefetch that
\* was claimed by a viewer that has left is to be revoked, and any other stays
\* in the cache.
LEMMA LiveSound ==
    ASSUME NEW ls, NEW c, NEW v, NEW r, NEW k, MediaIsSound(ls, c, v, r, k),
           NEW l \in DOMAIN ls, ls[l].url = "loading", ls[l].keyed, ~ls[l].aborted,
           ls[l].prefetched \/ v.effect = l,
           NEW view,
           view = IF v.effect = l THEN [v EXCEPT !.shown = l, !.state = "ready"] ELSE v,
           NEW more, more = IF ls[l].claimed /\ v.effect # l THEN r \cup {l} ELSE r,
           NEW new, new = WithUrl(ls, l, "live")
    PROVE  MediaIsSound(new, c, view, more, k)
<1>1. /\ ls \in Seq(Load) /\ DOMAIN ls = 1 .. Len(ls) /\ Len(ls) \in Nat
      /\ \A o \in DOMAIN ls : ls[o] \in Load
      /\ c \in [Media -> 0 .. Len(ls)] /\ \A m \in Media : c[m] # 0 => c[m] \in DOMAIN ls
      /\ v \in Viewer /\ v.effect \in Nat /\ v.memo \in Nat
      /\ v.shown = 0 \/ v.shown = v.effect
      /\ v.effect # 0 => v.effect \in DOMAIN ls
      /\ v.memo # 0 => v.memo \in DOMAIN ls
      /\ l \in Nat /\ l # 0
  BY MediaFacts
<1>2. /\ \A o \in DOMAIN ls : LoadIsSound(ls[o])
      /\ CacheIsWaiting(ls, c) /\ OthersAreOwned(ls, v, r) /\ RevokingIsLeft(ls, v, r)
      /\ EffectIsOwn(ls, v) /\ SeekingHoldsMemo(ls, v) /\ KeyDecides(ls, c, v, k)
      /\ MediaTypes(ls, c, v, r, k)
  BY DEF MediaIsSound
<1>3. /\ new \in Seq(Load) /\ Len(new) = Len(ls) /\ DOMAIN new = DOMAIN ls
      /\ \A o \in DOMAIN ls : o # l => new[o] = ls[o]
      /\ new[l].media = ls[l].media /\ new[l].prefetched = ls[l].prefetched
      /\ new[l].keyed = ls[l].keyed /\ new[l].aborted = ls[l].aborted
      /\ new[l].claimed = ls[l].claimed /\ new[l].url = "live"
  <2>1. OnlyUrl(ls, l, "live", new)  BY <1>1, UrlChanged
  <2> QED  BY <2>1 DEF OnlyUrl
<1>4. \A o \in DOMAIN ls : Waits(new[o]) <=> Waits(ls[o])  BY <1>3 DEF Waits
<1>5. /\ view \in Viewer /\ view.effect = v.effect /\ view.media = v.media
      /\ view.memo = v.memo /\ view.found = v.found /\ view.retryKey = v.retryKey
      /\ view.shown = IF v.effect = l THEN l ELSE v.shown
      /\ v.effect # l => view = v
  BY <1>1 DEF Viewer
<1>6. v.effect = l => v.shown = 0 /\ ls[l].media = v.media /\ ~Waits(ls[l])
  <2>1. v.effect = l => v.shown # l  BY <1>1, <1>2 DEF EffectIsOwn
  <2> QED  BY <1>1, <1>2, <2>1 DEF EffectIsOwn
<1>7. l \notin r  BY <1>2 DEF RevokingIsLeft
<1>8. MediaTypes(new, c, view, more, k)
  BY <1>2, <1>3, <1>5 DEF MediaTypes
<1>9. \A o \in DOMAIN new : LoadIsSound(new[o])
  <2>1. LoadIsSound(new[l])  BY <1>2, <1>3 DEF LoadIsSound
  <2> QED  BY <1>2, <1>3, <2>1
<1>10. CacheIsWaiting(new, c)
  <2>1. \A o \in DOMAIN ls : new[o].media = ls[o].media  BY <1>3
  <2>2. \A m \in Media : c[m] # 0 => new[c[m]].media = m /\ Waits(new[c[m]])
    BY <1>1, <1>2, <1>4, <2>1 DEF CacheIsWaiting
  <2>3. \A o \in DOMAIN new : Waits(new[o]) => c[new[o].media] = o
    BY <1>2, <1>3, <1>4, <2>1 DEF CacheIsWaiting
  <2> QED  BY <2>2, <2>3 DEF CacheIsWaiting
<1>11. OthersAreOwned(new, view, more)
  <2> SUFFICES ASSUME NEW o \in DOMAIN ls, new[o].url = "live", ~Waits(new[o])
               PROVE  view.shown = o \/ o \in more
    BY <1>3 DEF OthersAreOwned
  <2>1. CASE o = l
    <3>1. v.effect = l \/ ls[l].claimed  BY <1>3, <2>1 DEF Waits
    <3> QED  BY <1>5, <2>1, <3>1
  <2>2. CASE o # l
    <3>1. v.shown = o \/ o \in r  BY <1>2, <1>3, <1>4, <2>2 DEF OthersAreOwned
    <3>2. v.shown = o => v.effect # l  BY <1>1, <1>6, <2>2
    <3> QED  BY <1>5, <3>1, <3>2
  <2> QED  BY <2>1, <2>2
<1>12. RevokingIsLeft(new, view, more)
  <2> SUFFICES ASSUME NEW o \in more
               PROVE  new[o].claimed /\ new[o].url = "live" /\ view.effect # o /\ view.shown # o
    BY DEF RevokingIsLeft
  <2>1. CASE o \in r
    <3>1. o \in DOMAIN ls /\ o # l  BY <1>2, <1>7, <2>1 DEF MediaTypes
    <3> QED  BY <1>2, <1>3, <1>5, <2>1, <3>1 DEF RevokingIsLeft
  <2>2. CASE o \notin r
    <3>1. o = l /\ ls[l].claimed /\ v.effect # l  BY <2>2
    <3> QED  BY <1>1, <1>3, <1>5, <3>1
  <2> QED  BY <2>1, <2>2
<1>13. EffectIsOwn(new, view)
  <2>1. CASE v.effect = l
    <3>1. ~Waits(new[l]) /\ new[l].media = view.media  BY <1>3, <1>4, <1>5, <1>6, <2>1
    <3> QED  BY <1>1, <1>3, <1>5, <2>1, <3>1 DEF EffectIsOwn
  <2>2. CASE v.effect # l
    <3>1. v.effect # 0 => new[v.effect] = ls[v.effect]  BY <1>1, <1>3, <2>2
    <3> QED  BY <1>2, <1>5, <2>2, <3>1 DEF EffectIsOwn
  <2> QED  BY <2>1, <2>2
<1>14. SeekingHoldsMemo(new, view)
  <2>1. \A o \in DOMAIN ls : /\ new[o].media = ls[o].media
                             /\ new[o].prefetched = ls[o].prefetched
                             /\ new[o].claimed = ls[o].claimed
    BY <1>3
  <2>2. CASE v.effect = l
    <3>1. v.media # NoMedia
      <4>1. ls[l].media \in Media  BY <1>1 DEF Load
      <4> QED  BY <1>6, <2>2, <4>1, MediaViewAssumption
    <3>2. v.found  BY <1>1, <1>2, <2>2 DEF SeekingHoldsMemo
    <3> QED  BY <1>5, <3>1, <3>2 DEF SeekingHoldsMemo
  <2>3. CASE v.effect # l
    BY <1>1, <1>2, <1>5, <2>1, <2>3 DEF SeekingHoldsMemo
  <2> QED  BY <2>2, <2>3
<1>15. KeyDecides(new, c, view, k)
  <2>1. \A m \in Media : c[m] # 0 => new[c[m]].keyed = ls[c[m]].keyed  BY <1>1, <1>3
  <2>2. \A o \in DOMAIN ls : new[o].url = "loading" => o # l /\ new[o] = ls[o]  BY <1>3
  <2> QED  BY <1>2, <1>3, <1>5, <2>1, <2>2 DEF KeyDecides
<1> QED
  BY <1>8, <1>9, <1>10, <1>11, <1>12, <1>13, <1>14, <1>15 DEF MediaIsSound

\* A prefetch that is cached fails, and is taken out of the cache.
LEMMA FailSound ==
    ASSUME NEW ls, NEW c, NEW v, NEW r, NEW k, MediaIsSound(ls, c, v, r, k),
           NEW l \in DOMAIN ls, ls[l].url = "loading", Waits(ls[l]),
           NEW left, left = [c EXCEPT ![ls[l].media] = 0],
           NEW new, new = WithUrl(ls, l, "failed")
    PROVE  MediaIsSound(new, left, v, r, k)
<1>1. /\ ls \in Seq(Load) /\ DOMAIN ls = 1 .. Len(ls) /\ Len(ls) \in Nat
      /\ \A o \in DOMAIN ls : ls[o] \in Load
      /\ c \in [Media -> 0 .. Len(ls)] /\ \A m \in Media : c[m] # 0 => c[m] \in DOMAIN ls
      /\ v.shown = 0 \/ v.shown = v.effect
      /\ v.effect # 0 => v.effect \in DOMAIN ls
      /\ v.memo # 0 => v.memo \in DOMAIN ls
  BY MediaFacts
<1>2. /\ \A o \in DOMAIN ls : LoadIsSound(ls[o])
      /\ CacheIsWaiting(ls, c) /\ OthersAreOwned(ls, v, r) /\ RevokingIsLeft(ls, v, r)
      /\ EffectIsOwn(ls, v) /\ SeekingHoldsMemo(ls, v) /\ KeyDecides(ls, c, v, k)
      /\ MediaTypes(ls, c, v, r, k)
  BY DEF MediaIsSound
<1>3. /\ new \in Seq(Load) /\ Len(new) = Len(ls) /\ DOMAIN new = DOMAIN ls
      /\ \A o \in DOMAIN ls : o # l => new[o] = ls[o]
      /\ new[l].media = ls[l].media /\ new[l].prefetched = ls[l].prefetched
      /\ new[l].keyed = ls[l].keyed /\ new[l].aborted = ls[l].aborted
      /\ new[l].claimed = ls[l].claimed /\ new[l].url = "failed"
  <2>1. OnlyUrl(ls, l, "failed", new)  BY <1>1, UrlChanged
  <2> QED  BY <2>1 DEF OnlyUrl
<1>4. ls[l].media \in Media /\ c[ls[l].media] = l
  BY <1>1, <1>2 DEF CacheIsWaiting, Load
<1>5. /\ left \in [Media -> 0 .. Len(ls)]
      /\ \A m \in Media : left[m] = IF m = ls[l].media THEN 0 ELSE c[m]
  BY <1>1, <1>4
<1>6. ~Waits(new[l])  BY <1>3 DEF Waits
<1>7. v.effect # l /\ v.shown # l /\ l \notin r
  <2>1. l # 0  BY <1>1
  <2>2. v.effect # l  BY <1>2, <2>1 DEF EffectIsOwn
  <2> QED  BY <1>1, <1>2, <2>1, <2>2 DEF RevokingIsLeft, Waits
<1>8. MediaTypes(new, left, v, r, k)  BY <1>2, <1>3, <1>5 DEF MediaTypes
<1>9. \A o \in DOMAIN new : LoadIsSound(new[o])
  <2>1. LoadIsSound(new[l])  BY <1>2, <1>3 DEF LoadIsSound
  <2> QED  BY <1>2, <1>3, <2>1
<1>10. CacheIsWaiting(new, left)
  <2>1. ASSUME NEW m \in Media, left[m] # 0
        PROVE  new[left[m]].media = m /\ Waits(new[left[m]])
    <3>1. m # ls[l].media /\ left[m] = c[m] /\ c[m] \in DOMAIN ls  BY <1>1, <1>5, <2>1
    <3>2. ls[c[m]].media = m /\ Waits(ls[c[m]])  BY <1>2, <2>1, <3>1 DEF CacheIsWaiting
    <3> QED  BY <1>3, <3>1, <3>2
  <2>2. ASSUME NEW o \in DOMAIN ls, Waits(new[o]) PROVE left[new[o].media] = o
    <3>1. o # l /\ new[o] = ls[o]  BY <1>3, <1>6, <2>2
    <3>2. c[ls[o].media] = o /\ ls[o].media \in Media
      BY <1>1, <1>2, <2>2, <3>1 DEF CacheIsWaiting, Load
    <3> QED  BY <1>4, <1>5, <3>1, <3>2
  <2> QED  BY <1>3, <2>1, <2>2 DEF CacheIsWaiting
<1>11. OthersAreOwned(new, v, r)
  BY <1>2, <1>3 DEF OthersAreOwned
<1>12. RevokingIsLeft(new, v, r)
  <2>1. \A o \in r : o \in DOMAIN ls /\ o # l  BY <1>2, <1>7 DEF MediaTypes
  <2> QED  BY <1>2, <1>3, <2>1 DEF RevokingIsLeft
<1>13. EffectIsOwn(new, v)
  <2>1. v.effect # 0 => new[v.effect] = ls[v.effect]  BY <1>1, <1>3, <1>7
  <2>2. v.shown # 0 => new[v.shown] = ls[v.shown]  BY <1>1, <2>1
  <2> QED  BY <1>2, <2>1, <2>2 DEF EffectIsOwn
<1>14. SeekingHoldsMemo(new, v)
  <2>1. \A o \in DOMAIN ls : /\ new[o].media = ls[o].media
                             /\ new[o].prefetched = ls[o].prefetched
                             /\ new[o].claimed = ls[o].claimed
    BY <1>3
  <2> QED  BY <1>1, <1>2, <2>1 DEF SeekingHoldsMemo
<1>15. KeyDecides(new, left, v, k)
  <2>1. \A m \in Media : left[m] # 0 => c[m] # 0 /\ new[left[m]].keyed = ls[c[m]].keyed
    BY <1>1, <1>3, <1>5
  <2>2. \A o \in DOMAIN ls : new[o].url = "loading" => o # l /\ new[o] = ls[o]  BY <1>3
  <2> QED  BY <1>2, <1>3, <2>1, <2>2 DEF KeyDecides
<1> QED
  BY <1>8, <1>9, <1>10, <1>11, <1>12, <1>13, <1>14, <1>15 DEF MediaIsSound

-----------------------------------------------------------------------------
\* Which prefetches load, after each of these changes.
LEMMA LoadingFinite ==
    ASSUME NEW ls \in Seq(Load)
    PROVE  IsFiniteSet(LoadingIn(ls)) /\ Cardinality(LoadingIn(ls)) \in Nat
<1>1. DOMAIN ls = 1 .. Len(ls) /\ Len(ls) \in Nat  OBVIOUS
<1>2. IsFiniteSet(1 .. Len(ls))  BY <1>1, FS_Interval
<1>3. LoadingIn(ls) \in SUBSET (1 .. Len(ls))  BY <1>1 DEF LoadingIn
<1>4. IsFiniteSet(LoadingIn(ls))  BY <1>2, <1>3, FS_Subset
<1> QED  BY <1>4, FS_CardinalityType

LEMMA LoadingCancelled ==
    ASSUME NEW ls \in Seq(Load), NEW c, NEW gone
    PROVE  LoadingIn(CancelledIn(ls, c, gone)) = LoadingIn(ls)
<1> DEFINE new == CancelledIn(ls, c, gone)
<1>1. DOMAIN new = DOMAIN ls  BY DEF CancelledIn
<1>2. ASSUME NEW l \in DOMAIN ls
      PROVE  /\ new[l].prefetched = ls[l].prefetched
             /\ new[l].url = "loading" <=> ls[l].url = "loading"
  <2>1. ls[l] \in Load  OBVIOUS
  <2>2. \/ new[l] = ls[l]
        \/ new[l] = [ls[l] EXCEPT !.aborted = TRUE,
                                  !.url = IF ls[l].url = "live" THEN "revoked" ELSE ls[l].url]
    BY DEF CancelledIn
  <2> QED  BY <2>1, <2>2 DEF Load
<1> HIDE DEF new
<1>3. LoadingIn(new) = LoadingIn(ls)  BY <1>1, <1>2 DEF LoadingIn
<1> QED  BY <1>3 DEF new

LEMMA LoadingEnded ==
    ASSUME NEW ls \in Seq(Load), NEW l \in DOMAIN ls, NEW url \in {"live", "revoked", "failed"},
           NEW new, new = WithUrl(ls, l, url)
    PROVE  LoadingIn(new) = LoadingIn(ls) \ {l}
<1>1. OnlyUrl(ls, l, url, new)
  <2>1. url \in {"loading", "live", "revoked", "failed"}  OBVIOUS
  <2> QED  BY <2>1, UrlChanged
<1> QED  BY <1>1 DEF OnlyUrl, LoadingIn

LEMMA LoadingLeft ==
    ASSUME NEW ls, NEW c, NEW v, NEW r, NEW k, MediaIsSound(ls, c, v, r, k)
    PROVE  LoadingIn(Revoked(ls, v.shown)) = LoadingIn(ls)
<1>1. CASE v.shown = 0  BY <1>1 DEF Revoked
<1>2. CASE v.shown # 0
  <2> DEFINE l == v.shown
  <2>1. ls \in Seq(Load) /\ l \in DOMAIN ls  BY <1>2, MediaFacts
  <2>2. ls[l].url # "loading"  BY <1>2 DEF MediaIsSound, EffectIsOwn
  <2>3. Revoked(ls, v.shown) = WithUrl(ls, l, "revoked")  BY <1>2 DEF Revoked, WithUrl
  <2>4. LoadingIn(Revoked(ls, v.shown)) = LoadingIn(ls) \ {l}
    BY <2>1, <2>3, LoadingEnded
  <2>5. l \notin LoadingIn(ls)  BY <2>2 DEF LoadingIn
  <2> QED  BY <2>4, <2>5
<1> QED  BY <1>1, <1>2

LEMMA LoadingBegun ==
    ASSUME NEW ls \in Seq(Load), NEW load \in Load, load.url = "loading"
    PROVE  /\ LoadingIn(Append(ls, load)) =
                  IF load.prefetched THEN LoadingIn(ls) \cup {Len(ls) + 1} ELSE LoadingIn(ls)
           /\ Len(ls) + 1 \notin LoadingIn(ls)
<1> DEFINE new == Append(ls, load)
<1>1. /\ DOMAIN new = DOMAIN ls \cup {Len(ls) + 1} /\ Len(ls) + 1 \notin DOMAIN ls
      /\ new[Len(ls) + 1] = load /\ \A o \in DOMAIN ls : new[o] = ls[o]
  OBVIOUS
<1>2. load.prefetched \in BOOLEAN  BY DEF Load
<1> HIDE DEF new
<1>3. /\ LoadingIn(new) = IF load.prefetched THEN LoadingIn(ls) \cup {Len(ls) + 1}
                          ELSE LoadingIn(ls)
      /\ Len(ls) + 1 \notin LoadingIn(ls)
  BY <1>1, <1>2 DEF LoadingIn
<1> QED  BY <1>3 DEF new

LEMMA LoadingClaimed ==
    ASSUME NEW ls \in Seq(Load), NEW c, NEW m, NEW memo \in DOMAIN ls
    PROVE  LoadingIn(ClaimedIn(ls, c, m, memo)) = LoadingIn(ls)
<1> DEFINE new == ClaimedIn(ls, c, m, memo)
           x   == [ls[memo] EXCEPT !.claimed = TRUE]
<1>1. CASE c[m] # memo  BY <1>1 DEF ClaimedIn
<1>2. CASE c[m] = memo
  <2>1. new = [ls EXCEPT ![memo] = x]  BY <1>2 DEF ClaimedIn
  <2>2. x.prefetched = ls[memo].prefetched /\ x.url = ls[memo].url
    <3>1. ls[memo] \in Load  OBVIOUS
    <3> QED  BY <3>1 DEF Load
  <2> HIDE DEF x
  <2>3. DOMAIN new = DOMAIN ls /\ new[memo] = x /\ \A o \in DOMAIN ls : o # memo => new[o] = ls[o]
    BY <2>1
  <2> HIDE DEF new
  <2>4. LoadingIn(new) = LoadingIn(ls)  BY <2>2, <2>3 DEF LoadingIn
  <2> QED  BY <2>4 DEF new
<1> QED  BY <1>1, <1>2

-----------------------------------------------------------------------------
LEMMA CancelledNow ==
    ASSUME NEW gone
    PROVE  Cancelled(gone) = CancelledIn(loads, prefetchCache, gone)
  BY DEF Cancelled, CancelledIn

LEMMA HeldFinite ==
    ASSUME NEW c
    PROVE  /\ IsFiniteSet(HeldIn(c)) /\ Cardinality(HeldIn(c)) \in Nat
           /\ BytesOf(HeldIn(c)) \in Nat
<1>1. HeldIn(c) \in SUBSET Media  BY DEF HeldIn
<1>2. IsFiniteSet(Media) /\ \A m \in Media : SizeOf[m] \in Nat  BY MediaViewAssumption
<1>3. IsFiniteSet(HeldIn(c))  BY <1>1, <1>2, FS_Subset
<1>4. BytesOf(HeldIn(c)) \in Nat  BY <1>1, <1>2, SumShrinks DEF BytesOf
<1> QED  BY <1>3, <1>4, FS_CardinalityType

\* A cache that holds less keeps within the limits.
LEMMA RoomKept ==
    ASSUME NEW c, NEW left, CacheHasRoom(c), HeldIn(left) \subseteq HeldIn(c)
    PROVE  CacheHasRoom(left)
<1>1. /\ IsFiniteSet(HeldIn(c)) /\ Cardinality(HeldIn(c)) \in Nat /\ BytesOf(HeldIn(c)) \in Nat
      /\ Cardinality(HeldIn(left)) \in Nat /\ BytesOf(HeldIn(left)) \in Nat
  BY HeldFinite
<1>2. HeldIn(left) \in SUBSET HeldIn(c)  OBVIOUS
<1>3. Cardinality(HeldIn(left)) <= Cardinality(HeldIn(c))  BY <1>1, <1>2, FS_Subset
<1>4. BytesOf(HeldIn(left)) <= BytesOf(HeldIn(c))
  <2>1. \A m \in HeldIn(c) : SizeOf[m] \in Nat  BY MediaViewAssumption DEF HeldIn
  <2> QED  BY <1>1, <1>2, <2>1, SumShrinks DEF BytesOf
<1>5. MAX_ITEMS \in Nat /\ MAX_BYTES \in Nat  BY MediaViewAssumption
<1> QED  BY <1>1, <1>3, <1>4, <1>5 DEF CacheHasRoom

\* One that had room for a medium keeps within them with it.
LEMMA RoomTaken ==
    ASSUME NEW c \in [Media -> Nat], NEW m \in Media, c[m] = 0, Fits(c, m),
           NEW n \in Nat, n # 0
    PROVE  CacheHasRoom([c EXCEPT ![m] = n])
<1> DEFINE held == HeldIn(c)
           more == HeldIn([c EXCEPT ![m] = n])
<1>1. more = held \cup {m} /\ m \notin held  BY DEF HeldIn
<1>2. Cardinality(held) < MAX_ITEMS /\ BytesOf(held) + SizeOf[m] <= MAX_BYTES
  BY DEF Fits, HeldIn
<1>3. IsFiniteSet(held) /\ Cardinality(held) \in Nat /\ BytesOf(held) \in Nat  BY HeldFinite
<1>4. held \subseteq Media  BY DEF HeldIn
<1> HIDE DEF held, more
<1>5. Cardinality(more) = Cardinality(held) + 1  BY <1>1, <1>3, FS_AddElement
<1>6. BytesOf(more) = SizeOf[m] + BytesOf(held)
  <2>1. \A o \in held \cup {m} : SizeOf[o] \in Nat  BY <1>4, MediaViewAssumption
  <2> QED  BY <1>1, <1>3, <2>1, SumAdds DEF BytesOf
<1>7. MAX_ITEMS \in Nat /\ MAX_BYTES \in Nat /\ SizeOf[m] \in Nat  BY MediaViewAssumption
<1>8. Cardinality(more) <= MAX_ITEMS /\ BytesOf(more) <= MAX_BYTES
  BY <1>2, <1>3, <1>5, <1>6, <1>7
<1> QED  BY <1>8 DEF CacheHasRoom, more

\* A step that lets no prefetch begin, and caches nothing.
LEMMA NothingBegun ==
    ASSUME MediaInv, LoadingIn(loads') = LoadingIn(loads), active' = active,
           HeldIn(prefetchCache') \subseteq HeldIn(prefetchCache),
           MediaIsSound(loads', prefetchCache', viewing', revoking', keyThere')
    PROVE  MediaInv'
<1>1. CounterIsRight(loads', active')  BY DEF MediaInv, CounterIsRight
<1>2. CacheHasRoom(prefetchCache')  BY RoomKept DEF MediaInv
<1> QED  BY <1>1, <1>2 DEF MediaInv

LEMMA HeldWithout ==
    ASSUME NEW c, NEW gone \in SUBSET Media
    PROVE  HeldIn(Without(c, gone)) \subseteq HeldIn(c)
  BY DEF HeldIn, Without

LEMMA EvictedReady ==
    ASSUME NEW c, NEW m
    PROVE  EvictedFor(c, m) \subseteq ReadyIn(c)
  BY DEF EvictedFor, UpTo

LEMMA PrefetchKept ==
    ASSUME MediaInv, NEW m \in Media, Prefetch(m)
    PROVE  MediaInv'
<1> DEFINE Kept(gone)    == Without(prefetchCache, gone)
           Starts(gone)  == Kept(gone)[m] = 0 /\ active < MAX_PREFETCHES
           Evicted(gone) == IF Starts(gone) THEN EvictedFor(Kept(gone), m) ELSE {}
           Room(gone)    == Without(Kept(gone), Evicted(gone))
           Begins(gone)  == Starts(gone) /\ Fits(Room(gone), m)
<1>1. PICK gone \in Expirable :
          /\ loads' = IF Begins(gone)
                      THEN Append(Cancelled(gone \cup Evicted(gone)), NewLoad(m, TRUE))
                      ELSE Cancelled(gone \cup Evicted(gone))
          /\ prefetchCache' = IF Begins(gone)
                              THEN [Room(gone) EXCEPT ![m] = Len(loads) + 1] ELSE Room(gone)
          /\ active' = IF Begins(gone) THEN active + 1 ELSE active
          /\ UNCHANGED <<viewing, revoking, keyThere>>
  BY DEF Prefetch
<1> DEFINE all  == gone \cup Evicted(gone)
           left == Without(prefetchCache, all)
           ls   == CancelledIn(loads, prefetchCache, all)
<1>2. MediaIsSound(loads, prefetchCache, viewing, revoking, keyThere)  BY DEF MediaInv
<1>3. /\ loads \in Seq(Load) /\ Len(loads) \in Nat
      /\ prefetchCache \in [Media -> 0 .. Len(loads)]
      /\ keyThere \in BOOLEAN
  BY <1>2, MediaFacts DEF MediaIsSound, MediaTypes
<1>4. gone \in SUBSET ReadyIn(prefetchCache)  BY DEF Expirable
<1>5. /\ gone \in SUBSET Media /\ Evicted(gone) \in SUBSET Media
      /\ \A o \in gone \cup Evicted(gone) :
             prefetchCache[o] # 0 => loads[prefetchCache[o]].url # "loading"
  <2>1. gone \in SUBSET Media
        /\ \A o \in gone : prefetchCache[o] # 0 /\ loads[prefetchCache[o]].url = "live"
    BY <1>4 DEF ReadyIn
  <2>2. Evicted(gone) \in SUBSET ReadyIn(Kept(gone))  BY EvictedReady
  <2>3. Evicted(gone) \in SUBSET Media
        /\ \A o \in Evicted(gone) : Kept(gone)[o] # 0 /\ loads[Kept(gone)[o]].url = "live"
    BY <2>2 DEF ReadyIn
  <2>4. \A o \in Media : Kept(gone)[o] # 0 => Kept(gone)[o] = prefetchCache[o]
    BY DEF Without
  <2> QED  BY <2>1, <2>3, <2>4
<1>6. Room(gone) = left
  BY <1>3, <1>5 DEF Without
<1>7. all \in SUBSET Media  BY <1>5
<1>8. Cancelled(all) = ls  BY CancelledNow
<1> HIDE DEF all, left, ls, Evicted, Room
<1>9. MediaIsSound(ls, left, viewing, revoking, keyThere)
  BY <1>2, <1>3, <1>5, <1>7, CancelSound DEF all, left, ls
<1>10. LoadingIn(ls) = LoadingIn(loads) /\ HeldIn(left) \subseteq HeldIn(prefetchCache)
  BY <1>3, <1>7, LoadingCancelled, HeldWithout DEF ls, left
<1>11. CASE ~Begins(gone)
  <2>1. /\ loads' = ls /\ prefetchCache' = left /\ active' = active
        /\ viewing' = viewing /\ revoking' = revoking /\ keyThere' = keyThere
    BY <1>1, <1>6, <1>8, <1>11 DEF all
  <2> QED  BY <1>9, <1>10, <2>1, NothingBegun
<1>12. CASE Begins(gone)
  <2> DEFINE load == NewLoad(m, TRUE)
  <2>1. /\ loads' = Append(ls, load) /\ prefetchCache' = [left EXCEPT ![m] = Len(loads) + 1]
        /\ active' = active + 1
        /\ viewing' = viewing /\ revoking' = revoking /\ keyThere' = keyThere
    BY <1>1, <1>6, <1>8, <1>12 DEF all
  <2>2. /\ load \in Load /\ load.url = "loading" /\ ~load.aborted /\ ~load.claimed
        /\ load.keyed = keyThere /\ load.prefetched /\ load.media = m
    BY <1>3 DEF NewLoad, Load
  <2> HIDE DEF load
  <2>3. /\ ls \in Seq(Load) /\ Len(ls) \in Nat /\ left \in [Media -> 0 .. Len(ls)]
        /\ Len(ls) = Len(loads)
    <3>1. ls \in Seq(Load) /\ Len(ls) \in Nat /\ left \in [Media -> 0 .. Len(ls)]
          /\ DOMAIN ls = 1 .. Len(ls)
      BY <1>9, MediaFacts
    <3>2. DOMAIN ls = DOMAIN loads  BY DEF ls, CancelledIn
    <3>3. DOMAIN loads = 1 .. Len(loads)  BY <1>3
    <3>4. 1 .. Len(ls) = 1 .. Len(loads)  BY <3>1, <3>2, <3>3
    <3>5. Len(ls) <= Len(loads)
      <4>1. Len(ls) # 0 => Len(ls) \in 1 .. Len(ls)  BY <3>1
      <4> QED  BY <1>3, <3>1, <3>4, <4>1
    <3>6. Len(loads) <= Len(ls)
      <4>1. Len(loads) # 0 => Len(loads) \in 1 .. Len(loads)  BY <1>3
      <4> QED  BY <1>3, <3>1, <3>4, <4>1
    <3> QED  BY <1>3, <3>1, <3>5, <3>6
  <2>4. left[m] = 0 /\ active < MAX_PREFETCHES /\ Fits(left, m)
    <3>1. Kept(gone)[m] = 0 /\ active < MAX_PREFETCHES /\ Fits(Room(gone), m)  BY <1>12
    <3>2. left[m] = 0  BY <1>3, <3>1 DEF left, all, Without
    <3> QED  BY <1>6, <3>1, <3>2
  <2>5. BeginsPrefetch(ls, left, load, prefetchCache')
    BY <2>1, <2>2, <2>3, <2>4 DEF BeginsPrefetch
  <2>6. MediaIsSound(loads', prefetchCache', viewing', revoking', keyThere')
    BY <1>9, <2>1, <2>2, <2>5, BeginSound
  <2>7. CounterIsRight(loads', active')
    <3>1. LoadingIn(loads') = LoadingIn(loads) \cup {Len(ls) + 1}
          /\ Len(ls) + 1 \notin LoadingIn(loads)
      BY <1>10, <2>1, <2>2, <2>3, LoadingBegun
    <3>2. IsFiniteSet(LoadingIn(loads)) /\ Cardinality(LoadingIn(loads)) \in Nat
      BY <1>3, LoadingFinite
    <3>3. Cardinality(LoadingIn(loads')) = Cardinality(LoadingIn(loads)) + 1
      BY <3>1, <3>2, FS_AddElement
    <3>4. active = Cardinality(LoadingIn(loads))  BY DEF MediaInv, CounterIsRight
    <3>5. MAX_PREFETCHES \in Nat  BY MediaViewAssumption
    <3> QED  BY <2>1, <2>4, <3>2, <3>3, <3>4, <3>5 DEF CounterIsRight
  <2>8. CacheHasRoom(prefetchCache')
    <3>1. left \in [Media -> Nat] /\ Len(loads) + 1 \in Nat /\ Len(loads) + 1 # 0
      BY <1>3, <2>3
    <3> QED  BY <2>1, <2>4, <3>1, RoomTaken
  <2> QED  BY <2>6, <2>7, <2>8 DEF MediaInv
<1> QED  BY <1>11, <1>12

\* The effect, after a cleanup.
LEMMA EffectKept ==
    ASSUME NEW ls, NEW c, NEW v,
           MediaIsSound(ls, c, v, revoking, keyThere), keyThere,
           v.effect = 0, v.shown = 0,
           NEW view \in Viewer, view.media \in Media, view.memo = v.memo,
           view.retryKey = 0 /\ view.memo # 0 =>
               /\ ls[view.memo].media = view.media
               /\ ls[view.memo].prefetched /\ ~ls[view.memo].claimed,
           Effect(view, c, ls), revoking' = revoking, keyThere' = keyThere
    PROVE  /\ MediaIsSound(loads', prefetchCache', viewing', revoking', keyThere')
           /\ LoadingIn(loads') = LoadingIn(ls)
           /\ HeldIn(prefetchCache') \subseteq HeldIn(c)
<1> DEFINE m     == view.media
           memo  == IF view.retryKey = 0 THEN view.memo ELSE 0
           fresh == [view EXCEPT !.found = TRUE, !.shown = 0, !.state = "loading"]
<1>1. /\ ls \in Seq(Load) /\ Len(ls) \in Nat /\ DOMAIN ls = 1 .. Len(ls)
      /\ c \in [Media -> 0 .. Len(ls)]
      /\ v.memo \in Nat
      /\ v.memo # 0 => v.memo \in DOMAIN ls
  BY MediaFacts
<1>2. /\ fresh \in Viewer /\ fresh.media = m /\ fresh.found /\ fresh.shown = 0
      /\ fresh.memo = view.memo /\ fresh.effect = view.effect
  BY DEF Viewer
<1>3. view.memo <= Len(ls)  BY DEF MediaIsSound, MediaTypes
<1>4. CASE memo # 0
  <2>1. /\ memo = view.memo /\ memo \in DOMAIN ls /\ memo \in Nat
        /\ ls[memo].media = m /\ ls[memo].prefetched /\ ~ls[memo].claimed
        /\ ls[memo] \in Load
    BY <1>1, <1>4
  <2>2. /\ loads' = ClaimedIn(ls, c, m, memo)
        /\ prefetchCache' = ReleasedFrom(c, m, memo)
        /\ viewing' = IF ls[memo].url = "loading" THEN [fresh EXCEPT !.effect = memo]
                      ELSE Takes(fresh, memo, ls[memo])
    BY <1>4 DEF Effect, ClaimedIn, ReleasedFrom
  <2> HIDE DEF memo, fresh, m
  <2>3. /\ viewing' \in Viewer /\ viewing'.media = m /\ viewing'.found
        /\ viewing'.memo = view.memo /\ TakesPromise(ls[memo], memo, viewing')
    BY <1>2, <2>1, <2>2 DEF Takes, TakesPromise, Viewer, Load
  <2>4. viewing'.memo <= Len(ls) /\ m \in Media  BY <1>3, <2>3 DEF m
  <2>5. MediaIsSound(loads', prefetchCache', viewing', revoking, keyThere)
    BY <2>1, <2>2, <2>3, <2>4, ClaimSound
  <2>6. LoadingIn(loads') = LoadingIn(ls)  BY <1>1, <2>1, <2>2, LoadingClaimed
  <2>7. HeldIn(prefetchCache') \subseteq HeldIn(c)
    BY <1>1, <2>2, <2>4 DEF ReleasedFrom, HeldIn
  <2> QED  BY <2>5, <2>6, <2>7
<1>5. CASE memo = 0
  <2> DEFINE load == NewLoad(m, FALSE)
  <2>1. /\ loads' = Append(ls, load) /\ viewing' = [fresh EXCEPT !.effect = Len(ls) + 1]
        /\ prefetchCache' = c
    BY <1>5 DEF Effect
  <2>2. keyThere \in BOOLEAN  BY DEF MediaIsSound, MediaTypes
  <2>3. /\ load \in Load /\ load.url = "loading" /\ ~load.aborted /\ ~load.claimed
        /\ load.keyed = keyThere /\ ~load.prefetched /\ load.media = m
    BY <2>2 DEF NewLoad, Load
  <2> HIDE DEF load, memo, fresh, m
  <2>4. BeginsOwn(ls, v, load, viewing')
    <3>1. Len(ls) + 1 \in Nat  BY <1>1
    <3>2. /\ viewing' \in Viewer /\ viewing'.media = m /\ viewing'.memo = view.memo
          /\ viewing'.found /\ viewing'.effect = Len(ls) + 1 /\ viewing'.shown = 0
      BY <1>2, <2>1, <3>1 DEF Viewer
    <3> QED  BY <2>3, <3>2 DEF BeginsOwn
  <2>5. MediaIsSound(loads', prefetchCache', viewing', revoking, keyThere)
    BY <2>1, <2>3, <2>4, BeginSound
  <2>6. LoadingIn(loads') = LoadingIn(ls)  BY <1>1, <2>1, <2>3, LoadingBegun
  <2> QED  BY <2>1, <2>5, <2>6
<1> QED  BY <1>4, <1>5

LEMMA OpenKept ==
    ASSUME MediaInv, NEW m \in Media, Open(m)
    PROVE  MediaInv'
<1>1. MediaIsSound(loads, prefetchCache, viewing, revoking, keyThere)  BY DEF MediaInv
<1>2. PICK gone \in ExpiredOf(m) :
          /\ loads' = Cancelled(gone)
          /\ prefetchCache' = Without(prefetchCache, gone)
          /\ viewing' = [Closed EXCEPT !.media = m, !.memo = Without(prefetchCache, gone)[m]]
  BY DEF Open
<1>3. /\ viewing.media = NoMedia /\ keyThere /\ active' = active
      /\ revoking' = revoking /\ keyThere' = keyThere
  BY DEF Open
<1>4. /\ loads \in Seq(Load) /\ viewing = Closed /\ gone \in SUBSET Media
      /\ \A o \in gone : loads[prefetchCache[o]].url # "loading"
  BY <1>1, <1>3, MediaFacts DEF MediaIsSound, SeekingHoldsMemo, ReadyIn, ExpiredOf
<1>5. MediaIsSound(loads', prefetchCache', viewing, revoking, keyThere)
  <2>1. keyThere \in BOOLEAN  BY <1>1 DEF MediaIsSound, MediaTypes
  <2> QED  BY <1>1, <1>2, <1>3, <1>4, <2>1, CancelSound, CancelledNow
<1>6. /\ loads' \in Seq(Load) /\ Len(loads') \in Nat
      /\ prefetchCache' \in [Media -> 0 .. Len(loads')]
      /\ \A o \in Media : prefetchCache'[o] # 0 => prefetchCache'[o] \in DOMAIN loads'
  BY <1>5, MediaFacts
<1>7. prefetchCache'[m] # 0 =>
          /\ loads'[prefetchCache'[m]].media = m
          /\ loads'[prefetchCache'[m]].prefetched /\ ~loads'[prefetchCache'[m]].claimed
  BY <1>5 DEF MediaIsSound, CacheIsWaiting, Waits
<1>8. /\ viewing' \in Viewer /\ viewing'.media = m /\ viewing'.memo = prefetchCache'[m]
      /\ viewing'.effect = 0 /\ viewing'.shown = 0 /\ viewing'.retryKey = 0
      /\ viewing'.memo \in Nat /\ viewing'.memo <= Len(loads')
  <2>1. viewing' = [Closed EXCEPT !.media = m, !.memo = prefetchCache'[m]]  BY <1>2
  <2>2. prefetchCache'[m] \in Nat /\ prefetchCache'[m] <= Len(loads')  BY <1>6
  <2>3. Closed \in Viewer /\ Closed.effect = 0 /\ Closed.shown = 0 /\ Closed.retryKey = 0
    BY DEF Closed, Viewer
  <2>4. /\ viewing' \in Viewer /\ viewing'.media = m /\ viewing'.memo = prefetchCache'[m]
        /\ viewing'.effect = 0 /\ viewing'.shown = 0 /\ viewing'.retryKey = 0
    BY <2>1, <2>2, <2>3 DEF Viewer
  <2> QED  BY <2>2, <2>4
<1>9. EmptyView(loads', viewing', keyThere)
  <2>1. m # NoMedia  BY MediaViewAssumption
  <2>2. SeekingHoldsMemo(loads', viewing')
    BY <1>7, <1>8, <2>1 DEF SeekingHoldsMemo
  <2> QED  BY <1>3, <1>8, <2>2 DEF EmptyView
<1>10. viewing.shown = 0  BY <1>4 DEF Closed
<1>11. MediaIsSound(loads', prefetchCache', viewing', revoking', keyThere')
  BY <1>3, <1>5, <1>9, <1>10, ViewSound
<1>12. LoadingIn(loads') = LoadingIn(loads)
  BY <1>2, <1>4, CancelledNow, LoadingCancelled
<1>13. HeldIn(prefetchCache') \subseteq HeldIn(prefetchCache)  BY <1>2, <1>4, HeldWithout
<1> QED  BY <1>3, <1>11, <1>12, <1>13, NothingBegun

LEMMA EntryFoundKept ==
    ASSUME MediaInv, EntryFound
    PROVE  MediaInv'
<1>1. MediaIsSound(loads, prefetchCache, viewing, revoking, keyThere)  BY DEF MediaInv
<1>2. /\ viewing.media # NoMedia /\ ~viewing.found /\ Effect(viewing, prefetchCache, loads)
      /\ active' = active /\ revoking' = revoking /\ keyThere' = keyThere
  BY DEF EntryFound
<1>3. viewing \in Viewer /\ viewing.media \in Media
  <2>1. viewing \in Viewer  BY <1>1, MediaFacts
  <2> QED  BY <1>2, <2>1 DEF Viewer
<1>4. keyThere  BY <1>1, <1>2 DEF MediaIsSound, KeyDecides
<1>5. /\ viewing.effect = 0 /\ viewing.shown = 0
      /\ viewing.memo # 0 => /\ loads[viewing.memo].media = viewing.media
                             /\ loads[viewing.memo].prefetched /\ ~loads[viewing.memo].claimed
  BY <1>1, <1>2 DEF MediaIsSound, SeekingHoldsMemo, EffectIsOwn
<1>6. /\ MediaIsSound(loads', prefetchCache', viewing', revoking', keyThere')
      /\ LoadingIn(loads') = LoadingIn(loads)
      /\ HeldIn(prefetchCache') \subseteq HeldIn(prefetchCache)
  BY <1>1, <1>2, <1>3, <1>4, <1>5, EffectKept
<1> QED  BY <1>2, <1>6, NothingBegun

\* To another entry, or the same once more, when the loads before are in from and
\* c is cached.
LEMMA EffectAgain ==
    ASSUME MediaInv, viewing.found, NEW from, NEW c,
           MediaIsSound(from, c, viewing, revoking, keyThere),
           LoadingIn(from) = LoadingIn(loads), HeldIn(c) \subseteq HeldIn(prefetchCache),
           NEW view \in Viewer, view.media \in Media, view.found,
           view.memo <= Len(from),
           view.retryKey = 0 => view.memo = 0 \/ view.memo = c[view.media],
           Effect(view, c, Revoked(from, viewing.shown)),
           active' = active, revoking' = revoking, keyThere' = keyThere
    PROVE  MediaInv'
<1> DEFINE empty == [view EXCEPT !.effect = 0, !.shown = 0]
           ls    == Revoked(from, viewing.shown)
<1>2. /\ empty \in Viewer /\ empty.effect = 0 /\ empty.shown = 0 /\ empty.found
      /\ empty.media = view.media /\ empty.memo = view.memo
  BY DEF Viewer
<1>3. view.media # NoMedia  BY MediaViewAssumption
<1>4. viewing.media # NoMedia  BY DEF MediaIsSound, SeekingHoldsMemo, Closed
<1>5. keyThere  BY <1>4 DEF MediaIsSound, KeyDecides
<1> HIDE DEF empty
<1>6. EmptyView(from, empty, keyThere)
  BY <1>2, <1>3, <1>5 DEF EmptyView, SeekingHoldsMemo
<1>7. MediaIsSound(ls, c, empty, revoking, keyThere)
  BY <1>6, LeaveSound
<1>8. view.retryKey = 0 /\ view.memo # 0 =>
          /\ ls[view.memo].media = view.media
          /\ ls[view.memo].prefetched /\ ~ls[view.memo].claimed
  BY <1>7 DEF MediaIsSound, CacheIsWaiting, Waits
<1>9. LoadingIn(ls) = LoadingIn(loads)  BY LoadingLeft
<1> HIDE DEF ls
<1>10. Effect(view, c, ls)  BY DEF ls
<1>11. /\ MediaIsSound(loads', prefetchCache', viewing', revoking', keyThere')
       /\ LoadingIn(loads') = LoadingIn(ls)
       /\ HeldIn(prefetchCache') \subseteq HeldIn(c)
  BY <1>2, <1>5, <1>7, <1>8, <1>10, EffectKept
<1> QED  BY <1>9, <1>11, NothingBegun

LEMMA SwitchKept ==
    ASSUME MediaInv, NEW m \in Media, Switch(m)
    PROVE  MediaInv'
<1>1. MediaIsSound(loads, prefetchCache, viewing, revoking, keyThere)  BY DEF MediaInv
<1>2. PICK gone \in ExpiredOf(m) :
          Effect([viewing EXCEPT !.media = m, !.memo = Without(prefetchCache, gone)[m]],
                 Without(prefetchCache, gone), Revoked(Cancelled(gone), viewing.shown))
  BY DEF Switch
<1>3. /\ viewing.found
      /\ active' = active /\ revoking' = revoking /\ keyThere' = keyThere
  BY DEF Switch
<1> DEFINE from == Cancelled(gone)
           left == Without(prefetchCache, gone)
           view == [viewing EXCEPT !.media = m, !.memo = left[m]]
<1>4. /\ gone \in SUBSET Media /\ loads \in Seq(Load)
      /\ \A o \in gone : loads[prefetchCache[o]].url # "loading"
  BY <1>1, MediaFacts DEF ReadyIn, ExpiredOf
<1>5. MediaIsSound(from, left, viewing, revoking, keyThere)
  <2>1. keyThere \in BOOLEAN  BY <1>1 DEF MediaIsSound, MediaTypes
  <2> QED  BY <1>1, <1>4, <2>1, CancelSound, CancelledNow
<1>6. LoadingIn(from) = LoadingIn(loads)  BY <1>4, CancelledNow, LoadingCancelled
<1>7. HeldIn(left) \subseteq HeldIn(prefetchCache)  BY <1>4, HeldWithout
<1>8. Effect(view, left, Revoked(from, viewing.shown))  BY <1>2
<1> HIDE DEF from, left
<1>9. viewing \in Viewer /\ left[m] \in Nat /\ left[m] <= Len(from)
  BY <1>5, MediaFacts
<1>10. /\ view \in Viewer /\ view.media = m /\ view.memo = left[m]
       /\ view.found = viewing.found
  BY <1>9 DEF Viewer
<1> HIDE DEF view
<1> QED  BY <1>3, <1>5, <1>6, <1>7, <1>8, <1>9, <1>10, EffectAgain

LEMMA RetryKept ==
    ASSUME MediaInv, Retry
    PROVE  MediaInv'
<1>1. MediaIsSound(loads, prefetchCache, viewing, revoking, keyThere)  BY DEF MediaInv
<1> DEFINE view == [viewing EXCEPT !.retryKey = 1]
<1>2. /\ viewing.found /\ Effect(view, prefetchCache, Revoked(loads, viewing.shown))
      /\ active' = active /\ revoking' = revoking /\ keyThere' = keyThere
  BY DEF Retry
<1>3. viewing \in Viewer /\ viewing.memo <= Len(loads) /\ viewing.media # NoMedia
  BY <1>1, <1>2 DEF MediaIsSound, MediaTypes, SeekingHoldsMemo, Closed
<1>4. /\ view \in Viewer /\ view.media = viewing.media /\ view.memo = viewing.memo
      /\ view.found = viewing.found /\ view.retryKey = 1 /\ view.media \in Media
  BY <1>3 DEF Viewer
<1> HIDE DEF view
<1>5. view.retryKey = 0 => view.memo = 0 \/ view.memo = prefetchCache[view.media]
  BY <1>4
<1>6. view.memo <= Len(loads) /\ view.found  BY <1>2, <1>3, <1>4
<1> QED  BY <1>1, <1>2, <1>4, <1>5, <1>6, EffectAgain

LEMMA CloseKept ==
    ASSUME MediaInv, Close
    PROVE  MediaInv'
<1>1. MediaIsSound(loads, prefetchCache, viewing, revoking, keyThere)  BY DEF MediaInv
<1>2. /\ loads' = Revoked(loads, viewing.shown) /\ viewing' = Closed
      /\ UNCHANGED <<prefetchCache, active, revoking, keyThere>>
  BY DEF Close
<1>3. EmptyView(loads, Closed, keyThere)
  <2>1. Len(loads) \in Nat  BY <1>1, MediaFacts
  <2>2. Closed \in Viewer /\ Closed.memo = 0 /\ Closed.effect = 0 /\ Closed.shown = 0
        /\ Closed.retryKey = 0 /\ Closed.media = NoMedia
    BY DEF Closed, Viewer
  <2> QED  BY <2>1, <2>2 DEF EmptyView, SeekingHoldsMemo
<1>4. MediaIsSound(loads', prefetchCache', viewing', revoking', keyThere')
  BY <1>1, <1>2, <1>3, LeaveSound
<1>5. LoadingIn(loads') = LoadingIn(loads)  BY <1>1, <1>2, LoadingLeft
<1> QED  BY <1>2, <1>4, <1>5, NothingBegun

LEMMA LockKept ==
    ASSUME MediaInv, Lock
    PROVE  MediaInv'
<1>1. MediaIsSound(loads, prefetchCache, viewing, revoking, keyThere)  BY DEF MediaInv
<1>2. /\ viewing.media = NoMedia /\ keyThere /\ keyThere' = FALSE
      /\ loads' = Cancelled(Cached) /\ prefetchCache' = Without(prefetchCache, Cached)
      /\ UNCHANGED <<active, viewing, revoking>>
  BY DEF Lock
<1>3. /\ Cached \in SUBSET Media /\ \A m \in Media : prefetchCache[m] # 0 => m \in Cached
  BY DEF Cached
<1>4. loads \in Seq(Load)  BY <1>1, MediaFacts
<1> DEFINE key == FALSE
<1>5. key \in BOOLEAN /\ ~key /\ keyThere' = key  BY <1>2
<1> HIDE DEF key
<1>6. MediaIsSound(CancelledIn(loads, prefetchCache, Cached), Without(prefetchCache, Cached),
                   viewing, revoking, key)
  BY <1>1, <1>2, <1>3, <1>5, CancelSound
<1>7. MediaIsSound(loads', prefetchCache', viewing', revoking', keyThere')
  BY <1>2, <1>5, <1>6, CancelledNow
<1>8. LoadingIn(loads') = LoadingIn(loads)  BY <1>2, <1>4, CancelledNow, LoadingCancelled
<1>9. HeldIn(prefetchCache') \subseteq HeldIn(prefetchCache)  BY <1>2, <1>3, HeldWithout
<1> QED  BY <1>2, <1>7, <1>8, <1>9, NothingBegun

\* The prefetches that load, after one has ended.
LEMMA OneLess ==
    ASSUME MediaInv, NEW l \in DOMAIN loads, loads[l].url = "loading",
           LoadingIn(loads') = LoadingIn(loads) \ {l},
           active' = IF loads[l].prefetched THEN active - 1 ELSE active
    PROVE  CounterIsRight(loads', active')
<1>1. MediaIsSound(loads, prefetchCache, viewing, revoking, keyThere)  BY DEF MediaInv
<1>2. loads \in Seq(Load) /\ loads[l] \in Load  BY <1>1, MediaFacts
<1>3. l \in LoadingIn(loads) <=> loads[l].prefetched  BY DEF LoadingIn
<1>4. IsFiniteSet(LoadingIn(loads)) /\ Cardinality(LoadingIn(loads)) \in Nat
  BY <1>2, LoadingFinite
<1>5. Cardinality(LoadingIn(loads) \ {l}) =
          IF l \in LoadingIn(loads) THEN Cardinality(LoadingIn(loads)) - 1
          ELSE Cardinality(LoadingIn(loads))
  BY <1>4, FS_RemoveElement
<1>6. active = Cardinality(LoadingIn(loads)) /\ active <= MAX_PREFETCHES
  BY DEF MediaInv, CounterIsRight
<1>7. MAX_PREFETCHES \in Nat /\ loads[l].prefetched \in BOOLEAN
  BY <1>2, MediaViewAssumption DEF Load
<1> QED  BY <1>3, <1>4, <1>5, <1>6, <1>7 DEF CounterIsRight

LEMMA LoadedKept ==
    ASSUME MediaInv, NEW l \in DOMAIN loads, Loaded(l)
    PROVE  MediaInv'
<1>1. MediaIsSound(loads, prefetchCache, viewing, revoking, keyThere)  BY DEF MediaInv
<1> DEFINE load == loads[l]
           url  == IF load.aborted THEN "failed"
                   ELSE IF ~load.prefetched /\ ~Awaited(l) THEN "revoked" ELSE "live"
<1>2. /\ load.url = "loading" /\ load.keyed
      /\ loads' = WithUrl(loads, l, url)
      /\ viewing' = IF Awaited(l) THEN Takes(viewing, l, loads'[l]) ELSE viewing
      /\ revoking' = IF load.prefetched /\ ~load.aborted /\ load.claimed /\ ~Awaited(l)
                     THEN revoking \cup {l} ELSE revoking
      /\ active' = IF load.prefetched THEN active - 1 ELSE active
      /\ prefetchCache' = prefetchCache /\ keyThere' = keyThere
  BY DEF Loaded, WithUrl
<1>3. /\ loads \in Seq(Load) /\ load \in Load /\ LoadIsSound(load) /\ l # 0
      /\ viewing \in Viewer
  <2>1. /\ loads \in Seq(Load) /\ DOMAIN loads = 1 .. Len(loads)
        /\ \A o \in DOMAIN loads : loads[o] \in Load
        /\ viewing \in Viewer
    BY <1>1, MediaFacts
  <2> QED  BY <1>1, <2>1 DEF MediaIsSound
<1>4. Awaited(l) <=> viewing.effect = l
  BY <1>1, <1>2, <1>3 DEF Awaited, MediaIsSound, EffectIsOwn
<1>5. Awaited(l) => ~load.aborted /\ ~Waits(load)
  BY <1>1, <1>2, <1>3 DEF Awaited, MediaIsSound, EffectIsOwn
<1>6. l \notin revoking  BY <1>1, <1>2 DEF MediaIsSound, RevokingIsLeft
<1>7. url \in {"live", "revoked", "failed"}  OBVIOUS
<1>8. LoadingIn(loads') = LoadingIn(loads) \ {l}  BY <1>2, <1>3, <1>7, LoadingEnded
<1>9. MediaIsSound(loads', prefetchCache', viewing', revoking', keyThere')
  <2>1. CASE url = "live"
    <3>1. ~load.aborted /\ (load.prefetched \/ Awaited(l)) /\ loads' = WithUrl(loads, l, "live")
      BY <1>2, <2>1
    <3>2. OnlyUrl(loads, l, "live", loads')  BY <1>3, <3>1, UrlChanged
    <3>3. loads'[l].url = "live"  BY <3>2 DEF OnlyUrl
    <3>4. viewing' = IF viewing.effect = l
                     THEN [viewing EXCEPT !.shown = l, !.state = "ready"] ELSE viewing
      <4>1. CASE viewing.effect = l
        <5>1. viewing' = [viewing EXCEPT !.effect = l, !.shown = l, !.state = "ready"]
          BY <1>2, <1>4, <3>3, <4>1 DEF Takes
        <5> QED  BY <1>3, <4>1, <5>1 DEF Viewer
      <4>2. CASE viewing.effect # l  BY <1>2, <1>4, <4>2
      <4> QED  BY <4>1, <4>2
    <3>5. revoking' = IF load.claimed /\ viewing.effect # l THEN revoking \cup {l} ELSE revoking
      BY <1>2, <1>3, <1>4, <3>1 DEF LoadIsSound
    <3> DEFINE more == IF load.claimed /\ viewing.effect # l THEN revoking \cup {l} ELSE revoking
                new  == WithUrl(loads, l, "live")
                view == IF viewing.effect = l
                        THEN [viewing EXCEPT !.shown = l, !.state = "ready"] ELSE viewing
    <3>6. load.url = "loading" /\ load.keyed /\ ~load.aborted
      BY <1>2, <3>1
    <3>7. load.prefetched \/ viewing.effect = l  BY <1>4, <3>1
    <3>8. MediaIsSound(new, prefetchCache, view, more, keyThere)
      BY <1>1, <3>6, <3>7, LiveSound
    <3>9. loads' = new /\ viewing' = view /\ revoking' = more
      BY <3>1, <3>4, <3>5
    <3>10. prefetchCache' = prefetchCache /\ keyThere' = keyThere  BY <1>2
    <3> HIDE DEF url, more, new, view
    <3> QED  BY <3>8, <3>9, <3>10
  <2>2. CASE url # "live"
    <3>1. ~Awaited(l) /\ ~Waits(load)  BY <1>5, <2>2 DEF Waits
    <3>2. viewing' = viewing /\ viewing.effect # l  BY <1>2, <1>4, <3>1
    <3>3. revoking' = revoking /\ revoking' = revoking \ {l}
      BY <1>2, <1>3, <1>6, <2>2 DEF LoadIsSound
    <3>4. url \in {"revoked", "failed"}  BY <2>2
    <3>5. url = "revoked" => load.keyed /\ (load.prefetched => load.aborted \/ load.claimed)
      BY <1>2
    <3> HIDE DEF url
    <3> QED  BY <1>1, <1>2, <3>1, <3>2, <3>3, <3>4, <3>5, EndsSound
  <2> QED  BY <2>1, <2>2
<1>10. CounterIsRight(loads', active')  BY <1>2, <1>8, OneLess
<1>11. CacheHasRoom(prefetchCache')  BY <1>2 DEF MediaInv
<1> QED  BY <1>9, <1>10, <1>11 DEF MediaInv

LEMMA LoadFailedKept ==
    ASSUME MediaInv, NEW l \in DOMAIN loads, LoadFailed(l)
    PROVE  MediaInv'
<1>1. MediaIsSound(loads, prefetchCache, viewing, revoking, keyThere)  BY DEF MediaInv
<1> DEFINE load == loads[l]
<1>2. /\ load.url = "loading" /\ loads' = WithUrl(loads, l, "failed")
      /\ viewing' = IF Awaited(l) THEN Takes(viewing, l, loads'[l]) ELSE viewing
      /\ prefetchCache' = IF load.prefetched /\ prefetchCache[load.media] = l
                          THEN [prefetchCache EXCEPT ![load.media] = 0] ELSE prefetchCache
      /\ active' = IF load.prefetched THEN active - 1 ELSE active
      /\ revoking' = revoking /\ keyThere' = keyThere
  BY DEF LoadFailed, WithUrl
<1>3. /\ loads \in Seq(Load) /\ load \in Load /\ LoadIsSound(load) /\ l # 0
      /\ viewing \in Viewer /\ prefetchCache \in [Media -> 0 .. Len(loads)]
      /\ viewing.shown = 0 \/ viewing.shown = viewing.effect
  <2>1. /\ loads \in Seq(Load) /\ DOMAIN loads = 1 .. Len(loads)
        /\ \A o \in DOMAIN loads : loads[o] \in Load
        /\ viewing \in Viewer /\ prefetchCache \in [Media -> 0 .. Len(loads)]
        /\ viewing.shown = 0 \/ viewing.shown = viewing.effect
    BY <1>1, MediaFacts
  <2> QED  BY <1>1, <2>1 DEF MediaIsSound
<1>4. Awaited(l) <=> viewing.effect = l
  BY <1>1, <1>2, <1>3 DEF Awaited, MediaIsSound, EffectIsOwn
<1>5. load.media \in Media /\ (prefetchCache[load.media] = l <=> Waits(load))
  <2>1. load.media \in Media  BY <1>3 DEF Load
  <2>2. CacheIsWaiting(loads, prefetchCache)  BY <1>1 DEF MediaIsSound
  <2> QED  BY <1>3, <2>1, <2>2 DEF CacheIsWaiting
<1>6. revoking \ {l} = revoking
  BY <1>1, <1>2 DEF MediaIsSound, RevokingIsLeft
<1>7. LoadingIn(loads') = LoadingIn(loads) \ {l}  BY <1>2, <1>3, LoadingEnded
<1>8. MediaIsSound(loads', prefetchCache', viewing', revoking', keyThere')
  <2>1. CASE Waits(load)
    <3>1. viewing.effect # l  BY <1>1, <1>3, <2>1 DEF MediaIsSound, EffectIsOwn
    <3>2. viewing' = viewing  BY <1>2, <1>4, <3>1
    <3>3. prefetchCache' = [prefetchCache EXCEPT ![load.media] = 0]
      BY <1>2, <1>5, <2>1 DEF Waits
    <3> QED  BY <1>1, <1>2, <2>1, <3>2, <3>3, FailSound
  <2>2. CASE ~Waits(load)
    <3>1. prefetchCache' = prefetchCache  BY <1>2, <1>5, <2>2
    <3>2. \/ viewing' = viewing /\ viewing.effect # l
          \/ EmptyView(loads, viewing', keyThere) /\ viewing.shown \in {0, l}
      <4>1. CASE ~Awaited(l)  BY <1>2, <1>4, <4>1
      <4>2. CASE Awaited(l)
        <5>1. loads'[l].url = "failed"
          <6>1. OnlyUrl(loads, l, "failed", loads')  BY <1>2, <1>3, UrlChanged
          <6> QED  BY <6>1 DEF OnlyUrl
        <5>2. \E state \in {"error", "blank"} :
                  viewing' = [viewing EXCEPT !.effect = 0, !.state = state]
          BY <1>2, <4>2, <5>1 DEF Takes
        <5>3. viewing.shown = 0  BY <1>3, <4>2 DEF Awaited
        <5>4. /\ viewing' \in Viewer /\ viewing'.effect = 0 /\ viewing'.shown = 0
              /\ viewing'.media = viewing.media /\ viewing'.memo = viewing.memo
              /\ viewing'.found = viewing.found
          BY <1>3, <5>2, <5>3 DEF Viewer
        <5>5. viewing.found
          BY <1>1, <1>3, <1>4, <4>2 DEF MediaIsSound, SeekingHoldsMemo
        <5>6. viewing.media # NoMedia
          BY <1>1, <5>5 DEF MediaIsSound, SeekingHoldsMemo, Closed
        <5>7. keyThere  BY <1>1, <5>6 DEF MediaIsSound, KeyDecides
        <5>8. viewing.memo <= Len(loads)  BY <1>1 DEF MediaIsSound, MediaTypes
        <5>9. EmptyView(loads, viewing', keyThere)
          BY <5>4, <5>5, <5>6, <5>7, <5>8 DEF EmptyView, SeekingHoldsMemo
        <5> QED  BY <5>3, <5>9
      <4> QED  BY <4>1, <4>2
    <3> DEFINE url == "failed"
    <3>3. url \in {"revoked", "failed"} /\ url # "revoked" /\ loads' = WithUrl(loads, l, url)
      BY <1>2
    <3> HIDE DEF url
    <3> QED  BY <1>1, <1>2, <1>6, <2>2, <3>1, <3>2, <3>3, EndsSound
  <2> QED  BY <2>1, <2>2
<1>9. CounterIsRight(loads', active')  BY <1>2, <1>7, OneLess
<1>10. CacheHasRoom(prefetchCache')
  <2>1. HeldIn(prefetchCache') \subseteq HeldIn(prefetchCache)
    BY <1>2, <1>3, <1>5 DEF HeldIn
  <2> QED  BY <2>1, RoomKept DEF MediaInv
<1> QED  BY <1>8, <1>9, <1>10 DEF MediaInv

LEMMA RevokeLaterKept ==
    ASSUME MediaInv, NEW l \in DOMAIN loads, RevokeLater(l)
    PROVE  MediaInv'
<1>1. MediaIsSound(loads, prefetchCache, viewing, revoking, keyThere)  BY DEF MediaInv
<1>2. /\ l \in revoking /\ revoking' = revoking \ {l} /\ loads' = Revoked(loads, l)
      /\ UNCHANGED <<prefetchCache, active, viewing, keyThere>>
  BY DEF RevokeLater
<1>3. /\ loads \in Seq(Load) /\ loads[l] \in Load /\ l # 0
  <2>1. /\ loads \in Seq(Load) /\ DOMAIN loads = 1 .. Len(loads)
        /\ \A o \in DOMAIN loads : loads[o] \in Load
    BY <1>1, MediaFacts
  <2> QED  BY <2>1
<1>4. /\ loads[l].claimed /\ loads[l].url = "live" /\ viewing.effect # l
      /\ LoadIsSound(loads[l])
  BY <1>1, <1>2 DEF MediaIsSound, RevokingIsLeft
<1> DEFINE url == "revoked"
<1>5. loads' = WithUrl(loads, l, url) /\ url \in {"revoked", "failed"}
      /\ url \in {"live", "revoked", "failed"}
  BY <1>2, <1>3 DEF Revoked, WithUrl
<1> HIDE DEF url
<1>6. ~Waits(loads[l]) /\ loads[l].keyed  BY <1>3, <1>4 DEF Waits, LoadIsSound, Load
<1>7. MediaIsSound(loads', prefetchCache', viewing', revoking', keyThere')
  BY <1>1, <1>2, <1>4, <1>5, <1>6, EndsSound
<1>8. LoadingIn(loads') = LoadingIn(loads)
  <2>1. LoadingIn(loads') = LoadingIn(loads) \ {l}  BY <1>3, <1>5, LoadingEnded
  <2>2. l \notin LoadingIn(loads)  BY <1>4 DEF LoadingIn
  <2> QED  BY <2>1, <2>2
<1> QED  BY <1>2, <1>7, <1>8, NothingBegun

LEMMA MediaStarts == MediaViewInit => MediaInv
<1> SUFFICES ASSUME MediaViewInit PROVE MediaInv  OBVIOUS
<1>1. /\ loads = <<>> /\ active = 0 /\ viewing = Closed /\ revoking = {} /\ keyThere = TRUE
      /\ prefetchCache = [m \in Media |-> 0]
  BY DEF MediaViewInit
<1>2. loads \in Seq(Load) /\ Len(loads) = 0 /\ DOMAIN loads = {}  BY <1>1
<1>3. prefetchCache \in [Media -> 0 .. Len(loads)] /\ \A m \in Media : prefetchCache[m] = 0
  BY <1>1, <1>2
<1>4. /\ viewing \in Viewer /\ viewing.effect = 0 /\ viewing.memo = 0 /\ viewing.shown = 0
      /\ viewing.retryKey = 0
  BY <1>1 DEF Closed, Viewer
<1>5. MediaTypes(loads, prefetchCache, viewing, revoking, keyThere)
  BY <1>1, <1>2, <1>3, <1>4 DEF MediaTypes
<1>6. MediaIsSound(loads, prefetchCache, viewing, revoking, keyThere)
  BY <1>1, <1>2, <1>3, <1>4, <1>5
     DEF MediaIsSound, CacheIsWaiting, OthersAreOwned, RevokingIsLeft, EffectIsOwn,
         SeekingHoldsMemo, KeyDecides
<1>7. CounterIsRight(loads, active)
  <2>1. LoadingIn(loads) = {}  BY <1>2 DEF LoadingIn
  <2>2. IsFiniteSet({}) /\ Cardinality({}) = 0  BY FS_EmptySet
  <2>3. MAX_PREFETCHES \in Nat  BY MediaViewAssumption
  <2>4. IsFiniteSet(LoadingIn(loads)) /\ Cardinality(LoadingIn(loads)) = 0
    BY <2>1, <2>2
  <2> QED  BY <1>1, <2>3, <2>4 DEF CounterIsRight
<1>8. CacheHasRoom(prefetchCache)
  <2>1. HeldIn(prefetchCache) = {}  BY <1>3 DEF HeldIn
  <2>2. BytesOf({}) = 0  BY SumOfNone DEF BytesOf
  <2> QED  BY <2>1, <2>2, FS_EmptySet, MediaViewAssumption DEF CacheHasRoom
<1> QED  BY <1>6, <1>7, <1>8 DEF MediaInv

LEMMA MediaNextKeeps == MediaInv /\ [MediaViewNext]_mediaVars => MediaInv'
<1> SUFFICES ASSUME MediaInv, [MediaViewNext]_mediaVars PROVE MediaInv'  OBVIOUS
<1>1. CASE UNCHANGED mediaVars
  BY <1>1 DEF mediaVars, MediaInv
<1>2. CASE MediaViewNext
  BY <1>2, PrefetchKept, OpenKept, SwitchKept, EntryFoundKept, RetryKept, CloseKept,
     LockKept, LoadedKept, LoadFailedKept, RevokeLaterKept DEF MediaViewNext
<1> QED  BY <1>1, <1>2

LEMMA MediaInvIsJust == MediaInv => MediaViewIsJust
<1> SUFFICES ASSUME MediaInv PROVE MediaViewIsJust  OBVIOUS
<1>1. MediaIsSound(loads, prefetchCache, viewing, revoking, keyThere)  BY DEF MediaInv
<1>2. /\ \A l \in DOMAIN loads : loads[l] \in Load /\ LoadIsSound(loads[l]) /\ l # 0
      /\ viewing.shown = 0 \/ viewing.shown = viewing.effect
  <2>1. /\ DOMAIN loads = 1 .. Len(loads)
        /\ \A l \in DOMAIN loads : loads[l] \in Load
        /\ viewing.shown = 0 \/ viewing.shown = viewing.effect
    BY <1>1, MediaFacts
  <2> QED  BY <1>1, <2>1 DEF MediaIsSound
<1>3. CacheIsWaiting(loads, prefetchCache) /\ OthersAreOwned(loads, viewing, revoking)
  BY <1>1 DEF MediaIsSound
<1>4. NoUrlLeft  BY <1>3 DEF NoUrlLeft, CacheIsWaiting, OthersAreOwned
<1>5. LockedIsClean
  <2> SUFFICES ASSUME ~keyThere, NEW l \in DOMAIN loads, loads[l].url = "live"
               PROVE  l \in revoking
    BY DEF LockedIsClean
  <2>1. viewing.media = NoMedia /\ \A m \in Media : prefetchCache[m] # 0 =>
                                                       ~loads[prefetchCache[m]].keyed
    BY <1>1 DEF MediaIsSound, KeyDecides
  <2>2. viewing.shown = 0  BY <1>1, <2>1 DEF MediaIsSound, SeekingHoldsMemo, Closed
  <2>3. loads[l].keyed /\ loads[l].media \in Media  BY <1>2 DEF LoadIsSound, Load
  <2>4. ~Waits(loads[l])  BY <1>2, <1>3, <2>1, <2>3 DEF CacheIsWaiting
  <2> QED  BY <1>2, <1>3, <2>2, <2>4 DEF OthersAreOwned
<1>6. ShownIsLive
  BY <1>1, <1>2 DEF MediaIsSound, EffectIsOwn, ShownIsLive
<1>7. CacheInBounds
  <2>1. Cached = HeldIn(prefetchCache)  BY DEF Cached, HeldIn
  <2>2. {l \in DOMAIN loads : loads[l].prefetched /\ loads[l].url = "loading"} =
            LoadingIn(loads)
    BY DEF LoadingIn
  <2>3. \A m \in Cached : /\ ~loads[prefetchCache[m]].aborted
                          /\ ~loads[prefetchCache[m]].claimed
    BY <1>3 DEF Cached, CacheIsWaiting, Waits
  <2> QED
    BY <2>1, <2>2, <2>3 DEF MediaInv, CounterIsRight, CacheHasRoom, CacheInBounds
<1> QED  BY <1>4, <1>5, <1>6, <1>7 DEF MediaViewIsJust

\* The viewer of MediaViewSpec, for any number of media of any sizes: no URL of
\* a decrypted medium is left behind, a lock leaves none, what is shown is live,
\* and the cache keeps within its limits of items, bytes and prefetches.
THEOREM MediaStayJust == MediaViewSpec => []MediaViewIsJust
<1> QED  BY MediaStarts, MediaNextKeeps, MediaInvIsJust, PTL DEF MediaViewSpec
(***************************************************************************)
(* The page of MCPage, whatever part a behaviour is about.                 *)
(***************************************************************************)


LEMMA MediaInvTypes == MediaInv => MediaViewTypeOK
<1> SUFFICES ASSUME MediaInv PROVE MediaViewTypeOK  OBVIOUS
<1>1. MediaTypes(loads, prefetchCache, viewing, revoking, keyThere)
  BY DEF MediaInv, MediaIsSound
<1>2. active \in Nat
  <2>1. loads \in Seq(Load)  BY <1>1 DEF MediaTypes
  <2> QED  BY <2>1, LoadingFinite DEF MediaInv, CounterIsRight
<1> QED  BY <1>1, <1>2 DEF MediaTypes, MediaViewTypeOK

PageInv ==
    /\ part \in {"client", "pool", "media", "gallery", "thumbs", "opfs"}
    /\ ClientInv /\ PoolInv /\ MediaInv /\ GalleryInv /\ ThumbInv /\ OpfsInv

LEMMA PartsStart == Init => PageInv
  BY ClientStarts, PoolStarts, MediaStarts, GalleryStarts, ThumbInvInit, OpfsInvInit
     DEF Init, PageInv

\* A step of one part is a step of the others in which nothing happens.
LEMMA PartsStep ==
    ASSUME [Next]_vars
    PROVE  /\ part' = part
           /\ [StreamClientNext]_streamClientVars /\ [PoolNext]_poolVars
           /\ [MediaViewNext]_mediaVars /\ [GalleryNext]_galleryVars
           /\ [ThumbNext]_thumbVars /\ [OpfsNext]_opfsVars
<1>1. CASE UNCHANGED vars  BY <1>1 DEF vars
<1>2. CASE Next  BY <1>2 DEF Next
<1> QED  BY <1>1, <1>2

LEMMA PartsKept == PageInv /\ [Next]_vars => PageInv'
<1> SUFFICES ASSUME PageInv, [Next]_vars PROVE PageInv'  OBVIOUS
<1>1. ClientInv'  BY PartsStep, ClientNextKeeps DEF PageInv
<1>2. PoolInv'  BY PartsStep, PoolNextKeeps DEF PageInv
<1>3. MediaInv'  BY PartsStep, MediaNextKeeps DEF PageInv
<1>4. GalleryInv'  BY PartsStep, GalleryNextKeeps DEF PageInv
<1>5. ThumbInv'  BY PartsStep, ThumbInvStep DEF PageInv
<1>6. OpfsInv'  BY PartsStep, OpfsInvStep DEF PageInv
<1>7. part' = part  BY PartsStep
<1> QED  BY <1>1, <1>2, <1>3, <1>4, <1>5, <1>6, <1>7 DEF PageInv

LEMMA PageInvariant == Spec => []PageInv
<1> QED  BY PartsStart, PartsKept, PTL DEF Spec

\* Every part of the page keeps to its types, for any bounds and sizes.
THEOREM PageTypesKept == Spec => []PageTypeOK
<1>1. PageInv => PageTypeOK
  <2> SUFFICES ASSUME PageInv PROVE PageTypeOK  OBVIOUS
  <2>1. StreamClientTypeOK /\ PoolTypeOK /\ GalleryTypeOK
    BY DEF PageInv, ClientInv, PoolInv, GalleryInv
  <2>2. MediaViewTypeOK  BY MediaInvTypes DEF PageInv
  <2>3. ThumbTypeOK /\ OpfsTypeOK  BY ThumbInvTypes, OpfsInvTypes DEF PageInv
  <2>4. \/ part = "client" \/ part = "pool" \/ part = "media"
        \/ part = "gallery" \/ part = "thumbs" \/ part = "opfs"
    BY DEF PageInv
  <2> QED  BY <2>1, <2>2, <2>3, <2>4 DEF PageTypeOK
<1> QED  BY <1>1, PageInvariant, PTL

\* In the page of the run, with its six parts, what the viewer and the gallery
\* show is as it should be, for any media, entries and bounds: decrypted media
\* have one owner, and the gallery shows nothing older than what was seen.
THEOREM ShownStaysJust == Spec => []ShownIsJust
<1>1. PageInv => ShownIsJust
  <2>1. GalleryInv => GalleryIsJust  BY DEF GalleryInv
  <2> QED  BY <2>1, MediaInvIsJust DEF PageInv, ShownIsJust
<1> QED  BY <1>1, PageInvariant, PTL

\* What the page stores, for any queues, sizes and bounds: however calls on the
\* file cache overlap its entries fit the cap, and every thumbnail published, or
\* about to be, is where the gallery looks.
THEOREM StoredStaysJust == Spec => []StoredIsJust
<1>1. Init => CapInv  BY CapInit DEF Init
<1>2. CapInv /\ [Next]_vars => CapInv'  BY PartsStep, CapStep
<1>3. PageInv /\ CapInv => StoredIsJust
  BY CapIsKept, ThumbInvTypes DEF PageInv, StoredIsJust
<1> QED  BY <1>1, <1>2, <1>3, PageInvariant, PTL DEF Spec
=============================================================================
