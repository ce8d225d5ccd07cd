---------------------------- MODULE OutboxProofs ----------------------------
(***************************************************************************)
(* Proofs about Outbox for any workers, messages and endpoints, any        *)
(* subscriptions, any lease and delays and any of the bounds.  What is     *)
(* said of the deliveries needs nothing of the clock; what is said of the  *)
(* claims holds when no two rows are written at one time, as when the      *)
(* clock moves with every reading.                                         *)
(***************************************************************************)
EXTENDS Outbox, WellFoundedInduction, TLAPS

\* The worker has taken a message from its batch.
Busy == {"recover", "claim", "handle", "deliver", "post", "record", "finish"}

\* Every endpoint that is to have the message has it.
AllTook(m) == \A ep \in Subscribed[m] : endpoint[ep] = "active" => ep \in accepted[m]

\* What a worker knows of the deliveries: an endpoint that has not taken the message
\* is still on its list, unless it was disabled.
CourierOK(w) ==
    LET s == worker[w]
    IN  /\ s.pc \in Busy => s.m \in Messages
        /\ s.pc \in {"deliver", "post", "record"} =>
              \A ep \in Subscribed[s.m] :
                  endpoint[ep] = "active" => ep \in accepted[s.m] \/ \E i \in s.eps : EndpointList[i] = ep
        /\ s.pc \in {"post", "record"} => s.eps # {}
        /\ s.pc = "record" /\ s.ok => Current(w) \in accepted[s.m]
        /\ s.pc = "finish" /\ s.ok => AllTook(s.m)

\* A delivery is recorded as succeeded only after the endpoint took the message.
RecordsOK ==
    \A m \in Messages, ep \in Endpoints : delivery[m][ep] = "succeeded" => ep \in accepted[m]

\* The inductive invariant about deliveries.
DeliveryInv ==
    /\ TypeOK
    /\ RecordsOK
    /\ \A w \in Workers : CourierOK(w)
    /\ CompletedIsDelivered

-----------------------------------------------------------------------------
\* The worker has a copy of the row of l.m, as it was listed or as it wrote it.
Copy(w, l) ==
    \/ l \in worker[w].todo
    \/ worker[w].pc \in Busy /\ l.m = worker[w].m /\ l.row = worker[w].held

\* The times a worker has read that it writes, or has written, to a row.
Stamps(w) ==
    {t \in {worker[w].now} : worker[w].pc \in {"recover", "claim", "finish"}}
    \cup {t \in {worker[w].held.updated} : worker[w].pc \in Busy \ {"recover", "claim"}}

\* No row that the worker is about to write exists already.
Fresh(w, row) ==
    /\ worker[w].pc \in {"recover", "finish"} => row.updated # worker[w].now
    /\ worker[w].pc = "claim" /\ row.updated = worker[w].now => row.status = "pending"

\* A row that compares as current is the stored row, in all of its columns.
CopyOK(l) ==
    /\ l.row.status \in {"pending", "processing"}
    /\ l.row.updated < clock
    /\ IsCurrent(msg[l.m], l.row) => msg[l.m] = l.row

\* What a worker holds, and that its times are its own.
ClaimOK(w) ==
    LET s == worker[w]
    IN  /\ \A l \in Listed : Copy(w, l) => CopyOK(l)
        /\ s.pc = "claim" => s.held.status = "pending"
        /\ s.pc \in Busy \ {"claim"} => s.held.status = "processing"
        /\ \A t \in Stamps(w) : t < clock
        /\ \A m \in Messages : Fresh(w, msg[m])

Apart(v, w) ==
    /\ v # w => Stamps(v) \cap Stamps(w) = {}
    /\ \A l \in Listed : Copy(w, l) => Fresh(v, l.row)

\* Every failed job attempt is in the row, or was before a replay.
Counted(m) == jobs[m].failed = msg[m].attempts + MaxAttempts * replays[m]

\* The columns of a row agree with the job attempts.
RowOK(m) ==
    /\ msg[m].updated < clock
    /\ msg[m].status # "failed"
    /\ msg[m].attempts <= MaxAttempts
    /\ msg[m].status = "none" => msg[m].attempts = 0
    /\ Counted(m)
    /\ jobs[m].ok = IF msg[m].status = "completed" THEN 1 ELSE 0
    /\ msg[m].status = "dead_letter" <=> msg[m].attempts >= MaxAttempts

\* The inductive invariant about claims, on top of the one about deliveries.
ClaimInv ==
    /\ \A m \in Messages : RowOK(m)
    /\ \A w \in Workers : ClaimOK(w)
    /\ \A v, w \in Workers : Apart(v, w)

-----------------------------------------------------------------------------
\* The least position of the loop is one of its positions.
LEMMA Least ==
  ASSUME NEW S, S \subseteq Nat, S # {}
  PROVE  Min(S) \in S
  <1> DEFINE R == {ss \in Nat \X Nat : ss[1] < ss[2]}
  <1>1. IsWellFoundedOn(R, Nat)
    BY NatLessThanWellFounded, Zenon DEF OpToRel
  <1>2. \A a, b \in Nat : a < b => <<a, b>> \in R
    <2> TAKE a \in Nat, b \in Nat
    <2>1. <<a, b>> \in Nat \X Nat /\ <<a, b>>[1] = a /\ <<a, b>>[2] = b
      BY Zenon
    <2> QED
      BY <2>1, Zenon
  <1> HIDE DEF R
  <1>3. PICK x \in S : \A y \in S : ~(<<y, x>> \in R)
    BY <1>1, WFMin, Zenon
  <1>4. \A y \in S : ~(y < x)
    BY <1>2, <1>3, Zenon
  <1>5. \A y \in S : x <= y
    BY <1>4
  <1> QED
    BY <1>5, Zenon DEF Min

\* What the types say of a worker, and the state it returns to.
LEMMA Types ==
  ASSUME TypeOK
  PROVE  /\ IdleWorker \in Worker /\ NoMessage \in Message
         /\ \A w \in Workers : worker[w] \in Worker
         /\ Lease \in Nat /\ ReadTicks \in Nat /\ MaxTime \in Nat /\ MaxAttempts \in Nat \ {0}
         /\ Endpoints = {EndpointList[i] : i \in DOMAIN EndpointList}
         /\ DOMAIN EndpointList \subseteq Nat
  <1>1. NoMessage \in Message
    BY Zenon DEF NoMessage, Message, MessageStatus, ZeroTime
  <1>2. IdleWorker \in Worker
    BY <1>1, Zenon DEF IdleWorker, Worker, ZeroTime
  <1>3. DOMAIN EndpointList \subseteq Nat
    BY EndpointAssumption
  <1> QED
    BY <1>1, <1>2, <1>3, TimeAssumption, LimitAssumption, Zenon DEF TypeOK, Endpoints

\* The endpoint that a loop with something left has come to.
LEMMA CurrentType ==
  ASSUME TypeOK, NEW w \in Workers, worker[w].eps # {}
  PROVE  /\ Current(w) \in Endpoints /\ Min(worker[w].eps) \in worker[w].eps
         /\ \A i \in worker[w].eps : EndpointList[i] # Current(w) => i \in worker[w].eps \ {Min(worker[w].eps)}
  <1>1. worker[w].eps \subseteq DOMAIN EndpointList /\ DOMAIN EndpointList \subseteq Nat
    BY Types, Zenon DEF Worker
  <1>2. Min(worker[w].eps) \in worker[w].eps
    BY <1>1, Least, Zenon
  <1> QED
    BY <1>1, <1>2, Zenon DEF Current, Endpoints

-----------------------------------------------------------------------------
(* Deliveries *)

\* Before there is a message.
LEMMA InitDelivery == Init => DeliveryInv
  <1> SUFFICES ASSUME Init PROVE DeliveryInv
    BY Zenon
  <1>1. NoMessage \in Message
    BY Zenon DEF NoMessage, Message, MessageStatus, ZeroTime
  <1>2. IdleWorker \in Worker
    BY <1>1, Zenon DEF IdleWorker, Worker, ZeroTime
  <1>3. TypeOK
    BY <1>1, <1>2, Zenon DEF Init, TypeOK, DeliveryStatus
  <1>4. \A w \in Workers : CourierOK(w)
    BY Zenon DEF Init, CourierOK, IdleWorker, Busy
  <1>5. RecordsOK /\ CompletedIsDelivered
    BY Zenon DEF Init, RecordsOK, CompletedIsDelivered, NoMessage
  <1> QED
    BY <1>3, <1>4, <1>5, Zenon DEF DeliveryInv

\* Endpoints are only ever disabled and what they took stays taken, so that what a
\* worker knows stays so whatever the others do.
LEMMA Lasting ==
  ASSUME DeliveryInv, TypeOK', RecordsOK',
         \A ep \in Endpoints : endpoint'[ep] = "active" => endpoint[ep] = "active",
         \A m \in Messages : accepted[m] \subseteq accepted'[m],
         \A m \in Messages : msg'[m].status = "completed" => msg[m].status = "completed" \/ AllTook(m),
         \A w \in Workers : worker'[w] = worker[w] \/ CourierOK(w)'
  PROVE  DeliveryInv'
  <1>1. \A m \in Messages : Subscribed[m] \subseteq Endpoints
    BY EndpointAssumption, Zenon
  <1>2. \A m \in Messages : AllTook(m) => AllTook(m)'
    BY <1>1, Zenon DEF AllTook
  <1>3. CompletedIsDelivered'
    BY <1>2, Zenon DEF DeliveryInv, CompletedIsDelivered, AllTook
  <1>4. \A w \in Workers : CourierOK(w)'
    <2> SUFFICES ASSUME NEW w \in Workers, worker'[w] = worker[w] PROVE CourierOK(w)'
      BY Zenon
    <2>1. CourierOK(w)
      BY Zenon DEF DeliveryInv
    <2>2. Current(w)' = Current(w)
      BY Zenon DEF Current
    <2>3. CASE worker[w].pc \notin Busy
      BY <2>3, Zenon DEF CourierOK, Busy
    <2>4. CASE worker[w].pc \in Busy
      <3>1. worker[w].m \in Messages
        BY <2>1, <2>4, Zenon DEF CourierOK
      <3>2. worker[w].pc = "finish" /\ worker[w].ok => AllTook(worker[w].m)'
        BY <2>1, <3>1, <1>2, Zenon DEF CourierOK, AllTook
      <3> QED
        BY <1>1, <2>1, <2>2, <3>1, <3>2 DEF CourierOK
    <2> QED
      BY <2>3, <2>4, Zenon
  <1> QED
    BY <1>3, <1>4, Zenon DEF DeliveryInv

\* A step of one worker that leaves the tables alone.
LEMMA CourierStep ==
  ASSUME DeliveryInv, NEW w \in Workers, NEW r \in Worker,
         worker' = [worker EXCEPT ![w] = r],
         UNCHANGED <<msg, jobs, endpoint, delivery, accepted, replays>>,
         clock' \in Nat, faults' \in Nat,
         CourierOK(w)'
  PROVE  DeliveryInv'
  <1>1. TypeOK'
    BY Zenon DEF DeliveryInv, TypeOK
  <1>2. RecordsOK'
    BY Zenon DEF DeliveryInv, RecordsOK
  <1>3. \A v \in Workers : worker'[v] = worker[v] \/ CourierOK(v)'
    BY Zenon DEF DeliveryInv, TypeOK
  <1> QED
    BY <1>1, <1>2, <1>3, Lasting, Zenon

\* A worker that has no list of endpoints and no success to report.
LEMMA PassiveOK ==
  ASSUME TypeOK, NEW w \in Workers, NEW r \in Worker, worker' = [worker EXCEPT ![w] = r],
         r.pc \notin {"deliver", "post", "record"}, r.pc \in Busy => r.m \in Messages,
         r.pc = "finish" => ~r.ok
  PROVE  CourierOK(w)' /\ worker'[w] = r /\ \A v \in Workers \ {w} : worker'[v] = worker[v]
  <1>1. worker'[w] = r /\ \A v \in Workers \ {w} : worker'[v] = worker[v]
    BY Zenon DEF TypeOK
  <1> QED
    BY <1>1, Zenon DEF CourierOK

\* The next state of a worker that returns or goes on with its batch.
LEMMA ReturnTypes ==
  ASSUME TypeOK, NEW w \in Workers, Return(w) \/ Continue(w)
  PROVE  \E r \in Worker : worker' = [worker EXCEPT ![w] = r] /\ r.pc \in {"idle", "batch"} /\ r.todo \subseteq worker[w].todo
  <1>1. CASE Return(w)
    BY <1>1, Types, Zenon DEF Return, IdleWorker
  <1>2. CASE Continue(w)
    <2> DEFINE r == [IdleWorker EXCEPT !.pc = "batch", !.todo = worker[w].todo]
    <2>1. r \in Worker /\ r.pc = "batch" /\ r.todo = worker[w].todo
      BY Types, Zenon DEF Worker, IdleWorker
    <2> QED
      BY <1>2, <2>1, Zenon DEF Continue
  <1> QED
    BY <1>1, <1>2, Zenon

\* Steps of nobody's batch.
LEMMA OutsideDelivery ==
  ASSUME DeliveryInv,
         \/ Tick
         \/ \E m \in Messages, known \in BOOLEAN : CreateOutboxMessage(m, known)
         \/ \E S \in SUBSET Messages : RetryOutboxMessages(S)
         \/ \E ep \in Endpoints : DisableNotificationEndpoint(ep)
  PROVE  DeliveryInv'
  <1>1. TypeOK /\ RecordsOK
    BY Zenon DEF DeliveryInv
  <1>2. CASE Tick
    <2>1. TypeOK' /\ RecordsOK'
      BY <1>1, <1>2 DEF Tick, TypeOK, RecordsOK
    <2> QED
      BY <1>2, <2>1, Lasting, Zenon DEF Tick
  <1>3. ASSUME NEW m \in Messages, NEW known \in BOOLEAN, CreateOutboxMessage(m, known) PROVE DeliveryInv'
    <2> DEFINE row == [NoMessage EXCEPT !.status = "pending", !.known = known, !.available = clock, !.updated = clock]
    <2>1. row \in Message /\ row.status = "pending"
      BY <1>1, Types, Zenon DEF NoMessage, Message, MessageStatus, TypeOK, ZeroTime
    <2>2. msg' = [msg EXCEPT ![m] = row] /\ clock' = clock + ReadTicks
      BY <1>3, Zenon DEF CreateOutboxMessage, ReadClock
    <2> HIDE DEF row
    <2>3. TypeOK' /\ RecordsOK'
      <3>1. clock' \in Nat
        BY <1>1, <2>2, Types DEF TypeOK
      <3>2. msg' \in [Messages -> Message]
        BY <1>1, <2>1, <2>2, Zenon DEF TypeOK
      <3>3. UNCHANGED <<jobs, endpoint, delivery, accepted, worker, replays, faults>>
        BY <1>3, Zenon DEF CreateOutboxMessage
      <3> QED
        BY <1>1, <3>1, <3>2, <3>3, Zenon DEF TypeOK, RecordsOK
    <2> QED
      BY <1>1, <1>3, <2>1, <2>2, <2>3, Lasting, Zenon DEF CreateOutboxMessage, TypeOK
  <1>4. ASSUME NEW S \in SUBSET Messages, RetryOutboxMessages(S) PROVE DeliveryInv'
    <2>1. \A m \in Messages : /\ OutboxMessageForReplay(msg[m], clock) \in Message
                              /\ OutboxMessageForReplay(msg[m], clock).status = "pending"
      <3> TAKE m \in Messages
      <3>1. msg[m] \in Message /\ clock \in Nat
        BY <1>1, Zenon DEF TypeOK
      <3> QED
        BY <3>1, Zenon DEF OutboxMessageForReplay, Message, MessageStatus, ZeroTime
    <2>2. TypeOK' /\ RecordsOK'
      BY <1>1, <1>4, <2>1, Types DEF RetryOutboxMessages, ReadClock, TypeOK, RecordsOK
    <2> QED
      BY <1>1, <1>4, <2>1, <2>2, Lasting, Zenon DEF RetryOutboxMessages, TypeOK
  <1>5. ASSUME NEW ep \in Endpoints, DisableNotificationEndpoint(ep) PROVE DeliveryInv'
    <2>1. TypeOK' /\ RecordsOK'
      BY <1>1, <1>5, Zenon DEF DisableNotificationEndpoint, TypeOK, RecordsOK
    <2> QED
      BY <1>1, <1>5, <2>1, Lasting, Zenon DEF DisableNotificationEndpoint, TypeOK
  <1> QED
    BY <1>2, <1>3, <1>4, <1>5, Zenon

\* A batch begins and takes its messages.
LEMMA BatchDelivery ==
  ASSUME DeliveryInv, NEW w \in Workers, ListDueOutboxMessages(w) \/ NextListed(w) \/ Abandon(w)
  PROVE  DeliveryInv'
  <1>1. TypeOK /\ worker[w] \in Worker
    BY Types, Zenon DEF DeliveryInv
  <1>2. CASE ListDueOutboxMessages(w)
    <2> DEFINE due == {l \in [m : Messages, row : {msg[m] : m \in Messages}] : l.row = msg[l.m] /\ Due(l.row, clock)}
               r == [worker[w] EXCEPT !.pc = "batch", !.todo = due]
    <2>1. due \subseteq Listed
      BY <1>1, Zenon DEF Listed, TypeOK
    <2>2. worker' = [worker EXCEPT ![w] = r]
      BY <1>1, <1>2, Zenon DEF ListDueOutboxMessages, TypeOK
    <2> HIDE DEF due
    <2>3. r \in Worker /\ r.pc = "batch"
      BY <1>1, <2>1, Zenon DEF Worker
    <2> HIDE DEF r
    <2>4. CourierOK(w)'
      BY <1>1, <2>2, <2>3, PassiveOK, Zenon DEF Busy
    <2> QED
      BY <1>1, <1>2, <2>2, <2>3, <2>4, CourierStep, Zenon DEF ListDueOutboxMessages, TypeOK
  <1>3. CASE NextListed(w)
    <2>1. CASE Return(w) /\ UNCHANGED clock
      <3>1. PICK r \in Worker : worker' = [worker EXCEPT ![w] = r] /\ r.pc \in {"idle", "batch"}
        BY <1>1, <2>1, ReturnTypes, Zenon
      <3>2. CourierOK(w)'
        BY <1>1, <3>1, PassiveOK, Zenon DEF Busy
      <3> QED
        BY <1>1, <1>3, <2>1, <3>1, <3>2, CourierStep, Zenon DEF NextListed, TypeOK
    <2>2. ASSUME NEW l \in worker[w].todo, ReadClock,
                 worker' = [worker EXCEPT
                    ![w].pc = IF l.row.status = "processing" THEN "recover" ELSE "claim",
                    ![w].todo = @ \ {l}, ![w].m = l.m, ![w].held = l.row, ![w].now = clock]
          PROVE  DeliveryInv'
      <3> DEFINE r == [worker[w] EXCEPT
                         !.pc = IF l.row.status = "processing" THEN "recover" ELSE "claim",
                         !.todo = @ \ {l}, !.m = l.m, !.held = l.row, !.now = clock]
      <3>1. l.m \in Messages /\ l.row \in Message
        BY <1>1, Zenon DEF Worker, Listed
      <3>2. worker' = [worker EXCEPT ![w] = r]
        BY <1>1, <2>2, Zenon DEF TypeOK
      <3>3. r \in Worker /\ r.pc \in {"recover", "claim"} /\ r.m \in Messages
        BY <1>1, <3>1, Zenon DEF Worker, TypeOK
      <3> HIDE DEF r
      <3>4. CourierOK(w)'
        BY <1>1, <3>2, <3>3, PassiveOK, Zenon
      <3>5. clock' \in Nat
        BY <1>1, <2>2, Types DEF ReadClock, TypeOK
      <3> QED
        BY <1>1, <1>3, <3>2, <3>3, <3>4, <3>5, CourierStep, Zenon DEF NextListed, TypeOK
    <2> QED
      BY <1>3, <2>1, <2>2, Zenon DEF NextListed
  <1>4. CASE Abandon(w)
    <2>1. PICK r \in Worker : worker' = [worker EXCEPT ![w] = r] /\ r.pc \in {"idle", "batch"}
      BY <1>1, <1>4, ReturnTypes, Zenon DEF Abandon
    <2>2. CourierOK(w)'
      BY <1>1, <2>1, PassiveOK, Zenon DEF Busy
    <2>3. clock' \in Nat /\ faults' \in Nat
      BY <1>1, <1>4 DEF Abandon, TypeOK
    <2> QED
      BY <1>4, <2>1, <2>2, <2>3, CourierStep, Zenon DEF Abandon
  <1> QED
    BY <1>2, <1>3, <1>4, Zenon

\* A step of one worker that also writes the row of its message, not to completed
\* unless every endpoint has the message.
LEMMA RowStep ==
  ASSUME DeliveryInv, NEW w \in Workers, NEW r \in Worker, NEW m \in Messages, NEW row \in Message,
         worker' = [worker EXCEPT ![w] = r], CourierOK(w)',
         msg' = [msg EXCEPT ![m] = row], row.status = "completed" => AllTook(m),
         jobs' \in [Messages -> [ok : Nat, failed : Nat]],
         UNCHANGED <<clock, endpoint, delivery, accepted, replays, faults>>
  PROVE  DeliveryInv'
  <1>1. TypeOK'
    BY Zenon DEF DeliveryInv, TypeOK
  <1>2. RecordsOK'
    BY Zenon DEF DeliveryInv, RecordsOK
  <1>3. \A v \in Workers : worker'[v] = worker[v] \/ CourierOK(v)'
    BY Zenon DEF DeliveryInv, TypeOK
  <1> QED
    BY <1>1, <1>2, <1>3, Lasting, Zenon DEF DeliveryInv, TypeOK

\* The two updates of claim.
LEMMA ClaimDelivery ==
  ASSUME DeliveryInv, NEW w \in Workers, Recover(w) \/ Claim(w)
  PROVE  DeliveryInv'
  <1>1. TypeOK /\ worker[w] \in Worker /\ worker[w].m \in Messages
    BY Types, Zenon DEF DeliveryInv, CourierOK, Recover, Claim, Busy
  <1>2. ASSUME NEW next \in Message, next.status # "completed", NEW pc \in {"claim", "handle"},
               UpdateIfCurrent(w, next, pc)
        PROVE  DeliveryInv'
    <2>1. CASE IsCurrent(msg[worker[w].m], worker[w].held)
      <3> DEFINE r == [worker[w] EXCEPT !.pc = pc, !.held = next]
      <3>1. r \in Worker /\ r.pc \in {"claim", "handle"} /\ r.m = worker[w].m
        BY <1>1, Zenon DEF Worker
      <3>2. worker' = [worker EXCEPT ![w] = r] /\ msg' = [msg EXCEPT ![worker[w].m] = next]
        BY <1>1, <1>2, <2>1, Zenon DEF UpdateIfCurrent, TypeOK
      <3> HIDE DEF r
      <3>3. CourierOK(w)'
        BY <1>1, <3>1, <3>2, PassiveOK, Zenon
      <3> QED
        BY <1>1, <1>2, <3>1, <3>2, <3>3, RowStep, Zenon DEF UpdateIfCurrent, TypeOK
    <2>2. CASE ~IsCurrent(msg[worker[w].m], worker[w].held)
      <3>1. PICK r \in Worker : worker' = [worker EXCEPT ![w] = r] /\ r.pc \in {"idle", "batch"}
        BY <1>1, <1>2, <2>2, ReturnTypes, Zenon DEF UpdateIfCurrent
      <3>2. CourierOK(w)'
        BY <1>1, <3>1, PassiveOK, Zenon DEF Busy
      <3> QED
        BY <1>1, <1>2, <2>2, <3>1, <3>2, CourierStep, Zenon DEF UpdateIfCurrent, TypeOK
    <2> QED
      BY <2>1, <2>2, Zenon
  <1>3. CASE Recover(w)
    <2>1. [worker[w].held EXCEPT !.status = "pending", !.deadline = ZeroTime, !.updated = worker[w].now] \in Message
      BY <1>1, Zenon DEF Worker, Message, MessageStatus, ZeroTime
    <2>2. [worker[w].held EXCEPT !.status = "pending", !.deadline = ZeroTime, !.updated = worker[w].now].status = "pending"
      BY <1>1, Zenon DEF Worker, Message
    <2> QED
      BY <1>2, <1>3, <2>1, <2>2, Zenon DEF Recover
  <1>4. CASE Claim(w)
    <2>0. worker[w].now \in Nat /\ worker[w].now + Lease \in Nat /\ worker[w].held \in Message
      BY <1>1, Types DEF Worker
    <2>1. [worker[w].held EXCEPT !.status = "processing", !.deadline = worker[w].now + Lease,
                                 !.updated = worker[w].now] \in Message
      BY <2>0, Zenon DEF Message, MessageStatus
    <2>2. [worker[w].held EXCEPT !.status = "processing", !.deadline = worker[w].now + Lease,
                                 !.updated = worker[w].now].status = "processing"
      BY <1>1, Zenon DEF Worker, Message
    <2> QED
      BY <1>2, <1>4, <2>1, <2>2, Zenon DEF Claim
  <1> QED
    BY <1>3, <1>4, Zenon

\* The handler lists the endpoints that match, and goes through them.
LEMMA HandlerDelivery ==
  ASSUME DeliveryInv, NEW w \in Workers,
         HandleOutboxMessage(w) \/ GetWebhookDelivery(w) \/ FailHandler(w)
  PROVE  DeliveryInv'
  <1> DEFINE s == worker[w]
  <1>1. TypeOK /\ s \in Worker /\ s.m \in Messages /\ CourierOK(w)
    BY Types, Zenon DEF DeliveryInv, CourierOK, HandleOutboxMessage, GetWebhookDelivery, FailHandler, Busy
  <1>2. Subscribed[s.m] \subseteq Endpoints
    BY <1>1, EndpointAssumption, Zenon
  <1>3. ASSUME NEW ok \in BOOLEAN, Finished(w, ok), ok => AllTook(s.m),
               UNCHANGED <<msg, jobs, endpoint, delivery, accepted, replays>>, faults' \in Nat
        PROVE  DeliveryInv'
    <2> DEFINE r == [s EXCEPT !.pc = "finish", !.ok = ok, !.now = clock]
    <2>1. r \in Worker /\ r.pc = "finish" /\ r.ok = ok /\ r.m = s.m
      BY <1>1, Zenon DEF Worker, TypeOK
    <2>2. worker' = [worker EXCEPT ![w] = r] /\ worker'[w] = r
      BY <1>1, <1>3, Zenon DEF Finished, TypeOK
    <2> HIDE DEF r
    <2>3. CourierOK(w)'
      BY <1>1, <1>3, <2>1, <2>2, Zenon DEF CourierOK, Busy, AllTook
    <2>4. clock' \in Nat
      BY <1>1, <1>3, Types DEF Finished, ReadClock, TypeOK
    <2> QED
      BY <1>1, <1>3, <2>1, <2>2, <2>3, <2>4, CourierStep, Zenon DEF TypeOK
  <1>4. CASE HandleOutboxMessage(w)
    <2> DEFINE matching == {i \in DOMAIN EndpointList : WebhookEndpointMatches(EndpointList[i], s.m)}
               r == [s EXCEPT !.pc = "deliver", !.eps = matching]
    <2>1. CASE ~s.held.known
      BY <1>1, <1>3, <1>4, <2>1, Zenon DEF HandleOutboxMessage, TypeOK
    <2>2. CASE s.held.known
      <3>1. worker' = [worker EXCEPT ![w] = r] /\ worker'[w] = r
        BY <1>1, <1>4, <2>2, Zenon DEF HandleOutboxMessage, TypeOK
      <3>2. \A ep \in Subscribed[s.m] : endpoint[ep] = "active" => \E i \in matching : EndpointList[i] = ep
        BY <1>2, Zenon DEF WebhookEndpointMatches, Endpoints
      <3>3. matching \subseteq DOMAIN EndpointList
        BY Zenon
      <3> HIDE DEF matching
      <3>4. r \in Worker /\ r.pc = "deliver" /\ r.m = s.m /\ r.eps = matching
        BY <1>1, <3>3, Zenon DEF Worker
      <3> HIDE DEF r
      <3>5. CourierOK(w)'
        BY <1>1, <1>4, <3>1, <3>2, <3>4 DEF HandleOutboxMessage, CourierOK, Busy
      <3> QED
        BY <1>1, <1>4, <2>2, <3>1, <3>4, <3>5, CourierStep, Zenon DEF HandleOutboxMessage, TypeOK
    <2> QED
      BY <2>1, <2>2, Zenon
  <1>5. CASE GetWebhookDelivery(w)
    <2>1. CASE s.eps = {}
      <3>1. AllTook(s.m)
        BY <1>1, <1>5, <2>1, Zenon DEF GetWebhookDelivery, CourierOK, AllTook
      <3> QED
        BY <1>1, <1>3, <1>5, <2>1, <3>1, Zenon DEF GetWebhookDelivery, TypeOK
    <2>2. CASE s.eps # {} /\ delivery[s.m][Current(w)] = "succeeded"
      <3> DEFINE r == [s EXCEPT !.eps = s.eps \ {Min(s.eps)}]
      <3>1. worker' = [worker EXCEPT ![w] = r] /\ worker'[w] = r
        BY <1>1, <1>5, <2>2, Zenon DEF GetWebhookDelivery, TypeOK
      <3>2. r \in Worker /\ r.pc = "deliver" /\ r.m = s.m /\ r.eps = s.eps \ {Min(s.eps)}
        BY <1>1, <1>5, Zenon DEF Worker, GetWebhookDelivery
      <3>3. Current(w) \in accepted[s.m]
        BY <1>1, <2>2, CurrentType, Zenon DEF DeliveryInv, RecordsOK
      <3> HIDE DEF r
      <3>4. \A ep \in Subscribed[s.m] :
               endpoint[ep] = "active" => ep \in accepted[s.m] \/ \E i \in r.eps : EndpointList[i] = ep
        BY <1>1, <1>5, <2>2, <3>2, <3>3, CurrentType, Zenon DEF CourierOK, GetWebhookDelivery
      <3>5. CourierOK(w)'
        BY <1>1, <1>5, <3>1, <3>2, <3>4 DEF GetWebhookDelivery, CourierOK, Busy
      <3> QED
        BY <1>1, <1>5, <2>2, <3>1, <3>2, <3>5, CourierStep, Zenon DEF GetWebhookDelivery, TypeOK
    <2>3. CASE s.eps # {} /\ delivery[s.m][Current(w)] # "succeeded"
      <3> DEFINE r == [s EXCEPT !.pc = "post"]
      <3>1. worker' = [worker EXCEPT ![w] = r] /\ worker'[w] = r
        BY <1>1, <1>5, <2>3, Zenon DEF GetWebhookDelivery, TypeOK
      <3>2. r \in Worker /\ r.pc = "post" /\ r.m = s.m /\ r.eps = s.eps
        BY <1>1, Zenon DEF Worker
      <3> HIDE DEF r
      <3>3. CourierOK(w)'
        BY <1>1, <1>5, <2>3, <3>1, <3>2 DEF GetWebhookDelivery, CourierOK, Busy
      <3> QED
        BY <1>1, <1>5, <2>3, <3>1, <3>2, <3>3, CourierStep, Zenon DEF GetWebhookDelivery, TypeOK
    <2> QED
      BY <2>1, <2>2, <2>3, Zenon
  <1>6. CASE FailHandler(w)
    <2>1. faults' \in Nat
      BY <1>1, <1>6 DEF FailHandler, TypeOK
    <2> QED
      BY <1>3, <1>6, <2>1, Zenon DEF FailHandler
  <1> QED
    BY <1>4, <1>5, <1>6, Zenon

\* The receiver may take the message; the answer is recorded.
LEMMA PostDelivery ==
  ASSUME DeliveryInv, NEW w \in Workers, PostWebhook(w) \/ RecordWebhookDelivery(w)
  PROVE  DeliveryInv'
  <1> DEFINE s == worker[w]
             ep == Current(w)
  <1>1. TypeOK /\ s \in Worker /\ s.m \in Messages /\ CourierOK(w) /\ RecordsOK /\ s.eps # {}
    BY Types, Zenon DEF DeliveryInv, CourierOK, PostWebhook, RecordWebhookDelivery, Busy
  <1>2. ep \in Endpoints /\ \A i \in s.eps : EndpointList[i] # ep => i \in s.eps \ {Min(s.eps)}
    BY <1>1, CurrentType, Zenon
  <1>3. CASE PostWebhook(w)
    <2>1. PICK taken, ok \in BOOLEAN :
              /\ ok => taken
              /\ accepted' = [accepted EXCEPT ![s.m] = IF taken THEN @ \cup {ep} ELSE @]
              /\ worker' = [worker EXCEPT ![w].pc = "record", ![w].ok = ok]
      BY <1>3, Zenon DEF PostWebhook
    <2> DEFINE r == [s EXCEPT !.pc = "record", !.ok = ok]
    <2>2. worker' = [worker EXCEPT ![w] = r] /\ worker'[w] = r
      BY <1>1, <2>1, Zenon DEF TypeOK
    <2>3. r \in Worker /\ r.pc = "record" /\ r.m = s.m /\ r.eps = s.eps /\ r.ok = ok
      BY <1>1, Zenon DEF Worker
    <2>4. /\ accepted' \in [Messages -> SUBSET Endpoints]
          /\ \A m \in Messages : accepted[m] \subseteq accepted'[m]
          /\ taken => ep \in accepted'[s.m]
      BY <1>1, <1>2, <2>1, Zenon DEF TypeOK
    <2>5. UNCHANGED <<clock, msg, jobs, endpoint, delivery, replays, faults>>
      BY <1>3, Zenon DEF PostWebhook
    <2>6. Current(w)' = ep
      BY <2>2, <2>3, Zenon DEF Current
    <2> HIDE DEF r, ep
    <2>7. TypeOK'
      BY <1>1, <2>2, <2>3, <2>4, <2>5, Zenon DEF TypeOK
    <2>8. RecordsOK'
      BY <1>1, <2>4, <2>5, Zenon DEF RecordsOK
    <2>9. CourierOK(w)'
      <3>1. s.pc = "post" /\ CourierOK(w)
        BY <1>1, <1>3, Zenon DEF PostWebhook
      <3>2. s.m \in Messages /\ s.eps # {}
        BY <3>1, Zenon DEF CourierOK, Busy
      <3>3. \A e \in Subscribed[s.m] :
                endpoint[e] = "active" => e \in accepted[s.m] \/ \E i \in s.eps : EndpointList[i] = e
        BY <3>1, Zenon DEF CourierOK
      <3>4. \A e \in Subscribed[s.m] :
                endpoint'[e] = "active" => e \in accepted'[s.m] \/ \E i \in s.eps : EndpointList[i] = e
        BY <2>4, <2>5, <3>2, <3>3, Zenon
      <3>5. r.ok => Current(w)' \in accepted'[s.m]
        BY <2>1, <2>3, <2>4, <2>6, Zenon
      <3> QED
        BY <2>2, <2>3, <3>2, <3>4, <3>5, Zenon DEF CourierOK
    <2>10. \A v \in Workers : worker'[v] = worker[v] \/ CourierOK(v)'
      BY <1>1, <2>2, <2>9, Zenon DEF TypeOK
    <2> QED
      BY <2>4, <2>5, <2>7, <2>8, <2>10, Lasting, Zenon
  <1>4. CASE RecordWebhookDelivery(w)
    <2>1. /\ delivery' = [delivery EXCEPT ![s.m][ep] = IF s.ok THEN "succeeded" ELSE "failed"]
          /\ UNCHANGED <<msg, jobs, endpoint, accepted, replays, faults>>
      BY <1>4, Zenon DEF RecordWebhookDelivery
    <2>2. s.ok => ep \in accepted[s.m]
      BY <1>1, <1>4, Zenon DEF CourierOK, RecordWebhookDelivery
    <2> HIDE DEF ep
    <2>3. delivery' \in [Messages -> [Endpoints -> DeliveryStatus]] /\ RecordsOK'
      <3>1. delivery' \in [Messages -> [Endpoints -> DeliveryStatus]]
        BY <1>1, <1>2, <2>1, Zenon DEF TypeOK, DeliveryStatus
      <3>2. RecordsOK'
        BY <1>1, <1>2, <2>1, <2>2, Zenon DEF TypeOK, RecordsOK
      <3> QED
        BY <3>1, <3>2, Zenon
    <2>4. ASSUME NEW r \in Worker, worker' = [worker EXCEPT ![w] = r], CourierOK(w)', clock' \in Nat
          PROVE  DeliveryInv'
      <3>1. TypeOK'
        BY <1>1, <2>1, <2>3, <2>4, Zenon DEF TypeOK
      <3>2. \A v \in Workers : worker'[v] = worker[v] \/ CourierOK(v)'
        BY <1>1, <2>4, Zenon DEF TypeOK
      <3> QED
        BY <2>1, <2>3, <3>1, <3>2, Lasting, Zenon
    <2>5. CASE s.ok
      <3> DEFINE r == [s EXCEPT !.pc = "deliver", !.eps = s.eps \ {Min(s.eps)}]
      <3>1. worker' = [worker EXCEPT ![w] = r] /\ worker'[w] = r /\ clock' = clock
        BY <1>1, <1>4, <2>5, Zenon DEF RecordWebhookDelivery, TypeOK
      <3>2. r \in Worker /\ r.pc = "deliver" /\ r.m = s.m /\ r.eps = s.eps \ {Min(s.eps)}
        BY <1>1, Zenon DEF Worker
      <3> HIDE DEF r
      <3>3. \A e \in Subscribed[s.m] :
               endpoint[e] = "active" => e \in accepted[s.m] \/ \E i \in r.eps : EndpointList[i] = e
        BY <1>1, <1>2, <1>4, <2>2, <2>5, <3>2 DEF CourierOK, RecordWebhookDelivery
      <3>4. CourierOK(w)'
        BY <1>1, <2>1, <3>1, <3>2, <3>3 DEF CourierOK, Busy
      <3> QED
        BY <1>1, <2>4, <3>1, <3>2, <3>4, Zenon DEF TypeOK
    <2>6. CASE ~s.ok
      <3> DEFINE r == [s EXCEPT !.pc = "finish", !.ok = FALSE, !.now = clock]
      <3>1. worker' = [worker EXCEPT ![w] = r] /\ worker'[w] = r /\ clock' = clock + ReadTicks
        BY <1>1, <1>4, <2>6, Zenon DEF RecordWebhookDelivery, Finished, ReadClock, TypeOK
      <3>2. r \in Worker /\ r.pc = "finish" /\ r.m = s.m /\ ~r.ok
        BY <1>1, Zenon DEF Worker, TypeOK
      <3> HIDE DEF r
      <3>3. CourierOK(w)'
        BY <1>1, <3>1, <3>2, PassiveOK, Zenon
      <3>4. clock' \in Nat
        BY <1>1, <3>1, Types DEF TypeOK
      <3> QED
        BY <2>4, <3>1, <3>2, <3>3, <3>4, Zenon
    <2> QED
      BY <2>5, <2>6, Zenon
  <1> QED
    BY <1>3, <1>4, Zenon

\* The row after an attempt: completed exactly when it succeeded, else dead when the
\* attempts are used up, and pending otherwise.
LEMMA AfterTypes ==
  ASSUME NEW row \in Message, NEW ok \in BOOLEAN, NEW now \in Nat, NEW r \in AfterAttempt(row, ok, now)
  PROVE  /\ r \in Message /\ r.updated = now
         /\ ok => r.status = "completed" /\ r.attempts = row.attempts
         /\ ~ok => /\ r.attempts = row.attempts + 1
                   /\ r.status = IF row.attempts + 1 >= MaxAttempts THEN "dead_letter" ELSE "pending"
  <1> DEFINE n == row.attempts + 1
             base == [row EXCEPT !.deadline = ZeroTime, !.updated = now]
  <1>1. base \in Message /\ n \in Nat /\ base.updated = now /\ base.attempts = row.attempts
    <2>1. row.attempts \in Nat
      BY Zenon DEF Message
    <2>2. base \in Message /\ base.updated = now /\ base.attempts = row.attempts
      BY Zenon DEF Message, ZeroTime
    <2> QED
      BY <2>1, <2>2
  <1>2. RetryDelaysForMessage(n) \subseteq Nat
    <2>1. Len(RetryDelays) \in Nat /\ Len(RetryDelays) >= 1 /\ \A i \in 1 .. Len(RetryDelays) : RetryDelays[i] \in Nat
      BY TimeAssumption
    <2>2. RetryDelayForAttempt(n) \in Nat
      BY <1>1, <2>1 DEF RetryDelayForAttempt
    <2> QED
      BY <2>2 DEF RetryDelaysForMessage
  <1> HIDE DEF n, base
  <1>3. CASE ok
    <2>1. r = [base EXCEPT !.status = "completed"]
      BY <1>3, Zenon DEF AfterAttempt, base
    <2> QED
      BY <1>1, <1>3, <2>1, Zenon DEF Message, MessageStatus
  <1>4. CASE ~ok /\ n >= MaxAttempts
    <2>1. r = [base EXCEPT !.status = "dead_letter", !.attempts = n]
      BY <1>4, Zenon DEF AfterAttempt, base, n
    <2>2. r \in Message /\ r.updated = now /\ r.attempts = n /\ r.status = "dead_letter"
      BY <1>1, <2>1, Zenon DEF Message, MessageStatus
    <2> QED
      BY <1>4, <2>2, Zenon DEF n
  <1>5. CASE ~ok /\ ~(n >= MaxAttempts)
    <2>1. PICK d \in RetryDelaysForMessage(n) :
             r = [base EXCEPT !.status = "pending", !.attempts = n, !.available = now + d]
      BY <1>5, Zenon DEF AfterAttempt, base, n
    <2>2. now + d \in Nat
      BY <1>2
    <2>3. r \in Message /\ r.updated = now /\ r.attempts = n /\ r.status = "pending"
      BY <1>1, <2>1, <2>2, Zenon DEF Message, MessageStatus
    <2> QED
      BY <1>5, <2>3, Zenon DEF n
  <1> QED
    BY <1>3, <1>4, <1>5, Zenon

\* The outcome is written.
LEMMA FinishDelivery ==
  ASSUME DeliveryInv, NEW w \in Workers, Finish(w)
  PROVE  DeliveryInv'
  <1> DEFINE s == worker[w]
  <1>1. TypeOK /\ s \in Worker /\ s.m \in Messages /\ CourierOK(w)
    BY Types, Zenon DEF DeliveryInv, CourierOK, Finish, Busy
  <1>2. PICK r \in Worker : worker' = [worker EXCEPT ![w] = r] /\ r.pc \in {"idle", "batch"}
    BY <1>1, ReturnTypes, Zenon DEF Finish
  <1>3. CourierOK(w)'
    BY <1>1, <1>2, PassiveOK, Zenon DEF Busy
  <1>4. CASE ~IsCurrent(msg[s.m], s.held)
    BY <1>1, <1>2, <1>3, <1>4, CourierStep, Zenon DEF Finish, TypeOK
  <1>5. CASE IsCurrent(msg[s.m], s.held)
    <2>1. PICK row \in AfterAttempt(s.held, s.ok, s.now) : msg' = [msg EXCEPT ![s.m] = row]
      BY <1>5, Zenon DEF Finish
    <2>2. s.held \in Message /\ s.ok \in BOOLEAN /\ s.now \in Nat
      BY <1>1, Zenon DEF Worker
    <2>3. row \in Message /\ (row.status = "completed" => s.ok)
      <3>1. /\ row \in Message
            /\ ~s.ok => row.status = IF s.held.attempts + 1 >= MaxAttempts THEN "dead_letter" ELSE "pending"
        BY <2>1, <2>2, AfterTypes
      <3> QED
        BY <3>1, Zenon
    <2>4. row.status = "completed" => AllTook(s.m)
      BY <1>1, <2>3, Zenon DEF CourierOK, Finish
    <2>5. jobs' \in [Messages -> [ok : Nat, failed : Nat]]
      <3>1. PICK job \in [ok : Nat, failed : Nat] : job = jobs[s.m]
        BY <1>1, Zenon DEF TypeOK
      <3>2. job.ok + 1 \in Nat /\ job.failed + 1 \in Nat
        <4>1. job.ok \in Nat /\ job.failed \in Nat
          BY Zenon
        <4> QED
          BY <4>1
      <3>3. PICK next \in [ok : Nat, failed : Nat] : jobs' = [jobs EXCEPT ![s.m] = next]
        <4>1. /\ [job EXCEPT !.ok = job.ok + 1] \in [ok : Nat, failed : Nat]
              /\ [job EXCEPT !.failed = job.failed + 1] \in [ok : Nat, failed : Nat]
          BY <3>2, Zenon
        <4>2. \/ jobs' = [jobs EXCEPT ![s.m] = [job EXCEPT !.ok = job.ok + 1]]
              \/ jobs' = [jobs EXCEPT ![s.m] = [job EXCEPT !.failed = job.failed + 1]]
          <5>1. CASE s.ok
            BY <1>5, <3>1, <5>1, Zenon DEF Finish
          <5>2. CASE ~s.ok
            BY <1>5, <3>1, <5>2, Zenon DEF Finish
          <5> QED
            BY <5>1, <5>2, Zenon
        <4> QED
          BY <4>1, <4>2, Zenon
      <3> QED
        BY <1>1, <3>3, Zenon DEF TypeOK
    <2> QED
      BY <1>1, <1>2, <1>3, <2>1, <2>3, <2>4, <2>5, RowStep, Zenon DEF Finish
  <1> QED
    BY <1>4, <1>5, Zenon

\* Every step keeps the invariant.
LEMMA NextDelivery == DeliveryInv /\ [Next]_vars => DeliveryInv'
  <1> SUFFICES ASSUME DeliveryInv, [Next]_vars PROVE DeliveryInv'
    BY Zenon
  <1>1. CASE UNCHANGED vars
    BY <1>1, Zenon DEF vars, DeliveryInv, TypeOK, RecordsOK, CourierOK, AllTook, Current, CompletedIsDelivered
  <1>2. ASSUME NEW w \in Workers, WorkerStep(w) \/ FailHandler(w) \/ Abandon(w) PROVE DeliveryInv'
    BY <1>2, BatchDelivery, ClaimDelivery, HandlerDelivery, PostDelivery, FinishDelivery, Zenon DEF WorkerStep
  <1> QED
    BY <1>1, <1>2, OutsideDelivery, Zenon DEF Next, Step

\* The invariant about deliveries holds throughout.
THEOREM DeliveryInvariant == Spec => []DeliveryInv
  BY InitDelivery, NextDelivery, PTL DEF Spec

\* A message is completed only when every endpoint that subscribed to it and is still
\* active took it in, whatever workers stop, overlap or outlive their lease
\* (HandleOutboxMessage, finish).
THEOREM Delivered == Spec => []CompletedIsDelivered
  <1>1. DeliveryInv => CompletedIsDelivered
    BY Zenon DEF DeliveryInv
  <1> QED
    BY <1>1, DeliveryInvariant, PTL

-----------------------------------------------------------------------------
(* Claims *)

\* Before there is a message.
LEMMA InitClaim == Init => ClaimInv
  <1> SUFFICES ASSUME Init PROVE ClaimInv
    BY Zenon
  <1>1. \A m \in Messages : RowOK(m)
    <2> TAKE m \in Messages
    <2>1. msg[m] = NoMessage /\ jobs[m] = [ok |-> 0, failed |-> 0] /\ replays[m] = 0 /\ clock = 1
      BY Zenon DEF Init
    <2>2. Counted(m)
      BY <2>1, LimitAssumption DEF Counted, NoMessage
    <2> QED
      BY <2>1, <2>2, LimitAssumption DEF RowOK, NoMessage, ZeroTime
  <1>2. \A w \in Workers : worker[w] = IdleWorker
    BY Zenon DEF Init
  <1>3. \A w \in Workers : Stamps(w) = {} /\ \A l : ~Copy(w, l)
    BY <1>2 DEF Stamps, Copy, IdleWorker, Busy
  <1>4. \A w \in Workers : \A row : Fresh(w, row)
    BY <1>2 DEF Fresh, IdleWorker
  <1>5. \A w \in Workers : ClaimOK(w)
    BY <1>2, <1>3, <1>4 DEF ClaimOK, IdleWorker, Busy
  <1>6. \A v, w \in Workers : Apart(v, w)
    BY <1>3, <1>4, Zenon DEF Apart
  <1> QED
    BY <1>1, <1>5, <1>6, Zenon DEF ClaimInv

\* What a worker has of the rows and of the times is in its local state.
LEMMA SameWorker ==
  ASSUME NEW w, worker'[w] = worker[w]
  PROVE  /\ Stamps(w)' = Stamps(w)
         /\ \A l : Copy(w, l)' <=> Copy(w, l)
         /\ \A row : Fresh(w, row)' <=> Fresh(w, row)
  BY Zenon DEF Stamps, Copy, Fresh

\* A row that is not written keeps its columns.
LEMMA SameRow ==
  ASSUME NEW m, RowOK(m), msg'[m] = msg[m], jobs'[m] = jobs[m], replays'[m] = replays[m],
         msg[m].updated < clock'
  PROVE  RowOK(m)'
  <1>1. Counted(m)'
    BY Zenon DEF RowOK, Counted
  <1> QED
    BY <1>1 DEF RowOK

\* Steps that write no row.  One worker moves at most: its copies are ones that it
\* had or stored rows, and its times are ones it had or the reading of the clock.
LEMMA QuietStep ==
  ASSUME DeliveryInv, ClaimInv, NEW w \in Workers, NEW r \in Worker,
         worker' = [worker EXCEPT ![w] = r],
         UNCHANGED <<msg, jobs, replays>>,
         clock \in Nat, clock' \in Nat, clock <= clock',
         \A l \in Listed : Copy(w, l)' =>
            Copy(w, l) \/ (msg[l.m] = l.row /\ l.row.status \in {"pending", "processing"}),
         \A t \in Stamps(w)' : t \in Stamps(w) \/ (t = clock /\ clock < clock'),
         r.pc = "claim" => r.held.status = "pending",
         r.pc \in Busy \ {"claim"} => r.held.status = "processing",
         r.pc \in {"recover", "claim", "finish"} => r.now = clock /\ clock < clock'
  PROVE  ClaimInv'
  <1>1. /\ worker'[w] = r /\ \A v \in Workers \ {w} : worker'[v] = worker[v]
        /\ msg \in [Messages -> Message]
    BY Zenon DEF DeliveryInv, TypeOK
  <1>2. \A m \in Messages : RowOK(m)'
    <2> TAKE m \in Messages
    <2>1. RowOK(m) /\ msg[m].updated \in Nat
      BY <1>1, Zenon DEF ClaimInv, Message
    <2>2. msg[m].updated < clock'
      BY <2>1 DEF RowOK
    <2> QED
      BY <2>1, <2>2, SameRow, Zenon
  <1>3. \A m \in Messages : msg[m].updated \in Nat /\ msg[m].updated < clock
    BY <1>1, Zenon DEF ClaimInv, RowOK, Message
  <1>4. \A v \in Workers, l \in Listed : Copy(v, l)' => CopyOK(l) /\ l.row.updated \in Nat
    <2> SUFFICES ASSUME NEW v \in Workers, NEW l \in Listed, Copy(v, l)' PROVE CopyOK(l) /\ l.row.updated \in Nat
      BY Zenon
    <2>1. l.row.updated \in Nat /\ l.m \in Messages
      BY Zenon DEF Listed, Message
    <2>2. CASE Copy(v, l)
      BY <2>1, <2>2, Zenon DEF ClaimInv, ClaimOK
    <2>3. CASE ~Copy(v, l)
      <3>1. v = w /\ msg[l.m] = l.row /\ l.row.status \in {"pending", "processing"}
        BY <1>1, <2>3, SameWorker, Zenon
      <3> QED
        BY <1>3, <2>1, <3>1, Zenon DEF CopyOK
    <2> QED
      BY <2>2, <2>3, Zenon
  <1>5. \A v \in Workers, l \in Listed : Copy(v, l)' => CopyOK(l)'
    BY <1>4 DEF CopyOK
  <1>6. \A v \in Workers \ {w} : \A t \in Stamps(v)' : t \in Stamps(v) /\ t \in Nat /\ t < clock
    <2> SUFFICES ASSUME NEW v \in Workers \ {w}, NEW t \in Stamps(v) PROVE t \in Nat /\ t < clock
      BY <1>1, SameWorker, Zenon
    <2>1. t \in Nat
      BY Types DEF Stamps, Worker, Message, DeliveryInv
    <2> QED
      BY <2>1, Zenon DEF ClaimInv, ClaimOK
  <1>7. \A t \in Stamps(w)' : t < clock'
    <2> SUFFICES ASSUME NEW t \in Stamps(w)' PROVE t < clock'
      BY Zenon
    <2>1. t \in Stamps(w) => t \in Nat /\ t < clock
      <3>1. t \in Stamps(w) => t \in Nat
        BY Types DEF Stamps, Worker, Message, DeliveryInv
      <3> QED
        BY <3>1, Zenon DEF ClaimInv, ClaimOK
    <2> QED
      BY <2>1
  <1>8. \A row \in Message : row.updated < clock => Fresh(w, row)'
    BY <1>1 DEF Fresh, Message
  <1>9. \A v \in Workers, row \in Message :
           (v # w => Fresh(v, row)) /\ row.updated < clock => Fresh(v, row)'
    BY <1>1, <1>8, SameWorker, Zenon
  <1>10. \A v \in Workers : ClaimOK(v)'
    <2> SUFFICES ASSUME NEW v \in Workers PROVE ClaimOK(v)'
      BY Zenon
    <2>1. \A m \in Messages : Fresh(v, msg[m])'
      <3> TAKE m \in Messages
      <3>1. PICK row \in Message : row = msg[m]
        BY <1>1, Zenon
      <3>2. Fresh(v, row)'
        BY <1>3, <1>9, <3>1, Zenon DEF ClaimInv, ClaimOK
      <3> QED
        BY <3>1, <3>2, Zenon DEF Fresh
    <2>2. \A t \in Stamps(v)' : t < clock'
      BY <1>6, <1>7
    <2>3. CASE v = w
      BY <1>1, <1>5, <2>1, <2>2, <2>3, Zenon DEF ClaimOK
    <2>4. CASE v # w
      BY <1>1, <1>5, <2>1, <2>2, <2>4, Zenon DEF ClaimInv, ClaimOK
    <2> QED
      BY <2>3, <2>4, Zenon
  <1>11. \A u, v \in Workers : Apart(u, v)'
    <2> SUFFICES ASSUME NEW u \in Workers, NEW v \in Workers PROVE Apart(u, v)'
      BY Zenon
    <2>1. u # v => Stamps(u)' \cap Stamps(v)' = {}
      <3> SUFFICES ASSUME u # v, NEW t, t \in Stamps(u)', t \in Stamps(v)' PROVE FALSE
        BY Zenon
      <3>1. CASE t \in Stamps(u) /\ t \in Stamps(v)
        BY <3>1, Zenon DEF ClaimInv, Apart
      <3>2. CASE ~(t \in Stamps(u) /\ t \in Stamps(v))
        <4>1. t = clock /\ (u = w \/ v = w)
          BY <1>6, <3>2, Zenon
        <4> QED
          BY <1>6, <4>1
      <3> QED
        BY <3>1, <3>2, Zenon
    <2>2. ASSUME NEW l \in Listed, Copy(v, l)' PROVE Fresh(u, l.row)'
      <3>1. l.row \in Message /\ l.m \in Messages /\ l.row.updated < clock
        BY <1>4, <2>2, Zenon DEF CopyOK, Listed
      <3>2. u # w => Fresh(u, l.row)
        <4>1. CASE Copy(v, l)
          BY <4>1, Zenon DEF ClaimInv, Apart
        <4>2. CASE ~Copy(v, l)
          <5>1. msg[l.m] = l.row
            BY <1>1, <2>2, <4>2, SameWorker, Zenon
          <5> QED
            BY <3>1, <5>1, Zenon DEF ClaimInv, ClaimOK
        <4> QED
          BY <4>1, <4>2, Zenon
      <3> QED
        BY <1>9, <3>1, <3>2, Zenon
    <2> QED
      BY <2>1, <2>2, Zenon DEF Apart
  <1> QED
    BY <1>2, <1>10, <1>11, Zenon DEF ClaimInv

\* The times of a worker are numbers before the clock.
LEMMA StampTypes ==
  ASSUME DeliveryInv, ClaimInv, NEW v \in Workers, NEW t \in Stamps(v)
  PROVE  t \in Nat /\ t < clock
  <1>1. t \in Nat
    BY Types DEF Stamps, Worker, Message, DeliveryInv
  <1> QED
    BY <1>1, Zenon DEF ClaimInv, ClaimOK

\* A worker writes the row of its message with the time it has read.  No copy of
\* another worker compares as current with the new row.
LEMMA WriteStep ==
  ASSUME DeliveryInv, ClaimInv, NEW w \in Workers, NEW r \in Worker, NEW m \in Messages, NEW next \in Message,
         worker' = [worker EXCEPT ![w] = r],
         msg' = [msg EXCEPT ![m] = next],
         \A n \in Messages \ {m} : jobs'[n] = jobs[n],
         UNCHANGED <<clock, replays>>,
         next.updated = worker[w].now,
         RowOK(m)',
         r.todo \subseteq worker[w].todo,
         \/ worker[w].pc \in {"recover", "finish"} /\ r.pc \notin Busy
         \/ /\ worker[w].pc = "recover" /\ r.pc = "claim" /\ next.status = "pending"
            /\ r.now = worker[w].now /\ r.m = m /\ r.held = next
         \/ /\ worker[w].pc = "claim" /\ r.pc = "handle" /\ next.status = "processing"
            /\ r.m = m /\ r.held = next
  PROVE  ClaimInv'
  <1>1. /\ worker'[w] = r /\ \A v \in Workers \ {w} : worker'[v] = worker[v]
        /\ msg \in [Messages -> Message] /\ msg'[m] = next /\ \A n \in Messages \ {m} : msg'[n] = msg[n]
        /\ clock \in Nat
    BY Zenon DEF DeliveryInv, TypeOK
  <1>2. worker[w].now \in Stamps(w)
    BY Zenon DEF Stamps
  <1>3. Stamps(w)' \subseteq Stamps(w)
    BY <1>1, <1>2 DEF Stamps, Busy
  <1>4. \A n \in Messages : RowOK(n)'
    <2> SUFFICES ASSUME NEW n \in Messages, n # m PROVE RowOK(n)'
      BY Zenon
    <2>1. RowOK(n) /\ msg'[n] = msg[n] /\ jobs'[n] = jobs[n] /\ replays'[n] = replays[n]
      BY <1>1, Zenon DEF ClaimInv
    <2>2. msg[n].updated < clock'
      BY <2>1, Zenon DEF RowOK
    <2> QED
      BY <2>1, <2>2, SameRow, Zenon
  <1>5. next.updated < clock
    BY <1>2, StampTypes, Zenon
  <1>6. \A v \in Workers, l \in Listed : Copy(v, l)' =>
           \/ Copy(v, l)
           \/ v = w /\ l.m = m /\ l.row = next /\ next.status \in {"pending", "processing"}
    <2> TAKE v \in Workers, l \in Listed
    <2> SUFFICES ASSUME Copy(v, l)', ~Copy(v, l)
                 PROVE  v = w /\ l.m = m /\ l.row = next /\ next.status \in {"pending", "processing"}
      BY Zenon
    <2>1. v = w
      BY <1>1, SameWorker, Zenon
    <2>2. l \notin r.todo
      BY <2>1, Zenon DEF Copy
    <2>3. r.pc \in Busy /\ l.m = r.m /\ l.row = r.held
      BY <1>1, <2>1, <2>2 DEF Copy
    <2> QED
      BY <2>1, <2>3, Zenon
  <1>7. \A v \in Workers, l \in Listed : Copy(v, l)' => CopyOK(l)'
    <2> SUFFICES ASSUME NEW v \in Workers, NEW l \in Listed, Copy(v, l)' PROVE CopyOK(l)'
      BY Zenon
    <2>1. CASE l.m = m /\ l.row = next /\ next.status \in {"pending", "processing"}
      BY <1>1, <1>5, <2>1, Zenon DEF CopyOK
    <2>2. CASE Copy(v, l)
      <3>1. CopyOK(l) /\ Fresh(w, l.row) /\ l.m \in Messages
        BY <2>2, Zenon DEF ClaimInv, ClaimOK, Apart, Listed
      <3>2. CASE l.m # m
        BY <1>1, <3>1, <3>2, Zenon DEF CopyOK
      <3>3. CASE l.m = m
        <4>1. ~IsCurrent(next, l.row)
          BY <3>1, Zenon DEF Fresh, IsCurrent
        <4> QED
          BY <1>1, <3>1, <3>3, <4>1, Zenon DEF CopyOK
      <3> QED
        BY <3>2, <3>3, Zenon
    <2> QED
      BY <1>6, <2>1, <2>2, Zenon
  <1>8. \A v \in Workers, row \in Message : row = next \/ Fresh(v, row) => Fresh(v, row)'
    <2> SUFFICES ASSUME NEW v \in Workers, NEW row \in Message, row = next \/ Fresh(v, row) PROVE Fresh(v, row)'
      BY Zenon
    <2>1. CASE v = w
      BY <1>1, <2>1, Zenon DEF Fresh, Busy
    <2>2. CASE v # w
      <3>1. worker[v].pc \in {"recover", "claim", "finish"} => worker[v].now # next.updated
        <4>1. worker[v].pc \in {"recover", "claim", "finish"} => worker[v].now \in Stamps(v)
          BY Zenon DEF Stamps
        <4> QED
          BY <1>2, <2>2, <4>1, Zenon DEF ClaimInv, Apart
      <3>2. row = next => Fresh(v, row)
        BY <3>1, Zenon DEF Fresh
      <3> QED
        BY <1>1, <2>2, <3>2, SameWorker, Zenon
    <2> QED
      BY <2>1, <2>2, Zenon
  <1>9. \A v \in Workers : ClaimOK(v)'
    <2> SUFFICES ASSUME NEW v \in Workers PROVE ClaimOK(v)'
      BY Zenon
    <2>1. \A n \in Messages : Fresh(v, msg[n])'
      <3> TAKE n \in Messages
      <3>1. PICK row \in Message : row = IF n = m THEN next ELSE msg[n]
        BY <1>1, Zenon
      <3>2. Fresh(v, row)'
        BY <1>8, <3>1, Zenon DEF ClaimInv, ClaimOK
      <3> QED
        BY <1>1, <3>1, <3>2, Zenon DEF Fresh
    <2>2. \A t \in Stamps(v)' : t < clock'
      <3>1. Stamps(v)' \subseteq Stamps(v)
        BY <1>1, <1>3, SameWorker
      <3> QED
        BY <3>1, StampTypes, Zenon
    <2>3. CASE v = w
      BY <1>1, <1>7, <2>1, <2>2, <2>3 DEF ClaimOK, Busy
    <2>4. CASE v # w
      BY <1>1, <1>7, <2>1, <2>2, <2>4 DEF ClaimInv, ClaimOK
    <2> QED
      BY <2>3, <2>4, Zenon
  <1>10. \A u, v \in Workers : Apart(u, v)'
    <2> SUFFICES ASSUME NEW u \in Workers, NEW v \in Workers PROVE Apart(u, v)'
      BY Zenon
    <2>1. u # v => Stamps(u)' \cap Stamps(v)' = {}
      <3>1. Stamps(u)' \subseteq Stamps(u) /\ Stamps(v)' \subseteq Stamps(v)
        BY <1>1, <1>3, SameWorker
      <3> QED
        BY <3>1, Zenon DEF ClaimInv, Apart
    <2>2. ASSUME NEW l \in Listed, Copy(v, l)' PROVE Fresh(u, l.row)'
      <3>1. l.row = next \/ Fresh(u, l.row)
        BY <1>6, <2>2, Zenon DEF ClaimInv, Apart
      <3>2. l.row \in Message
        BY Zenon DEF Listed
      <3> QED
        BY <1>8, <3>1, <3>2, Zenon
    <2> QED
      BY <2>1, <2>2, Zenon DEF Apart
  <1> QED
    BY <1>4, <1>9, <1>10, Zenon DEF ClaimInv

\* Rows that are written outside of a batch have the reading of the clock.
LEMMA OutsideStep ==
  ASSUME DeliveryInv, ClaimInv, DeliveryInv', UNCHANGED worker, clock < clock',
         \A m \in Messages : msg'[m] = msg[m] \/ msg'[m].updated = clock,
         \A m \in Messages : RowOK(m)'
  PROVE  ClaimInv'
  <1>1. clock \in Nat /\ clock' \in Nat /\ \A m \in Messages : msg'[m] \in Message
    BY Zenon DEF DeliveryInv, TypeOK
  <1>2. \A v \in Workers, l \in Listed : Copy(v, l)' => CopyOK(l)'
    <2> SUFFICES ASSUME NEW v \in Workers, NEW l \in Listed, Copy(v, l) PROVE CopyOK(l)'
      BY SameWorker, Zenon
    <2>1. CopyOK(l) /\ l.m \in Messages /\ l.row.updated \in Nat
      BY Zenon DEF ClaimInv, ClaimOK, Listed, Message
    <2>2. CASE msg'[l.m] = msg[l.m]
      BY <1>1, <2>1, <2>2 DEF CopyOK
    <2>3. CASE msg'[l.m].updated = clock
      BY <1>1, <2>1, <2>3 DEF CopyOK, IsCurrent
    <2> QED
      BY <2>1, <2>2, <2>3, Zenon
  <1>3. \A v \in Workers : ClaimOK(v)'
    <2> SUFFICES ASSUME NEW v \in Workers PROVE ClaimOK(v)'
      BY Zenon
    <2>1. \A t \in Stamps(v) : t \in Nat /\ t < clock /\ t < clock'
      BY <1>1, StampTypes
    <2>2. \A t \in Stamps(v)' : t < clock'
      BY <2>1, SameWorker, Zenon
    <2>3. \A m \in Messages : Fresh(v, msg[m])'
      <3> TAKE m \in Messages
      <3>1. CASE msg'[m] = msg[m]
        BY <3>1, Zenon DEF Fresh, ClaimInv, ClaimOK
      <3>2. CASE msg'[m].updated = clock
        <4>1. worker[v].pc \in {"recover", "claim", "finish"} => worker[v].now \in Stamps(v)
          BY Zenon DEF Stamps
        <4>2. worker[v].pc \in {"recover", "claim", "finish"} => worker[v].now # clock
          BY <1>1, <2>1, <4>1
        <4> QED
          BY <3>2, <4>2, Zenon DEF Fresh
      <3> QED
        BY <3>1, <3>2, Zenon
    <2> QED
      BY <1>2, <2>2, <2>3, Zenon DEF ClaimInv, ClaimOK
  <1>4. \A u, v \in Workers : Apart(u, v)'
    BY SameWorker, Zenon DEF ClaimInv, Apart
  <1> QED
    BY <1>3, <1>4, Zenon DEF ClaimInv

\* A step that leaves alone what the invariant is about.
LEMMA SameClaim ==
  ASSUME ClaimInv, UNCHANGED <<clock, msg, jobs, worker, replays>>
  PROVE  ClaimInv'
  <1>1. \A m \in Messages : RowOK(m)'
    BY Zenon DEF ClaimInv, RowOK, Counted
  <1>2. \A l \in Listed : CopyOK(l) => CopyOK(l)'
    BY Zenon DEF CopyOK
  <1>3. \A w \in Workers, m \in Messages : Fresh(w, msg[m])'
    BY Zenon DEF ClaimInv, ClaimOK, Fresh
  <1>4. \A w \in Workers : ClaimOK(w)'
    BY <1>2, <1>3, SameWorker, Zenon DEF ClaimInv, ClaimOK
  <1>5. \A v, w \in Workers : Apart(v, w)'
    BY SameWorker, Zenon DEF ClaimInv, Apart
  <1> QED
    BY <1>1, <1>4, <1>5, Zenon DEF ClaimInv

\* Steps of nobody's batch: rows are created and replayed with a fresh time.
LEMMA OutsideClaim ==
  ASSUME DeliveryInv, ClaimInv, DeliveryInv', ReadTicks > 0,
         \/ Tick
         \/ \E m \in Messages, known \in BOOLEAN : CreateOutboxMessage(m, known)
         \/ \E S \in SUBSET Messages : RetryOutboxMessages(S)
         \/ \E ep \in Endpoints : DisableNotificationEndpoint(ep)
  PROVE  ClaimInv'
  <1>1. /\ clock \in Nat /\ ReadTicks \in Nat /\ \A m \in Messages : msg[m] \in Message /\ RowOK(m)
        /\ MaxAttempts \in Nat \ {0} /\ \A m \in Messages : replays[m] \in Nat
    BY Types, Zenon DEF DeliveryInv, TypeOK, ClaimInv
  <1>2. ReadClock => clock < clock'
    BY <1>1 DEF ReadClock
  <1>3. ASSUME clock < clock', NEW m \in Messages, msg'[m] = msg[m], jobs'[m] = jobs[m], replays'[m] = replays[m]
        PROVE  RowOK(m)'
    <2>1. msg[m].updated \in Nat /\ clock' \in Nat
      BY <1>1, Zenon DEF Message, DeliveryInv, TypeOK
    <2>2. msg[m].updated < clock'
      BY <1>1, <1>3, <2>1 DEF RowOK
    <2> QED
      BY <1>1, <1>3, <2>2, SameRow, Zenon
  <1>4. CASE Tick
    <2>1. clock < clock' /\ UNCHANGED <<msg, jobs, worker, replays>>
      BY <1>1, <1>4 DEF Tick
    <2> QED
      BY <1>3, <2>1, OutsideStep, Zenon
  <1>5. ASSUME NEW m \in Messages, NEW known \in BOOLEAN, CreateOutboxMessage(m, known) PROVE ClaimInv'
    <2> DEFINE row == [NoMessage EXCEPT !.status = "pending", !.known = known, !.available = clock, !.updated = clock]
    <2>1. row.status = "pending" /\ row.updated = clock /\ row.attempts = 0
      BY Zenon DEF NoMessage
    <2>2. /\ msg' = [msg EXCEPT ![m] = row] /\ msg'[m] = row /\ \A n \in Messages \ {m} : msg'[n] = msg[n]
          /\ UNCHANGED <<jobs, worker, replays>> /\ clock < clock' /\ msg[m].status = "none"
      BY <1>2, <1>5, Zenon DEF CreateOutboxMessage, DeliveryInv, TypeOK
    <2> HIDE DEF row
    <2>3. RowOK(m)'
      <3>1. RowOK(m) /\ msg[m].attempts = 0 /\ jobs'[m] = jobs[m] /\ replays'[m] = replays[m]
        BY <1>1, <2>2, Zenon DEF RowOK
      <3>2. Counted(m)'
        BY <2>1, <2>2, <3>1, Zenon DEF RowOK, Counted
      <3> QED
        BY <1>1, <2>1, <2>2, <3>1, <3>2, Zenon DEF RowOK
    <2>4. \A n \in Messages : RowOK(n)'
      BY <1>3, <2>2, <2>3, Zenon
    <2> QED
      BY <2>1, <2>2, <2>4, OutsideStep, Zenon
  <1>6. ASSUME NEW S \in SUBSET Messages, RetryOutboxMessages(S) PROVE ClaimInv'
    <2>1. /\ clock < clock' /\ UNCHANGED <<jobs, worker>>
          /\ \A m \in Messages : /\ msg'[m] = IF m \in S THEN OutboxMessageForReplay(msg[m], clock) ELSE msg[m]
                                 /\ replays'[m] = IF m \in S THEN replays[m] + 1 ELSE replays[m]
          /\ \A m \in S : msg[m].status \in {"dead_letter", "failed"}
      BY <1>2, <1>6, Zenon DEF RetryOutboxMessages
    <2>2. ASSUME NEW m \in S PROVE RowOK(m)' /\ msg'[m].updated = clock
      <3>1. /\ msg'[m].status = "pending" /\ msg'[m].attempts = 0 /\ msg'[m].updated = clock
            /\ replays'[m] = replays[m] + 1
        BY <1>1, <2>1, Zenon DEF OutboxMessageForReplay, Message
      <3>2. /\ msg[m].attempts = MaxAttempts /\ msg[m].status = "dead_letter"
            /\ Counted(m) /\ jobs[m].ok = 0
        <4>1. msg[m].attempts \in Nat
          BY <1>1, Zenon DEF Message
        <4>2. RowOK(m) /\ msg[m].status \in {"dead_letter", "failed"} /\ MaxAttempts \in Nat
          BY <1>1, <2>1, Zenon
        <4> QED
          BY <4>1, <4>2 DEF RowOK
      <3>3. MaxAttempts + MaxAttempts * replays[m] = 0 + MaxAttempts * (replays[m] + 1)
        BY <1>1
      <3>4. Counted(m)'
        BY <2>1, <3>1, <3>2, <3>3, Zenon DEF Counted
      <3>5. jobs'[m].ok = 0 /\ clock < clock' /\ MaxAttempts \in Nat \ {0}
        BY <1>1, <2>1, <3>2, Zenon
      <3> QED
        BY <3>1, <3>4, <3>5 DEF RowOK
    <2>3. \A m \in Messages : RowOK(m)'
      BY <1>3, <2>1, <2>2, Zenon
    <2> QED
      BY <2>1, <2>2, <2>3, OutsideStep, Zenon
  <1>7. ASSUME NEW ep \in Endpoints, DisableNotificationEndpoint(ep) PROVE ClaimInv'
    <2>1. UNCHANGED <<clock, msg, jobs, worker, replays>>
      BY <1>7, Zenon DEF DisableNotificationEndpoint
    <2> QED
      BY <2>1, SameClaim, Zenon
  <1> QED
    BY <1>4, <1>5, <1>6, <1>7, Zenon

\* A worker that returns, or goes on with its batch, without writing a row.
LEMMA ReturnClaim ==
  ASSUME DeliveryInv, ClaimInv, NEW w \in Workers, Return(w) \/ Continue(w),
         UNCHANGED <<clock, msg, jobs, replays>>
  PROVE  ClaimInv'
  <1>1. TypeOK
    BY Zenon DEF DeliveryInv
  <1>2. PICK r \in Worker : /\ worker' = [worker EXCEPT ![w] = r] /\ r.pc \in {"idle", "batch"}
                            /\ r.todo \subseteq worker[w].todo
    BY <1>1, ReturnTypes, Zenon
  <1>3. worker'[w] = r
    BY <1>1, <1>2, Zenon DEF TypeOK
  <1>4. \A l \in Listed : Copy(w, l)' => Copy(w, l)
    BY <1>2, <1>3, Zenon DEF Copy, Busy
  <1>5. Stamps(w)' = {}
    BY <1>2, <1>3, Zenon DEF Stamps, Busy
  <1>6. r.pc \notin Busy /\ clock \in Nat /\ clock' \in Nat /\ clock <= clock'
    BY <1>1, <1>2 DEF Busy, TypeOK
  <1> QED
    BY <1>2, <1>4, <1>5, <1>6, QuietStep, Zenon DEF Busy

\* A batch begins and takes its messages.
LEMMA BatchClaim ==
  ASSUME DeliveryInv, ClaimInv, NEW w \in Workers, ReadTicks > 0,
         ListDueOutboxMessages(w) \/ NextListed(w) \/ Abandon(w)
  PROVE  ClaimInv'
  <1>1. TypeOK /\ worker[w] \in Worker /\ clock \in Nat
    BY Types, Zenon DEF DeliveryInv, TypeOK
  <1>2. CASE ListDueOutboxMessages(w)
    <2> DEFINE due == {l \in [m : Messages, row : {msg[m] : m \in Messages}] : l.row = msg[l.m] /\ Due(l.row, clock)}
               r == [worker[w] EXCEPT !.pc = "batch", !.todo = due]
    <2>1. due \subseteq Listed
      BY <1>1, Zenon DEF Listed, TypeOK
    <2>2. \A l \in due : msg[l.m] = l.row /\ l.row.status \in {"pending", "processing"}
      BY Zenon DEF Due
    <2>3. worker' = [worker EXCEPT ![w] = r] /\ worker'[w] = r
      BY <1>1, <1>2, Zenon DEF ListDueOutboxMessages, TypeOK
    <2> HIDE DEF due
    <2>4. r \in Worker /\ r.pc = "batch" /\ r.todo = due
      BY <1>1, <2>1, Zenon DEF Worker
    <2> HIDE DEF r
    <2>5. \A l \in Listed : Copy(w, l)' => msg[l.m] = l.row /\ l.row.status \in {"pending", "processing"}
      BY <2>2, <2>3, <2>4, Zenon DEF Copy, Busy
    <2>6. Stamps(w)' = {}
      BY <2>3, <2>4, Zenon DEF Stamps, Busy
    <2>7. UNCHANGED <<clock, msg, jobs, replays>> /\ clock' \in Nat /\ clock <= clock' /\ r.pc \notin Busy
      BY <1>1, <1>2, <2>4 DEF ListDueOutboxMessages, Busy
    <2> QED
      BY <1>1, <2>3, <2>4, <2>5, <2>6, <2>7, QuietStep, Zenon DEF Busy
  <1>3. CASE NextListed(w)
    <2>1. CASE Return(w) /\ UNCHANGED clock
      BY <1>3, <2>1, ReturnClaim, Zenon DEF NextListed
    <2>2. ASSUME NEW l \in worker[w].todo, ReadClock,
                 worker' = [worker EXCEPT
                    ![w].pc = IF l.row.status = "processing" THEN "recover" ELSE "claim",
                    ![w].todo = @ \ {l}, ![w].m = l.m, ![w].held = l.row, ![w].now = clock]
          PROVE  ClaimInv'
      <3> DEFINE r == [worker[w] EXCEPT
                         !.pc = IF l.row.status = "processing" THEN "recover" ELSE "claim",
                         !.todo = @ \ {l}, !.m = l.m, !.held = l.row, !.now = clock]
      <3>1. l \in Listed /\ l.m \in Messages /\ l.row \in Message
        BY <1>1, Zenon DEF Worker, Listed
      <3>2. worker' = [worker EXCEPT ![w] = r] /\ worker'[w] = r
        BY <1>1, <2>2, Zenon DEF TypeOK
      <3>3. /\ r \in Worker /\ r.pc = IF l.row.status = "processing" THEN "recover" ELSE "claim"
            /\ r.todo = worker[w].todo \ {l} /\ r.m = l.m /\ r.held = l.row /\ r.now = clock
        BY <1>1, <3>1, Zenon DEF Worker, TypeOK
      <3> HIDE DEF r
      <3>4. l.row.status \in {"pending", "processing"}
        BY <3>1, Zenon DEF ClaimInv, ClaimOK, Copy, CopyOK
      <3>5. \A k \in Listed : Copy(w, k)' => Copy(w, k)
        <4> SUFFICES ASSUME NEW k \in Listed, Copy(w, k)' PROVE k \in worker[w].todo
          BY Zenon DEF Copy
        <4>1. CASE k \in r.todo
          BY <3>3, <4>1, Zenon
        <4>2. CASE k.m = l.m /\ k.row = l.row
          <5>1. k = l
            BY <3>1, <4>2 DEF Listed
          <5> QED
            BY <5>1, Zenon
        <4> QED
          BY <3>2, <3>3, <4>1, <4>2, Zenon DEF Copy
      <3>6. clock' \in Nat /\ clock < clock'
        BY <1>1, <2>2, Types DEF ReadClock
      <3>7. \A t \in Stamps(w)' : t = clock
        BY <3>2, <3>3, Zenon DEF Stamps, Busy
      <3>8. UNCHANGED <<msg, jobs, replays>> /\ clock <= clock'
        <4>1. clock <= clock'
          BY <1>1, <3>6
        <4> QED
          BY <1>3, <4>1, Zenon DEF NextListed
      <3>9. (r.pc = "claim" => r.held.status = "pending") /\ (r.pc \in Busy \ {"claim"} => r.held.status = "processing")
        BY <3>3, <3>4, Zenon
      <3> QED
        BY <1>1, <3>2, <3>3, <3>5, <3>6, <3>7, <3>8, <3>9, QuietStep, Zenon
    <2> QED
      BY <1>3, <2>1, <2>2, Zenon DEF NextListed
  <1>4. CASE Abandon(w)
    BY <1>4, ReturnClaim, Zenon DEF Abandon
  <1> QED
    BY <1>2, <1>3, <1>4, Zenon

\* The two updates of claim: a row that compares as current is the stored one.
LEMMA UpdateClaim ==
  ASSUME DeliveryInv, ClaimInv, NEW w \in Workers, Recover(w) \/ Claim(w)
  PROVE  ClaimInv'
  <1> DEFINE s == worker[w]
             m == s.m
  <1>1. TypeOK /\ s \in Worker /\ m \in Messages /\ s.held \in Message /\ s.now \in Nat /\ ClaimOK(w) /\ s.pc \in Busy
    BY Types, Zenon DEF DeliveryInv, CourierOK, Recover, Claim, Busy, Worker, ClaimInv
  <1>2. ASSUME NEW next \in Message, NEW pc \in {"claim", "handle"}, UpdateIfCurrent(w, next, pc),
               next.updated = s.now, next.attempts = s.held.attempts,
               \/ s.pc = "recover" /\ pc = "claim" /\ next.status = "pending"
               \/ s.pc = "claim" /\ pc = "handle" /\ next.status = "processing"
        PROVE  ClaimInv'
    <2>1. CASE ~IsCurrent(msg[m], s.held)
      BY <1>2, <2>1, ReturnClaim, Zenon DEF UpdateIfCurrent
    <2>2. CASE IsCurrent(msg[m], s.held)
      <3> DEFINE r == [s EXCEPT !.pc = pc, !.held = next]
      <3>1. r \in Worker /\ r.pc = pc /\ r.m = m /\ r.held = next /\ r.now = s.now /\ r.todo = s.todo
        BY <1>1, Zenon DEF Worker
      <3>2. worker' = [worker EXCEPT ![w] = r] /\ msg' = [msg EXCEPT ![m] = next] /\ UNCHANGED <<clock, jobs, replays>>
        BY <1>1, <1>2, <2>2, Zenon DEF UpdateIfCurrent, TypeOK
      <3> HIDE DEF r
      <3>3. msg[m] = s.held
        <4>1. [m |-> m, row |-> s.held] \in Listed /\ Copy(w, [m |-> m, row |-> s.held])
          BY <1>1, Zenon DEF Listed, Copy
        <4>2. CopyOK([m |-> m, row |-> s.held])
          BY <1>1, <4>1, Zenon DEF ClaimOK
        <4> QED
          BY <2>2, <4>2, Zenon DEF CopyOK
      <3>4. PICK n \in Messages : n = m
        BY <1>1, Zenon
      <3>5. RowOK(n)'
        <4>1. msg'[n] = next
          BY <1>1, <3>2, <3>4, Zenon DEF TypeOK
        <4>2. s.held.status \in {"pending", "processing"}
          BY <1>1, <1>2, Zenon DEF ClaimOK, Busy
        <4>3. s.now < clock
          <5>1. s.now \in Stamps(w)
            BY <1>2, Zenon DEF Stamps
          <5> QED
            BY <5>1, StampTypes, Zenon
        <4>4. RowOK(n)
          BY Zenon DEF ClaimInv
        <4>5. msg[n] = s.held /\ jobs'[n] = jobs[n] /\ replays'[n] = replays[n] /\ clock' = clock
          BY <3>2, <3>3, <3>4, Zenon
        <4>6. next.attempts = msg[n].attempts
          BY <1>2, <4>5, Zenon
        <4>7. Counted(n)'
          BY <4>1, <4>4, <4>5, <4>6, Zenon DEF RowOK, Counted
        <4> HIDE DEF s
        <4> QED
          BY <1>2, <4>1, <4>2, <4>3, <4>4, <4>5, <4>7, Zenon DEF RowOK
      <3>6. msg' = [msg EXCEPT ![n] = next] /\ r.m = n
        BY <3>1, <3>2, <3>4, Zenon
      <3> QED
        BY <1>2, <3>1, <3>2, <3>5, <3>6, WriteStep, Zenon
    <2> QED
      BY <2>1, <2>2, Zenon
  <1>3. CASE Recover(w)
    <2> DEFINE next == [s.held EXCEPT !.status = "pending", !.deadline = ZeroTime, !.updated = s.now]
    <2>1. next \in Message /\ next.updated = s.now /\ next.status = "pending" /\ next.attempts = s.held.attempts
      BY <1>1, Zenon DEF Message, MessageStatus, ZeroTime
    <2>2. s.pc = "recover" /\ UpdateIfCurrent(w, next, "claim")
      BY <1>3, Zenon DEF Recover
    <2> QED
      BY <1>2, <2>1, <2>2, Zenon
  <1>4. CASE Claim(w)
    <2> DEFINE next == [s.held EXCEPT !.status = "processing", !.deadline = s.now + Lease, !.updated = s.now]
    <2>1. s.now + Lease \in Nat
      BY <1>1, Types
    <2>2. next \in Message /\ next.updated = s.now /\ next.status = "processing" /\ next.attempts = s.held.attempts
      BY <1>1, <2>1, Zenon DEF Message, MessageStatus
    <2>3. s.pc = "claim" /\ UpdateIfCurrent(w, next, "handle")
      BY <1>4, Zenon DEF Claim
    <2> QED
      BY <1>2, <2>2, <2>3, Zenon
  <1> QED
    BY <1>3, <1>4, Zenon

\* The handler keeps its claim, and reads the clock when it is done.
LEMMA HandlerClaim ==
  ASSUME DeliveryInv, ClaimInv, NEW w \in Workers, NEW r \in Worker, worker' = [worker EXCEPT ![w] = r],
         worker[w].pc \in {"handle", "deliver", "post", "record"},
         r.pc \in {"deliver", "post", "record", "finish"},
         r.todo = worker[w].todo, r.m = worker[w].m, r.held = worker[w].held,
         IF r.pc = "finish" THEN r.now = clock /\ ReadClock /\ ReadTicks > 0 ELSE UNCHANGED clock,
         UNCHANGED <<msg, jobs, replays>>
  PROVE  ClaimInv'
  <1>1. TypeOK /\ worker[w] \in Worker /\ clock \in Nat /\ worker'[w] = r /\ ClaimOK(w)
    BY Types, Zenon DEF DeliveryInv, TypeOK, ClaimInv
  <1>2. clock' \in Nat /\ clock <= clock' /\ (r.pc = "finish" => clock < clock')
    BY <1>1, Types DEF ReadClock
  <1>3. \A l \in Listed : Copy(w, l)' => Copy(w, l)
    BY <1>1, Zenon DEF Copy, Busy
  <1>4. \A t \in Stamps(w)' : t \in Stamps(w) \/ (t = clock /\ clock < clock')
    BY <1>1, <1>2, Zenon DEF Stamps, Busy
  <1>5. r.held.status = "processing"
    BY <1>1, Zenon DEF ClaimOK, Busy
  <1> QED
    BY <1>1, <1>2, <1>3, <1>4, <1>5, QuietStep, Zenon

\* The steps of the handler.
LEMMA HandlerSteps ==
  ASSUME DeliveryInv, ClaimInv, NEW w \in Workers, ReadTicks > 0,
         \/ HandleOutboxMessage(w) \/ GetWebhookDelivery(w) \/ PostWebhook(w) \/ RecordWebhookDelivery(w)
         \/ FailHandler(w)
  PROVE  ClaimInv'
  <1> DEFINE s == worker[w]
  <1>1. TypeOK /\ s \in Worker /\ s.pc \in {"handle", "deliver", "post", "record"} /\ UNCHANGED <<msg, jobs, replays>>
    BY Types, Zenon DEF DeliveryInv, HandleOutboxMessage, GetWebhookDelivery, PostWebhook, RecordWebhookDelivery,
                        FailHandler
  <1>2. ASSUME NEW ok \in BOOLEAN, Finished(w, ok) PROVE ClaimInv'
    <2> DEFINE r == [s EXCEPT !.pc = "finish", !.ok = ok, !.now = clock]
    <2>1. /\ r \in Worker /\ r.pc = "finish" /\ r.now = clock
          /\ r.todo = s.todo /\ r.m = s.m /\ r.held = s.held
      BY <1>1, Zenon DEF Worker, TypeOK
    <2>2. worker' = [worker EXCEPT ![w] = r] /\ ReadClock
      BY <1>1, <1>2, Zenon DEF Finished, TypeOK
    <2> HIDE DEF r
    <2> QED
      BY <1>1, <2>1, <2>2, HandlerClaim, Zenon
  <1>3. ASSUME NEW pc \in {"deliver", "post", "record"}, NEW eps \in SUBSET DOMAIN EndpointList, NEW ok \in BOOLEAN,
               worker' = [worker EXCEPT ![w] = [s EXCEPT !.pc = pc, !.eps = eps, !.ok = ok]], UNCHANGED clock
        PROVE  ClaimInv'
    <2> DEFINE r == [s EXCEPT !.pc = pc, !.eps = eps, !.ok = ok]
    <2>1. /\ r \in Worker /\ r.pc = pc
          /\ r.todo = s.todo /\ r.m = s.m /\ r.held = s.held
      BY <1>1, Zenon DEF Worker
    <2> HIDE DEF r
    <2> QED
      BY <1>1, <1>3, <2>1, HandlerClaim, Zenon DEF r
  <1>4. s.eps \in SUBSET DOMAIN EndpointList /\ s.ok \in BOOLEAN /\ worker \in [Workers -> Worker]
    BY <1>1, Zenon DEF Worker, TypeOK
  <1>6. CASE HandleOutboxMessage(w)
    <2> DEFINE matching == {i \in DOMAIN EndpointList : WebhookEndpointMatches(EndpointList[i], s.m)}
    <2>1. CASE ~s.held.known
      BY <1>2, <1>6, <2>1, Zenon DEF HandleOutboxMessage
    <2>2. CASE s.held.known
      <3>1. matching \in SUBSET DOMAIN EndpointList
        BY Zenon
      <3>2. /\ worker' = [worker EXCEPT ![w].pc = "deliver", ![w].eps = matching]
            /\ UNCHANGED clock
        BY <1>6, <2>2, Zenon DEF HandleOutboxMessage
      <3> HIDE DEF matching
      <3>3. worker' = [worker EXCEPT ![w] = [s EXCEPT !.pc = "deliver", !.eps = matching, !.ok = s.ok]]
        BY <1>1, <1>4, <3>2, Zenon DEF Worker
      <3> QED
        BY <1>3, <1>4, <3>1, <3>2, <3>3, Zenon
    <2> QED
      BY <2>1, <2>2, Zenon
  <1>7. CASE GetWebhookDelivery(w)
    <2>1. CASE s.eps = {}
      BY <1>2, <1>7, <2>1, Zenon DEF GetWebhookDelivery
    <2>2. CASE s.eps # {} /\ delivery[s.m][Current(w)] = "succeeded"
      <3>1. /\ worker' = [worker EXCEPT ![w].eps = s.eps \ {Min(s.eps)}] /\ UNCHANGED clock
            /\ s.pc = "deliver"
        BY <1>7, <2>2, Zenon DEF GetWebhookDelivery
      <3>2. worker' = [worker EXCEPT ![w] = [s EXCEPT !.pc = "deliver", !.eps = s.eps \ {Min(s.eps)}, !.ok = s.ok]]
        BY <1>1, <1>4, <3>1, Zenon DEF Worker
      <3>3. s.eps \ {Min(s.eps)} \in SUBSET DOMAIN EndpointList
        BY <1>4, Zenon
      <3> QED
        BY <1>3, <1>4, <3>1, <3>2, <3>3, Zenon
    <2>3. CASE s.eps # {} /\ delivery[s.m][Current(w)] # "succeeded"
      <3>1. worker' = [worker EXCEPT ![w].pc = "post"] /\ UNCHANGED clock
        BY <1>7, <2>3, Zenon DEF GetWebhookDelivery
      <3>2. worker' = [worker EXCEPT ![w] = [s EXCEPT !.pc = "post", !.eps = s.eps, !.ok = s.ok]]
        BY <1>1, <1>4, <3>1, Zenon DEF Worker
      <3> QED
        BY <1>3, <1>4, <3>1, <3>2, Zenon
    <2> QED
      BY <2>1, <2>2, <2>3, Zenon
  <1>8. CASE PostWebhook(w)
    <2>1. PICK ok \in BOOLEAN : worker' = [worker EXCEPT ![w].pc = "record", ![w].ok = ok]
      BY <1>8, Zenon DEF PostWebhook
    <2>2. UNCHANGED clock
      BY <1>8, Zenon DEF PostWebhook
    <2>3. worker' = [worker EXCEPT ![w] = [s EXCEPT !.pc = "record", !.eps = s.eps, !.ok = ok]]
      BY <1>1, <1>4, <2>1, Zenon DEF Worker
    <2> QED
      BY <1>3, <1>4, <2>2, <2>3, Zenon
  <1>9. CASE RecordWebhookDelivery(w)
    <2>1. CASE ~s.ok
      BY <1>2, <1>9, <2>1, Zenon DEF RecordWebhookDelivery
    <2>2. CASE s.ok
      <3>1. worker' = [worker EXCEPT ![w].pc = "deliver", ![w].eps = s.eps \ {Min(s.eps)}] /\ UNCHANGED clock
        BY <1>9, <2>2, Zenon DEF RecordWebhookDelivery
      <3>2. worker' = [worker EXCEPT ![w] = [s EXCEPT !.pc = "deliver", !.eps = s.eps \ {Min(s.eps)}, !.ok = s.ok]]
        BY <1>1, <1>4, <3>1, Zenon DEF Worker
      <3>3. s.eps \ {Min(s.eps)} \in SUBSET DOMAIN EndpointList
        BY <1>4, Zenon
      <3> QED
        BY <1>3, <1>4, <3>1, <3>2, <3>3, Zenon
    <2> QED
      BY <2>1, <2>2, Zenon
  <1>10. CASE FailHandler(w)
    BY <1>2, <1>10, Zenon DEF FailHandler
  <1> QED
    BY <1>6, <1>7, <1>8, <1>9, <1>10, Zenon

\* The outcome is written over the row that was claimed, and counted once.
LEMMA FinishClaim ==
  ASSUME DeliveryInv, ClaimInv, NEW w \in Workers, Finish(w)
  PROVE  ClaimInv'
  <1> DEFINE s == worker[w]
  <1>1. /\ TypeOK /\ s \in Worker /\ s.m \in Messages /\ s.held \in Message /\ s.now \in Nat /\ s.ok \in BOOLEAN
        /\ ClaimOK(w) /\ s.pc = "finish" /\ MaxAttempts \in Nat \ {0}
    BY Types, Zenon DEF DeliveryInv, CourierOK, Finish, Busy, Worker, ClaimInv
  <1>2. PICK m \in Messages : m = s.m
    BY <1>1, Zenon
  <1>3. CASE ~IsCurrent(msg[m], s.held)
    BY <1>2, <1>3, ReturnClaim, Zenon DEF Finish
  <1>4. CASE IsCurrent(msg[m], s.held)
    <2>1. PICK next \in AfterAttempt(s.held, s.ok, s.now) : msg' = [msg EXCEPT ![m] = next]
      BY <1>2, <1>4, Zenon DEF Finish
    <2>2. /\ next \in Message /\ next.updated = s.now
          /\ s.ok => next.status = "completed" /\ next.attempts = s.held.attempts
          /\ ~s.ok => /\ next.attempts = s.held.attempts + 1
                      /\ next.status = IF s.held.attempts + 1 >= MaxAttempts THEN "dead_letter" ELSE "pending"
      BY <1>1, <2>1, AfterTypes
    <2>3. /\ s.ok => jobs' = [jobs EXCEPT ![m].ok = @ + 1]
          /\ ~s.ok => jobs' = [jobs EXCEPT ![m].failed = @ + 1]
          /\ Continue(w) /\ UNCHANGED <<clock, replays>>
      BY <1>2, <1>4, Zenon DEF Finish
    <2>4. msg[m] = s.held
      <3>1. [m |-> m, row |-> s.held] \in Listed /\ Copy(w, [m |-> m, row |-> s.held])
        BY <1>1, <1>2, Zenon DEF Listed, Copy, Busy
      <3>2. CopyOK([m |-> m, row |-> s.held])
        BY <1>1, <3>1, Zenon DEF ClaimOK
      <3> QED
        BY <1>4, <3>2, Zenon DEF CopyOK
    <2>5. s.held.status = "processing" /\ s.now < clock
      <3>1. s.now \in Stamps(w)
        BY <1>1, Zenon DEF Stamps
      <3> QED
        BY <1>1, <3>1, StampTypes, Zenon DEF ClaimOK, Busy
    <2>6. /\ s.held.attempts \in Nat /\ s.held.attempts < MaxAttempts
          /\ Counted(m) /\ jobs[m].ok = 0
      <3>1. s.held.attempts \in Nat /\ MaxAttempts \in Nat
        BY <1>1, Zenon DEF Message
      <3>2. RowOK(m) /\ msg[m].status = "processing" /\ msg[m].attempts = s.held.attempts
        BY <2>4, <2>5, Zenon DEF ClaimInv
      <3> HIDE DEF s
      <3> QED
        BY <3>1, <3>2 DEF RowOK
    <2>7. /\ s.ok => jobs'[m].ok = 1 /\ jobs'[m].failed = jobs[m].failed
          /\ ~s.ok => jobs'[m].ok = 0 /\ jobs'[m].failed = jobs[m].failed + 1
          /\ \A n \in Messages \ {m} : jobs'[n] = jobs[n]
      BY <1>1, <2>3, <2>6 DEF TypeOK
    <2>8. RowOK(m)'
      <3>1. msg'[m] = next /\ replays'[m] = replays[m] /\ replays[m] \in Nat /\ clock' = clock
        BY <1>1, <2>1, <2>3, Zenon DEF TypeOK
      <3>2. PICK k \in Nat : k = MaxAttempts * replays[m]
        BY <1>1, <3>1
      <3>3. jobs[m].failed = s.held.attempts + k /\ MaxAttempts \in Nat \ {0}
        BY <1>1, <2>4, <2>6, <3>2, Zenon DEF Counted
      <3> HIDE DEF s
      <3>4. jobs'[m].failed = next.attempts + k
        BY <2>2, <2>6, <2>7, <3>2, <3>3
      <3>5. Counted(m)'
        BY <3>1, <3>2, <3>4, Zenon DEF Counted
      <3>6. next.updated < clock
        BY <2>2, <2>5, Zenon
      <3>7. CASE s.ok
        <4>1. next.status = "completed" /\ next.attempts < MaxAttempts /\ next.attempts \in Nat /\ jobs'[m].ok = 1
          BY <2>2, <2>6, <2>7, <3>7, Zenon
        <4> QED
          BY <3>1, <3>3, <3>5, <3>6, <4>1 DEF RowOK
      <3>8. CASE ~s.ok
        <4>1. /\ next.attempts \in Nat /\ next.attempts <= MaxAttempts /\ jobs'[m].ok = 0
              /\ next.status = IF next.attempts >= MaxAttempts THEN "dead_letter" ELSE "pending"
          BY <2>2, <2>6, <2>7, <3>3, <3>8
        <4> QED
          BY <3>1, <3>5, <3>6, <4>1, Zenon DEF RowOK
      <3> QED
        BY <3>7, <3>8, Zenon
    <2>9. PICK r \in Worker : /\ worker' = [worker EXCEPT ![w] = r] /\ r.pc \in {"idle", "batch"}
                              /\ r.todo \subseteq worker[w].todo
      BY <1>1, <2>3, ReturnTypes, Zenon
    <2>10. r.pc \notin Busy
      BY <2>9, Zenon DEF Busy
    <2> QED
      BY <1>1, <2>1, <2>2, <2>3, <2>7, <2>8, <2>9, <2>10, WriteStep, Zenon
  <1> QED
    BY <1>3, <1>4, Zenon

\* Every step keeps the invariant.
LEMMA NextClaim ==
  ASSUME ReadTicks > 0
  PROVE  DeliveryInv /\ DeliveryInv' /\ ClaimInv /\ [Next]_vars => ClaimInv'
  <1> SUFFICES ASSUME DeliveryInv, DeliveryInv', ClaimInv, [Next]_vars PROVE ClaimInv'
    BY Zenon
  <1>1. CASE UNCHANGED vars
    BY <1>1, SameClaim, Zenon DEF vars
  <1>2. ASSUME NEW w \in Workers, WorkerStep(w) \/ FailHandler(w) \/ Abandon(w) PROVE ClaimInv'
    BY <1>2, BatchClaim, UpdateClaim, HandlerSteps, FinishClaim, Zenon DEF WorkerStep
  <1> QED
    BY <1>1, <1>2, OutsideClaim, Zenon DEF Next, Step

\* When the clock moves with every reading, the invariant about claims holds throughout.
THEOREM ClaimInvariant ==
  ASSUME ReadTicks > 0
  PROVE  Spec => []ClaimInv
  BY InitClaim, NextClaim, DeliveryInvariant, PTL DEF Spec

\* Then of the workers that hold a message only one can still finish it, however many
\* claimed it one after the other (UpdateOutboxMessageIfCurrent).
THEOREM Owner ==
  ASSUME ReadTicks > 0
  PROVE  Spec => []SingleOwner
  <1>1. ClaimInv => SingleOwner
    <2> SUFFICES ASSUME ClaimInv, NEW m \in Messages, NEW v \in Workers, NEW w \in Workers, v # w,
                        Holding(v, m), IsCurrent(msg[m], worker[v].held),
                        Holding(w, m), IsCurrent(msg[m], worker[w].held)
                 PROVE  FALSE
      BY Zenon DEF SingleOwner
    <2>1. msg[m].updated \in Stamps(v) /\ msg[m].updated \in Stamps(w)
      BY Zenon DEF Stamps, Holding, IsCurrent, Busy
    <2> QED
      BY <2>1, Zenon DEF ClaimInv, Apart
  <1> QED
    BY <1>1, ClaimInvariant, PTL

\* And then the attempts of the row agree with the recorded job attempts: each failure
\* counts once, a message is dead exactly when its attempts are used up, and it
\* completes at most once, whatever workers overlap (finish, RetryOutboxMessage).
THEOREM Accounted ==
  ASSUME ReadTicks > 0
  PROVE  Spec => []AttemptsAccounted
  <1>1. ClaimInv => AttemptsAccounted
    BY Zenon DEF ClaimInv, AttemptsAccounted, RowOK, Counted
  <1> QED
    BY <1>1, ClaimInvariant, PTL

=============================================================================
