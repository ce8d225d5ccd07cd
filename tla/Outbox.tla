------------------------------- MODULE Outbox -------------------------------
(***************************************************************************)
(* Delivery of outbox messages to webhook endpoints by workers that share  *)
(* one store.  A worker lists the due messages, claims one with a          *)
(* processing lease (compare-and-swap on status, updated_at and deadline), *)
(* posts it to the endpoints one after the other, recording each delivery, *)
(* and finishes: completed, pending again after a delay, or dead letter.   *)
(* Every store call and every HTTP request is one step, and a worker can   *)
(* stop between any two of them.                                           *)
(***************************************************************************)
EXTENDS Naturals, Sequences, FiniteSets, FiniteSetsExt

CONSTANTS
    Workers,        \* outbox workers, one per service node
    Messages,
    EndpointList,   \* the webhook endpoints in the order they are listed
    Subscribed,     \* the endpoints whose event types include the message's
    MaxAttempts,    \* defaultOutboxMaxAttempts
    RetryDelays,    \* outboxRetryDelays
    Lease,          \* defaultOutboxProcessingLease
    ReadTicks,      \* how far the clock moves when it is read for a row
    None,           \* no message, no endpoint
    MaxTime,        \* bound: last clock value
    MaxReplays,     \* bound: manual retries of a message
    MaxFaults       \* bound: abandoned batches and failures inside the handler

Endpoints == {EndpointList[i] : i \in DOMAIN EndpointList}

ASSUME MessageAssumption == None \notin Messages
ASSUME EndpointAssumption ==
    /\ EndpointList \in Seq(Endpoints)
    /\ Subscribed \in [Messages -> SUBSET Endpoints]
    /\ None \notin Endpoints
ASSUME TimeAssumption ==
    /\ Lease \in Nat \ {0} /\ ReadTicks \in Nat
    /\ RetryDelays \in Seq(Nat \ {0}) /\ RetryDelays # <<>>
ASSUME LimitAssumption ==
    /\ MaxAttempts \in Nat \ {0}
    /\ MaxTime \in Nat \ {0} /\ MaxReplays \in Nat /\ MaxFaults \in Nat

VARIABLES
    clock,      \* wall clock of the deployment
    msg,        \* outbox_messages, one row per message
    jobs,       \* job_attempts: how many succeeded and failed, per message
    endpoint,   \* notification_endpoints.status
    delivery,   \* webhook_deliveries, one row per message and endpoint
    accepted,   \* the endpoints that have taken a message in
    worker,     \* the local state of each worker
    replays,    \* manual retries of a message so far
    faults      \* how many batches were abandoned or handlers failed on the store

vars == <<clock, msg, jobs, endpoint, delivery, accepted, worker, replays, faults>>
-----------------------------------------------------------------------------
(* Rows *)

ZeroTime == 0

MessageStatus == {"none", "pending", "processing", "completed", "failed", "dead_letter"}

\* known: the handler registry has a handler for the message's type.
Message == [status : MessageStatus, known : BOOLEAN, available : Nat, deadline : Nat,
            attempts : Nat, updated : Nat]

NoMessage == [status |-> "none", known |-> TRUE, available |-> ZeroTime, deadline |-> ZeroTime,
              attempts |-> 0, updated |-> ZeroTime]

\* webhook_deliveries.status; "none" is no row.
DeliveryStatus == {"none", "failed", "succeeded"}

\* Mutant of IsCurrent: the update is conditional on the status only.
IsCurrentStatusOnly(stored, current) == stored.status = current.status

\* The columns UpdateOutboxMessageIfCurrent compares.
IsCurrent(stored, current) ==
    /\ stored.status = current.status
    /\ stored.updated = current.updated
    /\ stored.deadline = current.deadline

\* Mutant of Due: a message whose worker stopped is never listed again.
DueOnlyPending(row, now) == row.status = "pending" /\ row.available <= now

Due(row, now) ==
    \/ row.status = "pending" /\ row.available <= now
    \/ row.status = "processing" /\ row.deadline # ZeroTime /\ row.deadline <= now

\* outboxRetryDelayForAttempt, and the jitter of at most a tenth of it.
RetryDelayForAttempt(attempts) ==
    RetryDelays[IF attempts <= 1 THEN 1
                ELSE IF attempts > Len(RetryDelays) THEN Len(RetryDelays) ELSE attempts]

RetryDelaysForMessage(attempts) ==
    LET base == RetryDelayForAttempt(attempts)
    IN  base .. (base + base \div 10)

WebhookEndpointMatches(ep, m) == endpoint[ep] = "active" /\ ep \in Subscribed[m]
-----------------------------------------------------------------------------
(* Workers *)

\* A message as the batch query returned it.
Listed == [m : Messages, row : Message]

Worker == [pc : {"idle", "batch", "recover", "claim", "handle", "deliver", "post", "record", "finish"},
           todo : SUBSET Listed,
           m : Messages \cup {None},
           held : Message,
           now : Nat,
           eps : SUBSET DOMAIN EndpointList,  \* the positions that the loop has still to visit
           ok : BOOLEAN]

IdleWorker == [pc |-> "idle", todo |-> {}, m |-> None, held |-> NoMessage, now |-> ZeroTime,
               eps |-> {}, ok |-> FALSE]

Return(w) == worker' = [worker EXCEPT ![w] = IdleWorker]

\* The batch goes on with its next message.
Continue(w) == worker' = [worker EXCEPT ![w] = [IdleWorker EXCEPT !.pc = "batch", !.todo = worker[w].todo]]

ReadClock == clock + ReadTicks <= MaxTime /\ clock' = clock + ReadTicks

\* The handler returned: finishedAt is read.
Finished(w, ok) ==
    /\ ReadClock
    /\ worker' = [worker EXCEPT ![w].pc = "finish", ![w].ok = ok, ![w].now = clock]
-----------------------------------------------------------------------------
Init ==
    /\ clock = 1
    /\ msg = [m \in Messages |-> NoMessage]
    /\ jobs = [m \in Messages |-> [ok |-> 0, failed |-> 0]]
    /\ endpoint = [ep \in Endpoints |-> "active"]
    /\ delivery = [m \in Messages |-> [ep \in Endpoints |-> "none"]]
    /\ accepted = [m \in Messages |-> {}]
    /\ worker = [w \in Workers |-> IdleWorker]
    /\ replays = [m \in Messages |-> 0]
    /\ faults = 0

Tick ==
    /\ clock < MaxTime
    /\ clock' = clock + 1
    /\ UNCHANGED <<msg, jobs, endpoint, delivery, accepted, worker, replays, faults>>

\* A lifecycle operation writes the message in its own transaction.
CreateOutboxMessage(m, known) ==
    /\ msg[m].status = "none"
    /\ ReadClock
    /\ msg' = [msg EXCEPT ![m] = [NoMessage EXCEPT !.status = "pending", !.known = known,
                                                   !.available = clock, !.updated = clock]]
    /\ UNCHANGED <<jobs, endpoint, delivery, accepted, worker, replays, faults>>

DisableNotificationEndpoint(ep) ==
    /\ endpoint[ep] = "active"
    /\ endpoint' = [endpoint EXCEPT ![ep] = "disabled"]
    /\ UNCHANGED <<clock, msg, jobs, delivery, accepted, worker, replays, faults>>

OutboxMessageForReplay(row, now) ==
    [row EXCEPT !.status = "pending", !.available = now, !.deadline = ZeroTime, !.attempts = 0,
                !.updated = now]

\* One message by ID, or all that match the scope of a bulk replay.
RetryOutboxMessages(S) ==
    /\ S # {}
    /\ \A m \in S : msg[m].status \in {"dead_letter", "failed"} /\ replays[m] < MaxReplays
    /\ ReadClock
    /\ msg' = [m \in Messages |-> IF m \in S THEN OutboxMessageForReplay(msg[m], clock) ELSE msg[m]]
    /\ replays' = [m \in Messages |-> IF m \in S THEN replays[m] + 1 ELSE replays[m]]
    /\ UNCHANGED <<jobs, endpoint, delivery, accepted, worker, faults>>

\* RunOnce: the due messages.  An empty list ends the batch at once.
ListDueOutboxMessages(w) ==
    LET due == {l \in [m : Messages, row : {msg[m] : m \in Messages}] :
                    l.row = msg[l.m] /\ Due(l.row, clock)}
    IN  /\ worker[w].pc = "idle"
        /\ due # {}
        /\ worker' = [worker EXCEPT ![w].pc = "batch", ![w].todo = due]
        /\ UNCHANGED <<clock, msg, jobs, endpoint, delivery, accepted, replays, faults>>

\* claim: the time is read, and a message whose lease ran out is recovered first.
NextListed(w) ==
    /\ worker[w].pc = "batch"
    /\ \/ /\ worker[w].todo = {}
          /\ Return(w)
          /\ UNCHANGED clock
       \/ \E l \in worker[w].todo :
             /\ ReadClock
             /\ worker' = [worker EXCEPT
                    ![w].pc = IF l.row.status = "processing" THEN "recover" ELSE "claim",
                    ![w].todo = @ \ {l}, ![w].m = l.m, ![w].held = l.row, ![w].now = clock]
    /\ UNCHANGED <<msg, jobs, endpoint, delivery, accepted, replays, faults>>

\* The two updates of claim; the batch skips a message that changed meanwhile.
UpdateIfCurrent(w, next, pc) ==
    /\ IF IsCurrent(msg[worker[w].m], worker[w].held)
       THEN /\ msg' = [msg EXCEPT ![worker[w].m] = next]
            /\ worker' = [worker EXCEPT ![w].pc = pc, ![w].held = next]
       ELSE Continue(w) /\ UNCHANGED msg
    /\ UNCHANGED <<clock, jobs, endpoint, delivery, accepted, replays, faults>>

Recover(w) ==
    /\ worker[w].pc = "recover"
    /\ UpdateIfCurrent(w, [worker[w].held EXCEPT !.status = "pending", !.deadline = ZeroTime,
                                                 !.updated = worker[w].now], "claim")

Claim(w) ==
    /\ worker[w].pc = "claim"
    /\ UpdateIfCurrent(w, [worker[w].held EXCEPT !.status = "processing",
                                                 !.deadline = worker[w].now + Lease,
                                                 !.updated = worker[w].now], "handle")

\* The registry, and the webhook handler's list of endpoints.
HandleOutboxMessage(w) ==
    LET m == worker[w].m
        matching == {i \in DOMAIN EndpointList : WebhookEndpointMatches(EndpointList[i], m)}
    IN  /\ worker[w].pc = "handle"
        /\ IF worker[w].held.known
           THEN /\ worker' = [worker EXCEPT ![w].pc = "deliver", ![w].eps = matching]
                /\ UNCHANGED clock
           ELSE Finished(w, FALSE)
        /\ UNCHANGED <<msg, jobs, endpoint, delivery, accepted, replays, faults>>

\* The endpoint that the loop has come to.
Current(w) == EndpointList[Min(worker[w].eps)]

\* Mutant of GetWebhookDelivery: an endpoint that was tried is skipped.
SkipTriedEndpoint(w) ==
    LET eps == worker[w].eps
    IN  /\ worker[w].pc = "deliver"
        /\ IF eps = {} THEN Finished(w, TRUE)
           ELSE /\ IF delivery[worker[w].m][Current(w)] # "none"
                   THEN worker' = [worker EXCEPT ![w].eps = eps \ {Min(eps)}]
                   ELSE worker' = [worker EXCEPT ![w].pc = "post"]
                /\ UNCHANGED clock
        /\ UNCHANGED <<msg, jobs, endpoint, delivery, accepted, replays, faults>>

\* The loop over the endpoints: one that already took the message is skipped.
GetWebhookDelivery(w) ==
    LET eps == worker[w].eps
    IN  /\ worker[w].pc = "deliver"
        /\ IF eps = {} THEN Finished(w, TRUE)
           ELSE /\ IF delivery[worker[w].m][Current(w)] = "succeeded"
                   THEN worker' = [worker EXCEPT ![w].eps = eps \ {Min(eps)}]
                   ELSE worker' = [worker EXCEPT ![w].pc = "post"]
                /\ UNCHANGED clock
        /\ UNCHANGED <<msg, jobs, endpoint, delivery, accepted, replays, faults>>

\* The receiver takes the message and answers; or refuses, or is not reached; or
\* takes it and the answer is lost.
PostWebhook(w) ==
    LET m == worker[w].m
        ep == Current(w)
    IN  /\ worker[w].pc = "post"
        /\ \E taken, ok \in BOOLEAN :
              /\ ok => taken
              /\ accepted' = [accepted EXCEPT ![m] = IF taken THEN @ \cup {ep} ELSE @]
              /\ worker' = [worker EXCEPT ![w].pc = "record", ![w].ok = ok]
        /\ UNCHANGED <<clock, msg, jobs, endpoint, delivery, replays, faults>>

RecordWebhookDelivery(w) ==
    LET m == worker[w].m
        ep == Current(w)
        ok == worker[w].ok
    IN  /\ worker[w].pc = "record"
        /\ delivery' = [delivery EXCEPT ![m][ep] = IF ok THEN "succeeded" ELSE "failed"]
        /\ IF ok
           THEN /\ worker' = [worker EXCEPT ![w].pc = "deliver", ![w].eps = @ \ {Min(@)}]
                /\ UNCHANGED clock
           ELSE Finished(w, FALSE)
        /\ UNCHANGED <<msg, jobs, endpoint, accepted, replays, faults>>

\* The webhook handler cannot read the endpoints or a delivery, or cannot record one:
\* its error is a failed attempt.
FailHandler(w) ==
    /\ \/ worker[w].pc = "handle" /\ worker[w].held.known
       \/ worker[w].pc = "deliver" /\ worker[w].eps # {}
       \/ worker[w].pc = "record"
    /\ faults < MaxFaults
    /\ faults' = faults + 1
    /\ Finished(w, FALSE)
    /\ UNCHANGED <<msg, jobs, endpoint, delivery, accepted, replays>>

\* Mutant of AfterAttempt: one attempt more than the maximum.
AfterOneMoreAttempt(row, ok, now) ==
    LET attempts == row.attempts + 1
        base == [row EXCEPT !.deadline = ZeroTime, !.updated = now]
    IN  IF ok THEN {[base EXCEPT !.status = "completed"]}
        ELSE IF attempts > MaxAttempts
        THEN {[base EXCEPT !.status = "dead_letter", !.attempts = attempts]}
        ELSE {[base EXCEPT !.status = "pending", !.attempts = attempts, !.available = now + d] :
                 d \in RetryDelaysForMessage(attempts)}

\* The row after an attempt that ended at time now.
AfterAttempt(row, ok, now) ==
    LET attempts == row.attempts + 1
        base == [row EXCEPT !.deadline = ZeroTime, !.updated = now]
    IN  IF ok THEN {[base EXCEPT !.status = "completed"]}
        ELSE IF attempts >= MaxAttempts
        THEN {[base EXCEPT !.status = "dead_letter", !.attempts = attempts]}
        ELSE {[base EXCEPT !.status = "pending", !.attempts = attempts, !.available = now + d] :
                 d \in RetryDelaysForMessage(attempts)}

\* The message and the job attempt in one transaction; when the claim was taken
\* over the transaction fails and the whole batch ends with the error.
Finish(w) ==
    LET m == worker[w].m
        ok == worker[w].ok
    IN  /\ worker[w].pc = "finish"
        /\ IF IsCurrent(msg[m], worker[w].held)
           THEN /\ \E row \in AfterAttempt(worker[w].held, ok, worker[w].now) :
                      msg' = [msg EXCEPT ![m] = row]
                /\ jobs' = IF ok THEN [jobs EXCEPT ![m].ok = @ + 1]
                            ELSE [jobs EXCEPT ![m].failed = @ + 1]
                /\ Continue(w)
           ELSE Return(w) /\ UNCHANGED <<msg, jobs>>
        /\ UNCHANGED <<clock, endpoint, delivery, accepted, replays, faults>>

\* The worker stops where it is, or a store call of the dispatcher itself fails.
Abandon(w) ==
    /\ worker[w].pc # "idle"
    /\ faults < MaxFaults
    /\ faults' = faults + 1
    /\ Return(w)
    /\ UNCHANGED <<clock, msg, jobs, endpoint, delivery, accepted, replays>>

WorkerStep(w) ==
    \/ ListDueOutboxMessages(w)
    \/ NextListed(w)
    \/ Recover(w)
    \/ Claim(w)
    \/ HandleOutboxMessage(w)
    \/ GetWebhookDelivery(w)
    \/ PostWebhook(w)
    \/ RecordWebhookDelivery(w)
    \/ Finish(w)

Step ==
    \/ \E m \in Messages, known \in BOOLEAN : CreateOutboxMessage(m, known)
    \/ \E S \in SUBSET Messages : RetryOutboxMessages(S)
    \/ \E ep \in Endpoints : DisableNotificationEndpoint(ep)
    \/ \E w \in Workers : WorkerStep(w) \/ FailHandler(w) \/ Abandon(w)

Next == Tick \/ Step

Spec == Init /\ [][Next]_vars
-----------------------------------------------------------------------------
(* Progress *)

Holding(w, m) ==
    /\ worker[w].pc \in {"handle", "deliver", "post", "record", "finish"}
    /\ worker[w].m = m

\* Time is sure to pass only while a retry or a lease is waited for, and not
\* beyond the lease of a worker that still holds the message.
TimelyTick ==
    /\ \E m \in Messages :
          \/ msg[m].status = "pending" /\ msg[m].available > clock
          \/ msg[m].status = "processing" /\ msg[m].deadline > clock
    /\ \A w \in Workers, m \in Messages :
          Holding(w, m) /\ IsCurrent(msg[m], worker[w].held) => clock + 1 < worker[w].held.deadline
    /\ Tick

FairSpec ==
    /\ Spec
    /\ WF_vars(TimelyTick)
    /\ \A w \in Workers : WF_vars(WorkerStep(w))
-----------------------------------------------------------------------------
(* Properties *)

\* Types of the rows and of the local state of a worker.
TypeOK ==
    /\ clock \in Nat
    /\ msg \in [Messages -> Message]
    /\ jobs \in [Messages -> [ok : Nat, failed : Nat]]
    /\ endpoint \in [Endpoints -> {"active", "disabled"}]
    /\ delivery \in [Messages -> [Endpoints -> DeliveryStatus]]
    /\ accepted \in [Messages -> SUBSET Endpoints]
    /\ worker \in [Workers -> Worker]
    /\ replays \in [Messages -> Nat]
    /\ faults \in Nat

\* When no two rows are written at one time, at most one of the workers that
\* hold a message can still finish it: the late one is rejected.
SingleOwner ==
    \A m \in Messages : \A v, w \in Workers :
        /\ Holding(v, m) /\ IsCurrent(msg[m], worker[v].held)
        /\ Holding(w, m) /\ IsCurrent(msg[m], worker[w].held)
        => v = w

\* A message is completed only after every endpoint that subscribed to it and
\* was not disabled has taken it in, whichever workers tried and stopped.
CompletedIsDelivered ==
    \A m \in Messages : msg[m].status = "completed" =>
        \A ep \in Subscribed[m] : endpoint[ep] = "active" => ep \in accepted[m]

\* The row and the job attempts agree although several workers finish: every
\* failed attempt since the last manual retry is counted once, a message is dead
\* exactly when the maximum is used up, and it completes at most once.
AttemptsAccounted ==
    \A m \in Messages :
        /\ jobs[m].failed = msg[m].attempts + MaxAttempts * replays[m]
        /\ jobs[m].ok = IF msg[m].status = "completed" THEN 1 ELSE 0
        /\ msg[m].status = "dead_letter" <=> msg[m].attempts >= MaxAttempts

\* Every message is completed or dead in the end, although workers stop while
\* they hold it and handlers outlive their lease (clock = MaxTime: the behaviour
\* used up the time of the model).
PendingIsSettled ==
    \A m \in Messages :
        msg[m].status = "pending" ~> msg[m].status \in {"completed", "dead_letter"} \/ clock = MaxTime

=============================================================================
