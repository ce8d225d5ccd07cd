----------------------------- MODULE AuditChain -----------------------------
(***************************************************************************)
(* The audit hash chain: appends inside the transactions of the service    *)
(* (sqlRepository.CreateAuditEvent), retention pruning                     *)
(* (Service.PruneAuditEventsBefore) and verification (verifyAuditState).   *)
(*                                                                         *)
(* A transaction reads the clock when its request starts.  Its first touch *)
(* of the chain locks the single row of audit_chain_state until it commits *)
(* or rolls back; every append and prune verifies the whole chain, as the  *)
(* database returns it, before it changes anything.                        *)
(*                                                                         *)
(* SHA-256 is taken to have no collisions: the hash of an event is the     *)
(* sequence of everything that was hashed into it.                         *)
(***************************************************************************)
EXTENDS Integers, Sequences, Functions, FiniteSets

CONSTANTS
    Writers,    \* processes whose transactions append events
    Pruners,    \* processes that serve POST /audit-events/retention/prune
    Precision,  \* clock readings per unit of a stored timestamp
    MaxTime,    \* bound on the clock
    MaxEvents   \* bound on the sequence numbers

ASSUME PrecisionAssumption == Precision \in Nat \ {0}

ASSUME AuditBounds == MaxTime \in Nat /\ MaxEvents \in Nat /\ Writers \cap Pruners = {}

VARIABLES
    clock,
    events,  \* table audit_events, by sequence
    state,   \* the row of audit_chain_state
    tx       \* the transaction of each process

vars == <<clock, events, state, tx>>

Procs == Writers \cup Pruners

Times == 0 .. MaxTime + Precision

EmptyAuditChainState == [latest |-> 0, latestHash |-> <<>>, checkpoint |-> 0, checkpointHash |-> <<>>]

\* As a time written without its fraction.
StoredInSeconds(t) == (t \div 2) * 2

\* formatSQLTime writes nanoseconds; a TIMESTAMPTZ column rounds them to microseconds,
\* a TEXT column of SQLite keeps them.
Stored(t) == ((t + Precision \div 2) \div Precision) * Precision

\* The hash commits to the previous hash, the sequence number and the time (and to
\* the other columns, which the database returns as they were).
AuditEventHash(previous, e) == Append(previous, <<e.sequence, e.created>>)

\* The event in memory: its hash is of the time in memory.
WithAuditEventHash(sequence, previous, now) ==
    LET e == [sequence |-> sequence, created |-> now]
    IN  [sequence |-> sequence, created |-> now, previous |-> previous,
         hash |-> AuditEventHash(previous, e)]

(***************************************************************************)
(* verifyAuditState: no gap after the checkpoint, every row links to and   *)
(* commits to the one before it, and the state names the last row.         *)
(***************************************************************************)
HashBefore(es, s, i) == IF i = 1 THEN s.checkpointHash ELSE es[i - 1].hash

VerifyAuditState(es, s) ==
    /\ s.checkpoint = 0 => s.checkpointHash = <<>>
    /\ \A i \in DOMAIN es :
          /\ es[i].sequence = s.checkpoint + i
          /\ es[i].previous = HashBefore(es, s, i)
          /\ es[i].hash = AuditEventHash(HashBefore(es, s, i), es[i])
    /\ s.latest = s.checkpoint + Len(es)
    /\ s.latestHash = HashBefore(es, s, Len(es) + 1)

NoTx == [pc |-> "idle", now |-> 0, before |-> 0, events |-> <<>>, state |-> EmptyAuditChainState]

Init ==
    /\ clock = 0
    /\ events = <<>>
    /\ state = EmptyAuditChainState
    /\ tx = [p \in Procs |-> NoTx]

Tick ==
    /\ clock < MaxTime
    /\ clock' = clock + 1
    /\ UNCHANGED <<events, state, tx>>

Unlocked(p) == \A q \in Procs \ {p} : tx[q].pc \notin {"appended", "pruned"}

\* A request starts: the service reads the clock.
Begin(p) ==
    /\ p \in Writers
    /\ tx[p].pc = "idle"
    /\ tx' = [tx EXCEPT ![p] = [NoTx EXCEPT !.pc = "begun", !.now = clock]]
    /\ UNCHANGED <<clock, events, state>>

BeginPrune(p, before) ==
    /\ p \in Pruners
    /\ tx[p].pc = "idle"
    /\ before < clock
    /\ tx' = [tx EXCEPT ![p] = [NoTx EXCEPT !.pc = "begun", !.now = clock, !.before = before]]
    /\ UNCHANGED <<clock, events, state>>

\* What the transaction sees: the committed tables, or its own copy once it has
\* the lock and has written.
View(p) ==
    IF tx[p].pc = "begun" THEN [events |-> events, state |-> state]
    ELSE [events |-> tx[p].events, state |-> tx[p].state]

Appended(v, now) ==
    LET e == WithAuditEventHash(v.state.latest + 1, v.state.latestHash, now)
    IN  [events |-> Append(v.events, e),
         state |-> [v.state EXCEPT !.latest = e.sequence, !.latestHash = e.hash]]

\* The rows of the transaction, as its next query will return them.
InDatabase(es) == [i \in DOMAIN es |-> [es[i] EXCEPT !.created = Stored(es[i].created)]]

Keep(p, pc, v) ==
    tx' = [tx EXCEPT ![p] = [tx[p] EXCEPT !.pc = pc, !.events = InDatabase(v.events), !.state = v.state]]

\* A chain that does not verify, before or after, is left alone and the request fails.
Refuse(p) == tx' = [tx EXCEPT ![p] = [NoTx EXCEPT !.pc = "refused"]]

\* As an append that takes no lock.
AppendUnlocked(p) ==
    /\ tx[p].pc \in IF p \in Writers THEN {"begun", "appended"} ELSE {"pruned"}
    /\ View(p).state.latest < MaxEvents
    /\ LET v == View(p)
           w == Appended(v, tx[p].now)
       IN  IF VerifyAuditState(v.events, v.state) /\ VerifyAuditState(w.events, w.state)
           THEN Keep(p, "appended", w)
           ELSE Refuse(p)
    /\ UNCHANGED <<clock, events, state>>

\* A transaction may append several events; a prune appends one after its deletion.
CreateAuditEvent(p) ==
    /\ tx[p].pc \in IF p \in Writers THEN {"begun", "appended"} ELSE {"pruned"}
    /\ Unlocked(p)
    /\ View(p).state.latest < MaxEvents
    /\ LET v == View(p)
           w == Appended(v, tx[p].now)
       IN  IF VerifyAuditState(v.events, v.state) /\ VerifyAuditState(w.events, w.state)
           THEN Keep(p, "appended", w)
           ELSE Refuse(p)
    /\ UNCHANGED <<clock, events, state>>

\* As a count of all the old rows, wherever they are.
OldRows(es, before) == Cardinality({i \in DOMAIN es : es[i].created < before})

\* auditRetentionPrefixLength: the rows before the cut-off, if they are a prefix.
RetentionPrefixLength(es, before) ==
    LET old == {i \in DOMAIN es : es[i].created < before}
    IN  IF \A i \in old : 1 .. i \subseteq old THEN Cardinality(old) ELSE -1

Pruned(v, n) ==
    IF n = 0 THEN v
    ELSE [events |-> SubSeq(v.events, n + 1, Len(v.events)),
          state |-> [v.state EXCEPT !.checkpoint = v.events[n].sequence,
                                    !.checkpointHash = v.events[n].hash]]

DeleteAuditEventsBefore(p) ==
    LET n == RetentionPrefixLength(events, tx[p].before)
    IN  /\ p \in Pruners /\ tx[p].pc = "begun"
        /\ Unlocked(p)
        /\ IF /\ VerifyAuditState(events, state)
              /\ n >= 0
              /\ VerifyAuditState(Pruned(View(p), n).events, Pruned(View(p), n).state)
           THEN Keep(p, "pruned", Pruned(View(p), n))
           ELSE Refuse(p)
        /\ UNCHANGED <<clock, events, state>>

Commit(p) ==
    /\ tx[p].pc = "appended"
    /\ events' = tx[p].events
    /\ state' = tx[p].state
    /\ tx' = [tx EXCEPT ![p] = NoTx]
    /\ UNCHANGED clock

\* The transaction fails elsewhere, or the caller has its error: nothing is written.
Rollback(p) ==
    /\ tx[p].pc # "idle"
    /\ tx' = [tx EXCEPT ![p] = NoTx]
    /\ UNCHANGED <<clock, events, state>>

Next ==
    \/ Tick
    \/ \E p \in Procs : Begin(p) \/ CreateAuditEvent(p) \/ DeleteAuditEventsBefore(p)
                        \/ Commit(p) \/ Rollback(p)
    \/ \E p \in Pruners, before \in 1 .. MaxTime : BeginPrune(p, before)

Spec == Init /\ [][Next]_vars

-----------------------------------------------------------------------------
EventOK(e) ==
    /\ e.sequence \in 1 .. MaxEvents /\ e.created \in Times
    /\ Len(e.hash) = e.sequence /\ Len(e.previous) = e.sequence - 1

TypeOK ==
    /\ clock \in 0 .. MaxTime
    /\ \A e \in Range(events) : EventOK(e)
    /\ state.latest \in 0 .. MaxEvents /\ state.checkpoint \in 0 .. state.latest
    /\ \A p \in Procs :
          /\ tx[p].pc \in {"idle", "begun", "appended", "pruned", "refused"}
          /\ tx[p].now \in 0 .. MaxTime /\ tx[p].before \in 0 .. MaxTime
          /\ \A e \in Range(tx[p].events) : EventOK(e)

\* The committed chain verifies at any time, however appends, prunes and failed
\* transactions interleave, so that GET /audit-events/integrity reports
\* valid=true and no request is refused.
ChainIsValid == VerifyAuditState(events, state)

\* A step removes no event but by a prune whose checkpoint covers it, keeps the
\* others as they are, and never takes a sequence number again: two transactions
\* cannot both append the next number.
AppendOnly ==
    [][/\ \A e \in Range(events) : e \in Range(events') \/ e.sequence <= state'.checkpoint
       /\ state'.checkpoint >= state.checkpoint
       /\ \A e \in Range(events') : e \in Range(events) \/ e.sequence > state.latest]_vars

\* Pruning never removes an event that is as recent as one it keeps, although
\* events need not be in the order of their times (DeleteAuditEventsBefore).
PruneKeepsNewer ==
    [][\A d \in Range(events) \ Range(events'), k \in Range(events) \cap Range(events') :
           d.created < k.created]_vars

-----------------------------------------------------------------------------
(***************************************************************************)
(* A statement of the documentation that the code does not keep.           *)
(***************************************************************************)

\* audit-tamper-evidence.md: "The Memory, SQLite, and PostgreSQL repositories share
\* the same append, verify, checkpoint, and retention contract."  With Precision
\* above 1, as in PostgreSQL, the stored time is not the one that was hashed.
StoredChainVerifies == VerifyAuditState(events, state)

=============================================================================
