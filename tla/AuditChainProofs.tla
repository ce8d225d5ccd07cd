-------------------------- MODULE AuditChainProofs --------------------------
(***************************************************************************)
(* Proofs about AuditChain, for any number of writers and pruners.         *)
(*                                                                         *)
(* A transaction that has touched the chain holds its lock, so no other    *)
(* one commits to the chain before it ends: its copy stays an extension of *)
(* the committed chain, less a prefix of old events if it prunes.  The     *)
(* rows are numbered without a gap whatever the database makes of times;   *)
(* where stored times are exact (Precision = 1) the chain verifies too.    *)
(***************************************************************************)
EXTENDS AuditChain, FiniteSetTheorems, SequenceTheorems, WellFoundedInduction, TLAPS

Hash == Seq(Nat \X Nat)

Event == [sequence : Nat, created : Nat, previous : Hash, hash : Hash]

ChainState == [latest : Nat, latestHash : Hash, checkpoint : Nat, checkpointHash : Hash]

Transaction ==
    [pc : {"idle", "begun", "appended", "pruned", "refused"}, now : Nat, before : Nat,
     events : Seq(Event), state : ChainState]

ChainTypes ==
    /\ clock \in Nat
    /\ events \in Seq(Event)
    /\ state \in ChainState
    /\ tx \in [Procs -> Transaction]

Locked(p) == tx[p].pc \in {"appended", "pruned"}

\* The chain es, s is the committed one without its first events, all older than the
\* ones that stay, and with others at the end.
Extends(es, s) ==
    LET n == s.checkpoint - state.checkpoint
    IN  /\ n \in 0 .. Len(events)
        /\ Len(es) >= Len(events) - n
        /\ \A i \in 1 .. Len(events) - n : es[i] = events[n + i]
        /\ \A d \in 1 .. n, k \in n + 1 .. Len(events) : events[d].created < events[k].created

\* The rows are numbered from the checkpoint, and their times are as the database
\* returns them.
Numbered(es, s) ==
    /\ \A i \in DOMAIN es : es[i].sequence = s.checkpoint + i /\ Stored(es[i].created) = es[i].created
    /\ s.latest = s.checkpoint + Len(es)

Sound(es, s) == Numbered(es, s) /\ (Precision = 1 => VerifyAuditState(es, s))

ChainInv ==
    /\ ChainTypes
    /\ Sound(events, state)
    /\ \A p, q \in Procs : Locked(p) /\ Locked(q) => p = q
    /\ \A p \in Procs : Locked(p) => /\ Sound(tx[p].events, tx[p].state)
                                     /\ Extends(tx[p].events, tx[p].state)
    /\ Precision = 1 => \A p \in Writers : tx[p].pc # "refused"
-----------------------------------------------------------------------------
(***************************************************************************)
(* What verifyAuditState accepts stays acceptable after an append and      *)
(* after a prune.                                                          *)
(***************************************************************************)
\* The rows of a chain are events, in order.
LEMMA RowTypes ==
  ASSUME NEW es \in Seq(Event)
  PROVE  Len(es) \in Nat /\ DOMAIN es = 1 .. Len(es) /\ \A i \in 1 .. Len(es) : es[i] \in Event
  BY LenProperties, Zenon

\* The event that CreateAuditEvent adds.
LEMMA NewEvent ==
  ASSUME NEW s \in ChainState, NEW now \in Nat
  PROVE  LET e == WithAuditEventHash(s.latest + 1, s.latestHash, now)
         IN  /\ e \in Event /\ e.sequence = s.latest + 1 /\ e.previous = s.latestHash
             /\ e.hash = AuditEventHash(s.latestHash, e)
  <1> DEFINE n == s.latest + 1
             h == AuditEventHash(s.latestHash, [sequence |-> n, created |-> now])
             e == WithAuditEventHash(n, s.latestHash, now)
  <1>1. s.latest \in Nat /\ s.latestHash \in Hash /\ n \in Nat
    BY DEF ChainState
  <1>2. h = Append(s.latestHash, <<n, now>>) /\ <<n, now>> \in Nat \X Nat
    BY <1>1, Zenon DEF AuditEventHash
  <1>3. h \in Hash
    <2>1. \A x \in Nat \X Nat, g \in Seq(Nat \X Nat) : Append(g, x) \in Seq(Nat \X Nat)
      BY AppendProperties, Zenon
    <2> HIDE DEF h, n
    <2> QED
      BY <1>1, <1>2, <2>1, Zenon DEF Hash
  <1>4. e = [sequence |-> n, created |-> now, previous |-> s.latestHash, hash |-> h]
    BY Zenon DEF WithAuditEventHash
  <1>5. e \in Event /\ e.sequence = n /\ e.created = now /\ e.previous = s.latestHash /\ e.hash = h
    <2> HIDE DEF h, n, e
    <2> QED
      BY <1>1, <1>3, <1>4, Zenon DEF Event
  <1>6. e.hash = AuditEventHash(s.latestHash, e)
    <2> HIDE DEF h, n, e
    <2> QED
      BY <1>2, <1>5, Zenon DEF AuditEventHash
  <1> QED
    BY <1>5, <1>6, Zenon

\* An append to a chain that verifies gives one that verifies.
LEMMA AppendVerifies ==
  ASSUME NEW es \in Seq(Event), NEW s \in ChainState, NEW now \in Nat, VerifyAuditState(es, s)
  PROVE  LET w == Appended([events |-> es, state |-> s], now)
         IN  /\ w.events \in Seq(Event) /\ w.state \in ChainState /\ VerifyAuditState(w.events, w.state)
             /\ w.state.checkpoint = s.checkpoint /\ Len(w.events) = Len(es) + 1
             /\ \A i \in 1 .. Len(es) : w.events[i] = es[i]
  <1> DEFINE e == WithAuditEventHash(s.latest + 1, s.latestHash, now)
             fs == Append(es, e)
             t == [s EXCEPT !.latest = e.sequence, !.latestHash = e.hash]
             L == Len(es)
  <1>1. Appended([events |-> es, state |-> s], now) = [events |-> fs, state |-> t]
    BY Zenon DEF Appended
  <1>2. /\ e \in Event /\ e.sequence = s.latest + 1 /\ e.previous = s.latestHash
        /\ e.hash = AuditEventHash(s.latestHash, e)
    BY NewEvent, Zenon
  <1> HIDE DEF e
  <1>3. L \in Nat /\ DOMAIN es = 1 .. L
    BY RowTypes, Zenon
  <1>4. /\ fs \in Seq(Event) /\ Len(fs) = L + 1 /\ fs[L + 1] = e /\ DOMAIN fs = 1 .. L + 1
        /\ \A i \in 1 .. L : fs[i] = es[i]
    BY <1>2, <1>3, AppendProperties, RowTypes
  <1>5. /\ t \in ChainState /\ t.latest = s.latest + 1 /\ t.latestHash = e.hash
        /\ t.checkpoint = s.checkpoint /\ t.checkpointHash = s.checkpointHash
        /\ s.checkpoint \in Nat
    BY <1>2, Zenon DEF ChainState, Event
  <1> HIDE DEF fs, t
  <1>6. \A i \in 1 .. L + 1 : HashBefore(fs, t, i) = HashBefore(es, s, i)
    BY <1>3, <1>4, <1>5 DEF HashBefore
  <1>7. HashBefore(fs, t, L + 2) = e.hash
    BY <1>3, <1>4 DEF HashBefore
  <1>8. /\ s.latest = s.checkpoint + L /\ s.latestHash = HashBefore(es, s, L + 1)
        /\ s.checkpoint = 0 => s.checkpointHash = <<>>
    BY Zenon DEF VerifyAuditState
  <1>9. ASSUME NEW i \in 1 .. L
        PROVE  /\ fs[i].sequence = t.checkpoint + i /\ fs[i].previous = HashBefore(fs, t, i)
               /\ fs[i].hash = AuditEventHash(HashBefore(fs, t, i), fs[i])
    <2>1. fs[i] = es[i] /\ HashBefore(fs, t, i) = HashBefore(es, s, i)
      BY <1>3, <1>4, <1>6
    <2> QED
      BY <1>3, <1>5, <2>1, Zenon DEF VerifyAuditState
  <1>10. /\ fs[L + 1].sequence = t.checkpoint + (L + 1) /\ fs[L + 1].previous = HashBefore(fs, t, L + 1)
         /\ fs[L + 1].hash = AuditEventHash(HashBefore(fs, t, L + 1), fs[L + 1])
    <2>1. HashBefore(fs, t, L + 1) = s.latestHash
      BY <1>3, <1>6, <1>8
    <2> QED
      BY <1>2, <1>3, <1>4, <1>5, <1>8, <2>1
  <1>11. VerifyAuditState(fs, t)
    <2>1. t.latest = t.checkpoint + Len(fs) /\ t.latestHash = HashBefore(fs, t, Len(fs) + 1)
      BY <1>3, <1>4, <1>5, <1>7, <1>8
    <2>2. \A i \in 1 .. L + 1 : i \in 1 .. L \/ i = L + 1
      BY <1>3
    <2> HIDE DEF L
    <2> QED
      BY <1>4, <1>5, <1>8, <1>9, <1>10, <2>1, <2>2, Zenon DEF VerifyAuditState
  <1> QED
    BY <1>1, <1>4, <1>5, <1>11

\* The rows from n + 1 of a chain that verifies, after the checkpoint of row n, verify.
LEMMA PruneVerifies ==
  ASSUME NEW es \in Seq(Event), NEW s \in ChainState, VerifyAuditState(es, s), NEW n \in 0 .. Len(es)
  PROVE  LET w == Pruned([events |-> es, state |-> s], n)
         IN  /\ w.events \in Seq(Event) /\ w.state \in ChainState /\ VerifyAuditState(w.events, w.state)
             /\ w.state.checkpoint = s.checkpoint + n /\ Len(w.events) = Len(es) - n
             /\ \A i \in 1 .. Len(es) - n : w.events[i] = es[n + i]
  <1> DEFINE L == Len(es)
             fs == SubSeq(es, n + 1, L)
             t == [s EXCEPT !.checkpoint = es[n].sequence, !.checkpointHash = es[n].hash]
  <1>1. L \in Nat /\ DOMAIN es = 1 .. L /\ n \in Nat /\ n <= L /\ \A i \in 1 .. L : es[i] \in Event
    BY RowTypes
  <1>2. s.checkpoint \in Nat /\ s.latest \in Nat
    BY Zenon DEF ChainState
  <1>3. CASE n = 0
    <2>1. Pruned([events |-> es, state |-> s], n) = [events |-> es, state |-> s]
      BY <1>3, Zenon DEF Pruned
    <2> QED
      BY <1>1, <1>2, <1>3, <2>1
  <1>4. CASE n # 0
    <2>1. Pruned([events |-> es, state |-> s], n) = [events |-> fs, state |-> t]
      BY <1>4, Zenon DEF Pruned
    <2>2. n \in 1 .. L
      BY <1>1, <1>4
    <2>3. /\ fs \in Seq(Event) /\ Len(fs) = L - n /\ \A i \in 1 .. L - n : fs[i] = es[n + i]
      <3>1. \A i \in n + 1 .. L : es[i] \in Event
        BY <1>1
      <3>2. /\ fs \in Seq(Event) /\ Len(fs) = IF n + 1 <= L THEN L - (n + 1) + 1 ELSE 0
            /\ \A i \in 1 .. L - (n + 1) + 1 : fs[i] = es[(n + 1) + i - 1]
        <4>1. n + 1 \in Int /\ L \in Int
          BY <1>1
        <4> HIDE DEF L
        <4> QED
          BY <3>1, <4>1, SubSeqProperties
      <3> HIDE DEF fs, L
      <3>3. L - (n + 1) + 1 = L - n /\ (n + 1 <= L \/ L - n = 0)
        BY <1>1
      <3>4. \A i \in 1 .. L - n : (n + 1) + i - 1 = n + i
        BY <1>1
      <3> QED
        BY <3>2, <3>3, <3>4, Zenon
    <2>4. DOMAIN fs = 1 .. L - n
      BY <2>3, RowTypes, Zenon
    <2>5. es[n] \in Event /\ es[n].sequence = s.checkpoint + n
      BY <1>1, <2>2, Zenon DEF VerifyAuditState
    <2>6. /\ t \in ChainState /\ t.checkpoint = s.checkpoint + n /\ t.checkpointHash = es[n].hash
          /\ t.latest = s.latest /\ t.latestHash = s.latestHash
      BY <2>5, Zenon DEF ChainState, Event
    <2> HIDE DEF fs, t
    <2>7. ASSUME NEW i \in 1 .. L - n + 1
          PROVE  HashBefore(fs, t, i) = HashBefore(es, s, n + i)
      <3>1. CASE i = 1
        BY <1>1, <2>2, <2>6, <3>1 DEF HashBefore
      <3>2. CASE i # 1
        <4>1. i - 1 \in 1 .. L - n /\ n + (i - 1) = n + i - 1 /\ n + i # 1
          BY <1>1, <2>2, <3>2
        <4>2. fs[i - 1] = es[n + i - 1]
          BY <2>3, <4>1, Zenon
        <4> QED
          BY <3>2, <4>1, <4>2 DEF HashBefore
      <3> QED
        BY <3>1, <3>2, Zenon
    <2>8. ASSUME NEW i \in 1 .. L - n
          PROVE  /\ fs[i].sequence = t.checkpoint + i /\ fs[i].previous = HashBefore(fs, t, i)
                 /\ fs[i].hash = AuditEventHash(HashBefore(fs, t, i), fs[i])
      <3>1. n + i \in 1 .. L /\ i \in 1 .. L - n + 1 /\ (s.checkpoint + n) + i = s.checkpoint + (n + i)
        BY <1>1, <1>2, <2>2
      <3>2. fs[i] = es[n + i] /\ HashBefore(fs, t, i) = HashBefore(es, s, n + i)
        BY <2>3, <2>7, <3>1, Zenon
      <3> HIDE DEF L
      <3> QED
        BY <1>1, <2>6, <3>1, <3>2 DEF VerifyAuditState
    <2>9. t.latest = t.checkpoint + Len(fs) /\ t.checkpoint # 0
      <3>1. s.latest = s.checkpoint + L
        BY Zenon DEF VerifyAuditState
      <3> HIDE DEF L
      <3> QED
        BY <1>1, <1>2, <1>4, <2>3, <2>6, <3>1
    <2>10. t.latestHash = HashBefore(fs, t, Len(fs) + 1)
      <3>1. L - n + 1 \in 1 .. L - n + 1 /\ n + (L - n + 1) = L + 1
        BY <1>1
      <3>2. HashBefore(fs, t, L - n + 1) = HashBefore(es, s, L + 1)
        BY <2>7, <3>1, Zenon
      <3> QED
        BY <2>3, <2>6, <3>2, Zenon DEF VerifyAuditState
    <2>11. VerifyAuditState(fs, t)
      BY <2>4, <2>8, <2>9, <2>10, Zenon DEF VerifyAuditState
    <2> QED
      BY <2>1, <2>3, <2>6, <2>11
  <1> QED
    BY <1>3, <1>4, Zenon

\* A quotient is the only number whose multiple is that close below.
LEMMA Quotient ==
  ASSUME NEW P \in Nat \ {0}, NEW k \in Nat, NEW q \in Nat, NEW h \in Nat, h < P,
         q * P <= k * P + h, k * P + h < q * P + P
  PROVE  q = k
  <1>1. CASE q < k
    <2>1. PICK d \in Nat : k = q + d + 1
      <3>1. k - q - 1 \in Nat /\ k = q + (k - q - 1) + 1
        BY <1>1
      <3> QED
        BY <3>1, Zenon
    <2>2. k * P = q * P + d * P + P /\ q * P \in Nat /\ d * P \in Nat
      BY <2>1
    <2> QED
      BY <2>2
  <1>2. CASE q > k
    <2>1. PICK d \in Nat : q = k + d + 1
      <3>1. q - k - 1 \in Nat /\ q = k + (q - k - 1) + 1
        BY <1>2
      <3> QED
        BY <3>1, Zenon
    <2>2. q * P = k * P + d * P + P /\ k * P \in Nat /\ d * P \in Nat
      BY <2>1
    <2> QED
      BY <2>2
  <1> QED
    BY <1>1, <1>2

\* Division with remainder.
LEMMA Division ==
  ASSUME NEW P \in Nat \ {0}, NEW a \in Nat
  PROVE  a \div P \in Nat /\ (a \div P) * P \in Nat /\ (a \div P) * P <= a /\ a < (a \div P) * P + P
  OBVIOUS

\* A time that the database has rounded is not rounded again, and an exact database
\* rounds none.
LEMMA StoredOnce ==
  ASSUME NEW t \in Nat
  PROVE  Stored(t) \in Nat /\ Stored(Stored(t)) = Stored(t) /\ (Precision = 1 => Stored(t) = t)
  <1>1. PICK P \in Nat \ {0} : P = Precision
    BY PrecisionAssumption, Zenon
  <1>2. PICK h \in Nat : h = P \div 2 /\ h < P
    <2>1. P \div 2 \in Nat /\ P \div 2 < P
      OBVIOUS
    <2> QED
      BY <2>1, Zenon
  <1>3. PICK k \in Nat : k = (t + h) \div P /\ k * P \in Nat
    BY Division
  <1>4. PICK q \in Nat : q = (k * P + h) \div P /\ q * P <= k * P + h /\ k * P + h < q * P + P
    <2>1. k * P + h \in Nat
      BY <1>3
    <2> QED
      BY <2>1, Division, Zenon
  <1>5. q = k
    BY <1>2, <1>4, Quotient, Zenon
  <1>6. Stored(t) = k * P /\ Stored(k * P) = q * P
    BY <1>1, <1>2, <1>3, <1>4, Zenon DEF Stored
  <1>7. Precision = 1 => Stored(t) = t
    BY DEF Stored
  <1> QED
    BY <1>3, <1>5, <1>6, <1>7, Zenon

\* The rows as the database returns them: with rounded times, and otherwise as written.
LEMMA StoredRows ==
  ASSUME NEW es \in Seq(Event)
  PROVE  /\ InDatabase(es) \in Seq(Event) /\ Len(InDatabase(es)) = Len(es)
         /\ \A i \in 1 .. Len(es) :
               /\ InDatabase(es)[i].sequence = es[i].sequence
               /\ InDatabase(es)[i].created = Stored(es[i].created)
               /\ Stored(es[i].created) = es[i].created => InDatabase(es)[i] = es[i]
         /\ Precision = 1 => InDatabase(es) = es
  <1> DEFINE L == Len(es)
             F(i) == [es[i] EXCEPT !.created = Stored(es[i].created)]
  <1>1. L \in Nat /\ DOMAIN es = 1 .. L /\ es \in [1 .. L -> Event]
    BY LenProperties, Zenon
  <1>2. ASSUME NEW i \in 1 .. L
        PROVE  /\ F(i) \in Event /\ F(i).sequence = es[i].sequence
               /\ F(i).created = Stored(es[i].created)
               /\ Stored(es[i].created) = es[i].created => F(i) = es[i]
               /\ Precision = 1 => F(i) = es[i]
    <2>1. es[i] \in Event /\ es[i].created \in Nat
      BY <1>1, Zenon DEF Event
    <2>2. Stored(es[i].created) \in Nat /\ (Precision = 1 => Stored(es[i].created) = es[i].created)
      BY <2>1, StoredOnce, Zenon
    <2> QED
      BY <2>1, <2>2, Zenon DEF Event
  <1>3. InDatabase(es) = [i \in 1 .. L |-> F(i)]
    BY <1>1, Zenon DEF InDatabase
  <1> HIDE DEF F
  <1>4. InDatabase(es) \in [1 .. L -> Event] /\ \A i \in 1 .. L : InDatabase(es)[i] = F(i)
    BY <1>2, <1>3, Zenon
  <1>5. InDatabase(es) \in Seq(Event) /\ Len(InDatabase(es)) = L
    <2>1. PICK fs \in [1 .. L -> Event] : fs = InDatabase(es)
      BY <1>4, Zenon
    <2>2. fs \in Seq(Event)
      BY <1>1, SeqDef, Zenon
    <2>3. Len(fs) \in Nat /\ 1 .. Len(fs) = 1 .. L
      BY <2>2, LenProperties, Zenon
    <2>4. Len(fs) = L
      BY <1>1, <2>3
    <2> QED
      BY <2>1, <2>2, <2>4, Zenon
  <1>6. Precision = 1 => InDatabase(es) = es
    BY <1>1, <1>2, <1>4
  <1> QED
    BY <1>2, <1>4, <1>5, <1>6, Zenon

\* A set of numbers that is not empty has a least one.
LEMMA Least ==
  ASSUME NEW S, S \subseteq Nat, S # {}
  PROVE  \E x \in S : \A y \in S : x <= y
  <1> DEFINE R == {ss \in Nat \X Nat : ss[1] < ss[2]}
  <1>1. IsWellFoundedOn(R, Nat)
    BY NatLessThanWellFounded, Zenon DEF OpToRel
  <1>2. \A a, b \in Nat : a < b => <<a, b>> \in R
    <2> TAKE a \in Nat, b \in Nat
    <2>1. <<a, b>> \in Nat \X Nat /\ <<a, b>>[1] = a /\ <<a, b>>[2] = b
      BY Zenon
    <2> QED
      BY <2>1, Zenon
  <1> HIDE DEF R
  <1>3. PICK x \in S : \A y \in S : ~(<<y, x>> \in R)
    BY <1>1, WFMin, Zenon
  <1>4. \A y \in S : ~(y < x)
    BY <1>2, <1>3, Zenon
  <1>5. \A y \in S : x <= y
    BY <1>4
  <1> QED
    BY <1>5, Zenon

\* A set of row numbers that has every number below one of its own is an interval from 1,
\* as long as it has elements.
LEMMA Prefix ==
  ASSUME NEW L \in Nat, NEW D \in SUBSET (1 .. L), \A i \in D : 1 .. i \subseteq D
  PROVE  Cardinality(D) \in 0 .. L /\ D = 1 .. Cardinality(D)
  <1> DEFINE S == {j \in Nat : j + 1 \notin D}
  <1>1. L \in S /\ S \subseteq Nat
    OBVIOUS
  <1>2. PICK j \in S : \A k \in S : j <= k
    BY <1>1, Least, Zenon
  <1>3. j \in Nat /\ j <= L /\ j + 1 \notin D
    BY <1>1, <1>2, Zenon
  <1>4. ASSUME NEW i \in 1 .. j PROVE i \in D
    <2>1. i - 1 \in Nat /\ ~(j <= i - 1)
      BY <1>3
    <2>2. i - 1 \notin S
      BY <1>2, <2>1, Zenon
    <2>3. (i - 1) + 1 = i
      BY <1>3
    <2> QED
      BY <2>1, <2>2, <2>3, Zenon
  <1>5. ASSUME NEW i \in D PROVE i \in 1 .. j
    <2>1. i \in Nat /\ i >= 1
      OBVIOUS
    <2>2. CASE i > j
      <3>1. j + 1 \in 1 .. i
        BY <1>3, <2>1, <2>2
      <3> QED
        BY <1>3, <3>1, Zenon
    <2> QED
      BY <1>3, <2>1, <2>2
  <1>6. D = 1 .. j
    BY <1>4, <1>5, Zenon
  <1>7. Cardinality(1 .. j) = j
    BY <1>3, FS_Interval
  <1> QED
    BY <1>3, <1>6, <1>7

\* auditRetentionPrefixLength returns the end of a prefix of older events.
LEMMA RetentionPrefix ==
  ASSUME NEW es \in Seq(Event), NEW before \in Nat, RetentionPrefixLength(es, before) >= 0
  PROVE  LET n == RetentionPrefixLength(es, before)
         IN  /\ n \in 0 .. Len(es)
             /\ \A d \in 1 .. n, k \in n + 1 .. Len(es) : es[d].created < es[k].created
  <1> DEFINE old == {i \in DOMAIN es : es[i].created < before}
             n == RetentionPrefixLength(es, before)
  <1>1. Len(es) \in Nat /\ DOMAIN es = 1 .. Len(es) /\ \A i \in 1 .. Len(es) : es[i].created \in Nat
    BY RowTypes, Zenon DEF Event
  <1>2. (\A i \in old : 1 .. i \subseteq old) /\ n = Cardinality(old)
    BY DEF RetentionPrefixLength
  <1>3. n \in 0 .. Len(es) /\ old = 1 .. n
    <2>1. old \in SUBSET (1 .. Len(es))
      BY <1>1, Zenon
    <2> HIDE DEF old, n
    <2> QED
      BY <1>1, <1>2, <2>1, Prefix, Zenon
  <1>4. ASSUME NEW d \in 1 .. n, NEW k \in n + 1 .. Len(es) PROVE es[d].created < es[k].created
    <2>1. d \in old /\ k \notin old /\ k \in DOMAIN es /\ d \in DOMAIN es
      <3>1. d \in old
        BY <1>3, Zenon
      <3>2. k \notin 1 .. n /\ k \in 1 .. Len(es)
        BY <1>1, <1>3
      <3> QED
        BY <1>1, <1>3, <3>1, <3>2, Zenon
    <2>2. es[d].created < before /\ ~(es[k].created < before)
      BY <2>1, Zenon
    <2> HIDE DEF n, old
    <2> QED
      BY <1>1, <2>1, <2>2
  <1> QED
    BY <1>3, <1>4, Zenon

-----------------------------------------------------------------------------
(***************************************************************************)
(* The invariant.                                                          *)
(***************************************************************************)
\* No transaction at the start, and no event.
LEMMA NoTransaction ==
  /\ EmptyAuditChainState \in ChainState /\ <<>> \in Seq(Event)
  /\ NoTx \in Transaction /\ NoTx.pc = "idle"
  <1>1. <<>> \in Hash /\ <<>> \in Seq(Event)
    BY EmptySeq, Zenon DEF Hash
  <1>2. EmptyAuditChainState \in ChainState
    BY <1>1, Zenon DEF EmptyAuditChainState, ChainState
  <1> QED
    BY <1>1, <1>2, Zenon DEF NoTx, Transaction

\* The empty chain verifies.
LEMMA InitChain == Init => ChainInv
  <1> SUFFICES ASSUME Init PROVE ChainInv
    BY Zenon
  <1>1. ChainTypes
    BY NoTransaction, Zenon DEF Init, ChainTypes
  <1>2. \A p \in Procs : tx[p].pc = "idle"
    BY NoTransaction, Zenon DEF Init
  <1>3. Sound(events, state)
    <2>1. Len(events) = 0 /\ DOMAIN events = {}
      <3>1. events \in Seq(Event) /\ Len(events) = 0
        BY EmptySeq, Zenon DEF Init
      <3> QED
        BY <3>1, RowTypes
    <2> QED
      BY <2>1 DEF Init, Sound, Numbered, VerifyAuditState, EmptyAuditChainState, HashBefore
  <1> QED
    BY <1>1, <1>2, <1>3, Zenon DEF ChainInv, Locked, Procs

\* A step of one transaction that commits nothing.
LEMMA TxStep ==
  ASSUME ChainInv, UNCHANGED <<clock, events, state>>, NEW p \in Procs, NEW t \in Transaction,
         tx' = [tx EXCEPT ![p] = t], Precision = 1 /\ p \in Writers => t.pc # "refused",
         t.pc \in {"appended", "pruned"} => /\ Unlocked(p) /\ Sound(t.events, t.state)
                                            /\ Extends(t.events, t.state)
  PROVE  ChainInv'
  <1>1. tx \in [Procs -> Transaction]
    BY Zenon DEF ChainInv, ChainTypes
  <1>2. tx' \in [Procs -> Transaction] /\ tx'[p] = t /\ \A q \in Procs \ {p} : tx'[q] = tx[q]
    BY <1>1, Zenon
  <1>3. ChainTypes' /\ Sound(events, state)'
    BY <1>2, Zenon DEF ChainInv, ChainTypes, Sound, Numbered
  <1>4. \A x, y : Extends(x, y) => Extends(x, y)'
    BY Zenon DEF Extends
  <1>5. \A q, r \in Procs : Locked(q)' /\ Locked(r)' => q = r
    BY <1>2, Zenon DEF ChainInv, Locked, Unlocked
  <1>6. ASSUME NEW q \in Procs, Locked(q)'
        PROVE  Sound(tx'[q].events, tx'[q].state) /\ Extends(tx[q].events, tx[q].state)'
    <2>1. PICK x, y : x = tx'[q].events /\ y = tx'[q].state
      BY Zenon
    <2>2. Sound(x, y) /\ Extends(x, y)
      <3>1. CASE q = p
        BY <1>2, <1>6, <2>1, <3>1, Zenon DEF Locked
      <3>2. CASE q # p
        BY <1>2, <1>6, <2>1, <3>2, Zenon DEF Locked, ChainInv
      <3> QED
        BY <3>1, <3>2, Zenon
    <2>3. Extends(x, y)'
      BY <1>4, <2>2, Zenon
    <2> QED
      BY <2>1, <2>2, <2>3, Zenon
  <1>7. Precision = 1 => \A q \in Writers : tx'[q].pc # "refused"
    BY <1>2, Zenon DEF ChainInv, Procs
  <1> QED
    BY <1>3, <1>5, <1>6, <1>7, Zenon DEF ChainInv

\* A transaction begins or fails.
LEMMA OutsideChain ==
  ASSUME ChainInv, NEW p \in Procs, Begin(p) \/ Rollback(p) \/ \E before \in 1 .. MaxTime : BeginPrune(p, before)
  PROVE  ChainInv'
  <1>1. clock \in Nat /\ UNCHANGED <<clock, events, state>>
    BY Zenon DEF ChainInv, ChainTypes, Begin, Rollback, BeginPrune
  <1>2. CASE Begin(p)
    <2> DEFINE t == [NoTx EXCEPT !.pc = "begun", !.now = clock]
    <2>1. t \in Transaction /\ t.pc = "begun"
      BY <1>1, NoTransaction, Zenon DEF Transaction
    <2>2. tx' = [tx EXCEPT ![p] = t]
      BY <1>2, Zenon DEF Begin
    <2> HIDE DEF t
    <2> QED
      BY <1>1, <2>1, <2>2, TxStep, Zenon
  <1>3. ASSUME NEW before \in 1 .. MaxTime, BeginPrune(p, before) PROVE ChainInv'
    <2> DEFINE t == [NoTx EXCEPT !.pc = "begun", !.now = clock, !.before = before]
    <2>1. t \in Transaction /\ t.pc = "begun"
      <3>1. before \in Nat
        BY AuditBounds
      <3> QED
        BY <1>1, <3>1, NoTransaction, Zenon DEF Transaction
    <2>2. tx' = [tx EXCEPT ![p] = t]
      BY <1>3, Zenon DEF BeginPrune
    <2> HIDE DEF t
    <2> QED
      BY <1>1, <2>1, <2>2, TxStep, Zenon
  <1>4. CASE Rollback(p)
    BY <1>1, <1>4, NoTransaction, TxStep, Zenon DEF Rollback
  <1> QED
    BY <1>2, <1>3, <1>4, Zenon

\* A refusal.  Where times are exact no writer meets one.
LEMMA RefuseStep ==
  ASSUME ChainInv, UNCHANGED <<clock, events, state>>, NEW p \in Procs, Refuse(p),
         Precision = 1 => p \notin Writers
  PROVE  ChainInv'
  <1> DEFINE t == [NoTx EXCEPT !.pc = "refused"]
  <1>1. t \in Transaction /\ t.pc = "refused"
    BY NoTransaction, Zenon DEF Transaction
  <1>2. tx' = [tx EXCEPT ![p] = t]
    BY Zenon DEF Refuse
  <1> HIDE DEF t
  <1> QED
    BY <1>1, <1>2, TxStep, Zenon

\* The tables after a write that verified: the database rounds the time of the new row,
\* and returns the older ones as they were.
LEMMA KeepStep ==
  ASSUME ChainInv, UNCHANGED <<clock, events, state>>, NEW p \in Procs, Unlocked(p),
         NEW pc \in {"appended", "pruned"}, NEW w, Keep(p, pc, w),
         w.events \in Seq(Event), w.state \in ChainState,
         VerifyAuditState(w.events, w.state), Extends(w.events, w.state)
  PROVE  ChainInv'
  <1>1. PICK ws \in Seq(Event), s \in ChainState : ws = w.events /\ s = w.state
    BY Zenon
  <1>2. PICK es \in Seq(Event) : es = InDatabase(ws)
    BY StoredRows, Zenon
  <1>3. /\ Len(es) = Len(ws) /\ (Precision = 1 => es = ws)
        /\ \A i \in 1 .. Len(ws) : /\ es[i].sequence = ws[i].sequence
                                   /\ es[i].created = Stored(ws[i].created)
                                   /\ Stored(ws[i].created) = ws[i].created => es[i] = ws[i]
    BY <1>2, StoredRows, Zenon
  <1>4. /\ DOMAIN es = 1 .. Len(ws) /\ DOMAIN ws = 1 .. Len(ws) /\ Len(ws) \in Nat
        /\ \A i \in 1 .. Len(ws) : ws[i].created \in Nat
    BY <1>3, RowTypes, Zenon DEF Event
  <1>5. Sound(es, s)
    <2>1. VerifyAuditState(ws, s)
      BY <1>1, Zenon
    <2>2. ASSUME NEW i \in 1 .. Len(ws)
          PROVE  es[i].sequence = s.checkpoint + i /\ Stored(es[i].created) = es[i].created
      <3>1. ws[i].sequence = s.checkpoint + i
        BY <1>4, <2>1, Zenon DEF VerifyAuditState
      <3>2. Stored(Stored(ws[i].created)) = Stored(ws[i].created)
        BY <1>4, StoredOnce, Zenon
      <3> QED
        BY <1>3, <3>1, <3>2, Zenon
    <2>3. s.latest = s.checkpoint + Len(es)
      BY <1>3, <2>1, Zenon DEF VerifyAuditState
    <2>4. Numbered(es, s)
      BY <1>4, <2>2, <2>3, Zenon DEF Numbered
    <2> QED
      BY <1>3, <2>1, <2>4, Zenon DEF Sound
  <1>6. Extends(es, s)
    <2> DEFINE n == s.checkpoint - state.checkpoint
    <2>1. /\ n \in 0 .. Len(events) /\ Len(ws) >= Len(events) - n
          /\ \A i \in 1 .. Len(events) - n : ws[i] = events[n + i]
          /\ \A d \in 1 .. n, k \in n + 1 .. Len(events) : events[d].created < events[k].created
      BY <1>1, Zenon DEF Extends
    <2>2. Len(events) \in Nat /\ \A i \in 1 .. Len(events) : Stored(events[i].created) = events[i].created
      BY RowTypes, Zenon DEF ChainInv, ChainTypes, Sound, Numbered
    <2> HIDE DEF n
    <2>3. ASSUME NEW i \in 1 .. Len(events) - n PROVE es[i] = events[n + i]
      <3>1. n + i \in 1 .. Len(events) /\ i \in 1 .. Len(ws)
        BY <1>4, <2>1, <2>2
      <3> QED
        BY <1>3, <2>1, <2>2, <3>1
    <2> QED
      BY <1>3, <2>1, <2>3, Zenon DEF Extends, n
  <1> DEFINE t == [tx[p] EXCEPT !.pc = pc, !.events = es, !.state = s]
  <1>7. tx[p] \in Transaction
    BY Zenon DEF ChainInv, ChainTypes
  <1>8. tx' = [tx EXCEPT ![p] = t]
    BY <1>1, <1>2, Zenon DEF Keep
  <1>9. t \in Transaction /\ t.pc = pc /\ t.events = es /\ t.state = s
    BY <1>7, Zenon DEF Transaction
  <1> HIDE DEF t
  <1> QED
    BY <1>5, <1>6, <1>8, <1>9, TxStep, Zenon

\* What the transaction sees of the chain extends the committed one.
LEMMA ViewExtends ==
  ASSUME ChainInv, NEW p \in Procs, tx[p].pc \in {"begun", "appended", "pruned"}
  PROVE  \E es \in Seq(Event), s \in ChainState :
            /\ View(p) = [events |-> es, state |-> s] /\ Sound(es, s) /\ Extends(es, s)
            /\ tx[p].pc = "begun" => es = events /\ s = state
  <1>1. events \in Seq(Event) /\ state \in ChainState /\ tx[p] \in Transaction /\ Len(events) \in Nat
    BY RowTypes, Zenon DEF ChainInv, ChainTypes
  <1>2. CASE tx[p].pc = "begun"
    <2>1. Extends(events, state)
      <3>1. state.checkpoint \in Nat
        BY <1>1, Zenon DEF ChainState
      <3>2. state.checkpoint - state.checkpoint = 0
        BY <3>1
      <3> QED
        BY <1>1, <3>2 DEF Extends
    <2> QED
      BY <1>1, <1>2, <2>1, Zenon DEF View, ChainInv
  <1>3. CASE tx[p].pc # "begun"
    <2>1. Locked(p)
      BY <1>3, Zenon DEF Locked
    <2> QED
      BY <1>1, <1>3, <2>1, Zenon DEF View, ChainInv, Transaction
  <1> QED
    BY <1>2, <1>3, Zenon

\* An append: where times are exact both checks pass, so the request is not refused.
LEMMA AppendChain ==
  ASSUME ChainInv, NEW p \in Procs, CreateAuditEvent(p)
  PROVE  ChainInv'
  <1>1. tx[p] \in Transaction /\ tx[p].pc \in {"begun", "appended", "pruned"} /\ Unlocked(p)
        /\ UNCHANGED <<clock, events, state>>
    BY Zenon DEF ChainInv, ChainTypes, CreateAuditEvent
  <1>2. PICK es \in Seq(Event), s \in ChainState :
            View(p) = [events |-> es, state |-> s] /\ Sound(es, s) /\ Extends(es, s)
    BY <1>1, ViewExtends, Zenon
  <1>3. PICK now \in Nat : now = tx[p].now
    BY <1>1, Zenon DEF Transaction
  <1>4. PICK w : w = Appended([events |-> es, state |-> s], now)
    BY Zenon
  <1>5. CASE VerifyAuditState(es, s)
    <2>1. /\ w.events \in Seq(Event) /\ w.state \in ChainState /\ VerifyAuditState(w.events, w.state)
          /\ w.state.checkpoint = s.checkpoint /\ Len(w.events) = Len(es) + 1
          /\ \A i \in 1 .. Len(es) : w.events[i] = es[i]
      BY <1>2, <1>4, <1>5, AppendVerifies, Zenon
    <2>2. Keep(p, "appended", w)
      <3>1. VerifyAuditState(View(p).events, View(p).state)
        BY <1>2, <1>5
      <3> QED
        BY <1>2, <1>3, <1>4, <2>1, <3>1 DEF CreateAuditEvent
    <2>3. Extends(w.events, w.state)
      <3>1. Len(es) \in Nat /\ Len(events) \in Nat
        BY RowTypes, Zenon DEF ChainInv, ChainTypes
      <3> DEFINE n == s.checkpoint - state.checkpoint
      <3>2. /\ n \in 0 .. Len(events) /\ Len(es) >= Len(events) - n
            /\ \A i \in 1 .. Len(events) - n : es[i] = events[n + i]
            /\ \A d \in 1 .. n, k \in n + 1 .. Len(events) : events[d].created < events[k].created
        BY <1>2, Zenon DEF Extends
      <3>3. w.state.checkpoint - state.checkpoint = n
        BY <2>1, Zenon
      <3> HIDE DEF n
      <3>4. \A i \in 1 .. Len(events) - n : i \in 1 .. Len(es)
        BY <3>1, <3>2
      <3>5. Len(w.events) >= Len(events) - n
        BY <2>1, <3>1, <3>2
      <3> QED
        BY <2>1, <3>2, <3>3, <3>4, <3>5 DEF Extends
    <2> QED
      BY <1>1, <2>1, <2>2, <2>3, KeepStep
  <1>6. CASE ~VerifyAuditState(es, s)
    <2>1. Refuse(p)
      BY <1>2, <1>6 DEF CreateAuditEvent
    <2>2. Precision # 1
      BY <1>2, <1>6, Zenon DEF Sound
    <2> QED
      BY <1>1, <2>1, <2>2, RefuseStep, Zenon
  <1> QED
    BY <1>5, <1>6, Zenon

\* A prune: what is left verifies, and is newer than what goes.
LEMMA PruneChain ==
  ASSUME ChainInv, NEW p \in Procs, DeleteAuditEventsBefore(p)
  PROVE  ChainInv'
  <1> DEFINE n == RetentionPrefixLength(events, tx[p].before)
             v == [events |-> events, state |-> state]
  <1>1. /\ tx[p] \in Transaction /\ tx[p].before \in Nat /\ events \in Seq(Event) /\ state \in ChainState
        /\ Len(events) \in Nat
    BY RowTypes, Zenon DEF ChainInv, ChainTypes, Transaction
  <1>2. p \notin Writers /\ View(p) = v /\ Unlocked(p) /\ UNCHANGED <<clock, events, state>>
    BY AuditBounds, Zenon DEF DeleteAuditEventsBefore, View
  <1>3. CASE Refuse(p)
    BY <1>2, <1>3, RefuseStep, Zenon
  <1>4. CASE ~Refuse(p)
    <2>1. n >= 0 /\ Keep(p, "pruned", Pruned(v, n)) /\ VerifyAuditState(events, state)
      BY <1>2, <1>4, Zenon DEF DeleteAuditEventsBefore
    <2>2. /\ n \in 0 .. Len(events)
          /\ \A d \in 1 .. n, k \in n + 1 .. Len(events) : events[d].created < events[k].created
      BY <1>1, <2>1, RetentionPrefix, Zenon
    <2>3. PICK m \in 0 .. Len(events) : m = n
      BY <2>2, Zenon
    <2>4. PICK w : w = Pruned(v, m)
      BY Zenon
    <2>5. /\ w.events \in Seq(Event) /\ w.state \in ChainState /\ VerifyAuditState(w.events, w.state)
          /\ w.state.checkpoint = state.checkpoint + m /\ Len(w.events) = Len(events) - m
          /\ \A i \in 1 .. Len(events) - m : w.events[i] = events[m + i]
      BY <1>1, <2>1, <2>4, PruneVerifies, Zenon
    <2> HIDE DEF n, v
    <2>6. w.state.checkpoint - state.checkpoint = m /\ Len(w.events) >= Len(events) - m
      <3>1. state.checkpoint \in Nat /\ m \in Nat
        BY <1>1 DEF ChainState
      <3> QED
        BY <1>1, <2>5, <3>1
    <2>7. Extends(w.events, w.state)
      BY <2>2, <2>3, <2>5, <2>6, Zenon DEF Extends
    <2> QED
      BY <1>2, <2>1, <2>3, <2>4, <2>5, <2>7, KeepStep
  <1> QED
    BY <1>3, <1>4, Zenon

\* A commit: the copy becomes the chain, and no one else has one.
LEMMA CommitChain ==
  ASSUME ChainInv, NEW p \in Procs, Commit(p)
  PROVE  ChainInv'
  <1>1. /\ tx \in [Procs -> Transaction] /\ Locked(p) /\ UNCHANGED clock
        /\ events' = tx[p].events /\ state' = tx[p].state /\ tx' = [tx EXCEPT ![p] = NoTx]
    BY Zenon DEF ChainInv, ChainTypes, Commit, Locked
  <1>2. /\ tx' \in [Procs -> Transaction] /\ tx'[p].pc = "idle" /\ \A q \in Procs \ {p} : tx'[q] = tx[q]
    BY <1>1, NoTransaction, Zenon
  <1>3. \A q \in Procs : ~Locked(q)'
    BY <1>1, <1>2, Zenon DEF Locked, ChainInv
  <1>4. ChainTypes'
    BY <1>1, <1>2, Zenon DEF ChainTypes, ChainInv, Transaction
  <1>5. Sound(events, state)'
    BY <1>1, Zenon DEF ChainInv, Sound, Numbered
  <1>6. Precision = 1 => \A q \in Writers : tx'[q].pc # "refused"
    BY <1>2, Zenon DEF ChainInv, Procs
  <1> QED
    BY <1>3, <1>4, <1>5, <1>6, Zenon DEF ChainInv

\* Every step keeps the invariant.
LEMMA NextChain == ChainInv /\ [Next]_vars => ChainInv'
  <1> SUFFICES ASSUME ChainInv, [Next]_vars PROVE ChainInv'
    BY Zenon
  <1>1. CASE UNCHANGED <<events, state, tx>> /\ clock' \in Nat
    <2>1. \A x, y : Extends(x, y) => Extends(x, y)'
      BY <1>1, Zenon DEF Extends
    <2>2. ASSUME NEW q \in Procs, Locked(q)' PROVE Extends(tx[q].events, tx[q].state)'
      <3>1. PICK x, y : x = tx[q].events /\ y = tx[q].state
        BY Zenon
      <3>2. Extends(x, y)'
        BY <1>1, <2>1, <2>2, <3>1 DEF ChainInv, Locked
      <3> QED
        BY <1>1, <3>1, <3>2, Zenon
    <2> QED
      BY <1>1, <2>2, Zenon DEF ChainInv, ChainTypes, Locked, Sound, Numbered
  <1>2. clock \in Nat /\ clock + 1 \in Nat /\ Pruners \subseteq Procs
    BY DEF ChainInv, ChainTypes, Procs
  <1> QED
    BY <1>1, <1>2, OutsideChain, AppendChain, PruneChain, CommitChain DEF Next, Tick, vars

\* The invariant holds throughout, whatever the precision of stored times.
THEOREM ChainInvariant == Spec => []ChainInv
  BY InitChain, NextChain, PTL DEF Spec

\* Where stored times are exact, the committed chain verifies at any time, however
\* appends, prunes and failed transactions interleave (verifyAuditState).
THEOREM Valid ==
  ASSUME Precision = 1
  PROVE  Spec => []ChainIsValid
  <1>1. ChainInv => ChainIsValid
    BY Zenon DEF ChainInv, ChainIsValid, Sound
  <1> QED
    BY <1>1, ChainInvariant, PTL

\* Nor is an append refused there: both verifications of CreateAuditEvent succeed.
THEOREM NotRefused ==
  ASSUME Precision = 1
  PROVE  Spec => [](\A p \in Writers : tx[p].pc # "refused")
  <1>1. ChainInv => \A p \in Writers : tx[p].pc # "refused"
    BY Zenon DEF ChainInv
  <1> QED
    BY <1>1, ChainInvariant, PTL

\* Only a commit changes the committed chain.
LEMMA OnlyCommit ==
  ASSUME [Next]_vars, ~(UNCHANGED <<events, state>>)
  PROVE  \E p \in Procs : Commit(p)
  BY Zenon DEF Next, Tick, Begin, BeginPrune, CreateAuditEvent, DeleteAuditEventsBefore, Rollback, vars

\* What a commit does to the rows: the first n go, the others stay where they are
\* counted from, and the numbers of new ones are above the latest.
LEMMA Committed ==
  ASSUME ChainInv, NEW p \in Procs, Commit(p)
  PROVE  \E n \in 0 .. Len(events) :
            /\ state'.checkpoint = state.checkpoint + n
            /\ \A j \in 1 .. Len(events) : events[j].sequence = state.checkpoint + j
            /\ \A i \in 1 .. Len(events') : events'[i].sequence = state.checkpoint + n + i
            /\ state.latest = state.checkpoint + Len(events)
            /\ \A i \in 1 .. Len(events) - n : i \in 1 .. Len(events') /\ events'[i] = events[n + i]
            /\ \A d \in 1 .. n, k \in n + 1 .. Len(events) : events[d].created < events[k].created
            /\ Len(events) \in Nat /\ Len(events') \in Nat /\ state.checkpoint \in Nat
            /\ DOMAIN events = 1 .. Len(events) /\ DOMAIN events' = 1 .. Len(events')
  <1> DEFINE n == tx[p].state.checkpoint - state.checkpoint
  <1>1. /\ events \in Seq(Event) /\ state \in ChainState /\ tx[p].events \in Seq(Event)
        /\ tx[p].state \in ChainState /\ Locked(p) /\ events' = tx[p].events /\ state' = tx[p].state
    BY Zenon DEF ChainInv, ChainTypes, Transaction, Commit, Locked
  <1>2. /\ Len(events) \in Nat /\ Len(events') \in Nat
        /\ DOMAIN events = 1 .. Len(events) /\ DOMAIN events' = 1 .. Len(events')
    BY <1>1, RowTypes, Zenon
  <1>3. state.checkpoint \in Nat /\ state'.checkpoint \in Nat
    BY <1>1, Zenon DEF ChainState
  <1>4. Numbered(events, state) /\ Numbered(events', state') /\ Extends(tx[p].events, tx[p].state)
    BY <1>1, Zenon DEF ChainInv, Sound
  <1>5. /\ n \in 0 .. Len(events) /\ Len(events') >= Len(events) - n
        /\ \A i \in 1 .. Len(events) - n : events'[i] = events[n + i]
        /\ \A d \in 1 .. n, k \in n + 1 .. Len(events) : events[d].created < events[k].created
    BY <1>1, <1>4, Zenon DEF Extends
  <1>6. PICK m \in 0 .. Len(events) : m = n
    BY <1>5, Zenon
  <1>7. state'.checkpoint = state.checkpoint + m
    BY <1>1, <1>3, <1>6
  <1> HIDE DEF n
  <1>8. \A j \in 1 .. Len(events) : events[j].sequence = state.checkpoint + j
    BY <1>2, <1>4, Zenon DEF Numbered
  <1>9. \A i \in 1 .. Len(events') : events'[i].sequence = state.checkpoint + m + i
    BY <1>2, <1>4, <1>7, Zenon DEF Numbered
  <1>10. state.latest = state.checkpoint + Len(events)
    BY <1>4, Zenon DEF Numbered
  <1>11. \A i \in 1 .. Len(events) - m : i \in 1 .. Len(events')
    BY <1>2, <1>5, <1>6
  <1> QED
    BY <1>2, <1>3, <1>5, <1>6, <1>7, <1>8, <1>9, <1>10, <1>11, Zenon

\* No step removes an event but by a prune whose checkpoint covers it, changes one, or
\* takes a sequence number again.
THEOREM Appends == Spec => AppendOnly
  <1> DEFINE A == /\ \A e \in Range(events) : e \in Range(events') \/ e.sequence <= state'.checkpoint
                  /\ state'.checkpoint >= state.checkpoint
                  /\ \A e \in Range(events') : e \in Range(events) \/ e.sequence > state.latest
  <1>1. ASSUME ChainInv, [Next]_vars PROVE A
    <2>1. CASE UNCHANGED <<events, state>>
      <3>1. state.checkpoint \in Nat
        BY <1>1, Zenon DEF ChainInv, ChainTypes, ChainState
      <3> QED
        BY <2>1, <3>1
    <2>2. CASE ~(UNCHANGED <<events, state>>)
      <3>1. PICK p \in Procs : Commit(p)
        BY <1>1, <2>2, OnlyCommit, Zenon
      <3>2. PICK n \in 0 .. Len(events) :
            /\ state'.checkpoint = state.checkpoint + n
            /\ \A j \in 1 .. Len(events) : events[j].sequence = state.checkpoint + j
            /\ \A i \in 1 .. Len(events') : events'[i].sequence = state.checkpoint + n + i
            /\ state.latest = state.checkpoint + Len(events)
            /\ \A i \in 1 .. Len(events) - n : i \in 1 .. Len(events') /\ events'[i] = events[n + i]
            /\ Len(events) \in Nat /\ Len(events') \in Nat /\ state.checkpoint \in Nat
            /\ DOMAIN events = 1 .. Len(events) /\ DOMAIN events' = 1 .. Len(events')
        BY <1>1, <3>1, Committed, Zenon
      <3>3. ASSUME NEW j \in 1 .. Len(events)
            PROVE  events[j] \in Range(events') \/ events[j].sequence <= state'.checkpoint
        <4>1. CASE j <= n
          BY <3>2, <4>1
        <4>2. CASE ~(j <= n)
          <5>1. j - n \in 1 .. Len(events) - n /\ n + (j - n) = j
            BY <3>2, <4>2
          <5>2. j - n \in DOMAIN events' /\ events'[j - n] = events[j]
            BY <3>2, <5>1, Zenon
          <5> QED
            BY <5>2, Zenon DEF Range
        <4> QED
          BY <4>1, <4>2, Zenon
      <3>4. ASSUME NEW i \in 1 .. Len(events')
            PROVE  events'[i] \in Range(events) \/ events'[i].sequence > state.latest
        <4>1. CASE i <= Len(events) - n
          <5>1. i \in 1 .. Len(events) - n /\ n + i \in DOMAIN events
            BY <3>2, <4>1
          <5>2. events'[i] = events[n + i]
            BY <3>2, <5>1, Zenon
          <5> QED
            BY <5>1, <5>2, Zenon DEF Range
        <4>2. CASE ~(i <= Len(events) - n)
          <5>1. events'[i].sequence = state.checkpoint + n + i
            BY <3>2, Zenon
          <5> QED
            BY <3>2, <4>2, <5>1
        <4> QED
          BY <4>1, <4>2, Zenon
      <3>5. state'.checkpoint >= state.checkpoint
        BY <3>2
      <3> QED
        BY <3>2, <3>3, <3>4, <3>5, Zenon DEF Range
    <2> QED
      BY <2>1, <2>2, Zenon
  <1>2. ChainInv /\ [Next]_vars => [A]_vars
    BY <1>1, Zenon
  <1> QED
    BY <1>2, ChainInvariant, PTL DEF Spec, AppendOnly

\* A prune removes no event that is as recent as one it keeps (auditRetentionPrefixLength).
THEOREM KeepsNewer == Spec => PruneKeepsNewer
  <1> DEFINE A == \A d \in Range(events) \ Range(events'), k \in Range(events) \cap Range(events') :
                     d.created < k.created
  <1>1. ASSUME ChainInv, [Next]_vars PROVE A
    <2>1. CASE UNCHANGED <<events, state>>
      BY <2>1, Zenon
    <2>2. CASE ~(UNCHANGED <<events, state>>)
      <3>1. PICK p \in Procs : Commit(p)
        BY <1>1, <2>2, OnlyCommit, Zenon
      <3>2. PICK n \in 0 .. Len(events) :
            /\ \A j \in 1 .. Len(events) : events[j].sequence = state.checkpoint + j
            /\ \A i \in 1 .. Len(events') : events'[i].sequence = state.checkpoint + n + i
            /\ \A i \in 1 .. Len(events) - n : i \in 1 .. Len(events') /\ events'[i] = events[n + i]
            /\ \A d \in 1 .. n, k \in n + 1 .. Len(events) : events[d].created < events[k].created
            /\ Len(events) \in Nat /\ Len(events') \in Nat /\ state.checkpoint \in Nat
            /\ DOMAIN events = 1 .. Len(events) /\ DOMAIN events' = 1 .. Len(events')
        BY <1>1, <3>1, Committed, Zenon
      <3>3. ASSUME NEW j \in 1 .. Len(events), events[j] \notin Range(events') PROVE j \in 1 .. n
        <4>1. CASE ~(j <= n)
          <5>1. j - n \in 1 .. Len(events) - n /\ n + (j - n) = j
            BY <3>2, <4>1
          <5>2. j - n \in DOMAIN events' /\ events'[j - n] = events[j]
            BY <3>2, <5>1, Zenon
          <5> QED
            BY <3>3, <5>2, Zenon DEF Range
        <4> QED
          BY <3>2, <4>1
      <3>4. ASSUME NEW j \in 1 .. Len(events), NEW i \in 1 .. Len(events'), events[j] = events'[i]
            PROVE  j \in n + 1 .. Len(events)
        <4>1. events[j].sequence = state.checkpoint + j /\ events'[i].sequence = state.checkpoint + n + i
          BY <3>2, Zenon
        <4> QED
          BY <3>2, <3>4, <4>1
      <3>5. ASSUME NEW d \in Range(events) \ Range(events'), NEW k \in Range(events) \cap Range(events')
            PROVE  d.created < k.created
        <4>1. PICK x \in 1 .. Len(events) : d = events[x]
          BY <3>2, <3>5, Zenon DEF Range
        <4>2. PICK y \in 1 .. Len(events), i \in 1 .. Len(events') : k = events[y] /\ k = events'[i]
          BY <3>2, <3>5 DEF Range
        <4>3. x \in 1 .. n /\ y \in n + 1 .. Len(events)
          BY <3>3, <3>4, <3>5, <4>1, <4>2, Zenon
        <4> QED
          BY <3>2, <4>1, <4>2, <4>3, Zenon
      <3> QED
        BY <3>5, Zenon
    <2> QED
      BY <2>1, <2>2, Zenon
  <1>2. ChainInv /\ [Next]_vars => [A]_vars
    BY <1>1, Zenon
  <1> QED
    BY <1>2, ChainInvariant, PTL DEF Spec, PruneKeepsNewer

=============================================================================
