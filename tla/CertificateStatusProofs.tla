---------------------- MODULE CertificateStatusProofs ----------------------
(***************************************************************************)
(* Proofs about CertificateStatus, for any certificates, operators and     *)
(* scanners.                                                               *)
(*                                                                         *)
(* A row that a transaction has written is locked, so its status is still  *)
(* the one that the transaction found when it wrote: the commit starts     *)
(* from a status that the operation accepts.  A row that was only read may *)
(* be stale in everything but what never goes back, the warnings sent.     *)
(***************************************************************************)
EXTENDS CertificateStatus, WellFoundedInduction, TLAPS

CertTypes ==
    /\ clock \in 0 .. MaxTime
    /\ row \in [Certificates -> Row]
    /\ revocations \in [Certificates -> Nat]
    /\ expirations \in [Certificates -> Nat]
    /\ warnings \in [Certificates -> Nat]
    /\ tx \in [Procs -> Transaction]

\* What transaction t knows of a row that it has read.
ReadOK(t, r) ==
    /\ r.row.notified => warnings[r.cert] > 0
    /\ t.op \in Operations => r.row.status \in CanTransition(t.op)
    /\ t.op = "scan" => IsExpiredCandidate(r.cert, r.row, t.now) \/ NeedsRenewalWarning(r.cert, r.row, t.now)

\* The changes of status that an operation makes.
Change(op, from, to) ==
    \/ op \in {"revoke", "forceRevoke"} /\ from \in {"valid", "suspended"} /\ to = "revoked"
    \/ op = "suspend" /\ from = "valid" /\ to = "suspended"
    \/ op = "resume" /\ from = "suspended" /\ to = "valid"
    \/ op = "scan" /\ from \in {"valid", "suspended"} /\ to = "expired"
    \/ op = "scan" /\ from = "valid" /\ to = "valid"

\* What it knows of a row that it has written, and so locked.
WrittenOK(t, w) ==
    /\ Change(t.op, row[w.cert].status, w.row.status)
    /\ w.row.status = "expired" => NotAfter[w.cert] <= clock
    /\ w.row.notified => warnings[w.cert] > 0 \/ (t.op = "scan" /\ w.row.status = "valid")

TxOK(t) ==
    /\ t.now <= clock
    /\ t.pc # "idle" => t.op # "none"
    /\ t.pc = "audit" => t.todo # {}
    /\ \A r \in t.todo : ReadOK(t, r)
    /\ \A w \in t.written : WrittenOK(t, w)
    /\ \A r, s \in t.todo : r.cert = s.cert \/ t.op # "scan" => r = s
    /\ \A v, w \in t.written : v.cert = w.cert \/ t.op # "scan" => v = w
    /\ \A r \in t.todo, w \in t.written :
          r.cert = w.cert \/ t.op # "scan" => t.pc = "audit" /\ r = First(t.todo)

CertInv ==
    /\ CertTypes
    /\ RecordsMatchRows
    /\ \A p \in Procs : TxOK(tx[p])
    /\ \A p, q \in Procs : p # q => \A v \in tx[p].written, w \in tx[q].written : v.cert # w.cert

-----------------------------------------------------------------------------
\* A set of numbers that is not empty has a least one.
LEMMA Least ==
  ASSUME NEW S, S \subseteq Nat, S # {}
  PROVE  \E x \in S : \A y \in S : x <= y
  <1> DEFINE R == {ss \in Nat \X Nat : ss[1] < ss[2]}
  <1>1. IsWellFoundedOn(R, Nat)
    BY NatLessThanWellFounded, Zenon DEF OpToRel
  <1>2. \A a, b \in Nat : a < b => <<a, b>> \in R
    <2> TAKE a \in Nat, b \in Nat
    <2>1. <<a, b>> \in Nat \X Nat /\ <<a, b>>[1] = a /\ <<a, b>>[2] = b
      BY Zenon
    <2> QED
      BY <2>1, Zenon
  <1> HIDE DEF R
  <1>3. PICK x \in S : \A y \in S : ~(<<y, x>> \in R)
    BY <1>1, WFMin, Zenon
  <1>4. \A y \in S : ~(y < x)
    BY <1>2, <1>3, Zenon
  <1>5. \A y \in S : x <= y
    BY <1>4
  <1> QED
    BY <1>5, Zenon

\* The row that a transaction writes next is one that it has read.
LEMMA FirstIn ==
  ASSUME NEW todo \in SUBSET RowImage, todo # {}
  PROVE  First(todo) \in todo
  <1> DEFINE S == {Position(r.cert) : r \in todo}
  <1>1. \A r \in todo : Position(r.cert) \in Nat
    <2> TAKE r \in todo
    <2>1. r.cert \in Certificates
      BY Zenon DEF RowImage
    <2>2. DOMAIN CertificateList \subseteq Nat
      BY ListAssumption
    <2>3. \E i \in DOMAIN CertificateList : CertificateList[i] = r.cert
      BY <2>1, Zenon DEF Certificates, Range
    <2> QED
      BY <2>2, <2>3, Zenon DEF Position
  <1>2. S \subseteq Nat /\ S # {}
    BY <1>1, Zenon
  <1>3. PICK x \in S : \A y \in S : x <= y
    BY <1>2, Least, Zenon
  <1>4. \E r \in todo : \A s \in todo : Position(r.cert) <= Position(s.cert)
    BY <1>3, Zenon
  <1> QED
    BY <1>4, Zenon DEF First

\* A process without a transaction.
LEMMA NoTransaction ==
  ASSUME CertTypes
  PROVE  NoTx \in Transaction /\ NoTx.written = {} /\ NoTx.pc = "idle" /\ TxOK(NoTx)
  <1>1. MaxTime \in Nat /\ 0 \in 0 .. MaxTime /\ clock \in Nat
    BY BoundsAssumption DEF CertTypes
  <1>2. NoTx \in Transaction
    BY <1>1, Zenon DEF NoTx, Transaction
  <1>3. NoTx.written = {} /\ NoTx.todo = {} /\ NoTx.pc = "idle" /\ NoTx.now = 0
    BY Zenon DEF NoTx
  <1> QED
    BY <1>1, <1>2, <1>3 DEF TxOK

\* At the start no one has a transaction, and every certificate is valid.
LEMMA InitCert == Init => CertInv
  <1> SUFFICES ASSUME Init PROVE CertInv
    BY Zenon
  <1>1. CertTypes
    <2>1. MaxTime \in Nat /\ 0 \in 0 .. MaxTime
      BY BoundsAssumption
    <2>2. NoTx \in Transaction
      BY <2>1, Zenon DEF NoTx, Transaction
    <2>3. [status |-> "valid", notified |-> FALSE] \in Row
      BY Zenon DEF Row, CertificateStatuses
    <2> QED
      BY <2>1, <2>2, <2>3, Zenon DEF Init, CertTypes
  <1>2. RecordsMatchRows
    BY Zenon DEF Init, RecordsMatchRows
  <1> QED
    BY <1>1, <1>2, NoTransaction, Zenon DEF Init, CertInv

\* A step of one transaction that commits nothing.
LEMMA LocalStep ==
  ASSUME CertInv, UNCHANGED <<clock, tables>>, NEW p \in Procs, NEW t \in Transaction,
         tx' = [tx EXCEPT ![p] = t], TxOK(t),
         \A q \in Procs \ {p} : \A v \in tx[q].written, w \in t.written : v.cert # w.cert
  PROVE  CertInv'
  <1>1. tx \in [Procs -> Transaction]
    BY Zenon DEF CertInv, CertTypes
  <1>2. tx' \in [Procs -> Transaction] /\ tx'[p] = t /\ \A q \in Procs \ {p} : tx'[q] = tx[q]
    BY <1>1, Zenon
  <1>3. CertTypes' /\ RecordsMatchRows'
    BY <1>2, Zenon DEF CertInv, CertTypes, RecordsMatchRows, tables
  <1>4. ASSUME NEW x, TxOK(x) PROVE TxOK(x)'
    BY <1>4, Zenon DEF TxOK, ReadOK, WrittenOK, tables
  <1>5. ASSUME NEW q \in Procs PROVE TxOK(tx[q])'
    <2>1. PICK x : x = tx'[q]
      BY Zenon
    <2>2. TxOK(x)
      BY <1>2, <2>1, Zenon DEF CertInv
    <2>3. TxOK(x)'
      BY <1>4, <2>2, Zenon
    <2> QED
      BY <2>1, <2>3, Zenon
  <1>6. \A q, r \in Procs : q # r => \A v \in tx'[q].written, w \in tx'[r].written : v.cert # w.cert
    BY <1>2 DEF CertInv
  <1> QED
    BY <1>3, <1>5, <1>6, Zenon DEF CertInv

\* A transaction that ends without a commit.
LEMMA AbortStep ==
  ASSUME CertInv, UNCHANGED <<clock, tables>>, NEW p \in Procs, tx' = [tx EXCEPT ![p] = NoTx]
  PROVE  CertInv'
  <1>1. NoTx \in Transaction /\ NoTx.written = {} /\ TxOK(NoTx)
    BY NoTransaction, Zenon DEF CertInv
  <1> QED
    BY <1>1, LocalStep, Zenon

\* A call reads the row of its certificate.
LEMMA GetStep ==
  ASSUME CertInv, NEW p \in Operators, NEW op \in Operations, NEW c \in Certificates, GetCertificate(p, op, c)
  PROVE  CertInv'
  <1> DEFINE r == [cert |-> c, row |-> row[c]]
             t == [NoTx EXCEPT !.op = op, !.pc = "update", !.todo = {r}]
  <1>1. p \in Procs /\ UNCHANGED <<clock, tables>> /\ tx' = [tx EXCEPT ![p] = t]
    BY Zenon DEF GetCertificate, Procs
  <1>2. CertTypes /\ row[c] \in Row
    BY Zenon DEF CertInv, CertTypes
  <1>3. r \in RowImage /\ r.cert = c /\ r.row = row[c]
    BY <1>2, Zenon DEF RowImage
  <1> HIDE DEF r
  <1>4. t \in Transaction /\ t.op = op /\ t.pc = "update" /\ t.todo = {r} /\ t.written = {} /\ t.now = 0
    <2>1. NoTx.written = {} /\ NoTx.now = 0
      BY Zenon DEF NoTx
    <2> QED
      BY <1>2, <1>3, <2>1, NoTransaction, Zenon DEF Transaction
  <1>5. op # "scan" /\ op # "none"
    BY Zenon DEF Operations
  <1> HIDE DEF t
  <1>6. ReadOK(t, r)
    BY <1>3, <1>4, <1>5, Zenon DEF ReadOK, GetCertificate, CertInv, RecordsMatchRows
  <1>7. TxOK(t)
    <2>1. 0 <= clock
      BY <1>2, BoundsAssumption DEF CertTypes
    <2> QED
      BY <1>4, <1>5, <1>6, <2>1, Zenon DEF TxOK
  <1> QED
    BY <1>1, <1>4, <1>7, LocalStep, Zenon

\* A scan reads the rows of its batch.
LEMMA ListStep ==
  ASSUME CertInv, NEW p \in Scanners, ListCertificatesForExpirationScan(p)
  PROVE  CertInv'
  <1> DEFINE batch == FirstOf(Candidates, ScanLimit)
             images == {[cert |-> c, row |-> row[c]] : c \in batch}
             t == [NoTx EXCEPT !.op = "scan", !.pc = "update", !.now = clock, !.todo = images]
  <1>1. p \in Procs /\ UNCHANGED <<clock, tables>> /\ tx' = [tx EXCEPT ![p] = t]
    BY Zenon DEF ListCertificatesForExpirationScan, Procs
  <1>2. CertTypes /\ clock \in 0 .. MaxTime
    BY Zenon DEF CertInv, CertTypes
  <1>3. \A c \in batch : /\ c \in Certificates /\ row[c] \in Row
                          /\ (IsExpiredCandidate(c, row[c], clock) \/ NeedsRenewalWarning(c, row[c], clock))
    BY <1>2, Zenon DEF FirstOf, Candidates, CertTypes
  <1> HIDE DEF batch
  <1>4. images \in SUBSET RowImage
    BY <1>3 DEF RowImage
  <1>5. \A r \in images : r.cert \in batch /\ r.row = row[r.cert]
    OBVIOUS
  <1>6. \A r, s \in images : r.cert = s.cert => r = s
    BY <1>5
  <1> HIDE DEF images
  <1>7. /\ t \in Transaction /\ t.op = "scan" /\ t.pc = "update" /\ t.todo = images /\ t.written = {}
        /\ t.now = clock
    <2>1. NoTx.written = {}
      BY Zenon DEF NoTx
    <2> QED
      BY <1>2, <1>4, <2>1, NoTransaction, Zenon DEF Transaction
  <1> HIDE DEF t
  <1>8. \A r \in images : ReadOK(t, r)
    BY <1>3, <1>5, <1>7, Zenon DEF ReadOK, CertInv, RecordsMatchRows, Operations
  <1>9. TxOK(t)
    <2>1. clock <= clock
      BY <1>2
    <2> QED
      BY <1>6, <1>7, <1>8, <2>1, Zenon DEF TxOK
  <1> QED
    BY <1>1, <1>7, <1>9, LocalStep, Zenon

\* Time passes: a certificate that was past its time still is.
LEMMA TickStep ==
  ASSUME CertInv, Tick
  PROVE  CertInv'
  <1>1. clock \in Nat /\ clock' \in 0 .. MaxTime /\ clock' = clock + 1 /\ UNCHANGED <<tables, tx>>
    BY BoundsAssumption DEF CertInv, CertTypes, Tick
  <1>2. row' = row /\ revocations' = revocations /\ expirations' = expirations /\ warnings' = warnings /\ tx' = tx
    BY <1>1, Zenon DEF tables
  <1>3. CertTypes'
    BY <1>1, <1>2, Zenon DEF CertInv, CertTypes
  <1>4. \A c \in Certificates : NotAfter[c] <= clock => NotAfter[c] <= clock'
    BY <1>1, ListAssumption
  <1>5. RecordsMatchRows'
    BY <1>2, <1>4, Zenon DEF CertInv, RecordsMatchRows
  <1>6. ASSUME NEW x \in Transaction, TxOK(x) PROVE TxOK(x)'
    <2>1. x.now \in Nat /\ \A w \in x.written : w.cert \in Certificates
      BY <1>6 DEF Transaction, RowImage
    <2>2. x.now <= clock'
      BY <1>1, <1>6, <2>1 DEF TxOK
    <2>3. \A r \in x.todo : ReadOK(x, r)'
      BY <1>2, <1>6, Zenon DEF TxOK, ReadOK
    <2>4. \A w \in x.written : WrittenOK(x, w)'
      BY <1>2, <1>4, <1>6, <2>1, Zenon DEF TxOK, WrittenOK
    <2> QED
      BY <1>6, <2>2, <2>3, <2>4 DEF TxOK
  <1>7. ASSUME NEW q \in Procs PROVE TxOK(tx[q])'
    <2>1. PICK x \in Transaction : x = tx[q]
      BY Zenon DEF CertInv, CertTypes
    <2>2. TxOK(x)'
      BY <1>6, <2>1, Zenon DEF CertInv
    <2> QED
      BY <1>2, <2>1, <2>2, Zenon
  <1> QED
    BY <1>2, <1>3, <1>5, <1>7 DEF CertInv

\* The row that a transaction writes over one whose status it has read.
LEMMA UpdatedOK ==
  ASSUME CertInv, NEW t \in Transaction, TxOK(t), t.pc = "update", t.todo # {},
         row[First(t.todo).cert].status = First(t.todo).row.status
  PROVE  LET w == [cert |-> First(t.todo).cert, row |-> Updated(t)]
         IN  w \in RowImage /\ WrittenOK(t, w)
  <1>1. PICK r : r = First(t.todo)
    BY Zenon
  <1>2. r \in t.todo /\ r \in RowImage
    BY <1>1, FirstIn, Zenon DEF Transaction
  <1>3. /\ r.cert \in Certificates /\ r.row \in Row /\ r.row.status \in CertificateStatuses
        /\ r.row.notified \in BOOLEAN
    BY <1>2, Zenon DEF RowImage, Row
  <1>4. ReadOK(t, r) /\ t.now <= clock /\ t.op # "none" /\ row[r.cert].status = r.row.status
    BY <1>1, <1>2, Zenon DEF TxOK
  <1>5. t.op \in Operations \cup {"scan"} /\ t.now \in Nat /\ clock \in Nat /\ NotAfter[r.cert] \in Nat
    BY <1>3, <1>4, ListAssumption DEF Transaction, CertInv, CertTypes
  <1>6. PICK u : u = Updated(t)
    BY Zenon
  <1>7. SUFFICES /\ u \in Row
                 /\ Change(t.op, r.row.status, u.status)
                 /\ u.status = "expired" => NotAfter[r.cert] <= clock
                 /\ u.notified => warnings[r.cert] > 0 \/ (t.op = "scan" /\ u.status = "valid")
    BY <1>1, <1>3, <1>4, <1>6, Zenon DEF RowImage, WrittenOK
  <1>8. CASE t.op \in {"revoke", "forceRevoke"}
    <2>1. u = [r.row EXCEPT !.status = "revoked"]
      BY <1>1, <1>6, <1>8, Zenon DEF Updated
    <2>2. u \in Row /\ u.status = "revoked" /\ u.notified = r.row.notified
      BY <1>3, <2>1, Zenon DEF Row, CertificateStatuses
    <2>3. r.row.status \in {"valid", "suspended"}
      BY <1>4, <1>8, Zenon DEF ReadOK, Operations, CanTransition
    <2> QED
      BY <1>4, <1>8, <2>2, <2>3, Zenon DEF Change, ReadOK
  <1>9. CASE t.op = "suspend"
    <2>1. u = [r.row EXCEPT !.status = "suspended"]
      BY <1>1, <1>6, <1>9, Zenon DEF Updated
    <2>2. u \in Row /\ u.status = "suspended" /\ u.notified = r.row.notified
      BY <1>3, <2>1, Zenon DEF Row, CertificateStatuses
    <2>3. r.row.status = "valid"
      BY <1>4, <1>9, Zenon DEF ReadOK, Operations, CanTransition
    <2> QED
      BY <1>4, <1>9, <2>2, <2>3 DEF Change, ReadOK
  <1>10. CASE t.op = "resume"
    <2>1. u = [r.row EXCEPT !.status = "valid"]
      BY <1>1, <1>6, <1>10, Zenon DEF Updated
    <2>2. u \in Row /\ u.status = "valid" /\ u.notified = r.row.notified
      BY <1>3, <2>1, Zenon DEF Row, CertificateStatuses
    <2>3. r.row.status = "suspended"
      BY <1>4, <1>10, Zenon DEF ReadOK, Operations, CanTransition
    <2> QED
      BY <1>4, <1>10, <2>2, <2>3, Zenon DEF Change, ReadOK
  <1>11. CASE t.op = "scan" /\ IsExpiredCandidate(r.cert, r.row, t.now)
    <2>1. u = [r.row EXCEPT !.status = "expired"]
      BY <1>1, <1>6, <1>11, Zenon DEF Updated
    <2>2. u \in Row /\ u.status = "expired" /\ u.notified = r.row.notified
      BY <1>3, <2>1, Zenon DEF Row, CertificateStatuses
    <2>3. r.row.status \in {"valid", "suspended"} /\ NotAfter[r.cert] <= t.now
      BY <1>11, Zenon DEF IsExpiredCandidate
    <2>4. NotAfter[r.cert] <= clock
      BY <1>4, <1>5, <2>3
    <2> QED
      BY <1>4, <1>11, <2>2, <2>3, <2>4 DEF Change, ReadOK
  <1>12. CASE t.op = "scan" /\ ~IsExpiredCandidate(r.cert, r.row, t.now)
    <2>1. u = [r.row EXCEPT !.notified = TRUE]
      BY <1>1, <1>6, <1>12, Zenon DEF Updated
    <2>2. r.row.status = "valid"
      BY <1>4, <1>12, Zenon DEF ReadOK, NeedsRenewalWarning
    <2>3. u \in Row /\ u.status = "valid"
      BY <1>3, <2>1, <2>2, Zenon DEF Row
    <2> QED
      BY <1>12, <2>2, <2>3, Zenon DEF Change
  <1> QED
    BY <1>5, <1>8, <1>9, <1>10, <1>11, <1>12 DEF Operations

\* A scan goes on with the next row, after a write that was recorded or not made.
LEMMA NextRow ==
  ASSUME CertInv, NEW t \in Transaction, TxOK(t), t.todo # {}, t.op # "none", NEW a \in BOOLEAN,
         t.pc = "audit" \/ (t.pc = "update" /\ t.op = "scan"), NEW s,
         s = [t EXCEPT !.audit = a, !.todo = Rest(t.todo), !.pc = "update"]
  PROVE  s \in Transaction /\ TxOK(s) /\ s.written = t.written
  <1>1. /\ s.op = t.op /\ s.now = t.now /\ s.written = t.written /\ s.pc = "update"
        /\ s.todo = Rest(t.todo)
    BY Zenon DEF Transaction
  <1>2. Rest(t.todo) \subseteq t.todo /\ First(t.todo) \notin Rest(t.todo)
    BY Zenon DEF Rest
  <1>3. s \in Transaction
    BY <1>2, Zenon DEF Transaction
  <1>4. \A r \in s.todo : ReadOK(s, r)
    BY <1>1, <1>2, Zenon DEF TxOK, ReadOK
  <1>5. \A w \in s.written : WrittenOK(s, w)
    BY <1>1, Zenon DEF TxOK, WrittenOK
  <1>6. \A r \in s.todo, w \in s.written : ~(r.cert = w.cert \/ s.op # "scan")
    BY <1>1, <1>2 DEF TxOK
  <1> QED
    BY <1>1, <1>2, <1>3, <1>4, <1>5, <1>6 DEF TxOK

\* A transaction writes a row that no other one has locked, or finds it changed.
LEMMA UpdateStep ==
  ASSUME CertInv, NEW p \in Procs, UpdateCertificateIfStatus(p)
  PROVE  CertInv'
  <1>1. PICK t \in Transaction : t = tx[p]
    BY Zenon DEF CertInv, CertTypes
  <1>2. PICK r : r = First(t.todo)
    BY Zenon
  <1>3. /\ t.pc = "update" /\ t.todo # {} /\ ~Locked(r.cert, p) /\ UNCHANGED <<clock, tables>>
        /\ tx' = [tx EXCEPT ![p] =
                    IF row[r.cert].status = r.row.status
                    THEN [t EXCEPT !.written = t.written \cup {[cert |-> r.cert, row |-> Updated(t)]},
                                   !.pc = "audit"]
                    ELSE StatusMismatch(t)]
    BY <1>1, <1>2, Zenon DEF UpdateCertificateIfStatus
  <1>4. TxOK(t) /\ t.op # "none" /\ \A q \in Procs \ {p} : \A v \in tx[q].written, w \in t.written : v.cert # w.cert
    BY <1>1, <1>3 DEF CertInv, TxOK
  <1>5. r \in t.todo
    BY <1>2, <1>3, FirstIn, Zenon DEF Transaction
  <1>6. CASE row[r.cert].status = r.row.status
    <2>1. PICK w : w = [cert |-> r.cert, row |-> Updated(t)]
      BY Zenon
    <2>2. w \in RowImage /\ WrittenOK(t, w) /\ w.cert = r.cert
      <3>1. row[First(t.todo).cert].status = First(t.todo).row.status
        BY <1>2, <1>6, Zenon
      <3> QED
        BY <1>2, <1>3, <1>4, <2>1, <3>1, UpdatedOK
    <2>3. PICK s : s = [t EXCEPT !.written = t.written \cup {w}, !.pc = "audit"]
      BY Zenon
    <2>4. /\ s.op = t.op /\ s.now = t.now /\ s.written = t.written \cup {w} /\ s.pc = "audit"
          /\ s.todo = t.todo
      BY <2>3, Zenon DEF Transaction
    <2>5. s \in Transaction
      BY <2>2, <2>3, Zenon DEF Transaction
    <2>6. tx' = [tx EXCEPT ![p] = s]
      BY <1>3, <1>6, <2>1, <2>3, Zenon
    <2>7. \A x \in s.todo : ReadOK(s, x)
      BY <1>4, <2>4, Zenon DEF TxOK, ReadOK
    <2>8. \A x \in s.written : WrittenOK(s, x)
      BY <1>4, <2>2, <2>4, Zenon DEF TxOK, WrittenOK
    <2>9. \A x \in t.todo, v \in t.written : ~(x.cert = v.cert \/ t.op # "scan")
      BY <1>3, <1>4, Zenon DEF TxOK
    <2>10. \A v, x \in s.written : v.cert = x.cert \/ s.op # "scan" => v = x
      BY <1>4, <1>5, <2>2, <2>4, <2>9 DEF TxOK
    <2>11. \A x \in s.todo, v \in s.written : x.cert = v.cert \/ s.op # "scan" => x = r
      BY <1>4, <1>5, <2>2, <2>4, <2>9 DEF TxOK
    <2>12. TxOK(s)
      BY <1>2, <1>3, <1>4, <2>4, <2>7, <2>8, <2>10, <2>11 DEF TxOK
    <2>13. \A q \in Procs \ {p} : \A v \in tx[q].written, x \in s.written : v.cert # x.cert
      BY <1>3, <1>4, <2>2, <2>4 DEF Locked
    <2> QED
      BY <1>3, <2>5, <2>6, <2>12, <2>13, LocalStep, Zenon
  <1>7. CASE row[r.cert].status # r.row.status /\ t.op = "scan"
    <2>1. PICK s : s = [t EXCEPT !.audit = t.audit, !.todo = Rest(t.todo), !.pc = "update"]
      BY Zenon
    <2>2. s = [t EXCEPT !.todo = Rest(t.todo)]
      BY <1>3, <2>1, Zenon DEF Transaction
    <2>3. tx' = [tx EXCEPT ![p] = s]
      BY <1>3, <1>7, <2>2, Zenon DEF StatusMismatch
    <2>4. t.audit \in BOOLEAN
      BY Zenon DEF Transaction
    <2>5. s \in Transaction /\ TxOK(s) /\ s.written = t.written
      BY <1>3, <1>4, <1>7, <2>1, <2>4, NextRow, Zenon
    <2>6. \A q \in Procs \ {p} : \A v \in tx[q].written, w \in s.written : v.cert # w.cert
      BY <1>4, <2>5, Zenon
    <2> QED
      BY <1>3, <2>3, <2>5, <2>6, LocalStep, Zenon
  <1>8. CASE row[r.cert].status # r.row.status /\ t.op # "scan"
    BY <1>3, <1>8, AbortStep, Zenon DEF StatusMismatch
  <1> QED
    BY <1>6, <1>7, <1>8, Zenon

\* A transaction records its write in the audit chain and the outbox.
LEMMA AuditStep ==
  ASSUME CertInv, NEW p \in Procs, CreateAuditEvent(p)
  PROVE  CertInv'
  <1>1. PICK t \in Transaction : t = tx[p]
    BY Zenon DEF CertInv, CertTypes
  <1>2. /\ t.pc = "audit" /\ UNCHANGED <<clock, tables>>
        /\ tx' = [tx EXCEPT ![p].audit = TRUE, ![p].todo = Rest(@), ![p].pc = "update"]
    BY <1>1, Zenon DEF CreateAuditEvent
  <1>3. PICK s : s = [t EXCEPT !.audit = TRUE, !.todo = Rest(t.todo), !.pc = "update"]
    BY Zenon
  <1>4. tx' = [tx EXCEPT ![p] = s]
    BY <1>1, <1>2, <1>3, Zenon DEF CertInv, CertTypes, Transaction
  <1>5. /\ TxOK(t) /\ t.todo # {} /\ t.op # "none"
        /\ \A q \in Procs \ {p} : \A v \in tx[q].written, w \in t.written : v.cert # w.cert
    BY <1>1, <1>2 DEF CertInv, TxOK
  <1>6. s \in Transaction /\ TxOK(s) /\ s.written = t.written
    BY <1>2, <1>3, <1>5, NextRow, Zenon
  <1>7. \A q \in Procs \ {p} : \A v \in tx[q].written, w \in s.written : v.cert # w.cert
    BY <1>5, <1>6, Zenon
  <1> QED
    BY <1>2, <1>4, <1>6, <1>7, LocalStep, Zenon

\* A commit replaces the rows that the transaction has written and no others.
LEMMA Committed ==
  ASSUME CertInv, NEW p \in Procs, Commit(p), NEW c \in Certificates
  PROVE  \/ /\ \A w \in tx[p].written : w.cert # c
            /\ row'[c] = row[c] /\ revocations'[c] = revocations[c]
            /\ expirations'[c] = expirations[c] /\ warnings'[c] = warnings[c]
         \/ \E w \in tx[p].written :
               /\ w.cert = c /\ row'[c] = w.row
               /\ revocations'[c] = IF w.row.status = "revoked" THEN revocations[c] + 1 ELSE revocations[c]
               /\ expirations'[c] = IF w.row.status = "expired" THEN expirations[c] + 1 ELSE expirations[c]
               /\ warnings'[c] = IF tx[p].op = "scan" /\ w.row.status = "valid"
                                 THEN warnings[c] + 1 ELSE warnings[c]
  <1>1. /\ row'[c] = IF \E w \in tx[p].written : w.cert = c
                     THEN (CHOOSE w \in tx[p].written : w.cert = c).row ELSE row[c]
        /\ revocations'[c] = IF Wrote(p, c, {"revoked"}) THEN revocations[c] + 1 ELSE revocations[c]
        /\ expirations'[c] = IF Wrote(p, c, {"expired"}) THEN expirations[c] + 1 ELSE expirations[c]
        /\ warnings'[c] = IF tx[p].op = "scan" /\ Wrote(p, c, {"valid"})
                          THEN warnings[c] + 1 ELSE warnings[c]
    BY Zenon DEF Commit
  <1>2. \A v, w \in tx[p].written : v.cert = w.cert => v = w
    BY Zenon DEF CertInv, TxOK
  <1>3. CASE \A w \in tx[p].written : w.cert # c
    BY <1>1, <1>3, Zenon DEF Wrote
  <1>4. CASE \E w \in tx[p].written : w.cert = c
    <2>1. PICK w : w = CHOOSE x \in tx[p].written : x.cert = c
      BY Zenon
    <2>2. w \in tx[p].written /\ w.cert = c /\ row'[c] = w.row
      BY <1>1, <1>4, <2>1, Zenon
    <2>3. \A x : Wrote(p, c, {x}) <=> w.row.status = x
      BY <1>2, <2>2, Zenon DEF Wrote
    <2> QED
      BY <1>1, <2>2, <2>3, Zenon
  <1> QED
    BY <1>3, <1>4, Zenon

\* A commit leaves the tables in agreement, and what others have locked alone.
LEMMA CommitStep ==
  ASSUME CertInv, NEW p \in Procs, Commit(p)
  PROVE  CertInv'
  <1>1. /\ clock' = clock /\ tx' = [tx EXCEPT ![p] = NoTx] /\ tx[p] \in Transaction /\ TxOK(tx[p])
        /\ tx \in [Procs -> Transaction]
    BY Zenon DEF Commit, CertInv, CertTypes
  <1>2. tx' \in [Procs -> Transaction] /\ tx'[p] = NoTx /\ \A q \in Procs \ {p} : tx'[q] = tx[q]
    <2>1. NoTx \in Transaction
      BY NoTransaction, Zenon DEF CertInv
    <2> QED
      BY <1>1, <2>1, Zenon
  <1>3. \A c \in Certificates : /\ row[c] \in Row /\ revocations[c] \in Nat
                                /\ expirations[c] \in Nat /\ warnings[c] \in Nat
    BY Zenon DEF CertInv, CertTypes
  <1>4. \A w \in tx[p].written : w.cert \in Certificates /\ w.row \in Row /\ WrittenOK(tx[p], w)
    BY <1>1, Zenon DEF Transaction, RowImage, TxOK
  <1>5. CertTypes'
    <2>1. \A c \in Certificates : /\ row'[c] \in Row /\ revocations'[c] \in Nat
                                  /\ expirations'[c] \in Nat /\ warnings'[c] \in Nat
      <3> TAKE c \in Certificates
      <3> QED
        BY <1>3, <1>4, Committed
    <2>2. /\ row' = [c \in Certificates |-> row'[c]] /\ revocations' = [c \in Certificates |-> revocations'[c]]
          /\ expirations' = [c \in Certificates |-> expirations'[c]]
          /\ warnings' = [c \in Certificates |-> warnings'[c]]
      BY Zenon DEF Commit
    <2>3. /\ row' \in [Certificates -> Row] /\ revocations' \in [Certificates -> Nat]
          /\ expirations' \in [Certificates -> Nat] /\ warnings' \in [Certificates -> Nat]
      BY <2>1, <2>2, Zenon
    <2> QED
      BY <1>1, <1>2, <2>3 DEF CertInv, CertTypes
  <1>6. \A c \in Certificates : warnings[c] > 0 => warnings'[c] > 0
    <2> TAKE c \in Certificates
    <2> QED
      BY <1>3, Committed
  <1>7. RecordsMatchRows'
    <2> SUFFICES ASSUME NEW c \in Certificates
                 PROVE  /\ revocations'[c] = IF row'[c].status = "revoked" THEN 1 ELSE 0
                        /\ expirations'[c] = IF row'[c].status = "expired" THEN 1 ELSE 0
                        /\ row'[c].status = "expired" => NotAfter[c] <= clock
                        /\ row'[c].notified => warnings'[c] > 0
      BY <1>1, Zenon DEF RecordsMatchRows
    <2>1. /\ revocations[c] = IF row[c].status = "revoked" THEN 1 ELSE 0
          /\ expirations[c] = IF row[c].status = "expired" THEN 1 ELSE 0
          /\ row[c].status = "expired" => NotAfter[c] <= clock
          /\ row[c].notified => warnings[c] > 0
      BY Zenon DEF CertInv, RecordsMatchRows
    <2>2. CASE /\ row'[c] = row[c] /\ revocations'[c] = revocations[c]
               /\ expirations'[c] = expirations[c] /\ warnings'[c] = warnings[c]
      BY <2>1, <2>2, Zenon
    <2>3. ASSUME NEW w \in tx[p].written, w.cert = c, row'[c] = w.row,
                 revocations'[c] = IF w.row.status = "revoked" THEN revocations[c] + 1 ELSE revocations[c],
                 expirations'[c] = IF w.row.status = "expired" THEN expirations[c] + 1 ELSE expirations[c],
                 warnings'[c] = IF tx[p].op = "scan" /\ w.row.status = "valid"
                                THEN warnings[c] + 1 ELSE warnings[c]
          PROVE  /\ revocations'[c] = IF row'[c].status = "revoked" THEN 1 ELSE 0
                 /\ expirations'[c] = IF row'[c].status = "expired" THEN 1 ELSE 0
                 /\ row'[c].status = "expired" => NotAfter[c] <= clock
                 /\ row'[c].notified => warnings'[c] > 0
      <3>1. Change(tx[p].op, row[c].status, w.row.status)
        BY <1>4, <2>3, Zenon DEF WrittenOK
      <3>2. row[c].status # "revoked" /\ row[c].status # "expired"
        BY <3>1, Zenon DEF Change
      <3>3. revocations[c] = 0 /\ expirations[c] = 0
        BY <2>1, <3>2, Zenon
      <3>4. w.row.status = "expired" => NotAfter[c] <= clock
        BY <1>4, <2>3, Zenon DEF WrittenOK
      <3>5. w.row.notified => warnings'[c] > 0
        BY <1>3, <1>4, <2>3 DEF WrittenOK
      <3> QED
        BY <2>3, <3>3, <3>4, <3>5
    <2> QED
      BY <2>2, <2>3, Committed
  <1>8. ASSUME NEW q \in Procs PROVE TxOK(tx[q])'
    <2>1. CASE q = p
      <3>1. TxOK(NoTx)'
        <4>1. 0 <= clock
          BY BoundsAssumption DEF CertInv, CertTypes
        <4> QED
          BY <1>1, <4>1, Zenon DEF TxOK, NoTx
      <3> QED
        BY <1>2, <2>1, <3>1, Zenon
    <2>2. CASE q # p
      <3>1. PICK x \in Transaction : x = tx[q]
        BY <1>1, Zenon
      <3>2. /\ TxOK(x) /\ \A r \in x.todo : r.cert \in Certificates
            /\ \A v \in x.written : v.cert \in Certificates
        BY <3>1, Zenon DEF CertInv, Transaction, RowImage
      <3>3. \A v \in x.written : row'[v.cert] = row[v.cert]
        <4> TAKE v \in x.written
        <4>1. \A w \in tx[p].written : w.cert # v.cert
          BY <2>2, <3>1, Zenon DEF CertInv
        <4> QED
          BY <3>2, <4>1, Committed
      <3>4. \A r \in x.todo : ReadOK(x, r)'
        BY <1>6, <3>2, Zenon DEF TxOK, ReadOK
      <3>5. \A v \in x.written : WrittenOK(x, v)'
        BY <1>1, <1>6, <3>2, <3>3 DEF TxOK, WrittenOK
      <3>6. TxOK(x)'
        BY <1>1, <3>2, <3>4, <3>5 DEF TxOK
      <3>7. tx'[q] = x
        BY <1>2, <2>2, <3>1
      <3> QED
        BY <3>6, <3>7, Zenon
    <2> QED
      BY <2>1, <2>2, Zenon
  <1>9. \A q, r \in Procs : q # r => \A v \in tx'[q].written, w \in tx'[r].written : v.cert # w.cert
    <2>1. NoTx.written = {}
      BY Zenon DEF NoTx
    <2> QED
      BY <1>2, <2>1 DEF CertInv
  <1> QED
    BY <1>5, <1>7, <1>8, <1>9, Zenon DEF CertInv

\* Every step of the clock or of a transaction keeps CertInv.
LEMMA NextCert == CertInv /\ [Next]_vars => CertInv'
  <1> SUFFICES ASSUME CertInv, [Next]_vars PROVE CertInv'
    BY Zenon
  <1>1. CASE Tick
    BY <1>1, TickStep, Zenon
  <1>2. ASSUME NEW p \in Operators, NEW op \in Operations, NEW c \in Certificates, GetCertificate(p, op, c)
        PROVE  CertInv'
    BY <1>2, GetStep, Zenon
  <1>3. ASSUME NEW p \in Scanners, ListCertificatesForExpirationScan(p) PROVE CertInv'
    BY <1>3, ListStep, Zenon
  <1>4. ASSUME NEW p \in Procs, UpdateCertificateIfStatus(p) PROVE CertInv'
    BY <1>4, UpdateStep, Zenon
  <1>5. ASSUME NEW p \in Procs, CreateAuditEvent(p) PROVE CertInv'
    BY <1>5, AuditStep, Zenon
  <1>6. ASSUME NEW p \in Procs, Commit(p) PROVE CertInv'
    BY <1>6, CommitStep, Zenon
  <1>7. ASSUME NEW p \in Procs, DeadlockDetected(p) \/ Rollback(p) PROVE CertInv'
    BY <1>7, AbortStep, Zenon DEF DeadlockDetected, Rollback, tables
  <1>8. CASE UNCHANGED vars
    <2>1. UNCHANGED <<clock, row, revocations, expirations, warnings, tx>>
      BY <1>8, Zenon DEF vars
    <2>2. CertTypes' /\ RecordsMatchRows'
      BY <2>1, Zenon DEF CertInv, CertTypes, RecordsMatchRows
    <2>3. \A q \in Procs : TxOK(tx[q])'
      BY <2>1 DEF CertInv, TxOK, ReadOK, WrittenOK
    <2> QED
      BY <2>1, <2>2, <2>3 DEF CertInv
  <1> QED
    BY <1>1, <1>2, <1>3, <1>4, <1>5, <1>6, <1>7, <1>8, Zenon DEF Next, Step, TxStep

\* What every transaction knows of the rows it has read and written.
THEOREM CertInvariant == Spec => []CertInv
  BY InitCert, NextCert, PTL DEF Spec

\* Revocations, messages and warnings agree with the rows of the certificates,
\* however the transactions interleave and fail.
THEOREM RecordsMatch == Spec => []RecordsMatchRows
  <1>1. CertInv => RecordsMatchRows
    BY Zenon DEF CertInv
  <1> QED
    BY <1>1, CertInvariant, PTL

-----------------------------------------------------------------------------
(***************************************************************************)
(* The refinement: a commit is the only step that the abstract             *)
(* specification sees.  The abstract revocations are the revoked           *)
(* certificates, by RecordsMatchRows.                                      *)
(***************************************************************************)

\* The abstract state does not change with the steps before a commit.
LEMMA HiddenStep ==
  ASSUME row' = row, revocations' = revocations
  PROVE  UNCHANGED States!certVars
  BY Zenon DEF States!certVars

\* A commit of a call moves the one certificate that it has written; a commit of
\* a scan moves those it found expired.
LEMMA CommitMaps ==
  ASSUME CertInv, NEW p \in Procs, Commit(p)
  PROVE  [States!NextStates]_(States!certVars)
  <1> DEFINE st == [c \in Certificates |-> row[c].status]
             stN == [c \in Certificates |-> row'[c].status]
             rv == {c \in Certificates : revocations[c] > 0}
             rvN == {c \in Certificates : revocations'[c] > 0}
             t == tx[p]
  <1>1. CertInv'
    BY CommitStep, Zenon
  <1>2. /\ \A c \in Certificates : c \in rv <=> st[c] = "revoked"
        /\ \A c \in Certificates : c \in rvN <=> stN[c] = "revoked"
    BY <1>1 DEF CertInv, RecordsMatchRows
  <1>3. t \in Transaction /\ TxOK(t) /\ t.pc = "update"
    BY Zenon DEF CertInv, CertTypes, Commit
  <1>4. \A w \in t.written : w.cert \in Certificates /\ Change(t.op, st[w.cert], w.row.status)
    BY <1>3, Zenon DEF Transaction, RowImage, TxOK, WrittenOK
  <1>5. \A c \in Certificates : \/ (\A w \in t.written : w.cert # c) /\ stN[c] = st[c]
                                \/ \E w \in t.written : w.cert = c /\ stN[c] = w.row.status
    <2> TAKE c \in Certificates
    <2> QED
      BY Committed
  <1>6. t.op \in Operations \cup {"scan"}
    BY <1>3, Zenon DEF TxOK, Transaction
  <1>7. t.op # "scan" => \A v, w \in t.written : v = w
    BY <1>3, Zenon DEF TxOK
  <1>8. st \in [Certificates -> {row[c].status : c \in Certificates}] /\ DOMAIN stN = Certificates
    BY Zenon
  <1>9. DOMAIN st = Certificates /\ rv \subseteq Certificates /\ rvN \subseteq Certificates
    BY Zenon
  <1>10. stN = [c \in Certificates |-> stN[c]] /\ st = [c \in Certificates |-> st[c]]
    BY Zenon
  <1>11. SUFFICES \/ stN = st /\ rvN = rv
                  \/ \E c \in Certificates :
                        \/ st[c] = "valid" /\ stN = [st EXCEPT ![c] = "suspended"] /\ rvN = rv
                        \/ st[c] = "suspended" /\ stN = [st EXCEPT ![c] = "valid"] /\ rvN = rv
                        \/ st[c] \in {"valid", "suspended"} /\ stN = [st EXCEPT ![c] = "revoked"] /\ rvN = rv \cup {c}
                  \/ \E S \in (SUBSET Certificates) \ {{}} :
                        /\ \A c \in S : st[c] \in {"valid", "suspended"}
                        /\ stN = [c \in Certificates |-> IF c \in S THEN "expired" ELSE st[c]]
                        /\ rvN = rv
    BY Zenon DEF States!NextStates, States!Suspend, States!Resume, States!Revoke, States!Expire, States!Move, States!certVars
  <1> HIDE DEF st, stN, rv, rvN, t
  <1>12. CASE t.op = "scan"
    <2> DEFINE S == {c \in Certificates : \E w \in t.written : w.cert = c /\ w.row.status = "expired"}
    <2>1. \A w \in t.written : \/ st[w.cert] \in {"valid", "suspended"} /\ w.row.status = "expired"
                               \/ st[w.cert] = "valid" /\ w.row.status = "valid"
      BY <1>4, <1>12, Zenon DEF Change
    <2>2. \A v, w \in t.written : v.cert = w.cert => v = w
      BY <1>3, Zenon DEF TxOK
    <2>3. \A c \in S : st[c] \in {"valid", "suspended"} /\ stN[c] = "expired"
      BY <1>5, <2>1, <2>2, Zenon
    <2>4. \A c \in Certificates \ S : stN[c] = st[c]
      BY <1>5, <2>1
    <2>5. S \subseteq Certificates
      BY Zenon
    <2> HIDE DEF S
    <2>6. stN = [c \in Certificates |-> IF c \in S THEN "expired" ELSE st[c]]
      BY <1>10, <2>3, <2>4, <2>5, Zenon
    <2>7. \A c \in Certificates : c \in rvN <=> c \in rv
      BY <1>2, <2>3, <2>4, Zenon
    <2>8. rvN = rv
      BY <1>9, <2>7, Zenon
    <2>9. CASE S = {}
      <3>1. stN = st
        BY <1>10, <2>4, <2>9, Zenon
      <3> QED
        BY <2>8, <3>1, Zenon
    <2> QED
      BY <2>3, <2>5, <2>6, <2>8, <2>9, Zenon
  <1>13. CASE t.op # "scan" /\ t.written = {}
    <2>1. \A c \in Certificates : stN[c] = st[c]
      BY <1>5, <1>13, Zenon
    <2>2. stN = st
      BY <1>10, <2>1, Zenon
    <2>3. rvN = rv
      BY <1>2, <1>9, <2>1, Zenon
    <2> QED
      BY <2>2, <2>3, Zenon
  <1>14. CASE t.op # "scan" /\ t.written # {}
    <2>1. PICK w \in t.written : t.written = {w}
      BY <1>7, <1>14, Zenon
    <2>2. PICK c \in Certificates : c = w.cert
      BY <1>4, Zenon
    <2>3. Change(t.op, st[c], w.row.status) /\ stN[c] = w.row.status
      BY <1>4, <1>5, <2>1, <2>2
    <2>4. \A d \in Certificates \ {c} : stN[d] = st[d]
      BY <1>5, <2>1, <2>2
    <2>5. stN = [st EXCEPT ![c] = w.row.status]
      BY <1>10, <2>3, <2>4
    <2>6. \A d \in Certificates \ {c} : d \in rvN <=> d \in rv
      BY <1>2, <2>4, Zenon
    <2>7. CASE w.row.status = "revoked"
      <3>1. st[c] \in {"valid", "suspended"}
        BY <1>14, <2>3, <2>7, Zenon DEF Change
      <3>2. c \in rvN
        BY <1>2, <2>3, <2>7
      <3>3. rvN = rv \cup {c}
        BY <1>9, <2>6, <3>2
      <3> QED
        BY <2>5, <2>7, <3>1, <3>3, Zenon
    <2>8. CASE w.row.status # "revoked"
      <3>1. \/ st[c] = "valid" /\ w.row.status = "suspended"
            \/ st[c] = "suspended" /\ w.row.status = "valid"
        BY <1>14, <2>3, <2>8, Zenon DEF Change
      <3>2. c \notin rvN /\ c \notin rv
        BY <1>2, <2>3, <2>8, <3>1
      <3>3. rvN = rv
        BY <1>9, <2>6, <3>2
      <3> QED
        BY <2>5, <3>1, <3>3, Zenon
    <2> QED
      BY <2>7, <2>8, Zenon
  <1> QED
    BY <1>12, <1>13, <1>14

\* The transactions implement the abstract life of a certificate.
THEOREM Implements == Spec => ImplementsCertificateStates
  <1>1. Init => States!InitStates
    <2> SUFFICES ASSUME Init PROVE States!InitStates
      BY Zenon
    <2>1. [c \in Certificates |-> row[c].status] = [c \in Certificates |-> "valid"]
      BY Zenon DEF Init
    <2>2. {c \in Certificates : revocations[c] > 0} = {}
      BY DEF Init
    <2> QED
      BY <2>1, <2>2, Zenon DEF States!InitStates
  <1>2. CertInv /\ [Next]_vars => [States!NextStates]_(States!certVars)
    <2> SUFFICES ASSUME CertInv, [Next]_vars PROVE [States!NextStates]_(States!certVars)
      BY Zenon
    <2>1. CASE \E p \in Procs : Commit(p)
      BY <2>1, CommitMaps, Zenon
    <2>2. CASE ~\E p \in Procs : Commit(p)
      <3>1. row' = row /\ revocations' = revocations
        BY <2>2, Zenon DEF Next, Step, TxStep, Tick, GetCertificate, ListCertificatesForExpirationScan,
                    UpdateCertificateIfStatus, CreateAuditEvent, DeadlockDetected, Rollback, tables, vars
      <3> QED
        BY <3>1, HiddenStep, Zenon
    <2> QED
      BY <2>1, <2>2, Zenon
  <1> QED
    BY <1>1, <1>2, CertInvariant, PTL DEF Spec, ImplementsCertificateStates, States!SpecStates

=============================================================================
