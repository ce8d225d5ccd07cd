----------------------------- MODULE AcmeProofs -----------------------------
(***************************************************************************)
(* Proofs about the ACME interface: first AcmeRequests, for any number of  *)
(* accounts, keys, orders and requests at once, and either nonce store;    *)
(* then AcmeOrder, for any identifiers, any number of validations and      *)
(* finalizations, any lifetimes and any of the bounds.                     *)
(*                                                                         *)
(* About requests, two arguments that do not meet.  A nonce that is no     *)
(* longer in the store left it for a reason that stays true: it was        *)
(* accepted, it expired, or MaxSize others took its place.  And a request  *)
(* goes on towards a write only with an account that was valid after the   *)
(* request arrived, so none that arrived after the deactivation does.      *)
(*                                                                         *)
(* About an order, one: a transaction locks the rows that it writes, so    *)
(* that two that are open write different rows and each finds its own as   *)
(* they were when it locked them.                                          *)
(***************************************************************************)
EXTENDS AcmeRequests, AcmeOrder, FiniteSetTheorems, SequenceTheorems, TLAPS

-----------------------------------------------------------------------------
(***************************************************************************)
(* Accounts and the requests on their way to them.                         *)
(***************************************************************************)
AccountRow == [status : {"valid", "deactivated"}, key : Keys]

\* Where a request stands once its signature was checked against its account.
Admitted == AccountOps \cup {"update", "changeKey", "writeKey", "createOrder", "serve"}

Places == Admitted \cup {"idle", "verify", "badNonce", "refused", "ok", "newAccount", "createAccount"}

Request ==
    [pc : Places, m : Messages \cup {None}, nonce : Nat, seen : AccountRow \cup {None},
     arg : Keys \cup Orders \cup {None}, dead : BOOLEAN]

Registered(a) == a \in Accounts /\ accounts[a] \in AccountRow

\* What a request knows at each place.
RequestOK(q) ==
    /\ q.pc \notin {"idle", "refused", "badNonce"} => q.m \in Messages
    /\ q.pc \in Admitted => Registered(q.m.kid)
    /\ q.pc \in {"update", "writeKey"} => q.seen \in AccountRow
    /\ q.pc \in {"changeKey", "writeKey"} => q.arg \in Keys
    /\ q.pc \in {"newAccount", "createAccount"} => q.m.op = "newAccount"
    /\ q.pc = "certificate" => q.m.op = "certificate"
    /\ q.dead => /\ q.pc # "badNonce" /\ q.m \in Messages /\ Deactivated(q.m.kid)
                 /\ q.pc \notin {"update", "writeKey", "createOrder"}
                 /\ q.m.op \notin {"certificate", "newAccount"} => q.pc \notin {"serve", "ok"}
                 /\ q.pc = "newAccount" => accounts[q.m.kid].key = q.m.key
                 /\ q.pc # "createAccount"

AccountInv ==
    /\ accounts \in [Accounts -> AccountRow \cup {None}]
    /\ reqs \in [Requests -> Request]
    /\ OneAccountPerKey
    /\ \A r \in Requests : RequestOK(reqs[r])

\* What a step may do to the accounts.
AccountsKept ==
    /\ \A a \in Accounts : Registered(a) => Registered(a)'
    /\ \A a \in Accounts : Deactivated(a) => accounts'[a] = accounts[a]

\* None is no row, and an account's request names an account.
LEMMA Rows ==
  /\ None \notin AccountRow /\ None \notin Accounts
  /\ \A m \in Messages : /\ m.op \in AccountOps \cup {"newAccount"} /\ m.key \in Keys
                         /\ m.op # "newAccount" => m.kid \in Accounts
                         /\ m.kid \in Accounts \cup {None}
  BY RequestsAssumption, Zenon DEF AccountRow, Messages, AccountOps

\* A request that is over or turned down knows nothing.
LEMMA Idling ==
  /\ Idle \in Request /\ Idle.pc = "idle" /\ ~Idle.dead
  /\ [Idle EXCEPT !.pc = "refused"] \in Request
  /\ [Idle EXCEPT !.pc = "refused"].pc = "refused" /\ ~[Idle EXCEPT !.pc = "refused"].dead
  /\ RequestOK(Idle) /\ RequestOK([Idle EXCEPT !.pc = "refused"])
  <1> DEFINE q == [Idle EXCEPT !.pc = "refused"]
  <1>1. Idle \in Request /\ Idle.pc = "idle" /\ Idle.dead = FALSE
    BY Zenon DEF Idle, Request, Places
  <1>2. q \in Request /\ q.pc = "refused" /\ q.dead = FALSE
    BY <1>1, Zenon DEF Request, Places
  <1>3. RequestOK(Idle)
    BY <1>1, Zenon DEF RequestOK, Admitted, AccountOps
  <1>4. RequestOK(q)
    <2> HIDE DEF q
    <2> QED
      BY <1>2, Zenon DEF RequestOK, Admitted, AccountOps
  <1> QED
    BY <1>1, <1>2, <1>3, <1>4, Zenon

\* No request is under way at the start, and one account is there.
LEMMA InitAccount == Init => AccountInv
  <1> SUFFICES ASSUME Init PROVE AccountInv
    BY Zenon
  <1>1. reqs \in [Requests -> Request] /\ \A r \in Requests : RequestOK(reqs[r])
    BY Idling, Zenon DEF Init
  <1>2. Row(FirstKey) \in AccountRow
    BY RequestsAssumption, Zenon DEF Row, AccountRow
  <1>3. accounts \in [Accounts -> AccountRow \cup {None}] /\ OneAccountPerKey
    BY <1>2, Zenon DEF Init, OneAccountPerKey
  <1> QED
    BY <1>1, <1>3, Zenon DEF AccountInv

\* What a request knows outlasts the steps of others.
LEMMA Outlasts ==
  ASSUME AccountInv, AccountsKept, NEW q, RequestOK(q)
  PROVE  RequestOK(q)'
  <1>1. \A a : Deactivated(a) => Deactivated(a)' /\ accounts'[a] = accounts[a]
    BY Zenon DEF AccountsKept, Deactivated
  <1>2. \A a : Registered(a) => Registered(a)'
    BY Zenon DEF AccountsKept, Registered
  <1> QED
    BY <1>1, <1>2, Zenon DEF RequestOK

\* Steps that leave the accounts alone keep them.
LEMMA SameAccounts ==
  ASSUME AccountInv, UNCHANGED accounts
  PROVE  /\ AccountsKept /\ OneAccountPerKey'
         /\ accounts' \in [Accounts -> AccountRow \cup {None}]
  BY Zenon DEF AccountInv, AccountsKept, Registered, OneAccountPerKey

\* A step of one request.
LEMMA RequestStep ==
  ASSUME AccountInv, AccountsKept, OneAccountPerKey', accounts' \in [Accounts -> AccountRow \cup {None}],
         NEW r \in Requests, NEW q \in Request, reqs' = [reqs EXCEPT ![r] = q], RequestOK(q)
  PROVE  AccountInv'
  <1>1. \A p \in Requests \ {r} : RequestOK(reqs[p])'
    <2> TAKE p \in Requests \ {r}
    <2>1. PICK x : x = reqs[p]
      BY Zenon
    <2>2. RequestOK(x)'
      BY <2>1, Outlasts, Zenon DEF AccountInv
    <2>3. reqs'[p] = x
      BY <2>1, Zenon DEF AccountInv
    <2> QED
      BY <2>2, <2>3, Zenon
  <1>2. reqs' \in [Requests -> Request] /\ reqs'[r] = q
    BY Zenon DEF AccountInv
  <1>3. RequestOK(reqs[r])'
    <2>1. RequestOK(q)'
      BY Outlasts, Zenon
    <2> QED
      BY <1>2, <2>1, Zenon
  <1> QED
    BY <1>1, <1>2, <1>3, Zenon DEF AccountInv

\* A request that goes on keeps what it knows but its place.
LEMMA Going ==
  ASSUME AccountInv, NEW r \in Requests, NEW pc \in Places, Goto(r, pc)
  PROVE  \E q \in Request :
            /\ reqs' = [reqs EXCEPT ![r] = q] /\ q.pc = pc
            /\ pc = "refused" => RequestOK(q)
            /\ pc # "refused" => /\ q.m = reqs[r].m /\ q.seen = reqs[r].seen
                                 /\ q.arg = reqs[r].arg /\ q.dead = reqs[r].dead
  <1>1. CASE pc = "refused"
    <2>1. reqs' = [reqs EXCEPT ![r] = [Idle EXCEPT !.pc = "refused"]]
      BY <1>1, Zenon DEF Goto
    <2> QED
      BY <1>1, <2>1, Idling, Zenon
  <1>2. CASE pc # "refused"
    <2> DEFINE q == [reqs[r] EXCEPT !.pc = pc]
    <2>1. reqs' = [reqs EXCEPT ![r] = q]
      BY <1>2, Zenon DEF Goto
    <2>2. reqs[r] \in Request
      BY Zenon DEF AccountInv
    <2>3. /\ q \in Request /\ q.pc = pc /\ q.m = reqs[r].m /\ q.seen = reqs[r].seen
          /\ q.arg = reqs[r].arg /\ q.dead = reqs[r].dead
      BY <2>2, Zenon DEF Request
    <2> HIDE DEF q
    <2> QED
      BY <1>2, <2>1, <2>3, Zenon
  <1> QED
    BY <1>1, <1>2, Zenon

\* A step that only moves a request on, to a place where it need know no more than it does.
LEMMA MoveStep ==
  ASSUME AccountInv, AccountsKept, OneAccountPerKey', accounts' \in [Accounts -> AccountRow \cup {None}],
         NEW r \in Requests, NEW pc \in Places, Goto(r, pc),
         pc # "refused" => \A q \in Request :
            q.pc = pc /\ q.m = reqs[r].m /\ q.seen = reqs[r].seen /\ q.arg = reqs[r].arg
                /\ q.dead = reqs[r].dead => RequestOK(q)
  PROVE  AccountInv'
  <1>1. PICK q \in Request :
            /\ reqs' = [reqs EXCEPT ![r] = q] /\ q.pc = pc
            /\ pc = "refused" => RequestOK(q)
            /\ pc # "refused" => /\ q.m = reqs[r].m /\ q.seen = reqs[r].seen
                                 /\ q.arg = reqs[r].arg /\ q.dead = reqs[r].dead
    BY Going, Zenon
  <1> QED
    BY <1>1, RequestStep, Zenon

\* A request that reads its account and finds it valid did not arrive after the
\* deactivation.
LEMMA ReadStep ==
  ASSUME AccountInv, NEW r \in Requests, reqs[r].pc \in Admitted \ {"certificate"},
         NEW pc \in {"update", "writeKey", "createOrder"}, ReadValid(r, pc),
         pc = "writeKey" => reqs[r].arg \in Keys
  PROVE  AccountInv'
  <1> DEFINE row == accounts[reqs[r].m.kid]
  <1>1. UNCHANGED accounts
    BY Zenon DEF ReadValid, tables
  <1>2. reqs[r] \in Request /\ RequestOK(reqs[r]) /\ pc \in Places
    BY Zenon DEF AccountInv, Places, Admitted
  <1>3. CASE row.status = "valid"
    <2> DEFINE q == [[reqs[r] EXCEPT !.pc = pc] EXCEPT !.seen = row]
    <2>1. row \in AccountRow /\ ~reqs[r].dead /\ reqs[r].m \in Messages /\ Registered(reqs[r].m.kid)
      BY <1>2, <1>3, Zenon DEF RequestOK, Registered, Deactivated, Admitted, AccountOps
    <2>2. reqs' = [reqs EXCEPT ![r] = q]
      <3>1. reqs' = [reqs EXCEPT ![r].pc = pc, ![r].seen = row]
        BY <1>3, Zenon DEF ReadValid
      <3> QED
        BY <3>1, Zenon DEF AccountInv
    <2>3. /\ q \in Request /\ q.pc = pc /\ q.m = reqs[r].m /\ q.seen = row
          /\ q.arg = reqs[r].arg /\ q.dead = reqs[r].dead
      BY <1>2, <2>1, Zenon DEF Request
    <2> HIDE DEF q, row
    <2>4. RequestOK(q)
      BY <2>1, <2>3, Zenon DEF RequestOK
    <2> QED
      BY <1>1, <2>2, <2>3, <2>4, SameAccounts, RequestStep, Zenon
  <1>4. CASE row.status # "valid"
    <2>1. Goto(r, "refused") /\ "refused" \in Places
      BY <1>4, Zenon DEF ReadValid, Places
    <2> QED
      BY <1>1, <2>1, SameAccounts, MoveStep, Zenon
  <1> QED
    BY <1>3, <1>4, Zenon

\* A request whose nonce was taken records whether its account is already deactivated.
LEMMA DecodeAccount ==
  ASSUME AccountInv, NEW r \in Requests, NEW m \in Messages, NEW n \in Nat, DecodeACMEJWS(r, m, n)
  PROVE  AccountInv'
  <1>1. UNCHANGED accounts
    BY Zenon DEF DecodeACMEJWS, tables
  <1>2. CASE Stored(n)
    <2>1. PICK d \in BOOLEAN : d = Deactivated(m.kid)
      BY Zenon DEF Deactivated
    <2> DEFINE q == [Idle EXCEPT !.pc = "verify", !.m = m, !.dead = d]
    <2>2. reqs' = [reqs EXCEPT ![r] = q]
      BY <1>2, <2>1, Zenon DEF DecodeACMEJWS
    <2>3. q \in Request /\ q.pc = "verify" /\ q.m = m /\ q.dead = d
      BY Idling, Zenon DEF Request, Places
    <2> HIDE DEF q
    <2>4. RequestOK(q)
      BY <2>1, <2>3, Zenon DEF RequestOK, Admitted, AccountOps
    <2> QED
      BY <1>1, <2>2, <2>3, <2>4, SameAccounts, RequestStep, Zenon
  <1>3. CASE ~Stored(n)
    <2> DEFINE q == [Idle EXCEPT !.pc = "badNonce", !.nonce = n]
    <2>2. reqs' = [reqs EXCEPT ![r] = q]
      BY <1>3, Zenon DEF DecodeACMEJWS
    <2>3. q \in Request /\ q.pc = "badNonce" /\ q.dead = Idle.dead
      BY Idling, Zenon DEF Request, Places
    <2> HIDE DEF q
    <2>4. RequestOK(q)
      BY <2>3, Idling, Zenon DEF RequestOK, Admitted, AccountOps
    <2> QED
      BY <1>1, <2>2, <2>3, <2>4, SameAccounts, RequestStep, Zenon
  <1> QED
    BY <1>2, <1>3, Zenon

\* A request goes on only with the key of an account that exists.
LEMMA VerifyAccount ==
  ASSUME AccountInv, NEW r \in Requests, Verify(r)
  PROVE  AccountInv'
  <1> DEFINE m == reqs[r].m
  <1>1. UNCHANGED accounts /\ reqs[r].pc = "verify"
    BY Zenon DEF Verify, tables
  <1>2. /\ reqs[r] \in Request /\ RequestOK(reqs[r]) /\ m \in Messages
    BY <1>1, Zenon DEF AccountInv, RequestOK
  <1>3. PICK alg : Goto(r, IF AcmeJWSKey(m) # None /\ VerifyACMEJWS(alg, m.key, AcmeJWSKey(m))
                           THEN m.op ELSE "refused")
    BY Zenon DEF Verify
  <1>4. m.op \in Places \ {"refused"} /\ "refused" \in Places
    BY <1>2, Rows, Zenon DEF Places, Admitted, AccountOps
  <1>5. CASE AcmeJWSKey(m) # None /\ VerifyACMEJWS(alg, m.key, AcmeJWSKey(m))
    <2>1. Goto(r, m.op)
      BY <1>3, <1>5, Zenon
    <2>2. m.op # "newAccount" => Registered(m.kid)
      BY <1>2, <1>5, Rows, Zenon DEF AcmeJWSKey, Registered, AccountInv
    <2>3. ASSUME NEW q \in Request, q.pc = m.op, q.m = reqs[r].m, q.dead = reqs[r].dead
          PROVE  RequestOK(q)
      <3>1. q.dead => Deactivated(q.m.kid) /\ q.m \in Messages
        BY <1>2, <2>3, Zenon DEF RequestOK
      <3>2. q.dead => accounts[q.m.kid].key = q.m.key
        BY <1>5, <2>3, <3>1, Rows, Zenon DEF AcmeJWSKey, VerifyACMEJWS, Deactivated
      <3> QED
        BY <1>2, <2>2, <2>3, <3>1, <3>2, Rows, Zenon DEF RequestOK, Admitted, AccountOps
    <2> HIDE DEF m
    <2> QED
      BY <1>1, <1>4, <2>1, <2>3, SameAccounts, MoveStep, Zenon
  <1>6. CASE ~(AcmeJWSKey(m) # None /\ VerifyACMEJWS(alg, m.key, AcmeJWSKey(m)))
    <2>1. Goto(r, "refused")
      BY <1>3, <1>6, Zenon
    <2> QED
      BY <1>1, <1>4, <2>1, SameAccounts, MoveStep, Zenon
  <1> QED
    BY <1>5, <1>6, Zenon

\* A request that ends.
LEMMA EndAccount ==
  ASSUME AccountInv, NEW r \in Requests, Refuse(r) \/ Answer(r)
  PROVE  AccountInv'
  <1>1. UNCHANGED accounts /\ "refused" \in Places
    BY Zenon DEF Refuse, Answer, tables, Places
  <1>2. CASE Refuse(r)
    BY <1>1, <1>2, SameAccounts, MoveStep, Zenon DEF Refuse
  <1>3. CASE Answer(r)
    <2>1. reqs' = [reqs EXCEPT ![r] = Idle]
      BY <1>3, Zenon DEF Answer
    <2> QED
      BY <1>1, <2>1, SameAccounts, RequestStep, Idling, Zenon
  <1> QED
    BY <1>2, <1>3, Zenon

\* A new account takes a free id and a key that no account has.
LEMMA CreateAccount ==
  ASSUME AccountInv, NEW r \in Requests, AcmeNewAccount(r) \/ CreateACMEAccount(r)
  PROVE  AccountInv'
  <1>1. /\ reqs[r] \in Request /\ RequestOK(reqs[r]) /\ reqs[r].pc \in {"newAccount", "createAccount"}
        /\ {"ok", "refused", "createAccount"} \subseteq Places
    BY Zenon DEF AccountInv, AcmeNewAccount, CreateACMEAccount, Places
  <1>2. /\ reqs[r].m \in Messages /\ reqs[r].m.op = "newAccount" /\ reqs[r].m.key \in Keys
        /\ reqs[r].dead => Deactivated(reqs[r].m.kid)
    BY <1>1, Rows, Zenon DEF RequestOK
  <1>3. ASSUME NEW q \in Request, q.pc \in {"ok", "createAccount"}, q.m = reqs[r].m, q.dead = reqs[r].dead,
               q.pc = "createAccount" => ~q.dead
        PROVE  RequestOK(q)
    BY <1>2, <1>3, Zenon DEF RequestOK, Admitted, AccountOps
  <1>4. CASE AcmeNewAccount(r)
    <2>1. UNCHANGED accounts /\ reqs[r].pc = "newAccount"
          /\ Goto(r, IF Holder(reqs[r].m.key) # {} THEN "ok" ELSE "createAccount")
      BY <1>4, Zenon DEF AcmeNewAccount, CreateOrGetACMEAccount, tables
    <2>2. reqs[r].dead => Holder(reqs[r].m.key) # {}
      <3>1. reqs[r].dead => /\ reqs[r].m.kid \in Accounts /\ accounts[reqs[r].m.kid] # None
                            /\ accounts[reqs[r].m.kid].key = reqs[r].m.key
        BY <1>1, <2>1, Zenon DEF RequestOK, Deactivated
      <3> QED
        BY <3>1, Zenon DEF Holder
    <2>3. CASE Holder(reqs[r].m.key) # {}
      <3>1. Goto(r, "ok")
        BY <2>1, <2>3, Zenon
      <3> QED
        BY <1>1, <1>3, <2>1, <3>1, SameAccounts, MoveStep, Zenon
    <2>4. CASE Holder(reqs[r].m.key) = {}
      <3>1. Goto(r, "createAccount") /\ ~reqs[r].dead
        BY <2>1, <2>2, <2>4, Zenon
      <3> QED
        BY <1>1, <1>3, <2>1, <3>1, SameAccounts, MoveStep, Zenon
    <2> QED
      BY <2>3, <2>4, Zenon
  <1>5. CASE CreateACMEAccount(r) /\ UNCHANGED accounts /\ Goto(r, "refused")
    BY <1>1, <1>5, SameAccounts, MoveStep, Zenon
  <1>6. CASE CreateACMEAccount(r) /\ ~(UNCHANGED accounts /\ Goto(r, "refused"))
    <2> DEFINE row == Row(reqs[r].m.key)
    <2>1. Holder(reqs[r].m.key) = {}
      BY <1>6, Zenon DEF CreateACMEAccount
    <2>2. PICK a \in Accounts : /\ accounts[a] = None /\ Goto(r, "ok")
                                /\ accounts' = [accounts EXCEPT ![a] = row]
      BY <1>6, <2>1, Zenon DEF CreateACMEAccount
    <2>3. row \in AccountRow /\ row.key = reqs[r].m.key
      BY <1>2, Zenon DEF Row, AccountRow
    <2>4. accounts' \in [Accounts -> AccountRow \cup {None}] /\ accounts'[a] = row
          /\ \A b \in Accounts \ {a} : accounts'[b] = accounts[b]
      BY <2>2, <2>3, Zenon DEF AccountInv
    <2> HIDE DEF row
    <2>5. OneAccountPerKey'
      BY <2>1, <2>2, <2>3, <2>4 DEF OneAccountPerKey, AccountInv, Holder
    <2>6. AccountsKept
      BY <2>2, <2>3, <2>4, Rows, Zenon DEF AccountsKept, Registered, Deactivated
    <2> QED
      BY <1>1, <1>3, <2>2, <2>4, <2>5, <2>6, MoveStep, Zenon
  <1> QED
    BY <1>4, <1>5, <1>6, Zenon

\* A guarded update of an account writes a row whose key no other account has, over one
\* that is still valid.
LEMMA WriteAccount ==
  ASSUME AccountInv, NEW r \in Requests, reqs[r].pc \in {"update", "writeKey"}, NEW row \in AccountRow,
         UpdateACMEAccountIfStatus(r, row)
  PROVE  AccountInv'
  <1> DEFINE a == reqs[r].m.kid
             written == accounts[a].status = "valid" /\ Holder(row.key) \subseteq {a}
  <1>1. /\ reqs[r] \in Request /\ RequestOK(reqs[r]) /\ {"ok", "refused"} \subseteq Places
    BY Zenon DEF AccountInv, Places
  <1>2. reqs[r].m \in Messages /\ ~reqs[r].dead /\ Registered(a)
    BY <1>1, Zenon DEF RequestOK, Admitted
  <1>3. CASE ~written
    <2>1. UNCHANGED accounts /\ Goto(r, "refused")
      BY <1>3, Zenon DEF UpdateACMEAccountIfStatus
    <2> QED
      BY <1>1, <2>1, SameAccounts, MoveStep, Zenon
  <1>4. CASE written
    <2>1. accounts' = [accounts EXCEPT ![a] = row] /\ Goto(r, "ok")
      BY <1>4, Zenon DEF UpdateACMEAccountIfStatus
    <2>2. /\ accounts' \in [Accounts -> AccountRow \cup {None}] /\ accounts'[a] = row /\ a \in Accounts
          /\ \A b \in Accounts \ {a} : accounts'[b] = accounts[b]
      BY <1>2, <2>1, Zenon DEF AccountInv, Registered
    <2>3. OneAccountPerKey'
      BY <1>4, <2>2 DEF OneAccountPerKey, AccountInv, Holder
    <2>4. AccountsKept
      BY <1>4, <2>2, Zenon DEF AccountsKept, Registered, Deactivated
    <2>5. ASSUME NEW q \in Request, q.pc = "ok", q.m = reqs[r].m, q.dead = reqs[r].dead
          PROVE  RequestOK(q)
      BY <1>2, <2>5, Zenon DEF RequestOK, Admitted, AccountOps
    <2> QED
      BY <1>1, <2>1, <2>2, <2>3, <2>4, <2>5, MoveStep, Zenon
  <1> QED
    BY <1>3, <1>4, Zenon

\* The operations on an account.
LEMMA UpdateAccount ==
  ASSUME AccountInv, NEW r \in Requests,
         AcmeUpdateAccount(r) \/ UpdateACMEAccount(r) \/ UpdateACMEAccountKey(r)
  PROVE  AccountInv'
  <1>1. reqs[r] \in Request /\ RequestOK(reqs[r])
    BY Zenon DEF AccountInv
  <1>2. CASE AcmeUpdateAccount(r)
    BY <1>2, ReadStep, Zenon DEF AcmeUpdateAccount, Admitted, AccountOps
  <1>3. CASE UpdateACMEAccount(r)
    <2>1. reqs[r].pc = "update" /\ reqs[r].seen \in AccountRow
      BY <1>1, <1>3, Zenon DEF UpdateACMEAccount, RequestOK
    <2>2. [reqs[r].seen EXCEPT !.status = "deactivated"] \in AccountRow
      BY <2>1, Zenon DEF AccountRow
    <2> QED
      BY <1>3, <2>1, <2>2, WriteAccount, Zenon DEF UpdateACMEAccount
  <1>4. CASE UpdateACMEAccountKey(r) /\ reqs[r].pc = "changeKey"
    <2>1. reqs[r].arg \in Keys /\ ReadValid(r, "writeKey")
      BY <1>1, <1>4, Zenon DEF UpdateACMEAccountKey, RequestOK
    <2> QED
      BY <1>4, <2>1, ReadStep, Zenon DEF Admitted
  <1>5. CASE UpdateACMEAccountKey(r) /\ reqs[r].pc = "writeKey"
    <2>1. reqs[r].seen \in AccountRow /\ reqs[r].arg \in Keys
      BY <1>1, <1>5, Zenon DEF RequestOK
    <2>2. [reqs[r].seen EXCEPT !.key = reqs[r].arg] \in AccountRow
      BY <2>1, Zenon DEF AccountRow
    <2> QED
      BY <1>5, <2>1, <2>2, WriteAccount, Zenon DEF UpdateACMEAccountKey
  <1> QED
    BY <1>2, <1>3, <1>4, <1>5, Zenon DEF UpdateACMEAccountKey

\* A key change is let through, or a request for an order or a certificate.
LEMMA AdmitAccount ==
  ASSUME AccountInv, NEW r \in Requests,
         AcmeKeyChange(r) \/ \E o \in Orders : AdmitOrder(r, o) \/ AdmitCertificate(r, o)
  PROVE  AccountInv'
  <1>1. /\ reqs[r] \in Request /\ RequestOK(reqs[r]) /\ reqs[r].pc \in {"keyChange", "order", "certificate"}
        /\ UNCHANGED accounts /\ {"refused", "changeKey", "serve"} \subseteq Places
    BY Zenon DEF AccountInv, AcmeKeyChange, AdmitOrder, AdmitCertificate, tables, Places, Admitted
  <1>2. reqs[r].m \in Messages /\ Registered(reqs[r].m.kid)
    BY <1>1, Zenon DEF RequestOK, Admitted, AccountOps
  <1>3. CASE Goto(r, "refused")
    BY <1>1, <1>3, SameAccounts, MoveStep, Zenon
  <1>4. ASSUME NEW pc \in {"changeKey", "serve"}, NEW arg \in Keys \cup Orders,
               reqs' = [reqs EXCEPT ![r].pc = pc, ![r].arg = arg],
               pc = "changeKey" => arg \in Keys,
               reqs[r].dead /\ pc = "serve" => reqs[r].m.op = "certificate"
        PROVE  AccountInv'
    <2> DEFINE q == [[reqs[r] EXCEPT !.pc = pc] EXCEPT !.arg = arg]
    <2>1. reqs' = [reqs EXCEPT ![r] = q]
      BY <1>4, Zenon DEF AccountInv
    <2>2. /\ q \in Request /\ q.pc = pc /\ q.m = reqs[r].m /\ q.arg = arg /\ q.dead = reqs[r].dead
      BY <1>1, Zenon DEF Request
    <2> HIDE DEF q
    <2>3. q.dead => Deactivated(q.m.kid)
      BY <1>1, <2>2, Zenon DEF RequestOK
    <2>4. RequestOK(q)
      BY <1>2, <1>4, <2>2, <2>3, Zenon DEF RequestOK, Admitted, AccountOps
    <2> QED
      BY <1>1, <2>1, <2>2, <2>4, SameAccounts, RequestStep, Zenon
  <1>5. CASE AcmeKeyChange(r)
    <2>1. \/ Goto(r, "refused")
          \/ \E key \in Keys : reqs' = [reqs EXCEPT ![r].pc = "changeKey", ![r].arg = key]
      BY <1>5, Zenon DEF AcmeKeyChange
    <2> QED
      BY <1>3, <1>4, <2>1, Zenon
  <1>6. ASSUME NEW o \in Orders, AdmitOrder(r, o) PROVE AccountInv'
    <2>1. \/ Goto(r, "refused")
          \/ /\ RequireACMEOrderAccount(o, reqs[r].m.kid)
             /\ reqs' = [reqs EXCEPT ![r].pc = "serve", ![r].arg = o]
      BY <1>6, Zenon DEF AdmitOrder
    <2>2. RequireACMEOrderAccount(o, reqs[r].m.kid) => ~reqs[r].dead
      BY <1>1, Zenon DEF RequireACMEOrderAccount, RequestOK, Deactivated
    <2> QED
      BY <1>3, <1>4, <2>1, <2>2, Zenon
  <1>7. ASSUME NEW o \in Orders, AdmitCertificate(r, o) PROVE AccountInv'
    <2>1. \/ Goto(r, "refused")
          \/ reqs' = [reqs EXCEPT ![r].pc = "serve", ![r].arg = o]
      BY <1>7, Zenon DEF AdmitCertificate
    <2>2. reqs[r].m.op = "certificate"
      BY <1>1, <1>7, Zenon DEF AdmitCertificate, RequestOK
    <2> QED
      BY <1>3, <1>4, <2>1, <2>2, Zenon
  <1> QED
    BY <1>5, <1>6, <1>7, Zenon

\* A request that was let through is served.
LEMMA ServeAccount ==
  ASSUME AccountInv, NEW r \in Requests,
         AcmeNewOrder(r) \/ InsertACMEOrder(r) \/ ServeOrder(r) \/ ServeCertificate(r)
  PROVE  AccountInv'
  <1>1. CASE AcmeNewOrder(r)
    BY <1>1, ReadStep, Zenon DEF AcmeNewOrder, Admitted, AccountOps
  <1>2. CASE InsertACMEOrder(r) \/ ServeOrder(r) \/ ServeCertificate(r)
    <2>1. /\ reqs[r] \in Request /\ RequestOK(reqs[r]) /\ reqs[r].pc \in {"createOrder", "serve"}
          /\ UNCHANGED accounts /\ "ok" \in Places /\ Goto(r, "ok")
      BY <1>2, Zenon DEF AccountInv, InsertACMEOrder, ServeOrder, ServeCertificate, tables, Places
    <2>2. ASSUME NEW q \in Request, q.pc = "ok", q.m = reqs[r].m, q.dead = reqs[r].dead
          PROVE  RequestOK(q)
      BY <2>1, <2>2, Zenon DEF RequestOK, Admitted, AccountOps
    <2> QED
      BY <2>1, <2>2, SameAccounts, MoveStep, Zenon
  <1> QED
    BY <1>1, <1>2, Zenon

\* Every step keeps the invariant.
LEMMA NextAccount == AccountInv /\ [Next]_vars => AccountInv'
  <1> SUFFICES ASSUME AccountInv, [Next]_vars PROVE AccountInv'
    BY Zenon
  <1>1. CASE UNCHANGED <<accounts, reqs>>
    BY <1>1, Zenon DEF AccountInv, RequestOK, Registered, Deactivated, OneAccountPerKey
  <1>2. ASSUME NEW r \in Requests, NEW m \in Messages, NEW n \in 1..Len(log), DecodeACMEJWS(r, m, n)
        PROVE  AccountInv'
    <2>1. n \in Nat
      OBVIOUS
    <2> QED
      BY <1>2, <2>1, DecodeAccount, Zenon
  <1> QED
    BY <1>1, <1>2, VerifyAccount, EndAccount, CreateAccount, UpdateAccount, AdmitAccount, ServeAccount, Zenon
    DEF Next, Tick, AcmeNewNonce, tables, vars

\* The invariant about accounts and requests holds throughout.
THEOREM AccountInvariant == Spec => []AccountInv
  BY InitAccount, NextAccount, PTL DEF Spec

\* Two accounts never have the same key, whatever requests for new accounts and key
\* changes run at once (the unique index on key_thumbprint).
THEOREM OneAccount == Spec => []OneAccountPerKey
  <1>1. AccountInv => OneAccountPerKey
    BY Zenon DEF AccountInv
  <1> QED
    BY <1>1, AccountInvariant, PTL

\* A request that arrives after its account was deactivated neither changes the account
\* nor reaches an order (requireACMEOrderAccount, UpdateACMEAccount, CreateACMEOrder).
THEOREM Refused == Spec => []DeactivatedIsRefused
  <1>1. AccountInv => DeactivatedIsRefused
    BY Zenon DEF AccountInv, RequestOK, DeactivatedIsRefused
  <1> QED
    BY <1>1, AccountInvariant, PTL

\* No update brings a deactivated account back, however early it read the account
\* (UpdateACMEAccountIfStatus).
THEOREM Final == Spec => DeactivationIsFinal
  <1>1. ASSUME AccountInv, [Next]_vars, NEW a \in Accounts, Deactivated(a)
        PROVE  accounts'[a] = accounts[a]
    <2>1. /\ accounts \in [Accounts -> AccountRow \cup {None}]
          /\ accounts[a] # None /\ accounts[a].status = "deactivated"
      BY <1>1, Zenon DEF AccountInv, Deactivated
    <2>2. ASSUME NEW r \in Requests, NEW row, UpdateACMEAccountIfStatus(r, row)
          PROVE  accounts'[a] = accounts[a]
      BY <2>1, <2>2, Zenon DEF UpdateACMEAccountIfStatus
    <2>3. ASSUME NEW r \in Requests, CreateACMEAccount(r) PROVE accounts'[a] = accounts[a]
      BY <2>1, <2>3, Zenon DEF CreateACMEAccount
    <2>4. ASSUME NEW r \in Requests, UpdateACMEAccount(r) PROVE accounts'[a] = accounts[a]
      BY <2>2, <2>4, Zenon DEF UpdateACMEAccount
    <2>5. ASSUME NEW r \in Requests, UpdateACMEAccountKey(r) PROVE accounts'[a] = accounts[a]
      BY <2>2, <2>5, Zenon DEF UpdateACMEAccountKey, ReadValid, tables
    <2>6. CASE UNCHANGED accounts
      BY <2>6, Zenon
    <2>7. ASSUME NEW r \in Requests,
                 \/ Verify(r) \/ Refuse(r) \/ Answer(r) \/ AcmeNewAccount(r) \/ AcmeUpdateAccount(r)
                 \/ AcmeKeyChange(r) \/ AcmeNewOrder(r) \/ InsertACMEOrder(r)
                 \/ ServeOrder(r) \/ ServeCertificate(r)
                 \/ \E o \in Orders : AdmitOrder(r, o) \/ AdmitCertificate(r, o)
                 \/ \E m \in Messages, n \in 1..Len(log) : DecodeACMEJWS(r, m, n)
          PROVE  UNCHANGED accounts
      BY <2>7, Zenon DEF Verify, Refuse, Answer, AcmeNewAccount, AcmeUpdateAccount, ReadValid, AcmeKeyChange,
         AcmeNewOrder, InsertACMEOrder, ServeOrder, ServeCertificate, AdmitOrder, AdmitCertificate,
         DecodeACMEJWS, tables
    <2> QED
      BY <1>1, <2>3, <2>4, <2>5, <2>6, <2>7, Zenon DEF Next, Tick, AcmeNewNonce, tables, vars
  <1>2. AccountInv /\ [Next]_vars => [\A a \in Accounts : Deactivated(a) => accounts'[a] = accounts[a]]_vars
    BY <1>1, Zenon
  <1> QED
    BY <1>2, AccountInvariant, PTL DEF Spec, DeactivationIsFinal

-----------------------------------------------------------------------------
(***************************************************************************)
(* Nonces.                                                                 *)
(***************************************************************************)
Entry == [at : Nat, used : Nat]

NonceTypes ==
    /\ clock \in Nat
    /\ store \in {"memory", "sql"}
    /\ log \in Seq(Entry)
    /\ nonces \subseteq 1..Len(log)

\* The nonces that can have pushed n out of a full store.
Newer(n) == {k \in 1..Len(log) \ {n} : log[k].at >= log[n].at \/ k > n}

\* Why a nonce is not in the store.
Gone(n) ==
    \/ log[n].used = 1
    \/ Expiry(n) <= clock
    \/ store = "memory" /\ Cardinality(Newer(n)) >= MaxSize

\* A nonce in the store is unused, and any other has a reason; no request was told that
\* its nonce is bad without one.
NonceInv ==
    /\ NonceTypes
    /\ \A n \in nonces : log[n].used = 0
    /\ \A n \in 1..Len(log) : log[n].used \in {0, 1} /\ (n \in nonces \/ Gone(n))
    /\ \A r \in Requests : reqs[r].pc = "badNonce" => reqs[r].nonce \in 1..Len(log) /\ Gone(reqs[r].nonce)

\* The model's bounds and the store's size are numbers.
LEMMA Numbers == TTL \in Nat \ {0} /\ MaxSize \in Nat \ {0} /\ MaxNonces \in Nat /\ MaxTime \in Nat
  BY RequestsAssumption, Zenon

\* The history is a sequence of times of issue and counts of use.
LEMMA LogTypes ==
  ASSUME NEW s \in Seq(Entry)
  PROVE  Len(s) \in Nat /\ \A k \in 1..Len(s) : s[k] \in Entry /\ s[k].at \in Nat /\ s[k].used \in Nat
  <1>1. Len(s) \in Nat /\ \A k \in 1..Len(s) : s[k] \in Entry
    BY LenProperties, Zenon
  <1> QED
    BY <1>1, Zenon DEF Entry

\* The first nonce is in the store.
LEMMA InitNonce == Init => NonceInv
  <1> SUFFICES ASSUME Init PROVE NonceInv
    BY Zenon
  <1>1. log = <<[at |-> 0, used |-> 0]>> /\ Len(log) = 1 /\ log[1] = [at |-> 0, used |-> 0] /\ nonces = {1}
    BY Zenon DEF Init
  <1>2. NonceTypes
    BY <1>1 DEF Init, NonceTypes, Entry
  <1>3. \A r \in Requests : reqs[r].pc # "badNonce"
    BY Zenon DEF Init, Idle
  <1> QED
    BY <1>1, <1>2, <1>3 DEF NonceInv

\* Positions in the log are finitely many.
LEMMA Counted == \A m \in Nat : IsFiniteSet(1..m)
  BY FS_Interval

\* A reason stays one while the log only grows, uses only accrue and time goes on.
LEMMA GoneStays ==
  ASSUME NonceTypes, NonceTypes', clock' >= clock, store' = store, Len(log') >= Len(log),
         \A k \in 1..Len(log) : log'[k].at = log[k].at,
         NEW n \in 1..Len(log), Gone(n), log[n].used = 1 => log'[n].used = 1
  PROVE  Gone(n)'
  <1>0. /\ clock \in Nat /\ clock' \in Nat /\ Len(log) \in Nat /\ Len(log') \in Nat
        /\ log[n].at \in Nat /\ log'[n].at = log[n].at
    BY LogTypes, Zenon DEF NonceTypes
  <1>1. 1..Len(log) \subseteq 1..Len(log')
    BY <1>0
  <1>2. CASE log[n].used = 1
    BY <1>2, Zenon DEF Gone
  <1>3. CASE Expiry(n) <= clock
    BY <1>0, <1>3, Numbers DEF Gone, Expiry
  <1>4. CASE store = "memory" /\ Cardinality(Newer(n)) >= MaxSize
    <2>1. Newer(n) \subseteq Newer(n)'
      BY <1>0, <1>1, Zenon DEF Newer
    <2>2. IsFiniteSet(Newer(n)')
      <3>1. IsFiniteSet(1..Len(log')) /\ Newer(n)' \subseteq 1..Len(log')
        BY <1>0, Counted, Zenon DEF Newer
      <3> QED
        BY <3>1, FS_Subset, Zenon
    <2>3. /\ Cardinality(Newer(n)) <= Cardinality(Newer(n)')
          /\ Cardinality(Newer(n)) \in Nat /\ Cardinality(Newer(n)') \in Nat
      BY <2>1, <2>2, FS_Subset, FS_CardinalityType, Zenon
    <2> QED
      BY <1>4, <2>3, Numbers DEF Gone
  <1> QED
    BY <1>2, <1>3, <1>4, Zenon DEF Gone

\* What Issue and Consume leave of the store and the log for a request's place.
NoNewVerdict == \A r \in Requests : reqs'[r].pc = "badNonce" => reqs[r].pc = "badNonce" /\ reqs'[r].nonce = reqs[r].nonce

\* A step that leaves the store and the log alone.
LEMMA QuietNonce ==
  ASSUME NonceInv, UNCHANGED <<store, nonces, log>>, clock' \in Nat, clock' >= clock, NoNewVerdict
  PROVE  NonceInv'
  <1>1. NonceTypes /\ NonceTypes' /\ Len(log) \in Nat
    BY LogTypes, Zenon DEF NonceInv, NonceTypes
  <1>2. \A n \in 1..Len(log) : Gone(n) => Gone(n)'
    BY <1>1, GoneStays
  <1> QED
    BY <1>1, <1>2, Zenon DEF NonceInv, NoNewVerdict

\* The entries that a full store drops have as many newer ones in it as it may keep.
LEMMA Evicted ==
  ASSUME NonceTypes, NEW entries \in SUBSET nonces, NEW size \in Nat, NEW kept \in EvictOldest(entries, size),
         NEW n \in entries \ kept
  PROVE  kept \subseteq entries /\ Cardinality(kept) = size /\ \A k \in kept : log[n].at <= log[k].at
  <1>1. kept \subseteq entries /\ \A k \in kept : log[n].at <= log[k].at
    BY Zenon DEF EvictOldest
  <1>2. IsFiniteSet(entries)
    <2>1. Len(log) \in Nat /\ entries \subseteq 1..Len(log)
      BY LogTypes, Zenon DEF NonceTypes
    <2>2. IsFiniteSet(1..Len(log))
      BY <2>1, Counted, Zenon
    <2> QED
      BY <2>1, <2>2, FS_Subset, Zenon
  <1>3. Cardinality(kept) # Cardinality(entries)
    BY <1>1, <1>2, FS_Subset, Zenon
  <1> QED
    BY <1>1, <1>3, Zenon DEF EvictOldest

\* A nonce is issued: those that leave the store have expired or give way to it and to
\* MaxSize - 1 others.
LEMMA IssueNonce ==
  ASSUME NonceInv, IssueACMENonce, UNCHANGED <<clock, store>>, NoNewVerdict
  PROVE  NonceInv'
  <1> DEFINE new == Len(log) + 1
  <1>1. PICK at \in {clock, IF clock = 0 THEN 0 ELSE clock - 1} :
          /\ log' = Append(log, [at |-> at, used |-> 0])
          /\ nonces' \in IF store = "memory" THEN MemoryIssue(new, at) ELSE SQLIssue(new, at)
    BY Zenon DEF IssueACMENonce
  <1>2. /\ NonceTypes /\ clock \in Nat /\ at \in Nat /\ at <= clock /\ [at |-> at, used |-> 0] \in Entry
    BY DEF NonceInv, NonceTypes, Entry
  <1>3. /\ log' \in Seq(Entry) /\ Len(log) \in Nat /\ Len(log') = new /\ log'[new] = [at |-> at, used |-> 0]
        /\ \A k \in 1..Len(log) : log'[k] = log[k]
        /\ \A k \in 1..Len(log) : log[k].at \in Nat /\ log'[k].at \in Nat
    <2>1. PICK e \in Entry : e = [at |-> at, used |-> 0]
      BY <1>2, Zenon
    <2>2. log \in Seq(Entry) /\ log' = Append(log, e)
      BY <1>1, <1>2, <2>1, Zenon DEF NonceTypes
    <2>3. /\ log' \in Seq(Entry) /\ Len(log) \in Nat /\ Len(log') = new /\ log'[new] = e
          /\ \A k \in 1..Len(log) : log'[k] = log[k]
      BY <2>2, AppendProperties
    <2>4. \A k \in 1..Len(log) : log[k].at \in Nat
      BY <1>2, LogTypes, Zenon DEF NonceTypes
    <2> QED
      BY <2>1, <2>3, <2>4, Zenon
  <1>4. RemoveExpired(at) \subseteq nonces /\ nonces \subseteq 1..Len(log)
        /\ \A n \in nonces \ RemoveExpired(at) : Expiry(n) <= at
    <2>1. RemoveExpired(at) \subseteq nonces /\ nonces \subseteq 1..Len(log)
      BY <1>2, Zenon DEF RemoveExpired, NonceTypes
    <2>2. ASSUME NEW n \in nonces \ RemoveExpired(at) PROVE Expiry(n) <= at
      <3>1. ~(Expiry(n) > at)
        BY <2>2, Zenon DEF RemoveExpired
      <3>2. log[n].at \in Nat
        BY <1>3, <2>1, <2>2, Zenon
      <3>3. Expiry(n) \in Nat
        BY <3>2, Numbers DEF Expiry
      <3> QED
        BY <1>2, <3>1, <3>3
    <2> QED
      BY <2>1, <2>2, Zenon
  <1>5. PICK kept \in SUBSET RemoveExpired(at) :
          /\ nonces' = kept \cup {new}
          /\ store # "memory" => kept = RemoveExpired(at)
          /\ store = "memory" => kept \in EvictOldest(RemoveExpired(at), MaxSize - 1)
    <2>1. CASE store = "memory"
      BY <1>1, <2>1, Zenon DEF MemoryIssue, EvictOldest
    <2>2. CASE store # "memory"
      BY <1>1, <2>2, Zenon DEF SQLIssue
    <2> QED
      BY <2>1, <2>2, Zenon
  <1>6. NonceTypes'
    <2>0. kept \subseteq 1..Len(log)
      BY <1>4, <1>5, Zenon
    <2>1. new \in 1..Len(log') /\ 1..Len(log) \subseteq 1..Len(log')
      BY <1>3
    <2>2. nonces' \subseteq 1..Len(log')
      BY <1>5, <2>0, <2>1, Zenon
    <2> QED
      BY <1>2, <1>3, <2>2, Zenon DEF NonceTypes
  <1>7. ASSUME NEW n \in 1..Len(log), Gone(n) PROVE Gone(n)'
    BY <1>2, <1>3, <1>6, <1>7, GoneStays
  <1>8. ASSUME NEW n \in nonces, n \notin kept PROVE Gone(n)'
    <2>1. n \in 1..Len(log) /\ log[n].at \in Nat /\ log'[n].at = log[n].at
      BY <1>3, <1>4, <1>8, Zenon
    <2>2. CASE n \notin RemoveExpired(at)
      <3>1. Expiry(n) <= at
        BY <1>4, <1>8, <2>2, Zenon
      <3>2. Expiry(n)' <= clock'
        BY <1>2, <2>1, <3>1, Numbers DEF Expiry
      <3> QED
        BY <3>2, Zenon DEF Gone
    <2>3. CASE n \in RemoveExpired(at)
      <3>1. store = "memory"
        BY <1>5, <1>8, <2>3, Zenon
      <3>2. /\ Cardinality(kept) = MaxSize - 1 /\ \A k \in kept : log[n].at <= log[k].at
        BY <1>2, <1>4, <1>5, <1>8, <2>3, <3>1, Numbers, Evicted
      <3>3. kept \subseteq 1..Len(log) /\ new \notin kept /\ IsFiniteSet(kept)
        <4>1. kept \subseteq 1..Len(log)
          BY <1>4, <1>5, Zenon
        <4>2. IsFiniteSet(1..Len(log))
          BY <1>3, Counted, Zenon
        <4>3. IsFiniteSet(kept)
          BY <4>1, <4>2, FS_Subset, Zenon
        <4>4. new \notin 1..Len(log)
          BY <1>3
        <4> QED
          BY <4>1, <4>3, <4>4, Zenon
      <3>4. IsFiniteSet(kept \cup {new}) /\ Cardinality(kept \cup {new}) = MaxSize
        <4>1. /\ IsFiniteSet(kept \cup {new})
              /\ Cardinality(kept \cup {new}) = Cardinality(kept) + 1
          BY <3>3, FS_AddElement, Zenon
        <4>2. MaxSize - 1 + 1 = MaxSize
          BY Numbers
        <4> QED
          BY <3>2, <4>1, <4>2, Zenon
      <3>5. kept \cup {new} \subseteq Newer(n)'
        <4>1. ASSUME NEW k \in kept PROVE k \in 1..Len(log') \ {n} /\ log'[k].at >= log'[n].at
          <5>1. k \in 1..Len(log) /\ k # n
            BY <1>8, <3>3, Zenon
          <5>2. k \in 1..Len(log')
            BY <1>3, <5>1
          <5>3. log'[k] = log[k] /\ log[k].at \in Nat
            BY <1>3, <5>1, Zenon
          <5> QED
            BY <2>1, <3>2, <5>1, <5>2, <5>3, Zenon
        <4>2. n \in 1..Len(log)
          BY <2>1, Zenon
        <4>3. new \in 1..Len(log') /\ new # n /\ new > n
          BY <1>3, <4>2
        <4> QED
          BY <4>1, <4>3, Zenon DEF Newer
      <3>6. IsFiniteSet(Newer(n)')
        <4>1. Newer(n)' \subseteq 1..new /\ IsFiniteSet(1..new)
          <5>1. new \in Nat /\ Len(log') = new
            BY <1>3
          <5> QED
            BY <5>1, Counted, Zenon DEF Newer
        <4> QED
          BY <4>1, FS_Subset, Zenon
      <3>7. Cardinality(Newer(n)') >= MaxSize
        BY <3>4, <3>5, <3>6, FS_Subset, FS_CardinalityType, Numbers, Zenon
      <3> QED
        BY <3>1, <3>7, Zenon DEF Gone
    <2> QED
      BY <2>2, <2>3, Zenon
  <1>9. \A n \in 1..Len(log') : log'[n].used \in {0, 1} /\ (n \in nonces' \/ Gone(n)')
    BY <1>3, <1>5, <1>7, <1>8 DEF NonceInv
  <1>10. \A n \in nonces' : log'[n].used = 0
    <2>1. log'[new].used = 0
      BY <1>3
    <2>2. ASSUME NEW n \in kept PROVE log'[n].used = 0
      <3>1. n \in nonces /\ n \in 1..Len(log)
        BY <1>4, <1>5, Zenon
      <3> QED
        BY <1>3, <3>1, Zenon DEF NonceInv
    <2> QED
      BY <1>5, <2>1, <2>2, Zenon
  <1>11. \A r \in Requests : reqs'[r].pc = "badNonce" => reqs'[r].nonce \in 1..Len(log') /\ Gone(reqs[r].nonce)'
    BY <1>3, <1>7 DEF NonceInv, NoNewVerdict
  <1> QED
    BY <1>6, <1>9, <1>10, <1>11, Zenon DEF NonceInv

\* A nonce is consumed: once, and only while it is in the store.
LEMMA ConsumeNonce ==
  ASSUME AccountInv, NonceInv, NEW r \in Requests, NEW m, NEW n \in 1..Len(log), DecodeACMEJWS(r, m, n)
  PROVE  NonceInv'
  <1>1. NonceTypes /\ clock \in Nat /\ Len(log) \in Nat /\ UNCHANGED <<clock, store>>
        /\ \A k \in 1..Len(log) : log[k] \in Entry /\ log[k].at \in Nat
    BY LogTypes, Zenon DEF NonceInv, NonceTypes, DecodeACMEJWS
  <1>2. RemoveExpired(clock) \subseteq nonces /\ nonces \subseteq 1..Len(log)
        /\ \A k \in nonces \ RemoveExpired(clock) : Expiry(k) <= clock
    <2>1. RemoveExpired(clock) \subseteq nonces /\ nonces \subseteq 1..Len(log)
      BY <1>1, Zenon DEF RemoveExpired, NonceTypes
    <2>2. ASSUME NEW k \in nonces \ RemoveExpired(clock) PROVE Expiry(k) <= clock
      <3>1. ~(Expiry(k) > clock)
        BY <2>2, Zenon DEF RemoveExpired
      <3>2. log[k].at \in Nat
        BY <1>1, <2>1, <2>2, Zenon
      <3>3. Expiry(k) \in Nat
        BY <3>2, Numbers DEF Expiry
      <3> QED
        BY <1>1, <3>1, <3>3
    <2> QED
      BY <2>1, <2>2, Zenon
  <1>3. /\ nonces' \subseteq nonces
        /\ \A k \in nonces \ nonces' : Expiry(k) <= clock \/ (k = n /\ Stored(n))
        /\ Stored(n) => n \notin nonces'
    <2>1. CASE store = "memory"
      <3>1. nonces' = RemoveExpired(clock) \ {n}
        BY <2>1, Zenon DEF DecodeACMEJWS, ConsumeACMENonce, MemoryConsume
      <3> QED
        BY <1>2, <3>1, Zenon DEF Stored
    <2>2. CASE store # "memory" /\ Stored(n)
      <3>1. nonces' = nonces \ {n}
        BY <2>2, Zenon DEF DecodeACMEJWS, ConsumeACMENonce, SQLConsume
      <3> QED
        BY <2>2, <3>1, Zenon
    <2>3. CASE store # "memory" /\ ~Stored(n)
      <3>1. nonces' = nonces
        BY <2>3, Zenon DEF DecodeACMEJWS, ConsumeACMENonce, SQLConsume
      <3> QED
        BY <2>3, <3>1, Zenon
    <2> QED
      BY <2>1, <2>2, <2>3, Zenon
  <1>4. CASE Stored(n)
    <2>1. log' = [log EXCEPT ![n].used = @ + 1] /\ log[n].used = 0
      BY <1>2, <1>4, Zenon DEF DecodeACMEJWS, Stored, NonceInv
    <2> DEFINE e == [log[n] EXCEPT !.used = 1]
    <2>2. e \in Entry /\ e.at = log[n].at /\ e.used = 1
      BY <1>1, Zenon DEF Entry
    <2>3. log' = [log EXCEPT ![n] = e]
      BY <1>1, <2>1 DEF Entry
    <2> HIDE DEF e
    <2>4. /\ log' \in Seq(Entry) /\ Len(log') = Len(log)
          /\ \A k \in 1..Len(log) : log'[k] = IF k = n THEN e ELSE log[k]
      BY <1>1, <2>2, <2>3, ExceptSeq DEF NonceTypes
    <2>5. NonceTypes'
      BY <1>1, <1>2, <1>3, <2>4, Zenon DEF NonceTypes
    <2>6. ASSUME NEW k \in 1..Len(log), Gone(k) PROVE Gone(k)'
      <3>1. \A j \in 1..Len(log) : log'[j].at = log[j].at
        BY <2>2, <2>4, Zenon
      <3>2. log[k].used = 1 => log'[k].used = 1
        BY <2>2, <2>4, Zenon
      <3>3. clock' >= clock /\ Len(log') >= Len(log)
        BY <1>1, <2>4
      <3> QED
        BY <1>1, <2>5, <2>6, <3>1, <3>2, <3>3, GoneStays, Zenon
    <2>7. ASSUME NEW k \in nonces \ nonces' PROVE Gone(k)'
      <3>1. CASE k = n
        <4>1. log'[k].used = 1
          BY <2>2, <2>4, <3>1, Zenon
        <4> QED
          BY <4>1, Zenon DEF Gone
      <3>2. CASE k # n
        <4>1. Gone(k) /\ k \in 1..Len(log)
          BY <1>2, <1>3, <3>2, Zenon DEF Gone
        <4> QED
          BY <2>6, <4>1, Zenon
      <3> QED
        BY <3>1, <3>2, Zenon
    <2>8. \A k \in 1..Len(log') : log'[k].used \in {0, 1} /\ (k \in nonces' \/ Gone(k)')
      BY <2>2, <2>4, <2>6, <2>7, Zenon DEF NonceInv
    <2>9. \A k \in nonces' : log'[k].used = 0
      BY <1>2, <1>3, <1>4, <2>4, Zenon DEF NonceInv
    <2>10. reqs' = [reqs EXCEPT ![r] = [Idle EXCEPT !.pc = "verify", !.m = m, !.dead = Deactivated(m.kid)]]
      BY <1>4, Zenon DEF DecodeACMEJWS
    <2>11. reqs'[r].pc = "verify" /\ \A p \in Requests \ {r} : reqs'[p] = reqs[p]
      BY <2>10, Zenon DEF AccountInv, Idle
    <2>12. \A p \in Requests : reqs'[p].pc = "badNonce" => reqs'[p].nonce \in 1..Len(log') /\ Gone(reqs[p].nonce)'
      BY <2>4, <2>6, <2>11, Zenon DEF NonceInv
    <2> QED
      BY <2>5, <2>8, <2>9, <2>12, Zenon DEF NonceInv
  <1>5. CASE ~Stored(n)
    <2>1. UNCHANGED log /\ reqs' = [reqs EXCEPT ![r] = [Idle EXCEPT !.pc = "badNonce", !.nonce = n]]
      BY <1>5, Zenon DEF DecodeACMEJWS
    <2>2. NonceTypes'
      BY <1>1, <1>2, <1>3, <2>1, Zenon DEF NonceTypes
    <2>3. \A k \in 1..Len(log) : Gone(k) => Gone(k)'
      BY <1>1, <2>1, <2>2, GoneStays
    <2>4. \A k \in nonces \ nonces' : Gone(k)
      BY <1>3, <1>5, Zenon DEF Gone
    <2>5. Gone(n)
      BY <1>2, <1>5, Zenon DEF Stored, NonceInv, Gone
    <2>6. \A k \in 1..Len(log) : log[k].used \in {0, 1} /\ (k \in nonces' \/ Gone(k)')
      BY <2>3, <2>4, Zenon DEF NonceInv
    <2>7. reqs'[r].nonce = n /\ \A p \in Requests \ {r} : reqs'[p] = reqs[p]
      BY <2>1, Zenon DEF AccountInv, Idle
    <2>8. \A p \in Requests : reqs'[p].pc = "badNonce" => reqs'[p].nonce \in 1..Len(log) /\ Gone(reqs[p].nonce)'
      BY <2>3, <2>5, <2>7, Zenon DEF NonceInv
    <2>9. \A k \in nonces' : log[k].used = 0
      BY <1>3, Zenon DEF NonceInv
    <2> QED
      BY <2>1, <2>2, <2>6, <2>8, <2>9, Zenon DEF NonceInv
  <1> QED
    BY <1>4, <1>5, Zenon

\* The steps of a request that touch no nonce, and put it anywhere but at badNonce.
Moves(r) ==
    /\ UNCHANGED <<clock, store, nonces, log>>
    /\ \E pc \in Places \ {"badNonce"} :
          \/ Goto(r, pc)
          \/ \E x : reqs' = [reqs EXCEPT ![r].pc = pc, ![r].seen = x]
          \/ \E x : reqs' = [reqs EXCEPT ![r].pc = pc, ![r].arg = x]

\* They tell no one that a nonce is bad.
LEMMA MovesOn ==
  ASSUME AccountInv, NEW r \in Requests, Moves(r)
  PROVE  NoNewVerdict
  <1>1. PICK pc \in Places \ {"badNonce"} :
          \/ Goto(r, pc)
          \/ \E x : reqs' = [reqs EXCEPT ![r].pc = pc, ![r].seen = x]
          \/ \E x : reqs' = [reqs EXCEPT ![r].pc = pc, ![r].arg = x]
    BY Zenon DEF Moves
  <1>2. reqs \in [Requests -> Request] /\ reqs[r] \in Request
    BY Zenon DEF AccountInv
  <1>3. reqs'[r].pc = pc /\ \A p \in Requests \ {r} : reqs'[p] = reqs[p]
    <2>1. CASE Goto(r, pc)
      <3>1. PICK q \in Request : reqs' = [reqs EXCEPT ![r] = q] /\ q.pc = pc
        BY <2>1, Going
      <3> QED
        BY <1>2, <3>1, Zenon
    <2>2. ASSUME NEW x, reqs' = [reqs EXCEPT ![r].pc = pc, ![r].seen = x]
          PROVE  reqs'[r].pc = pc /\ \A p \in Requests \ {r} : reqs'[p] = reqs[p]
      BY <1>2, <2>2, Zenon DEF Request
    <2>3. ASSUME NEW x, reqs' = [reqs EXCEPT ![r].pc = pc, ![r].arg = x]
          PROVE  reqs'[r].pc = pc /\ \A p \in Requests \ {r} : reqs'[p] = reqs[p]
      BY <1>2, <2>3, Zenon DEF Request
    <2> QED
      BY <1>1, <2>1, <2>2, <2>3, Zenon
  <1> QED
    BY <1>3, Zenon DEF NoNewVerdict

\* These steps only change a request's place.
LEMMA PlainMoves ==
  ASSUME AccountInv, NEW r \in Requests,
         \/ Verify(r) \/ Refuse(r) \/ AcmeNewAccount(r) \/ CreateACMEAccount(r)
         \/ InsertACMEOrder(r) \/ ServeOrder(r) \/ ServeCertificate(r)
  PROVE  Moves(r)
  <1>1. {"ok", "refused", "createAccount"} \subseteq Places \ {"badNonce"}
    BY Zenon DEF Places
  <1>2. CASE Verify(r)
    <2>1. reqs[r].m \in Messages
      BY <1>2, Zenon DEF Verify, AccountInv, RequestOK
    <2>2. reqs[r].m.op \in Places \ {"badNonce"}
      BY <2>1, Rows, Zenon DEF Places, Admitted, AccountOps
    <2>3. Goto(r, reqs[r].m.op) \/ Goto(r, "refused")
      BY <1>2, Zenon DEF Verify
    <2> QED
      BY <1>1, <1>2, <2>2, <2>3, Zenon DEF Verify, Moves
  <1>3. CASE AcmeNewAccount(r)
    <2>1. Goto(r, "ok") \/ Goto(r, "createAccount")
      BY <1>3, Zenon DEF AcmeNewAccount, CreateOrGetACMEAccount
    <2> QED
      BY <1>1, <1>3, <2>1, Zenon DEF AcmeNewAccount, Moves
  <1>4. CASE CreateACMEAccount(r)
    <2>1. Goto(r, "ok") \/ Goto(r, "refused")
      BY <1>4, Zenon DEF CreateACMEAccount
    <2> QED
      BY <1>1, <1>4, <2>1, Zenon DEF CreateACMEAccount, Moves
  <1> QED
    BY <1>1, <1>2, <1>3, <1>4, Zenon DEF Refuse, InsertACMEOrder, ServeOrder, ServeCertificate, Moves

\* These change what it has read of an account, or what it is for, as well.
LEMMA OtherMoves ==
  ASSUME AccountInv, NEW r \in Requests,
         \/ AcmeUpdateAccount(r) \/ UpdateACMEAccount(r) \/ UpdateACMEAccountKey(r)
         \/ AcmeNewOrder(r) \/ AcmeKeyChange(r)
         \/ \E o \in Orders : AdmitOrder(r, o) \/ AdmitCertificate(r, o)
  PROVE  Moves(r)
  <1>1. {"ok", "refused", "update", "writeKey", "createOrder", "changeKey", "serve"} \subseteq Places \ {"badNonce"}
    BY Zenon DEF Places, Admitted
  <1>2. ASSUME NEW pc \in Places \ {"badNonce"}, ReadValid(r, pc) PROVE Moves(r)
    BY <1>1, <1>2, Zenon DEF ReadValid, Moves
  <1>3. ASSUME NEW row, UpdateACMEAccountIfStatus(r, row) PROVE Moves(r)
    <2>1. Goto(r, "ok") \/ Goto(r, "refused")
      BY <1>3, Zenon DEF UpdateACMEAccountIfStatus
    <2> QED
      BY <1>1, <1>3, <2>1, Zenon DEF UpdateACMEAccountIfStatus, Moves
  <1>4. CASE AcmeKeyChange(r)
    BY <1>1, <1>4, Zenon DEF AcmeKeyChange, Moves
  <1>5. ASSUME NEW o \in Orders, AdmitOrder(r, o) \/ AdmitCertificate(r, o) PROVE Moves(r)
    BY <1>1, <1>5, Zenon DEF AdmitOrder, AdmitCertificate, Moves
  <1> QED
    BY <1>1, <1>2, <1>3, <1>4, <1>5, Zenon DEF AcmeUpdateAccount, UpdateACMEAccount, UpdateACMEAccountKey, AcmeNewOrder

\* Every step keeps the invariant.
LEMMA NextNonce == AccountInv /\ NonceInv /\ [Next]_vars => NonceInv'
  <1> SUFFICES ASSUME AccountInv, NonceInv, [Next]_vars PROVE NonceInv'
    BY Zenon
  <1>1. clock \in Nat /\ clock <= clock /\ clock + 1 \in Nat /\ clock + 1 >= clock
    BY DEF NonceInv, NonceTypes
  <1>2. CASE UNCHANGED vars \/ Tick
    BY <1>1, <1>2, QuietNonce, Zenon DEF Tick, NoNewVerdict, vars
  <1>3. CASE AcmeNewNonce
    BY <1>3, IssueNonce, Zenon DEF AcmeNewNonce, NoNewVerdict
  <1>4. ASSUME NEW r \in Requests, Answer(r) PROVE NonceInv'
    <2>1. NoNewVerdict
      BY <1>4, Zenon DEF Answer, NoNewVerdict, AccountInv, Idle
    <2> QED
      BY <1>4, <2>1, IssueNonce, Zenon DEF Answer
  <1>5. ASSUME NEW r \in Requests, Moves(r) PROVE NonceInv'
    <2>1. NoNewVerdict
      BY <1>5, MovesOn, Zenon
    <2> QED
      BY <1>1, <1>5, <2>1, QuietNonce, Zenon DEF Moves
  <1>6. ASSUME NEW r \in Requests,
               \/ Verify(r) \/ Refuse(r) \/ AcmeNewAccount(r) \/ CreateACMEAccount(r)
               \/ InsertACMEOrder(r) \/ ServeOrder(r) \/ ServeCertificate(r)
        PROVE  Moves(r)
    BY <1>6, PlainMoves, Zenon
  <1>7. ASSUME NEW r \in Requests,
               \/ AcmeUpdateAccount(r) \/ UpdateACMEAccount(r) \/ UpdateACMEAccountKey(r)
               \/ AcmeNewOrder(r) \/ AcmeKeyChange(r)
               \/ \E o \in Orders : AdmitOrder(r, o) \/ AdmitCertificate(r, o)
        PROVE  Moves(r)
    BY <1>7, OtherMoves, Zenon
  <1>8. ASSUME NEW r \in Requests, NEW m \in Messages, NEW n \in 1..Len(log), DecodeACMEJWS(r, m, n)
        PROVE  NonceInv'
    BY <1>8, ConsumeNonce, Zenon
  <1> QED
    BY <1>2, <1>3, <1>4, <1>5, <1>6, <1>7, <1>8, Zenon DEF Next

\* The invariant about nonces holds throughout.
THEOREM NonceInvariant == Spec => []NonceInv
  BY InitNonce, NextNonce, AccountInvariant, PTL DEF Spec

\* No nonce is accepted twice, and one that is turned down was accepted before, has
\* expired, or gave way to MaxSize others in a full memory store.
THEOREM Verdicts == Spec => []NonceVerdicts
  <1>1. NonceInv => NonceVerdicts
    <2> SUFFICES ASSUME NonceInv PROVE NonceVerdicts
      BY Zenon
    <2>1. \A n \in 1..Len(log) : log[n].used <= 1
      BY DEF NonceInv
    <2>2. ASSUME NEW r \in Requests, reqs[r].pc = "badNonce" PROVE Gone(reqs[r].nonce)
      BY <2>2, Zenon DEF NonceInv
    <2> QED
      BY <2>1, <2>2, Zenon DEF NonceVerdicts, Gone, Newer
  <1> QED
    BY <1>1, NonceInvariant, PTL

-----------------------------------------------------------------------------
(***************************************************************************)
(* The order that requests lead to.                                        *)
(***************************************************************************)
\* What a validator knows at each of its steps, and which rows it has locked by
\* then.  A locked row is as the transaction found it.
ValidatorOK(p) ==
    LET r == req[p]
    IN  /\ r.pc = "create" => order.status = "none" /\ r.now + Lifetime <= MaxTime
        /\ r.pc \notin {"idle", "create"} => r.id \in Identifiers
        /\ r.pc \in {"setValid", "setProcessing"} => r.seen \in {"pending", "processing"}
        /\ r.pc \in {"setAuthorized", "list", "promote", "processed", "completed"}
              <=> "challenge" \in r.writes
        /\ r.pc \in {"list", "promote", "completed"} <=> "authorization" \in r.writes
        /\ "order" \in r.writes => r.pc = "completed" /\ order.status = "pending"
        /\ "challenge" \in r.writes => challenge[r.id] \in {"pending", "processing"}
        /\ r.pc = "promote" \/ "order" \in r.writes =>
              \A i \in Identifiers \ {r.id} : authorization[i].status = "valid"

\* One transaction creates the order, and two that are open share no locked row.
Exclusive(p, q) ==
    /\ ~(req[p].pc = "create" /\ req[q].pc = "create")
    /\ ~("challenge" \in req[p].writes \cap req[q].writes /\ req[p].id = req[q].id)
    /\ ~("order" \in req[p].writes \cap req[q].writes)

\* The order, its authorizations and their challenges come into being together.
RowsOK ==
    /\ \A i \in Identifiers :
          /\ order.status = "none" <=> authorization[i].status = "none"
          /\ order.status = "none" <=> challenge[i] = "none"
          /\ authorization[i].status = "valid" <=> challenge[i] = "valid"
    /\ order.status \in {"ready", "valid", "invalid"} =>
          \A i \in Identifiers : authorization[i].status = "valid"
    /\ order.status = "valid" <=> order.certificate # None

\* A finalization works on an order that has left "pending"; the one that the order
\* names has its certificate, and only its own event is written.
FinalizerOK(f) ==
    /\ fin[f] \notin {"idle", "done"} \/ enrollment[f] # "none" =>
          order.status \in {"ready", "valid", "invalid"}
    /\ fin[f] = "finalize" => enrollment[f] = "issued"
    /\ fin[f] = "audit" \/ f \in audits => order.certificate = f
    /\ order.certificate = f => fin[f] \in {"audit", "done"} /\ enrollment[f] = "issued"

\* The inductive invariant.
OrderInv ==
    /\ TypeOK
    /\ RowsOK
    /\ \A p \in Validators : ValidatorOK(p)
    /\ \A p, q \in Validators : p # q => Exclusive(p, q)
    /\ \A f \in Finalizers : FinalizerOK(f)

\* The local state of a validator, as in TypeOK.
Validation ==
    [pc : {"idle", "create", "verify", "complete", "process", "setProcessing", "setValid",
           "setAuthorized", "list", "promote", "processed", "completed"},
     id : Identifiers \cup {None},
     now : 0 .. MaxTime,
     seen : ChallengeStatuses,
     writes : SUBSET {"challenge", "authorization", "order"}]

\* What the types say of a validator and of the constants.
LEMMA Types ==
  ASSUME TypeOK
  PROVE  /\ req \in [Validators -> Validation]
         /\ clock \in Nat /\ MaxTime \in Nat /\ Lifetime \in Nat \ {0} /\ ReuseLifetime \in Nat
         /\ NoValidation \in Validation
  <1>1. /\ MaxTime \in Nat /\ Lifetime \in Nat \ {0} /\ ReuseLifetime \in Nat
    BY AcmeAssumption, Zenon
  <1> QED
    BY <1>1 DEF TypeOK, Validation, NoValidation, ChallengeStatuses

\* A new order has the types, and nobody works on it.
LEMMA InitOrderInv ==
  ASSUME OrderInit
  PROVE  OrderInv
  <1>1. TypeOK
    BY AcmeAssumption DEF OrderInit, TypeOK, NoValidation, OrderStatuses, AuthorizationStatuses, ChallengeStatuses
  <1>2. RowsOK
    BY Zenon DEF OrderInit, RowsOK
  <1>3. \A p \in Validators : ValidatorOK(p)
    BY Zenon DEF OrderInit, ValidatorOK, NoValidation
  <1>4. \A p, q \in Validators : p # q => Exclusive(p, q)
    BY Zenon DEF OrderInit, Exclusive, NoValidation
  <1>5. \A f \in Finalizers : FinalizerOK(f)
    BY AcmeAssumption, Zenon DEF OrderInit, FinalizerOK
  <1> QED
    BY <1>1, <1>2, <1>3, <1>4, <1>5, Zenon DEF OrderInv

\* A step of one validator that writes no table.
LEMMA LocalStep ==
  ASSUME OrderInv, NEW p \in Validators, NEW r \in Validation,
         req' = [req EXCEPT ![p] = r],
         UNCHANGED <<clock, account, orderTables, enrollment, audits, fin>>,
         faults' \in 0 .. MaxFaults,
         ValidatorOK(p)',
         \A q \in Validators \ {p} : Exclusive(p, q)'
  PROVE  OrderInv'
  <1>1. req \in [Validators -> Validation] /\ TypeOK
    BY Types, Zenon DEF OrderInv
  <1>2. req' \in [Validators -> Validation]
    BY <1>1, Zenon
  <1>3. \A q \in Validators : q # p => req'[q] = req[q]
    BY <1>1, Zenon
  <1>4. TypeOK'
    BY <1>1, <1>2, Zenon DEF TypeOK, Validation, orderTables
  <1>5. RowsOK'
    BY Zenon DEF OrderInv, RowsOK, orderTables
  <1>6. \A q \in Validators : ValidatorOK(q)'
    BY <1>3 DEF OrderInv, ValidatorOK, orderTables
  <1>7. \A q, s \in Validators : q # s => Exclusive(q, s)'
    <2> SUFFICES ASSUME NEW q \in Validators, NEW s \in Validators, q # s PROVE Exclusive(q, s)'
      BY Zenon
    <2>1. CASE q # p /\ s # p
      BY <1>3, <2>1 DEF OrderInv, Exclusive
    <2>2. CASE q = p \/ s = p
      BY <2>2, Zenon DEF Exclusive
    <2> QED
      BY <2>1, <2>2, Zenon
  <1>8. \A f \in Finalizers : FinalizerOK(f)'
    BY Zenon DEF OrderInv, FinalizerOK, orderTables
  <1> QED
    BY <1>4, <1>5, <1>6, <1>7, <1>8, Zenon DEF OrderInv

\* A validator whose request or transaction is over holds nothing.
LEMMA IdleStep ==
  ASSUME OrderInv, NEW p \in Validators,
         req' = [req EXCEPT ![p] = NoValidation],
         UNCHANGED <<clock, account, orderTables, enrollment, audits, fin>>,
         faults' \in 0 .. MaxFaults
  PROVE  OrderInv'
  <1>1. req \in [Validators -> Validation] /\ NoValidation \in Validation
    BY Types, Zenon DEF OrderInv
  <1>2. req'[p] = NoValidation
    BY <1>1, Zenon
  <1>3. ValidatorOK(p)'
    BY <1>2 DEF ValidatorOK, NoValidation
  <1>4. \A q \in Validators \ {p} : Exclusive(p, q)'
    BY <1>2 DEF Exclusive, NoValidation
  <1> QED
    BY <1>1, <1>3, <1>4, LocalStep, Zenon

\* What is known of a validator before its step.
LEMMA ValidatorFacts ==
  ASSUME OrderInv, NEW p \in Validators
  PROVE  /\ req \in [Validators -> Validation] /\ req[p] \in Validation
         /\ ValidatorOK(p) /\ TypeOK /\ RowsOK /\ faults \in 0 .. MaxFaults
         /\ clock \in 0 .. MaxTime /\ MaxTime \in Nat /\ Lifetime \in Nat
         /\ None \notin Identifiers
  BY AcmeAssumption, Types, Zenon DEF OrderInv, TypeOK

\* An order is created by one transaction at a time.
LEMMA CreateOrderStep ==
  ASSUME OrderInv, NEW p \in Validators, CreateACMEOrder(p)
  PROVE  OrderInv'
  <1> DEFINE r == [req[p] EXCEPT !.pc = "create", !.now = clock]
  <1>1. r \in Validation
    BY ValidatorFacts, Zenon DEF Validation
  <1>2. req' = [req EXCEPT ![p] = r]
    BY ValidatorFacts, Zenon DEF CreateACMEOrder, Validation
  <1>3. req'[p] = r
    BY <1>2, ValidatorFacts, Zenon
  <1>4. ValidatorOK(p)'
    BY <1>3, ValidatorFacts DEF ValidatorOK, CreateACMEOrder, Validation, orderTables
  <1>5. \A q \in Validators \ {p} : Exclusive(p, q)'
    BY <1>2, <1>3, ValidatorFacts DEF ValidatorOK, CreateACMEOrder, Exclusive, Validation
  <1> HIDE DEF r
  <1> QED
    BY <1>1, <1>2, <1>4, <1>5, ValidatorFacts, LocalStep, Zenon DEF CreateACMEOrder

\* A validation starts on an open challenge.
LEMMA ContextStep ==
  ASSUME OrderInv, NEW p \in Validators, NEW i \in Identifiers, ACMEHTTP01ValidationContext(p, i)
  PROVE  OrderInv'
  <1> DEFINE r == [req[p] EXCEPT !.pc = "verify", !.id = i]
  <1>1. r \in Validation
    BY ValidatorFacts, Zenon DEF Validation
  <1>2. req' = [req EXCEPT ![p] = r]
    BY ValidatorFacts, Zenon DEF ACMEHTTP01ValidationContext, Validation
  <1>3. req'[p] = r
    BY <1>2, ValidatorFacts, Zenon
  <1>4. ValidatorOK(p)'
    BY <1>3, ValidatorFacts DEF ValidatorOK, ACMEHTTP01ValidationContext, Validation, orderTables
  <1>5. \A q \in Validators \ {p} : Exclusive(p, q)'
    BY <1>2, <1>3, ValidatorFacts, Zenon DEF ValidatorOK, ACMEHTTP01ValidationContext, Exclusive, Validation
  <1> HIDE DEF r
  <1> QED
    BY <1>1, <1>2, <1>4, <1>5, ValidatorFacts, LocalStep, Zenon DEF ACMEHTTP01ValidationContext

\* The verification ends.
LEMMA VerifyStep ==
  ASSUME OrderInv, NEW p \in Validators, NEW i \in Identifiers, NEW ok \in BOOLEAN,
         VerifyHTTP01(p, i, ok)
  PROVE  OrderInv'
  <1> DEFINE r == [req[p] EXCEPT !.pc = IF ok THEN "complete" ELSE "process"]
  <1>1. r \in Validation
    BY ValidatorFacts DEF Validation
  <1>2. req' = [req EXCEPT ![p] = r]
    BY ValidatorFacts, Zenon DEF VerifyHTTP01, Validation
  <1>3. req'[p] = r
    BY <1>2, ValidatorFacts, Zenon
  <1>4. ValidatorOK(p)'
    BY <1>3, ValidatorFacts DEF ValidatorOK, VerifyHTTP01, Validation, orderTables
  <1>5. \A q \in Validators \ {p} : Exclusive(p, q)'
    BY <1>2, <1>3, ValidatorFacts DEF ValidatorOK, VerifyHTTP01, Exclusive, Validation
  <1> HIDE DEF r
  <1> QED
    BY <1>1, <1>2, <1>4, <1>5, ValidatorFacts, LocalStep, Zenon DEF VerifyHTTP01

\* A transaction reads the challenge, or finds it closed.
LEMMA OrderReadStep ==
  ASSUME OrderInv, NEW p \in Validators, NEW i \in Identifiers,
         NEW pc \in {"setValid", "setProcessing"}, Read(p, i, pc)
  PROVE  OrderInv'
  <1>1. CASE ~Open(i)
    BY <1>1, ValidatorFacts, IdleStep, Zenon DEF Read
  <1>2. CASE Open(i)
    <2> DEFINE r == [pc |-> pc, id |-> i, now |-> IF pc = "setValid" THEN clock ELSE 0,
                     seen |-> challenge[i], writes |-> {}]
    <2>1. r \in Validation
      BY ValidatorFacts DEF Validation, TypeOK
    <2>2. req' = [req EXCEPT ![p] = r]
      BY <1>2, Zenon DEF Read
    <2>3. req'[p] = r
      BY <2>2, ValidatorFacts, Zenon
    <2>4. ValidatorOK(p)'
      BY <1>2, <2>3 DEF ValidatorOK, Open
    <2>5. \A q \in Validators \ {p} : Exclusive(p, q)'
      BY <2>3 DEF Exclusive
    <2> HIDE DEF r
    <2> QED
      BY <2>1, <2>2, <2>4, <2>5, ValidatorFacts, LocalStep, Zenon DEF Read
  <1> QED
    BY <1>1, <1>2, Zenon

\* A conditional update that finds another status ends the request; one that finds
\* the expected status locks the row.
LEMMA UpdateStep ==
  ASSUME OrderInv, NEW p \in Validators,
         NEW row \in {"challenge", "authorization", "order"}, NEW expected \in BOOLEAN,
         NEW pc \in {"setAuthorized", "list", "processed", "completed"},
         UpdateIfStatus(p, row, expected, pc),
         req[p].pc \notin {"idle", "create"},
         "challenge" \in req[p].writes \/ row = "challenge",
         expected => LET r == [req[p] EXCEPT !.pc = pc, !.writes = @ \cup {row}]
                     IN  req' = [req EXCEPT ![p] = r] => ValidatorOK(p)'
  PROVE  OrderInv'
  <1>1. CASE ~expected
    BY <1>1, ValidatorFacts, IdleStep, Zenon DEF UpdateIfStatus
  <1>2. CASE expected
    <2> DEFINE r == [req[p] EXCEPT !.pc = pc, !.writes = @ \cup {row}]
    <2>1. r \in Validation
      <3>1. req[p].writes \cup {row} \in SUBSET {"challenge", "authorization", "order"}
        BY ValidatorFacts, Zenon DEF Validation
      <3>2. req[p] \in Validation
        BY ValidatorFacts, Zenon
      <3> QED
        BY <3>1, <3>2, Zenon DEF Validation
    <2>2. req' = [req EXCEPT ![p] = r]
      BY <1>2, Zenon DEF UpdateIfStatus
    <2>3. req'[p] = r
      BY <2>2, ValidatorFacts, Zenon
    <2>4. ValidatorOK(p)'
      BY <1>2, <2>2, Zenon
    <2>5. ASSUME NEW q \in Validators \ {p}
          PROVE  Exclusive(p, q)'
      <3>1. Exclusive(p, q) /\ req'[q] = req[q] /\ req[q] \in Validation
        BY <2>2, <2>5, ValidatorFacts, Zenon DEF OrderInv
      <3>2. /\ req'[p].pc = pc /\ req'[p].id = req[p].id
            /\ req'[p].writes = req[p].writes \cup {row}
        BY <2>3, ValidatorFacts, Zenon DEF Validation
      <3>3. ~(row \in req[q].writes /\ (row = "order" \/ req[q].id = req[p].id))
        BY <2>5, Zenon DEF UpdateIfStatus, Locked
      <3> QED
        BY <3>1, <3>2, <3>3, Zenon DEF Exclusive
    <2> HIDE DEF r
    <2> QED
      BY <2>1, <2>2, <2>4, <2>5, ValidatorFacts, LocalStep, Zenon DEF UpdateIfStatus
  <1> QED
    BY <1>1, <1>2, Zenon

\* The challenge is locked while it is still as it was read.
LEMMA ChallengeStep ==
  ASSUME OrderInv, NEW p \in Validators, UpdateACMEChallengeIfStatus(p)
  PROVE  OrderInv'
  <1> DEFINE pc == IF req[p].pc = "setValid" THEN "setAuthorized" ELSE "processed"
             expected == challenge[req[p].id] = req[p].seen
  <1>1. /\ UpdateIfStatus(p, "challenge", expected, pc)
        /\ req[p].pc \in {"setValid", "setProcessing"}
        /\ pc \in {"setAuthorized", "processed"} /\ expected \in BOOLEAN
    BY Zenon DEF UpdateACMEChallengeIfStatus
  <1>2. ASSUME expected, req' = [req EXCEPT ![p] = [req[p] EXCEPT !.pc = pc, !.writes = @ \cup {"challenge"}]]
        PROVE  ValidatorOK(p)'
    <2>1. /\ req'[p].pc = pc /\ req'[p].id = req[p].id
          /\ req'[p].writes = req[p].writes \cup {"challenge"}
      BY <1>2, ValidatorFacts, Zenon DEF Validation
    <2>2. order' = order /\ challenge' = challenge /\ authorization' = authorization
      BY <1>1, Zenon DEF UpdateIfStatus, orderTables
    <2> QED
      BY <1>1, <1>2, <2>1, <2>2, ValidatorFacts, Zenon DEF ValidatorOK
  <1> HIDE DEF pc, expected
  <1> QED
    BY <1>1, <1>2, UpdateStep, Zenon

\* The authorization is locked after its challenge.
LEMMA AuthorizationStep ==
  ASSUME OrderInv, NEW p \in Validators, PromoteACMEAuthorizationIfReady(p)
  PROVE  OrderInv'
  <1> DEFINE expected == authorization[req[p].id].status = "pending"
  <1>1. /\ UpdateIfStatus(p, "authorization", expected, "list")
        /\ req[p].pc = "setAuthorized" /\ expected \in BOOLEAN
    BY Zenon DEF PromoteACMEAuthorizationIfReady
  <1>2. ASSUME expected, req' = [req EXCEPT ![p] = [req[p] EXCEPT !.pc = "list", !.writes = @ \cup {"authorization"}]]
        PROVE  ValidatorOK(p)'
    <2>1. /\ req'[p].pc = "list" /\ req'[p].id = req[p].id
          /\ req'[p].writes = req[p].writes \cup {"authorization"}
      BY <1>2, ValidatorFacts, Zenon DEF Validation
    <2>2. order' = order /\ challenge' = challenge /\ authorization' = authorization
      BY <1>1, Zenon DEF UpdateIfStatus, orderTables
    <2> QED
      BY <1>1, <1>2, <2>1, <2>2, ValidatorFacts, Zenon DEF ValidatorOK
  <1>3. "challenge" \in req[p].writes
    BY <1>1, ValidatorFacts, Zenon DEF ValidatorOK
  <1> HIDE DEF expected
  <1> QED
    BY <1>1, <1>2, <1>3, UpdateStep, Zenon

\* The order is locked while it is pending and all other authorizations are valid.
LEMMA OrderStep ==
  ASSUME OrderInv, NEW p \in Validators, UpdateACMEOrderIfStatus(p)
  PROVE  OrderInv'
  <1> DEFINE expected == order.status = "pending"
  <1>1. /\ UpdateIfStatus(p, "order", expected, "completed")
        /\ req[p].pc = "promote" /\ expected \in BOOLEAN
    BY Zenon DEF UpdateACMEOrderIfStatus
  <1>2. ASSUME expected, req' = [req EXCEPT ![p] = [req[p] EXCEPT !.pc = "completed", !.writes = @ \cup {"order"}]]
        PROVE  ValidatorOK(p)'
    <2>1. /\ req'[p].pc = "completed" /\ req'[p].id = req[p].id
          /\ req'[p].writes = req[p].writes \cup {"order"}
      BY <1>2, ValidatorFacts, Zenon DEF Validation
    <2>2. order' = order /\ challenge' = challenge /\ authorization' = authorization
      BY <1>1, Zenon DEF UpdateIfStatus, orderTables
    <2> QED
      BY <1>1, <1>2, <2>1, <2>2, ValidatorFacts, Zenon DEF ValidatorOK
  <1>3. "challenge" \in req[p].writes
    BY <1>1, ValidatorFacts, Zenon DEF ValidatorOK
  <1> HIDE DEF expected
  <1> QED
    BY <1>1, <1>2, <1>3, UpdateStep, Zenon

\* The list of the order's authorizations decides whether the order is promoted.
LEMMA ListStep ==
  ASSUME OrderInv, NEW p \in Validators, PromoteACMEOrderIfReady(p)
  PROVE  OrderInv'
  <1>1. PICK pc \in {"promote", "completed"} :
          /\ req' = [req EXCEPT ![p].pc = pc]
          /\ pc = "promote" => \A i \in Identifiers \ {req[p].id} : authorization[i].status = "valid"
    BY Zenon DEF PromoteACMEOrderIfReady
  <1> DEFINE r == [req[p] EXCEPT !.pc = pc]
  <1>2. r \in Validation
    BY ValidatorFacts, Zenon DEF Validation
  <1>3. req' = [req EXCEPT ![p] = r]
    BY <1>1, ValidatorFacts, Zenon DEF Validation
  <1>4. req'[p] = r /\ r.writes = req[p].writes /\ r.id = req[p].id /\ r.pc = pc
    BY <1>3, ValidatorFacts, Zenon DEF Validation
  <1> HIDE DEF r
  <1>5. ValidatorOK(p)'
    BY <1>1, <1>4, ValidatorFacts, Zenon DEF ValidatorOK, PromoteACMEOrderIfReady, orderTables
  <1>6. \A q \in Validators \ {p} : Exclusive(p, q)'
    BY <1>3, <1>4, ValidatorFacts, Zenon DEF OrderInv, Exclusive
  <1> QED
    BY <1>2, <1>3, <1>5, <1>6, ValidatorFacts, LocalStep, Zenon DEF PromoteACMEOrderIfReady

\* The rows of the order are committed.
LEMMA CreateRowsStep ==
  ASSUME OrderInv, NEW p \in Validators, CreateACMEAuthorizations(p)
  PROVE  OrderInv'
  <1>1. /\ req[p].pc = "create" /\ order.status = "none" /\ order.certificate = None
        /\ req[p].now \in 0 .. MaxTime /\ req[p].now + Lifetime <= MaxTime
    BY ValidatorFacts, Zenon DEF CreateACMEAuthorizations, ValidatorOK, RowsOK, Validation
  <1>2. /\ order' = [order EXCEPT !.status = "pending", !.expires = req[p].now + Lifetime]
        /\ order'.status = "pending" /\ order'.certificate = None
        /\ req' = [req EXCEPT ![p] = NoValidation]
        /\ \A i \in Identifiers : authorization'[i].status = "pending" /\ challenge'[i] = "pending"
    BY <1>1, ValidatorFacts, Zenon DEF CreateACMEAuthorizations, TypeOK
  <1>3. /\ req' \in [Validators -> Validation] /\ req'[p] = NoValidation
        /\ \A q \in Validators : q # p => req'[q] = req[q]
    BY <1>2, Types, Zenon DEF OrderInv
  <1>4. TypeOK'
    <2>1. order' \in [status : OrderStatuses, expires : 0 .. MaxTime, certificate : Finalizers \cup {None}]
      <3>1. req[p].now + Lifetime \in 0 .. MaxTime
        BY <1>1, ValidatorFacts
      <3> QED
        BY <1>2, <3>1, ValidatorFacts, Zenon DEF TypeOK, OrderStatuses
    <2>2. authorization' \in [Identifiers -> [status : AuthorizationStatuses,
                                              reuse : 0 .. MaxTime + ReuseLifetime]]
      BY Types DEF OrderInv, CreateACMEAuthorizations, AuthorizationStatuses
    <2>3. challenge' \in [Identifiers -> ChallengeStatuses]
      BY Zenon DEF CreateACMEAuthorizations, ChallengeStatuses
    <2> QED
      BY <1>3, <2>1, <2>2, <2>3, Zenon DEF OrderInv, TypeOK, Validation, CreateACMEAuthorizations
  <1>5. RowsOK'
    BY <1>2, Zenon DEF RowsOK
  <1>6. ASSUME NEW q \in Validators
        PROVE  ValidatorOK(q)'
    <2>1. CASE q = p
      BY <1>3, <2>1 DEF ValidatorOK, NoValidation
    <2>2. CASE q # p
      <3>1. ValidatorOK(q) /\ Exclusive(p, q) /\ req'[q] = req[q] /\ RowsOK
        BY <1>3, <2>2, Zenon DEF OrderInv
      <3>2. req[q].pc # "create"
        BY <1>1, <3>1, Zenon DEF Exclusive
      <3>3. "challenge" \notin req[q].writes /\ "order" \notin req[q].writes
        BY <1>1, <3>1, Zenon DEF ValidatorOK, RowsOK
      <3> QED
        BY <3>1, <3>2, <3>3, Zenon DEF ValidatorOK
    <2> QED
      BY <2>1, <2>2, Zenon
  <1>7. ASSUME NEW q \in Validators, NEW s \in Validators, q # s
        PROVE  Exclusive(q, s)'
    BY <1>3, <1>7 DEF OrderInv, Exclusive, NoValidation
  <1>8. ASSUME NEW f \in Finalizers
        PROVE  FinalizerOK(f)'
    BY AcmeAssumption, <1>1, <1>2, <1>8 DEF OrderInv, FinalizerOK, CreateACMEAuthorizations
  <1> QED
    BY <1>4, <1>5, <1>6, <1>7, <1>8, Zenon DEF OrderInv

\* A completion or a failed verification is committed.
LEMMA CommitStep ==
  ASSUME OrderInv, NEW p \in Validators, Commit(p)
  PROVE  OrderInv'
  <1> DEFINE r == req[p]
             new == IF r.pc = "completed" THEN "valid" ELSE "processing"
  <1>1. /\ r \in Validation /\ r.pc \in {"completed", "processed"} /\ r.id \in Identifiers
        /\ "challenge" \in r.writes
        /\ challenge[r.id] \in {"pending", "processing"}
        /\ r.pc = "completed" <=> "authorization" \in r.writes
        /\ "order" \in r.writes => r.pc = "completed"
        /\ order.status # "none"
    BY ValidatorFacts, Zenon DEF Commit, ValidatorOK, RowsOK
  <1>2. /\ req' = [req EXCEPT ![p] = NoValidation]
        /\ challenge' = [challenge EXCEPT ![r.id] = new]
        /\ authorization' = IF r.pc = "completed"
                            THEN [authorization EXCEPT ![r.id] =
                                    [status |-> "valid", reuse |-> r.now + ReuseLifetime]]
                            ELSE authorization
        /\ order' = IF "order" \in r.writes THEN [order EXCEPT !.status = "ready"] ELSE order
    BY <1>1, Zenon DEF Commit
  <1>3. /\ req' \in [Validators -> Validation] /\ req'[p] = NoValidation
        /\ \A q \in Validators : q # p => req'[q] = req[q]
    BY <1>2, Types, Zenon DEF OrderInv
  <1>4. /\ challenge'[r.id] = new
        /\ \A i \in Identifiers : i # r.id => challenge'[i] = challenge[i]
    BY <1>1, <1>2, ValidatorFacts, Zenon DEF TypeOK
  <1>5. /\ authorization'[r.id].status = IF r.pc = "completed" THEN "valid" ELSE authorization[r.id].status
        /\ \A i \in Identifiers : i # r.id => authorization'[i] = authorization[i]
    BY <1>1, <1>2, ValidatorFacts, Zenon DEF TypeOK
  <1>6. /\ order'.status = IF "order" \in r.writes THEN "ready" ELSE order.status
        /\ order'.certificate = order.certificate
        /\ "order" \in r.writes => order.status = "pending" /\ order.certificate = None
    BY <1>2, ValidatorFacts, Zenon DEF TypeOK, ValidatorOK, RowsOK
  <1>7. TypeOK'
    <2>1. order' \in [status : OrderStatuses, expires : 0 .. MaxTime, certificate : Finalizers \cup {None}]
      BY <1>2, ValidatorFacts, Zenon DEF TypeOK, OrderStatuses
    <2>2. authorization' \in [Identifiers -> [status : AuthorizationStatuses,
                                              reuse : 0 .. MaxTime + ReuseLifetime]]
      <3>1. [status |-> "valid", reuse |-> r.now + ReuseLifetime] \in
               [status : AuthorizationStatuses, reuse : 0 .. MaxTime + ReuseLifetime]
        BY <1>1, Types DEF OrderInv, AuthorizationStatuses, Validation
      <3> QED
        BY <1>1, <1>2, <3>1, ValidatorFacts, Zenon DEF TypeOK
    <2>3. challenge' \in [Identifiers -> ChallengeStatuses]
      BY <1>1, <1>2, ValidatorFacts, Zenon DEF TypeOK, ChallengeStatuses
    <2> QED
      BY <1>3, <2>1, <2>2, <2>3, Zenon DEF OrderInv, TypeOK, Validation, Commit
  <1>8. RowsOK'
    <2>1. ASSUME NEW i \in Identifiers
          PROVE  /\ order'.status = "none" <=> authorization'[i].status = "none"
                 /\ order'.status = "none" <=> challenge'[i] = "none"
                 /\ authorization'[i].status = "valid" <=> challenge'[i] = "valid"
      BY <1>1, <1>4, <1>5, <1>6, ValidatorFacts DEF RowsOK
    <2>2. ASSUME order'.status \in {"ready", "valid", "invalid"}, NEW i \in Identifiers
          PROVE  authorization'[i].status = "valid"
      <3>1. CASE "order" \in r.writes
        BY <1>1, <1>5, <3>1, ValidatorFacts DEF ValidatorOK
      <3>2. CASE "order" \notin r.writes
        BY <1>5, <1>6, <2>2, <3>2, ValidatorFacts, Zenon DEF RowsOK
      <3> QED
        BY <3>1, <3>2, Zenon
    <2>3. order'.status = "valid" <=> order'.certificate # None
      BY <1>6, ValidatorFacts, Zenon DEF RowsOK
    <2> QED
      BY <2>1, <2>2, <2>3, Zenon DEF RowsOK
  <1>9. ASSUME NEW q \in Validators
        PROVE  ValidatorOK(q)'
    <2>1. CASE q = p
      BY <1>3, <2>1 DEF ValidatorOK, NoValidation
    <2>2. CASE q # p
      <3>1. ValidatorOK(q) /\ Exclusive(p, q) /\ req'[q] = req[q]
        BY <1>3, <2>2, Zenon DEF OrderInv
      <3>2. req[q].pc # "create"
        BY <1>1, <3>1, Zenon DEF ValidatorOK
      <3>3. "challenge" \in req[q].writes => req[q].id # r.id /\ challenge'[req[q].id] = challenge[req[q].id]
        BY <1>1, <1>4, <3>1, <3>2, Zenon DEF ValidatorOK, Exclusive
      <3>4. "order" \in req[q].writes => order'.status = "pending"
        BY <1>6, <3>1, Zenon DEF ValidatorOK, Exclusive
      <3>5. \A i \in Identifiers : authorization[i].status = "valid" => authorization'[i].status = "valid"
        BY <1>5, Zenon
      <3> QED
        BY <3>1, <3>2, <3>3, <3>4, <3>5, Zenon DEF ValidatorOK
    <2> QED
      BY <2>1, <2>2, Zenon
  <1>10. ASSUME NEW q \in Validators, NEW s \in Validators, q # s
         PROVE  Exclusive(q, s)'
    BY <1>3, <1>10 DEF OrderInv, Exclusive, NoValidation
  <1>11. ASSUME NEW f \in Finalizers
         PROVE  FinalizerOK(f)'
    BY <1>6, <1>11, Zenon DEF OrderInv, FinalizerOK, Commit
  <1> QED
    BY <1>7, <1>8, <1>9, <1>10, <1>11, Zenon DEF OrderInv

FinPC == {"idle", "evidence", "enroll", "approve", "issue", "finalize", "audit", "invalidate", "done"}

\* A step of a finalization; it may take the order from "ready" while no
\* transaction has the row locked.
LEMMA FinStep ==
  ASSUME OrderInv, NEW f \in Finalizers, NEW pc \in FinPC,
         fin' = [fin EXCEPT ![f] = pc], UNCHANGED unchangedByFin,
         order' \in [status : OrderStatuses, expires : 0 .. MaxTime, certificate : Finalizers \cup {None}],
         \/ order' = order
         \/ /\ order.status = "ready" /\ order'.status \in {"valid", "invalid"}
            /\ order'.status = "valid" <=> order'.certificate # None
            /\ \A p \in Validators : "order" \notin req[p].writes,
         enrollment' \in [Finalizers -> {"none", "pending", "approved", "issued"}],
         audits' \subseteq Finalizers,
         \A g \in Finalizers : FinalizerOK(g)'
  PROVE  OrderInv'
  <1>1. TypeOK'
    BY Zenon DEF OrderInv, TypeOK, FinPC, unchangedByFin
  <1>2. RowsOK'
    BY Zenon DEF OrderInv, RowsOK, unchangedByFin
  <1>3. \A p \in Validators : ValidatorOK(p)'
    BY DEF OrderInv, ValidatorOK, unchangedByFin
  <1>4. \A p, q \in Validators : p # q => Exclusive(p, q)'
    BY Zenon DEF OrderInv, Exclusive, unchangedByFin
  <1> QED
    BY <1>1, <1>2, <1>3, <1>4, Zenon DEF OrderInv

\* What is known of a finalization before its step.
LEMMA FinFacts ==
  ASSUME OrderInv
  PROVE  /\ fin \in [Finalizers -> FinPC] /\ RowsOK
         /\ order \in [status : OrderStatuses, expires : 0 .. MaxTime, certificate : Finalizers \cup {None}]
         /\ enrollment \in [Finalizers -> {"none", "pending", "approved", "issued"}]
         /\ audits \subseteq Finalizers /\ None \notin Finalizers
         /\ \A f \in Finalizers : FinalizerOK(f)
  BY AcmeAssumption, Zenon DEF OrderInv, TypeOK, FinPC

\* A finalization begins, or its evidence is looked at.
LEMMA DecideStep ==
  ASSUME OrderInv, NEW f \in Finalizers,
         FinalizeACMEOrder(f) \/ ValidateACMEPublicTLSValidationEvidence(f)
  PROVE  OrderInv'
  <1>1. PICK pc \in {"idle", "evidence", "enroll", "invalidate"} :
          fin' = [fin EXCEPT ![f] = pc] /\ fin[f] \in {"idle", "evidence"}
    BY Zenon DEF FinalizeACMEOrder, ValidateACMEPublicTLSValidationEvidence, Proceed
  <1>2. UNCHANGED <<unchangedByFin, order, enrollment, audits>>
    BY Zenon DEF FinalizeACMEOrder, ValidateACMEPublicTLSValidationEvidence
  <1>3. order.status \in {"ready", "valid", "invalid"}
    BY FinFacts, Zenon DEF FinalizeACMEOrder, ValidateACMEPublicTLSValidationEvidence, FinalizerOK
  <1>4. ASSUME NEW g \in Finalizers PROVE FinalizerOK(g)'
    <2>1. CASE g = f
      BY <1>1, <1>2, <1>3, <2>1, FinFacts, Zenon DEF FinalizerOK
    <2>2. CASE g # f
      BY <1>1, <1>2, <2>2, FinFacts, Zenon DEF FinalizerOK
    <2> QED
      BY <2>1, <2>2, Zenon
  <1>5. pc \in FinPC
    BY <1>1, Zenon DEF FinPC
  <1> QED
    BY <1>1, <1>2, <1>4, <1>5, FinFacts, FinStep, Zenon

\* The enrollment of a finalization is made, approved or issued.
LEMMA EnrollStep ==
  ASSUME OrderInv, NEW f \in Finalizers,
         CreateEnrollment(f) \/ ApproveEnrollment(f) \/ IssueCertificate(f)
  PROVE  OrderInv'
  <1>1. PICK pc \in {"approve", "issue", "finalize"}, st \in {"pending", "approved", "issued"} :
          /\ fin' = [fin EXCEPT ![f] = pc]
          /\ enrollment' = [enrollment EXCEPT ![f] = st]
          /\ fin[f] \in {"enroll", "approve", "issue"}
          /\ pc = "finalize" => st = "issued"
    BY Zenon DEF CreateEnrollment, ApproveEnrollment, IssueCertificate, Enroll, Proceed
  <1>2. UNCHANGED <<unchangedByFin, order, audits>>
    BY Zenon DEF CreateEnrollment, ApproveEnrollment, IssueCertificate, Enroll
  <1>3. ASSUME NEW g \in Finalizers PROVE FinalizerOK(g)'
    <2>1. CASE g = f
      BY <1>1, <1>2, <2>1, FinFacts, Zenon DEF FinalizerOK
    <2>2. CASE g # f
      BY <1>1, <1>2, <2>2, FinFacts, Zenon DEF FinalizerOK
    <2> QED
      BY <2>1, <2>2, Zenon
  <1>4. pc \in FinPC /\ enrollment' \in [Finalizers -> {"none", "pending", "approved", "issued"}]
    BY <1>1, FinFacts, Zenon DEF FinPC
  <1> QED
    BY <1>1, <1>2, <1>3, <1>4, FinFacts, FinStep, Zenon

\* The order is made valid by one finalization.
LEMMA MarkValidStep ==
  ASSUME OrderInv, NEW f \in Finalizers, MarkOrderValid(f)
  PROVE  OrderInv'
  <1>1. UNCHANGED <<unchangedByFin, enrollment, audits>> /\ fin[f] = "finalize"
    BY Zenon DEF MarkOrderValid
  <1>2. CASE order.status = "ready"
    <2>1. /\ order' = [order EXCEPT !.status = "valid", !.certificate = f]
          /\ fin' = [fin EXCEPT ![f] = "audit"]
          /\ \A p \in Validators : "order" \notin req[p].writes
      BY <1>2, Zenon DEF MarkOrderValid, Proceed
    <2>2. order' \in [status : OrderStatuses, expires : 0 .. MaxTime, certificate : Finalizers \cup {None}]
      BY <2>1, FinFacts, Zenon DEF OrderStatuses
    <2>3. order'.status = "valid" /\ order'.certificate = f /\ f # None /\ order.certificate = None
      BY <1>2, <2>1, FinFacts, Zenon DEF RowsOK
    <2>4. ASSUME NEW g \in Finalizers PROVE FinalizerOK(g)'
      <3>1. CASE g = f
        BY <1>1, <2>1, <2>3, <3>1, FinFacts, Zenon DEF FinalizerOK
      <3>2. CASE g # f
        BY <1>1, <2>1, <2>3, <3>2, FinFacts, Zenon DEF FinalizerOK
      <3> QED
        BY <3>1, <3>2, Zenon
    <2>5. "audit" \in FinPC
      BY Zenon DEF FinPC
    <2> QED
      BY <1>1, <1>2, <2>1, <2>2, <2>3, <2>4, <2>5, FinFacts, FinStep, Zenon
  <1>3. CASE order.status # "ready"
    <2>1. order' = order /\ fin' = [fin EXCEPT ![f] = "done"]
      BY <1>3, Zenon DEF MarkOrderValid, Proceed
    <2>2. ASSUME NEW g \in Finalizers PROVE FinalizerOK(g)'
      <3>1. CASE g = f
        BY <1>1, <2>1, <3>1, FinFacts, Zenon DEF FinalizerOK
      <3>2. CASE g # f
        BY <1>1, <2>1, <3>2, FinFacts, Zenon DEF FinalizerOK
      <3> QED
        BY <3>1, <3>2, Zenon
    <2>3. "done" \in FinPC
      BY Zenon DEF FinPC
    <2> QED
      BY <1>1, <2>1, <2>2, <2>3, FinFacts, FinStep, Zenon
  <1> QED
    BY <1>2, <1>3, Zenon

\* The event of the finalization that made the order valid.
LEMMA AuditStep ==
  ASSUME OrderInv, NEW f \in Finalizers, AuditFinalized(f)
  PROVE  OrderInv'
  <1>1. /\ UNCHANGED <<unchangedByFin, order, enrollment>> /\ fin[f] = "audit"
        /\ audits' = audits \cup {f} /\ fin' = [fin EXCEPT ![f] = "done"]
    BY Zenon DEF AuditFinalized, Proceed
  <1>2. ASSUME NEW g \in Finalizers PROVE FinalizerOK(g)'
    <2>1. CASE g = f
      BY <1>1, <2>1, FinFacts, Zenon DEF FinalizerOK
    <2>2. CASE g # f
      BY <1>1, <2>2, FinFacts, Zenon DEF FinalizerOK
    <2> QED
      BY <2>1, <2>2, Zenon
  <1>3. "done" \in FinPC /\ audits' \subseteq Finalizers
    BY <1>1, FinFacts, Zenon DEF FinPC
  <1> QED
    BY <1>1, <1>2, <1>3, FinFacts, FinStep, Zenon

\* An expired order is made invalid, unless it is no longer ready.
LEMMA InvalidateStep ==
  ASSUME OrderInv, NEW f \in Finalizers, InvalidateACMEOrder(f)
  PROVE  OrderInv'
  <1>1. /\ UNCHANGED <<unchangedByFin, enrollment, audits>> /\ fin[f] = "invalidate"
        /\ fin' = [fin EXCEPT ![f] = "done"]
        /\ \A p \in Validators : "order" \notin req[p].writes
        /\ order' = IF order.status = "ready" THEN [order EXCEPT !.status = "invalid"] ELSE order
    BY Zenon DEF InvalidateACMEOrder, Proceed
  <1>2. order' \in [status : OrderStatuses, expires : 0 .. MaxTime, certificate : Finalizers \cup {None}]
    BY <1>1, FinFacts, Zenon DEF OrderStatuses
  <1>3. /\ order'.certificate = order.certificate
        /\ order' = order \/ (order.status = "ready" /\ order'.status = "invalid" /\ order.certificate = None)
    BY <1>1, FinFacts, Zenon DEF RowsOK
  <1>4. ASSUME NEW g \in Finalizers PROVE FinalizerOK(g)'
    <2>1. CASE g = f
      BY <1>1, <1>3, <2>1, FinFacts, Zenon DEF FinalizerOK
    <2>2. CASE g # f
      BY <1>1, <1>3, <2>2, FinFacts, Zenon DEF FinalizerOK
    <2> QED
      BY <2>1, <2>2, Zenon
  <1>5. "done" \in FinPC
    BY Zenon DEF FinPC
  <1> QED
    BY <1>1, <1>2, <1>3, <1>4, <1>5, FinFacts, FinStep, Zenon

\* A request ends early.
LEMMA AbandonStep ==
  ASSUME OrderInv, Abandon
  PROVE  OrderInv'
  <1>1. /\ faults' \in 0 .. MaxFaults
        /\ UNCHANGED <<clock, account, orderTables, enrollment, audits>>
    BY AcmeAssumption DEF Abandon, OrderInv, TypeOK
  <1>2. CASE \E p \in Validators : req' = [req EXCEPT ![p] = NoValidation] /\ fin' = fin
    BY <1>1, <1>2, IdleStep, Zenon
  <1>3. ASSUME NEW f \in Finalizers, fin' = [fin EXCEPT ![f] = "done"], fin[f] \notin {"idle", "done"},
               req' = req
        PROVE  OrderInv'
    <2>1. ASSUME NEW g \in Finalizers PROVE FinalizerOK(g)'
      <3>1. CASE g = f
        BY <1>1, <1>3, <3>1, FinFacts, Zenon DEF FinalizerOK, orderTables
      <3>2. CASE g # f
        BY <1>1, <1>3, <3>2, FinFacts, Zenon DEF FinalizerOK, orderTables
      <3> QED
        BY <3>1, <3>2, Zenon
    <2>2. TypeOK'
      BY <1>1, <1>3, Zenon DEF OrderInv, TypeOK, orderTables
    <2>3. RowsOK'
      BY <1>1, Zenon DEF OrderInv, RowsOK, orderTables
    <2>4. \A p \in Validators : ValidatorOK(p)'
      BY <1>1, <1>3, Zenon DEF OrderInv, ValidatorOK, orderTables
    <2>5. \A p, q \in Validators : p # q => Exclusive(p, q)'
      BY <1>3, Zenon DEF OrderInv, Exclusive
    <2> QED
      BY <2>1, <2>2, <2>3, <2>4, <2>5, Zenon DEF OrderInv
  <1> QED
    BY <1>2, <1>3, Zenon DEF Abandon, Proceed

\* Time passes, the account is deactivated, or nothing happens.
LEMMA OutsideStep ==
  ASSUME OrderInv, OrderTick \/ DeactivateAccount \/ UNCHANGED orderVars
  PROVE  OrderInv'
  <1>1. /\ UNCHANGED <<orderTables, enrollment, audits, req, fin, faults>>
        /\ clock' \in 0 .. MaxTime /\ account' \in {"valid", "deactivated"}
    BY AcmeAssumption DEF OrderTick, DeactivateAccount, orderVars, orderTables, OrderInv, TypeOK
  <1>2. TypeOK'
    BY <1>1, Zenon DEF OrderInv, TypeOK, orderTables
  <1>3. RowsOK' /\ \A p \in Validators : ValidatorOK(p)'
    BY <1>1 DEF OrderInv, RowsOK, ValidatorOK, orderTables
  <1>4. /\ \A p, q \in Validators : p # q => Exclusive(p, q)'
        /\ \A f \in Finalizers : FinalizerOK(f)'
    BY <1>1, Zenon DEF OrderInv, Exclusive, FinalizerOK, orderTables
  <1> QED
    BY <1>2, <1>3, <1>4, Zenon DEF OrderInv

\* Every step of the system keeps the invariant.
LEMMA NextOrderInv == OrderInv /\ [OrderNext]_orderVars => OrderInv'
  <1> SUFFICES ASSUME OrderInv, [OrderNext]_orderVars PROVE OrderInv'
    BY Zenon
  <1>1. CASE OrderTick \/ DeactivateAccount \/ UNCHANGED orderVars
    BY <1>1, OutsideStep, Zenon
  <1>2. CASE Abandon
    BY <1>2, AbandonStep, Zenon
  <1>3. ASSUME NEW p \in Validators, CreateACMEOrder(p) \/ ValidatorStep(p) PROVE OrderInv'
    <2>1. CASE MarkACMEChallengeProcessing(p)
      <3>1. req[p].id \in Identifiers
        BY <2>1, ValidatorFacts, Zenon DEF MarkACMEChallengeProcessing, ValidatorOK
      <3> QED
        BY <2>1, <3>1, OrderReadStep, Zenon DEF MarkACMEChallengeProcessing
    <2> QED
      BY <1>3, <2>1, CreateOrderStep, CreateRowsStep, ChallengeStep, AuthorizationStep, ListStep,
         OrderStep, CommitStep, Zenon DEF ValidatorStep
  <1>4. ASSUME NEW p \in Validators, NEW i \in Identifiers,
               \/ ACMEHTTP01ValidationContext(p, i) \/ PollACMEAuthorization(p, i)
               \/ CompleteACMEChallenge(p, i) \/ \E ok \in BOOLEAN : VerifyHTTP01(p, i, ok)
        PROVE  OrderInv'
    BY <1>4, ContextStep, OrderReadStep, VerifyStep, Zenon DEF PollACMEAuthorization, CompleteACMEChallenge
  <1>5. ASSUME NEW f \in Finalizers, FinalizerStep(f) PROVE OrderInv'
    BY <1>5, DecideStep, EnrollStep, MarkValidStep, AuditStep, InvalidateStep, Zenon DEF FinalizerStep
  <1> QED
    BY <1>1, <1>2, <1>3, <1>4, <1>5, Zenon DEF OrderNext

\* The types and what requests know hold in every state of every deployment.
THEOREM OrderInvariant == OrderSpec => []OrderInv
  <1>1. OrderInit => OrderInv
    BY InitOrderInv, Zenon
  <1> QED
    BY <1>1, NextOrderInv, PTL DEF OrderSpec

\* EnrolledIsAuthorized for any number of identifiers and requests: no order leaves
\* "pending", and no enrollment is made for it (FinalizeACMEOrder), without a valid
\* authorization for each identifier, and no late "processing" takes back a
\* challenge that CompleteACMEChallenge has completed.
THEOREM Authorized == OrderSpec => []EnrolledIsAuthorized
  <1>1. OrderInv => EnrolledIsAuthorized
    BY Zenon DEF OrderInv, RowsOK, FinalizerOK, EnrolledIsAuthorized
  <1> QED
    BY <1>1, OrderInvariant, PTL

\* ValidHasItsCertificate for any number of finalizations at once: the order names
\* the certificate of the one finalization that made it valid, and only that one
\* is in the audit log (FinalizeACMEOrder).
THEOREM OneCertificate == OrderSpec => []ValidHasItsCertificate
  <1>1. ASSUME OrderInv PROVE ValidHasItsCertificate
    BY <1>1, FinFacts, Zenon DEF RowsOK, FinalizerOK, ValidHasItsCertificate
  <1> QED
    BY <1>1, OrderInvariant, PTL

=============================================================================
