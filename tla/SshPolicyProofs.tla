-------------------------- MODULE SshPolicyProofs ---------------------------
(* The invariants of the SSH accounts, for any accounts, threads, terminals,  *)
(* plans and edits, and any number of requests, logins and failures.          *)
EXTENDS SshPolicy, FiniteSetTheorems, WellFoundedInduction, TLAPS

-----------------------------------------------------------------------------
(* Requests: which steps belong to which operation, and what each will write. *)

Bulk == {"bulk lock", "bulk unlock", "bulk extend", "bulk disconnect"}

\* The operations that say nothing about the lock of an account.
Silent == {"disconnect", "bulk disconnect", "bulk extend"}

\* The account a request is at is not one of those it has left.
OnOne(q) ==
    /\ q.user \notin q.rest
    /\ q.pc = "idle" => q.user = Nobody /\ q.rest = {}
    /\ q.pc = "next" => q.user = Nobody
    /\ q.pc \notin {"idle", "next"} => q.user \in User

Shape(q) ==
    /\ q.pc = "next" \/ q.rest # {} => q.op \in Bulk
    /\ q.pc = "useradd" => q.op = "create"
    /\ q.pc = "chpasswd" => q.op \in {"create", "update"}
    /\ q.pc = "expire" => q.op \in {"update", "bulk extend"}
    /\ q.pc = "lock" => q.op \in {"update", "lock", "unlock", "bulk lock", "bulk unlock"}
    /\ q.pc = "read" => q.op \in {"lock", "unlock"}
    /\ q.pc = "profile" => q.op \in {"create", "update", "lock", "unlock", "bulk extend"}
    /\ q.pc \in {"userdel", "unprofile"} => q.op = "delete"
    /\ q.pc \in {"list", "close"} => q.op \in {"disconnect", "bulk disconnect"}
    /\ q.op = "create" => q.expire \in Expiry /\ ~q.lock
    /\ \/ q.op \in {"create", "update"}
       \/ q.op \in {"lock", "unlock"} /\ q.pc = "profile"
       => (q.row.enabled <=> ~q.lock)

Sound(q) == q \in Request /\ OnOne(q) /\ Shape(q)

TypeInv == TypeOK /\ \A t \in Thread : Sound(req[t])

-----------------------------------------------------------------------------
(* The values that are written.                                              *)

\* The initial values, and those that stand for nothing, have their types.
LEMMA Values ==
    /\ NoAccount \in Account /\ NoRow \in Row /\ NoSession \in Session
    /\ NoVerdict \in Verdict /\ NoRows \in [User -> Row] /\ NoPass \in Pass
    /\ Sound(NoRequest) /\ Keep \notin Expiry
    /\ \A p \in Plan, e \in BOOLEAN : RowOf(p, e) \in Row /\ RowOf(p, e).enabled = e
<1> USE SshConstants
<1>1. 0 \in Expiry /\ Keep \notin Expiry
  BY DEF Expiry, Keep
<1>2. NoAccount \in Account /\ NoRow \in Row /\ NoSession \in Session /\ NoVerdict \in Verdict
  BY <1>1 DEF NoAccount, Account, NoRow, Row, NoSession, Session, NoVerdict, Verdict
<1>3. NoRows \in [User -> Row]
  BY <1>2 DEF NoRows
<1>4. NoPass \in Pass
  BY <1>2, <1>3 DEF NoPass, Pass
<1>5. NoRequest \in Request
  BY <1>2, <1>3 DEF NoRequest, Request, Op
<1>6. OnOne(NoRequest) /\ Shape(NoRequest)
  BY DEF NoRequest, OnOne, Shape
<1>7. \A p \in Plan, e \in BOOLEAN : RowOf(p, e) \in Row /\ RowOf(p, e).enabled = e
  BY DEF RowOf, Row
<1> QED
  BY <1>1, <1>2, <1>3, <1>4, <1>5, <1>6, <1>7 DEF Sound

\* The smaller and the larger of two numbers.
LEMMA MinMax ==
    ASSUME NEW a \in Nat, NEW b \in Nat
    PROVE  Min({a, b}) \in {a, b} /\ Max({a, b}) \in {a, b} /\ Min({a, b}) <= a
<1>1. \E x \in {a, b} : \A y \in {a, b} : x =< y
  OBVIOUS
<1>2. \E x \in {a, b} : \A y \in {a, b} : x >= y
  OBVIOUS
<1> QED
  BY <1>1, <1>2 DEF Min, Max

\* An extension writes a row, and only a switched-off row gives a switched-off one.
LEMMA ExtendedRow ==
    ASSUME TypeOK, NEW row \in Row
    PROVE  /\ Extended(row) \in Row /\ Extended(row).enabled = row.enabled
           /\ Extended(row).expire \in Expiry
<1> USE SshConstants
<1>1. row.expire \in Nat /\ day \in Nat /\ MaxDay \in Nat
  BY DEF TypeOK, Row, Expiry
<1>2. Max({row.expire, day}) \in Nat
  BY <1>1, MinMax
<1> DEFINE e == Min({MaxDay + 1, Max({row.expire, day}) + 1})
<1>3. e \in Expiry
  <2>1. \A n \in Nat : Min({MaxDay + 1, n + 1}) \in 0 .. (MaxDay + 1)
    <3> TAKE n \in Nat
    <3>1. MaxDay + 1 \in Nat /\ n + 1 \in Nat
      BY <1>1
    <3>2. Min({MaxDay + 1, n + 1}) \in {MaxDay + 1, n + 1} /\ Min({MaxDay + 1, n + 1}) <= MaxDay + 1
      BY <3>1, MinMax
    <3> QED
      BY <3>1, <3>2
  <2> QED
    BY <1>2, <2>1 DEF Expiry
<1> HIDE DEF e
<1>4. Extended(row) = [row EXCEPT !.known = TRUE, !.expire = e]
  BY DEF Extended, e
<1> QED
  BY <1>3, <1>4 DEF Row

\* The end of a request, or of one account of it, is sound.
LEMMA LeftSound ==
    ASSUME NEW q, Sound(q)
    PROVE  /\ Sound(Left(q)) /\ Accounts(Left(q)) = q.rest
           /\ q.rest # {} => /\ Left(q).op = q.op /\ Left(q).alone = q.alone
                             /\ Left(q).rest = q.rest /\ Left(q).rows = q.rows
                             /\ Left(q).pc = "next"
           /\ q.rest = {} => Left(q) = NoRequest
<1>1. CASE q.rest = {}
  BY <1>1, Values DEF Left, Accounts, NoRequest
<1>2. CASE q.rest # {}
  <2>1. Left(q) = [q EXCEPT !.pc = "next", !.user = Nobody, !.row = NoRow, !.expire = Keep]
    BY <1>2 DEF Left
  <2>2. Left(q) \in Request
    BY <2>1, Values DEF Sound, Request
  <2>3. OnOne(Left(q))
    BY <2>1, SshConstants DEF OnOne, Sound, Request
  <2>4. Shape(Left(q))
    BY <1>2, <2>1 DEF Shape, Sound, Request, Bulk
  <2> QED
    BY <1>2, <2>1, <2>2, <2>3, <2>4 DEF Sound, Accounts, Request
<1> QED
  BY <1>1, <1>2
-----------------------------------------------------------------------------
(* Type correctness.                                                         *)

\* Types hold at first.
LEMMA TypesAtFirst == Init => TypeInv
<1> SUFFICES ASSUME Init
             PROVE  TypeInv
  OBVIOUS
<1> USE SshConstants, Values
<1>1. day \in 1..MaxDay
  BY DEF Init
<1>2. profile \in [User -> Row]
  <2>1. {NoRow} \union {RowOf(p, TRUE) : p \in Plan} \subseteq Row
    OBVIOUS
  <2> QED
    BY <2>1 DEF Init
<1>3. host \in [User -> Account]
  BY <1>2 DEF Init, Account, Row
<1>4. req \in [Thread -> Request] /\ \A t \in Thread : Sound(req[t])
  BY DEF Init, Sound
<1>5. session \in [Terminal -> Session] /\ enf \in Pass
  BY DEF Init
<1>6. told \in [User -> {"unknown", "suspended", "locked", "open"}]
  BY DEF Init
<1> QED
  BY <1>1, <1>2, <1>3, <1>4, <1>5, <1>6 DEF Init, TypeInv, TypeOK

\* The steps of the enforcer keep the types.
LEMMA EnforcerTypes ==
    ASSUME TypeInv, EnforcerStep \/ AbortPass
    PROVE  /\ enf' \in Pass /\ host' \in [User -> Account] /\ session' \in [Terminal -> Session]
           /\ faults' \in 0..MaxFaults
           /\ UNCHANGED <<day, profile, req, told, requests, logins>>
<1> USE SshConstants, Values DEF TypeInv, TypeOK
<1>0. \A row \in Row, list \in [Terminal -> Session], u \in User : Decide(row, list, u) \in Verdict
  BY ZenonT(60) DEF Decide, Verdict, NoVerdict, OverSessions, OverDevices, Of
<1>1. CASE ReadRows
  BY <1>1 DEF ReadRows, Pass
<1>2. CASE ListSessions
  <2>1. PICK list \in {session, [t \in Terminal |-> NoSession]} :
           /\ IF list = session THEN UNCHANGED faults ELSE Fault
           /\ enf' = [enf EXCEPT !.pc = "act", !.rows = NoRows,
                          !.verdict = [u \in User |-> Decide(enf.rows[u], list, u)]]
    BY <1>2 DEF ListSessions
  <2>2. list \in [Terminal -> Session]
    OBVIOUS
  <2>3. [u \in User |-> Decide(enf.rows[u], list, u)] \in [User -> Verdict]
    BY <1>0, <2>2 DEF Pass
  <2>4. enf' \in Pass
    BY <2>1, <2>3 DEF Pass
  <2> QED
    BY <1>2, <2>1, <2>4 DEF ListSessions, Fault
<1>3. ASSUME NEW u \in User, LockExpired(u)
      PROVE  /\ enf' \in Pass /\ host' \in [User -> Account] /\ session' \in [Terminal -> Session]
             /\ faults' \in 0..MaxFaults
             /\ UNCHANGED <<day, profile, req, told, requests, logins>>
  <2>1. \E v \in Verdict, b \in {Nobody, u} : enf' = [enf EXCEPT !.verdict[u] = v, !.busy = b]
    <3>1. enf.verdict[u] \in Verdict /\ [enf.verdict[u] EXCEPT !.lock = FALSE] \in Verdict
      BY DEF Pass, Verdict
    <3>2. CASE enf' = [enf EXCEPT !.verdict[u] = NoVerdict]
      <4>1. enf' = [enf EXCEPT !.verdict[u] = NoVerdict, !.busy = Nobody]
        BY <1>3, <3>2 DEF LockExpired, Pass
      <4> QED
        BY <4>1
    <3>3. CASE enf' = [enf EXCEPT !.verdict[u].lock = FALSE,
                           !.busy = IF enf.verdict[u].close = {} THEN Nobody ELSE u]
      <4>1. enf' = [enf EXCEPT !.verdict[u] = [enf.verdict[u] EXCEPT !.lock = FALSE],
                               !.busy = IF enf.verdict[u].close = {} THEN Nobody ELSE u]
        BY <3>3
      <4> QED
        BY <3>1, <4>1
    <3> QED
      BY <1>3, <3>2, <3>3 DEF LockExpired
  <2>2. enf' \in Pass
    <3>1. PICK v \in Verdict, b \in {Nobody, u} : enf' = [enf EXCEPT !.verdict[u] = v, !.busy = b]
      BY <2>1
    <3>2. [enf.verdict EXCEPT ![u] = v] \in [User -> Verdict]
      BY DEF Pass
    <3> QED
      BY <3>1, <3>2 DEF Pass
  <2>3. host' \in {host, [host EXCEPT ![u].locked = TRUE]} /\ faults' \in 0..MaxFaults
    BY <1>3 DEF LockExpired, Fault
  <2>4. host' \in [User -> Account]
    <3>1. [host[u] EXCEPT !.locked = TRUE] \in Account
      BY DEF Account
    <3> QED
      BY <2>3, <3>1
  <2> QED
    BY <1>3, <2>2, <2>3, <2>4 DEF LockExpired
<1>4. ASSUME NEW u \in User, Disconnect(u)
      PROVE  /\ enf' \in Pass /\ host' \in [User -> Account] /\ session' \in [Terminal -> Session]
             /\ faults' \in 0..MaxFaults
             /\ UNCHANGED <<day, profile, req, told, requests, logins>>
  <2> DEFINE v == enf.verdict[u]
             t == Min(ToClose(v))
             l == IF v.close # {} THEN [v EXCEPT !.close = @ \ {t}]
                                  ELSE [v EXCEPT !.device = @ \ {t}]
  <2>1. v \in Verdict
    BY DEF Pass
  <2>2. l \in Verdict
    BY <2>1 DEF Verdict
  <2>3. enf' = [enf EXCEPT !.verdict[u] = l, !.busy = IF ToClose(l) = {} THEN Nobody ELSE u]
    BY <1>4 DEF Disconnect
  <2>4. session' \in {session, [session EXCEPT ![t] = NoSession]} /\ faults' \in 0..MaxFaults
    BY <1>4 DEF Disconnect, Fault
  <2> HIDE DEF l, t
  <2>5. enf' \in Pass
    BY <2>2, <2>3 DEF Pass
  <2>6. session' \in [Terminal -> Session]
    BY <2>4
  <2> QED
    BY <1>4, <2>4, <2>5, <2>6 DEF Disconnect
<1>5. CASE EndPass \/ AbortPass
  BY <1>5 DEF EndPass, AbortPass, Fault
<1> QED
  BY <1>1, <1>2, <1>3, <1>4, <1>5 DEF EnforcerStep, ReadRows, ListSessions
\* How a request goes on: at its accounts or fewer of them, and as the same operation.
Continues(q, r) ==
    /\ Sound(r) /\ Accounts(r) \subseteq Accounts(q) /\ r.rest \subseteq q.rest
    /\ Accounts(r) # {} => r.op = q.op /\ r.alone = q.alone /\ r.rows = q.rows

\* A request that leaves an account goes on with fewer of them.
LEMMA LeftContinues == ASSUME NEW q, Sound(q) PROVE Continues(q, Left(q))
<1>1. q.rest = {} => Accounts(Left(q)) = {} /\ Left(q).rest = {}
  BY LeftSound DEF NoRequest
<1> QED
  BY <1>1, LeftSound DEF Continues, Accounts

\* The terminals a request has still to close do not matter here.
LEMMA CloseIrrelevant ==
    ASSUME NEW q, Sound(q), NEW c \in SUBSET Terminal
    PROVE  LET r == [q EXCEPT !.close = c]
           IN  /\ Sound(r) /\ Accounts(r) = Accounts(q) /\ r.rest = q.rest
               /\ r.op = q.op /\ r.alone = q.alone /\ r.rows = q.rows
<1> DEFINE r == [q EXCEPT !.close = c]
<1>1. r \in Request /\ OnOne(r)
  BY DEF Sound, Request, OnOne
<1>2. /\ r.pc = q.pc /\ r.op = q.op /\ r.user = q.user /\ r.rest = q.rest
      /\ r.expire = q.expire /\ r.lock = q.lock /\ r.row = q.row
      /\ r.alone = q.alone /\ r.rows = q.rows
  BY DEF Sound, Request
<1> HIDE DEF r
<1>3. Shape(r) /\ Accounts(r) = Accounts(q)
  BY <1>2 DEF Sound, Shape, Accounts
<1> QED
  BY <1>1, <1>2, <1>3 DEF Sound, r

\* A command that works.
LEMMA FollowingContinues ==
    ASSUME NEW q, Sound(q), q.pc \in Command
    PROVE  Continues(q, Following(q))
<1> USE SshConstants DEF Sound, OnOne, Request
<1>1. CASE q.pc = "lock" /\ q.op \in {"bulk lock", "bulk unlock"}
  BY <1>1, LeftContinues DEF Following
<1>2. ASSUME NEW pc \in {"chpasswd", "expire", "lock", "read", "profile", "unprofile"},
             Following(q) = [q EXCEPT !.pc = pc], Shape([q EXCEPT !.pc = pc])
      PROVE  Continues(q, Following(q))
  BY <1>2 DEF Continues, Accounts, Command
<1>3. CASE q.pc = "useradd"
  BY <1>2, <1>3 DEF Following, Shape
<1>4. CASE q.pc = "chpasswd" /\ q.op = "update"
  BY <1>2, <1>4 DEF Following, Shape
<1>5. CASE q.pc = "expire" /\ q.op = "update"
  BY <1>2, <1>5 DEF Following, Shape
<1>6. CASE q.pc = "lock" /\ q.op \in {"lock", "unlock"}
  BY <1>2, <1>6 DEF Following, Shape, Bulk
<1>7. CASE q.pc = "userdel"
  BY ZenonT(60), <1>2, <1>7 DEF Following, Shape, Bulk
<1>8. CASE \/ q.pc = "chpasswd" /\ q.op = "create"
           \/ q.pc = "expire" /\ q.op = "bulk extend"
           \/ q.pc = "lock" /\ q.op = "update"
  BY ZenonT(60), <1>2, <1>8 DEF Following, Shape, Bulk
<1> QED
  BY <1>1, <1>3, <1>4, <1>5, <1>6, <1>7, <1>8 DEF Shape, Command

\* Every step of a request is one of that thread, and goes on with the request.
LEMMA StepContinues ==
    ASSUME TypeInv, NEW t \in Thread, RequestStep(t)
    PROVE  /\ req' = [req EXCEPT ![t] = req'[t]]
           /\ Continues(req[t], req'[t])
<1> DEFINE q == req[t]
<1> USE SshConstants, Values DEF TypeInv
<1>0. Sound(q) /\ req \in [Thread -> Request] /\ profile \in [User -> Row]
  BY DEF TypeOK
<1>1. ASSUME NEW u \in User, NextAccount(t, u)
      PROVE  req' = [req EXCEPT ![t] = req'[t]] /\ Continues(req[t], req'[t])
  <2> DEFINE row == Extended(q.rows[u])
             n   == [q EXCEPT !.user = u, !.rest = @ \ {u}]
             r   == IF n.op = "bulk extend"
                    THEN [n EXCEPT !.pc = "expire", !.expire = row.expire, !.row = row]
                    ELSE [n EXCEPT !.pc = IF n.op = "bulk disconnect" THEN "list" ELSE "lock"]
  <2>1. req' = [req EXCEPT ![t] = r] /\ q.pc = "next" /\ u \in q.rest
    BY <1>1 DEF NextAccount
  <2>2. row \in Row /\ row.expire \in Expiry
    BY <1>0, ExtendedRow DEF Sound, Request
  <2> HIDE DEF row
  <2>3. r \in Request
    BY ZenonT(60), <1>0, <2>2 DEF Sound, Request
  <2>4. OnOne(r)
    BY <1>0, <2>1 DEF Sound, Request, OnOne
  <2>5. q.op \in Bulk /\ q \in Request
    BY <1>0, <2>1 DEF Sound, Shape
  <2>6. Shape(r)
    <3>1. /\ r.op = q.op
          /\ r.pc = (IF q.op = "bulk extend" THEN "expire" ELSE IF q.op = "bulk disconnect" THEN "list" ELSE "lock")
      BY <2>5 DEF Request
    <3> HIDE DEF r
    <3> QED
      BY <2>5, <3>1 DEF Shape, Bulk
  <2>7. /\ Accounts(r) \subseteq Accounts(q) /\ r.rest \subseteq q.rest
        /\ r.op = q.op /\ r.alone = q.alone /\ r.rows = q.rows
    BY <1>0, <2>1 DEF Sound, Request, Accounts
  <2> HIDE DEF r
  <2> QED
    BY <1>0, <2>1, <2>3, <2>4, <2>6, <2>7 DEF Continues, Sound
<1>2. CASE Run(t)
  <2>1. req' = [req EXCEPT ![t] = Following(q)] /\ q.pc \in Command
    BY <1>2 DEF Run
  <2> QED
    BY <1>0, <2>1, FollowingContinues
<1>3. CASE RunFails(t) \/ WriteRow(t)
  <2>1. req' = [req EXCEPT ![t] = Left(q)]
    BY <1>3 DEF RunFails, WriteRow
  <2> QED
    BY <1>0, <2>1, LeftContinues
<1>4. ASSUME req' = [req EXCEPT ![t] = NoRequest]
      PROVE  req' = [req EXCEPT ![t] = req'[t]] /\ Continues(req[t], req'[t])
  BY <1>0, <1>4 DEF Continues, Accounts, NoRequest
<1>5. CASE ReadRow(t)
  <2> DEFINE row == [profile[q.user] EXCEPT !.known = TRUE, !.enabled = ~q.lock]
             r   == [q EXCEPT !.pc = "profile", !.row = row]
  <2>1. q.pc = "read" /\ q.user \in User /\ q.op \in {"lock", "unlock"}
    BY <1>0, <1>5 DEF ReadRow, Sound, OnOne, Shape
  <2>2. req' = [req EXCEPT ![t] = r] \/ req' = [req EXCEPT ![t] = NoRequest]
    BY <1>5 DEF ReadRow
  <2>3. row \in Row /\ (row.enabled <=> ~q.lock)
    <3>1. profile[q.user] \in Row /\ (~q.lock) \in BOOLEAN
      <4>1. \A b \in BOOLEAN : (~b) \in BOOLEAN
        OBVIOUS
      <4>2. q.lock \in BOOLEAN
        BY <1>0 DEF Sound, Request
      <4> QED
        BY <1>0, <2>1, <4>1, <4>2
    <3>2. \A b \in BOOLEAN, p \in Row :
             /\ [p EXCEPT !.known = TRUE, !.enabled = b] \in Row
             /\ [p EXCEPT !.known = TRUE, !.enabled = b].enabled = b
      BY DEF Row
    <3> QED
      BY <3>1, <3>2
  <2> HIDE DEF row
  <2>4. r \in Request /\ OnOne(r)
    BY <1>0, <2>1, <2>3 DEF Sound, Request, OnOne
  <2>5. Shape(r)
    BY ZenonT(60), <1>0, <2>1, <2>3 DEF Sound, Request, Shape, Bulk
  <2>6. /\ Accounts(r) \subseteq Accounts(q) /\ r.rest \subseteq q.rest
        /\ r.op = q.op /\ r.alone = q.alone /\ r.rows = q.rows
    BY <1>0, <2>1 DEF Sound, Request, Accounts
  <2> HIDE DEF r
  <2> QED
    BY <1>0, <1>4, <2>2, <2>4, <2>5, <2>6 DEF Continues, Sound
<1>6. CASE DeleteRow(t)
  BY <1>4, <1>6 DEF DeleteRow
<1>7. CASE ListOwn(t)
  <2> DEFINE own == Of(session, q.user)
             r   == [q EXCEPT !.pc = "close", !.close = own]
  <2>1. q.pc = "list" /\ q.user \in User /\ own \subseteq Terminal
    BY <1>0, <1>7 DEF ListOwn, Sound, OnOne, Of
  <2>2. req' = [req EXCEPT ![t] = r] \/ req' = [req EXCEPT ![t] = Left(q)]
    BY <1>7 DEF ListOwn
  <2> HIDE DEF own
  <2>3. r \in Request /\ OnOne(r) /\ Shape(r)
    <3>1. r \in Request /\ OnOne(r)
      BY <1>0, <2>1 DEF Sound, Request, OnOne
    <3>2. Shape(r)
      BY ZenonT(60), <1>0, <2>1 DEF Sound, Request, Shape, Bulk
    <3> QED
      BY <3>1, <3>2
  <2>4. Accounts(r) = Accounts(q) /\ r.rest = q.rest /\ r.op = q.op /\ r.alone = q.alone /\ r.rows = q.rows
    BY <1>0, <2>1 DEF Sound, Request, Accounts
  <2> HIDE DEF r
  <2>5. Continues(q, r)
    BY <2>3, <2>4 DEF Continues, Sound
  <2> QED
    BY <1>0, <2>2, <2>5, LeftContinues
<1>8. CASE CloseOwn(t)
  <2> DEFINE c == q.close \ {Min(q.close)}
             r == [q EXCEPT !.close = c]
             e == [Left(q) EXCEPT !.close = {}]
  <2>1. q.pc = "close"
    BY <1>8 DEF CloseOwn
  <2>2. req' = [req EXCEPT ![t] = r] \/ req' = [req EXCEPT ![t] = e]
    BY <1>8 DEF CloseOwn
  <2>3. c \subseteq Terminal
    BY <1>0 DEF Sound, Request
  <2> HIDE DEF c
  <2>4. Continues(q, r)
    BY ZenonT(60), <1>0, <2>1, <2>3 DEF Sound, Request, OnOne, Shape, Continues, Accounts
  <2>5. Continues(q, e)
    <3>1. Continues(q, Left(q))
      BY <1>0, LeftContinues
    <3> QED
      BY <3>1, CloseIrrelevant DEF Continues
  <2> HIDE DEF r, e
  <2> QED
    BY <1>0, <2>2, <2>4, <2>5
<1> QED
  BY <1>1, <1>2, <1>3, <1>5, <1>6, <1>7, <1>8 DEF RequestStep
\* Whether a request is alone does not matter here.
LEMMA AloneIrrelevant ==
    ASSUME NEW q, Sound(q), NEW a \in BOOLEAN
    PROVE  LET r == [q EXCEPT !.alone = a]
           IN  /\ Sound(r) /\ Accounts(r) = Accounts(q) /\ r.alone = a
               /\ r.op = q.op /\ r.pc = q.pc /\ r.user = q.user /\ r.rest = q.rest
               /\ r.lock = q.lock /\ r.row = q.row /\ r.rows = q.rows
<1> DEFINE r == [q EXCEPT !.alone = a]
<1>1. r \in Request /\ OnOne(r)
  BY DEF Sound, Request, OnOne
<1>2. /\ r.pc = q.pc /\ r.op = q.op /\ r.user = q.user /\ r.rest = q.rest
      /\ r.expire = q.expire /\ r.lock = q.lock /\ r.row = q.row
      /\ r.alone = a /\ r.rows = q.rows
  BY DEF Sound, Request
<1> HIDE DEF r
<1>3. Shape(r) /\ Accounts(r) = Accounts(q)
  BY <1>2 DEF Sound, Shape, Accounts
<1> QED
  BY <1>1, <1>2, <1>3 DEF Sound, r

\* What arrives is a sound request that has done nothing yet.
Fresh(q) ==
    /\ Sound(q) /\ Accounts(q) \subseteq User
    /\ q.pc \notin {"read", "profile"}
    /\ q.op = "bulk extend" => q.pc = "next" /\ q.rows = profile

\* What a handler begins is a sound request that has done nothing yet.
LEMMA Arrival ==
    ASSUME TypeInv, NEW t \in Thread, Arrives(t)
    PROVE  \E q : Begin(t, q) /\ Fresh(q)
<1> USE SshConstants, Values
<1>0. NoRequest \in Request /\ profile \in [User -> Row] /\ 0 \in Expiry
  BY DEF TypeInv, TypeOK, Sound, Expiry
<1>1. ASSUME NEW u \in User, NEW p \in Plan, BeginCreate(t, u, p)
      PROVE  \E q : Begin(t, q) /\ Fresh(q)
  <2> DEFINE q == [NoRequest EXCEPT !.pc = "useradd", !.op = "create", !.user = u,
                                    !.expire = p.expire, !.row = RowOf(p, TRUE)]
  <2>1. q \in Request
    BY <1>0 DEF Request, Op
  <2>2. OnOne(q) /\ Accounts(q) \subseteq User
    BY <1>0 DEF NoRequest, OnOne, Accounts
  <2>3. Shape(q)
    BY <1>0 DEF NoRequest, Shape
  <2>4. q.pc = "useradd" /\ q.op = "create"
    BY <1>0 DEF Request
  <2>5. Begin(t, q)
    BY <1>1 DEF BeginCreate
  <2> HIDE DEF q
  <2> QED
    BY <2>1, <2>2, <2>3, <2>4, <2>5 DEF Fresh, Sound
<1>2. ASSUME NEW u \in User, NEW new \in Update, BeginUpdate(t, u, new)
      PROVE  \E q : Begin(t, q) /\ Fresh(q)
  <2> DEFINE row == RowOf(new.plan, new.enabled)
             pc  == IF new.password THEN "chpasswd" ELSE "expire"
             ex  == IF new.clear THEN 0 ELSE IF new.plan.expire = 0 THEN Keep ELSE new.plan.expire
             rw  == IF new.clear THEN [row EXCEPT !.expire = 0] ELSE row
             lk  == ~new.enabled
             q   == [NoRequest EXCEPT !.pc = pc, !.op = "update", !.user = u, !.lock = lk,
                                      !.expire = ex, !.row = rw]
  <2>1. new.plan \in Plan /\ new.enabled \in BOOLEAN /\ row \in Row /\ row.enabled = new.enabled
    BY DEF RowOf
  <2>2. ex \in Expiry \union {Keep} /\ pc \in {"chpasswd", "expire"}
    BY <1>0, <2>1
  <2>3. lk \in BOOLEAN /\ (new.enabled <=> ~lk)
    BY <2>1
  <2>4. rw \in Row /\ (rw.enabled <=> ~lk)
    <3>1. [row EXCEPT !.expire = 0] \in Row /\ [row EXCEPT !.expire = 0].enabled = row.enabled
      BY <1>0, <2>1 DEF Row
    <3> QED
      BY <2>1, <2>3, <3>1
  <2>5. Begin(t, q)
    BY <1>2 DEF BeginUpdate
  <2> HIDE DEF row, pc, ex, rw, lk
  <2>6. q \in Request
    BY <1>0, <2>2, <2>3, <2>4 DEF Request, Op
  <2>7. OnOne(q) /\ Accounts(q) \subseteq User
    BY <1>0, <2>2 DEF NoRequest, OnOne, Accounts
  <2>8. Shape(q)
    BY <1>0, <2>2, <2>4 DEF NoRequest, Shape
  <2>9. q.pc = pc /\ q.op = "update"
    BY <1>0 DEF Request
  <2> HIDE DEF q
  <2> QED
    BY <2>2, <2>5, <2>6, <2>7, <2>8, <2>9 DEF Fresh, Sound
<1>3. ASSUME NEW u \in User, NEW op \in {"lock", "unlock", "delete", "disconnect"},
             BeginAction(t, u, op)
      PROVE  \E q : Begin(t, q) /\ Fresh(q)
  <2> DEFINE pc == CASE op \in {"lock", "unlock"} -> "lock"
                     [] op = "delete" -> "userdel"
                     [] op = "disconnect" -> "list"
             q  == [NoRequest EXCEPT !.pc = pc, !.op = op, !.user = u, !.lock = (op = "lock")]
  <2>1. /\ op \in {"lock", "unlock"} => pc = "lock"
        /\ op = "delete" => pc = "userdel"
        /\ op = "disconnect" => pc = "list"
    OBVIOUS
  <2>2. Begin(t, q)
    BY <1>3 DEF BeginAction
  <2> HIDE DEF pc
  <2>3. q \in Request
    BY ZenonT(60), <1>0, <2>1 DEF Request, Op
  <2>4. OnOne(q) /\ Accounts(q) \subseteq User
    BY <1>0, <2>1 DEF NoRequest, OnOne, Accounts
  <2>5. Shape(q)
    BY <1>0, <2>1 DEF NoRequest, Shape
  <2>6. q.pc = pc /\ q.op = op
    BY <1>0 DEF Request
  <2> HIDE DEF q
  <2> QED
    BY <2>1, <2>2, <2>3, <2>4, <2>5, <2>6 DEF Fresh, Sound
<1>4. ASSUME NEW us \in SUBSET User \ {{}}, NEW op \in Bulk, BeginBulk(t, us, op)
      PROVE  \E q : Begin(t, q) /\ Fresh(q)
  <2> DEFINE rw == IF op = "bulk extend" THEN profile ELSE NoRequest.rows
             q  == [NoRequest EXCEPT !.pc = "next", !.op = op, !.rest = us,
                                     !.lock = (op = "bulk lock"), !.rows = rw]
  <2>1. rw \in [User -> Row] /\ (op = "bulk extend" => rw = profile)
    BY <1>0 DEF Request
  <2>2. Begin(t, q)
    BY <1>4 DEF BeginBulk, NoRequest
  <2> HIDE DEF rw
  <2>3. q \in Request
    BY ZenonT(60), <1>0, <2>1 DEF Request, Op, Bulk
  <2>4. OnOne(q) /\ Accounts(q) \subseteq User
    BY <1>0, <2>1 DEF NoRequest, OnOne, Accounts
  <2>5. Shape(q)
    BY <1>0, <2>1 DEF NoRequest, Shape, Bulk
  <2>6. q.pc = "next" /\ q.op = op /\ q.rows = rw
    BY <1>0 DEF Request
  <2> HIDE DEF q
  <2> QED
    BY <2>1, <2>2, <2>3, <2>4, <2>5, <2>6 DEF Fresh, Sound
<1> QED
  BY <1>1, <1>2, <1>3, <1>4 DEF Arrives, Bulk

\* An arrival disturbs what the other threads hold only by meeting them.
LEMMA ArrivalMeets ==
    ASSUME TypeInv, NEW t \in Thread, NEW q, Begin(t, q), Sound(q)
    PROVE  /\ req' \in [Thread -> Request] /\ \A s \in Thread : Sound(req'[s])
           /\ \E a \in BOOLEAN : req'[t] = [q EXCEPT !.alone = a]
           /\ req'[t].alone => \A s \in Thread \ {t} : Accounts(req[s]) \intersect Accounts(q) = {}
           /\ \A s \in Thread \ {t} :
                 /\ \E a \in BOOLEAN : req'[s] = [req[s] EXCEPT !.alone = a]
                 /\ req'[s].alone => req[s].alone /\ Accounts(req[s]) \intersect Accounts(q) = {}
<1> DEFINE met == {s \in Thread \ {t} : Accounts(req[s]) \intersect Accounts(q) # {}}
           mine == (met = {})
           theirs(s) == req[s].alone /\ s \notin met
<1>0. req \in [Thread -> Request] /\ \A s \in Thread : Sound(req[s])
  BY DEF TypeInv, TypeOK
<1>1. req' = [s \in Thread |-> IF s = t THEN [q EXCEPT !.alone = mine]
                               ELSE [req[s] EXCEPT !.alone = theirs(s)]]
  BY DEF Begin
<1>2. mine \in BOOLEAN /\ \A s \in Thread : theirs(s) \in BOOLEAN
  OBVIOUS
<1>3. mine => \A s \in Thread \ {t} : Accounts(req[s]) \intersect Accounts(q) = {}
  OBVIOUS
<1>4. \A s \in Thread \ {t} : theirs(s) => req[s].alone /\ Accounts(req[s]) \intersect Accounts(q) = {}
  OBVIOUS
<1> HIDE DEF mine, theirs
<1>5. /\ req'[t] = [q EXCEPT !.alone = mine] /\ Sound(req'[t]) /\ req'[t].alone = mine
  BY <1>1, <1>2, AloneIrrelevant
<1>6. ASSUME NEW s \in Thread \ {t}
      PROVE  /\ req'[s] = [req[s] EXCEPT !.alone = theirs(s)] /\ Sound(req'[s])
             /\ req'[s].alone = theirs(s)
  BY <1>0, <1>1, <1>2, AloneIrrelevant
<1>7. \A s \in Thread : Sound(req'[s])
  BY <1>5, <1>6
<1>8. req' \in [Thread -> Request]
  BY <1>1, <1>7 DEF Sound
<1> QED
  BY <1>2, <1>3, <1>4, <1>5, <1>6, <1>7, <1>8
Answer == {"unknown", "suspended", "locked", "open"}

\* What a command makes of an account is an account.
LEMMA AfterType ==
    ASSUME TypeInv, NEW q, Sound(q), q.pc \in Command
    PROVE  After(q) \in Account
<1>1. q.user \in User /\ q.expire \in Expiry \union {Keep} /\ q.lock \in BOOLEAN /\ host[q.user] \in Account
  BY DEF TypeInv, TypeOK, Sound, OnOne, Request, Command
<1>2. q.pc = "useradd" => q.expire \in Expiry
  BY DEF Sound, Shape
<1>3. \A a \in Account, e \in Expiry, b \in BOOLEAN :
         /\ [a EXCEPT !.locked = b] \in Account /\ [a EXCEPT !.expire = e] \in Account
         /\ [exists |-> TRUE, locked |-> TRUE, expire |-> e] \in Account
  BY DEF Account
<1>4. CASE q.pc = "useradd"
  BY <1>1, <1>2, <1>3, <1>4 DEF After
<1>5. CASE q.pc \in {"chpasswd", "lock"}
  <2>1. /\ [host[q.user] EXCEPT !.locked = FALSE] \in Account
        /\ [host[q.user] EXCEPT !.locked = q.lock] \in Account
    BY <1>1 DEF Account
  <2> QED
    BY <1>5, <2>1 DEF After
<1>6. CASE q.pc = "expire"
  <2>1. After(q) = IF q.expire # Keep THEN [host[q.user] EXCEPT !.expire = q.expire] ELSE host[q.user]
    BY <1>6 DEF After
  <2> QED
    BY <1>1, <1>3, <2>1
<1>7. CASE q.pc = "userdel"
  BY <1>7, Values DEF After
<1> QED
  BY <1>4, <1>5, <1>6, <1>7 DEF Command

\* The steps of a request keep the types.
LEMMA RequestTypes ==
    ASSUME TypeInv, NEW t \in Thread, RequestStep(t)
    PROVE  /\ host' \in [User -> Account] /\ profile' \in [User -> Row]
           /\ session' \in [Terminal -> Session] /\ told' \in [User -> Answer]
           /\ faults' \in 0..MaxFaults
           /\ UNCHANGED <<day, enf, requests, logins>>
<1> USE SshConstants, Values DEF TypeInv, TypeOK, Answer
<1>0. Sound(req[t]) /\ req[t].row \in Row
  BY DEF Sound, Request
<1>1. \A x \in Answer : Told(req[t], x) \in [User -> Answer]
  BY DEF Told
<1>2. CASE Run(t)
  <2>1. After(req[t]) \in Account
    BY <1>0, <1>2, AfterType DEF Run
  <2>2. told' \in [User -> Answer]
    BY <1>1, <1>2 DEF Run
  <2> QED
    BY <1>2, <2>1, <2>2 DEF Run
<1>3. CASE RunFails(t)
  <2>1. faults' \in 0..MaxFaults
    BY <1>3 DEF RunFails, Fault
  <2>2. host' \in {host, [host EXCEPT ![req[t].user] = NoAccount]}
    BY <1>3 DEF RunFails
  <2>3. host' \in [User -> Account]
    BY <2>2
  <2> QED
    BY <1>3, <2>1, <2>3 DEF RunFails
<1>4. CASE WriteRow(t)
  <2>1. told' \in [User -> Answer]
    BY <1>1, <1>4 DEF WriteRow
  <2> QED
    BY <1>0, <1>4, <2>1 DEF WriteRow
<1>5. CASE DeleteRow(t)
  BY <1>5 DEF DeleteRow
<1>6. CASE CloseOwn(t)
  BY <1>6 DEF CloseOwn
<1>7. CASE (\E u \in User : NextAccount(t, u)) \/ ReadRow(t) \/ ListOwn(t)
  BY <1>7 DEF NextAccount, ReadRow, ListOwn
<1> QED
  BY <1>2, <1>3, <1>4, <1>5, <1>6, <1>7 DEF RequestStep

\* Every step keeps the types.
LEMMA TypesKept == TypeInv /\ [Next]_vars => TypeInv'
<1> SUFFICES ASSUME TypeInv, [Next]_vars
             PROVE  TypeInv'
  OBVIOUS
<1> USE SshConstants, Values
<1>t. /\ day \in 1..MaxDay /\ host \in [User -> Account] /\ profile \in [User -> Row]
      /\ session \in [Terminal -> Session] /\ enf \in Pass /\ req \in [Thread -> Request]
      /\ told \in [User -> Answer] /\ lapsed \subseteq User /\ steady \subseteq Terminal
      /\ requests \in 0..MaxRequests /\ logins \in 0..MaxLogins /\ faults \in 0..MaxFaults
      /\ \A s \in Thread : Sound(req[s])
  BY DEF TypeInv, TypeOK, Answer
<1>h. History => lapsed' \subseteq User /\ steady' \subseteq Terminal
  BY <1>t DEF History
<1>0. SUFFICES ASSUME Next
               PROVE  /\ day' \in 1..MaxDay /\ host' \in [User -> Account] /\ profile' \in [User -> Row]
                      /\ session' \in [Terminal -> Session] /\ enf' \in Pass /\ req' \in [Thread -> Request]
                      /\ told' \in [User -> Answer]
                      /\ requests' \in 0..MaxRequests /\ logins' \in 0..MaxLogins
                      /\ faults' \in 0..MaxFaults
                      /\ \A s \in Thread : Sound(req'[s])
  <2>1. CASE UNCHANGED vars
    BY ZenonT(60), <2>1 DEF vars, TypeInv, TypeOK, Sound, OnOne, Shape
  <2>2. CASE Next
    <3>1. History
      BY <2>2 DEF Next
    <3> QED
      BY <1>0, <1>h, <2>2, <3>1 DEF TypeInv, TypeOK, Answer, Sound, OnOne, Shape
  <2> QED
    BY <2>1, <2>2
<1>1. CASE EnforcerStep \/ AbortPass
  BY <1>1, <1>t, EnforcerTypes
<1>2. CASE Crash
  BY <1>2, <1>t DEF Crash, Fault, Sound
<1>3. CASE NewDay
  BY <1>3, <1>t DEF NewDay
<1>4. ASSUME NEW t \in Thread, RequestStep(t)
      PROVE  /\ day' \in 1..MaxDay /\ host' \in [User -> Account] /\ profile' \in [User -> Row]
             /\ session' \in [Terminal -> Session] /\ enf' \in Pass /\ req' \in [Thread -> Request]
             /\ told' \in [User -> Answer]
             /\ requests' \in 0..MaxRequests /\ logins' \in 0..MaxLogins /\ faults' \in 0..MaxFaults
             /\ \A s \in Thread : Sound(req'[s])
  <2>1. req' = [req EXCEPT ![t] = req'[t]] /\ Sound(req'[t])
    BY <1>4, StepContinues DEF Continues
  <2>2. \A s \in Thread : Sound(req'[s])
    BY <1>t, <2>1
  <2>3. req' \in [Thread -> Request]
    BY <1>t, <2>1 DEF Sound
  <2> QED
    BY <1>4, <1>t, <2>2, <2>3, RequestTypes
<1>5. ASSUME NEW t \in Thread, Arrives(t)
      PROVE  /\ day' \in 1..MaxDay /\ host' \in [User -> Account] /\ profile' \in [User -> Row]
             /\ session' \in [Terminal -> Session] /\ enf' \in Pass /\ req' \in [Thread -> Request]
             /\ told' \in [User -> Answer]
             /\ requests' \in 0..MaxRequests /\ logins' \in 0..MaxLogins /\ faults' \in 0..MaxFaults
             /\ \A s \in Thread : Sound(req'[s])
  <2>1. PICK q : Begin(t, q) /\ Fresh(q)
    BY <1>5, Arrival
  <2>2. req' \in [Thread -> Request] /\ \A s \in Thread : Sound(req'[s])
    BY <2>1, ArrivalMeets DEF Fresh
  <2>3. told' \in [User -> Answer]
    BY <1>t, <2>1 DEF Begin, Answer
  <2>4. requests' \in 0..MaxRequests /\ UNCHANGED <<day, host, profile, session, enf, logins, faults>>
    <3>1. requests < MaxRequests /\ requests' = requests + 1
      BY <2>1 DEF Begin
    <3>2. UNCHANGED <<day, host, profile, session, enf, logins, faults>>
      BY <2>1 DEF Begin
    <3> QED
      BY <1>t, <3>1, <3>2
  <2> QED
    BY <1>t, <2>2, <2>3, <2>4
<1>6. ASSUME NEW u \in User, NEW a \in Address \union {NoAddress}, Login(u, a)
      PROVE  session' \in [Terminal -> Session] /\ logins' \in 0..MaxLogins
             /\ UNCHANGED <<day, host, profile, enf, req, told, requests, faults>>
  <2>1. [user |-> u, from |-> a] \in Session
    BY DEF Session
  <2> QED
    BY <1>6, <1>t, <2>1 DEF Login
<1>7. ASSUME NEW t \in Terminal, Logout(t)
      PROVE  session' \in [Terminal -> Session]
             /\ UNCHANGED <<day, host, profile, enf, req, told, requests, logins, faults>>
  BY <1>7, <1>t DEF Logout
<1> QED
  BY <1>0, <1>t, <1>1, <1>2, <1>3, <1>4, <1>5, <1>6, <1>7 DEF Next

\* Every variable has its type, and every request the steps of its operation.
LEMMA TypesAlways == Spec => []TypeInv
  BY TypesAtFirst, TypesKept, PTL DEF Spec

\* Every variable has its type: host accounts, rows, sessions, the pass of the
\* enforcer and the requests of app/main.py.
THEOREM TypeCorrect == Spec => []TypeOK
<1>1. TypeInv => TypeOK
  BY DEF TypeInv
<1> QED
  BY <1>1, TypesAlways, PTL
-----------------------------------------------------------------------------
(* The locks.  An answer can only be given by a request that is alone with    *)
(* the account, and stands until the next request about the lock begins: what *)
(* goes on in between is extensions, which keep the lock and a flag that is   *)
(* off, and passes of the enforcer, which lock those whose row has ended.     *)

Apart ==
    \A t \in Thread : \A s \in Thread \ {t} :
        req[t].alone => Accounts(req[t]) \intersect Accounts(req[s]) = {}

\* No answer stands about an account whose lock a request is about.
InHand ==
    \A t \in Thread : \A u \in Accounts(req[t]) :
        req[t].op \notin Silent => told[u] = "unknown"

\* What an extension has read, and will write, of a suspended account.
Extending ==
    \A t \in Thread :
        req[t].op = "bulk extend" =>
            /\ \A u \in req[t].rest : told[u] = "suspended" => ~req[t].rows[u].enabled
            /\ req[t].pc \in {"expire", "profile"} /\ told[req[t].user] = "suspended"
                  => ~req[t].row.enabled

\* The lock of an account is q's, but for the enforcer.
LockIs(u, locked) ==
    host[u].exists => IF locked THEN host[u].locked ELSE host[u].locked => u \in lapsed

\* A request that is about to answer has set the lock.
AsAsked ==
    \A t \in Thread :
        req[t].alone /\ req[t].pc \in {"read", "profile"} /\ req[t].op # "bulk extend"
            => LockIs(req[t].user, req[t].lock)

\* The enforcer locks those whose row, as it has read it, has ended.
Lapsing ==
    \A u \in User : EndedRow(enf.rows[u]) \/ enf.verdict[u].lock => u \in lapsed

Answers == SuspendedStays /\ OpenUnlessEnded

SshInv == Apart /\ InHand /\ Extending /\ AsAsked /\ Lapsing /\ Answers

-----------------------------------------------------------------------------
\* At first no request is under way, and every account is open.
LEMMA SshInvInit == Init => SshInv
<1> SUFFICES ASSUME Init
             PROVE  SshInv
  OBVIOUS
<1> USE SshConstants
<1>1. \A t \in Thread : req[t] = NoRequest
  BY DEF Init
<1>0. \A t \in Thread : Accounts(req[t]) = {} /\ req[t].alone = FALSE /\ req[t].op = "disconnect"
  BY <1>1 DEF NoRequest, Accounts
<1>2. Apart /\ InHand /\ Extending /\ AsAsked
  BY <1>0 DEF Apart, InHand, Extending, AsAsked
<1>3. \A u \in User : enf.rows[u] = NoRow /\ enf.verdict[u] = NoVerdict
  BY DEF Init, NoPass, NoRows
<1>4. Lapsing
  BY <1>3 DEF Lapsing, EndedRow, NoRow, NoVerdict
<1>5. \A u \in User : told[u] \in {"open", "unknown"} /\ ~host[u].locked
  BY DEF Init
<1>6. Answers
  BY <1>5 DEF Answers, SuspendedStays, OpenUnlessEnded
<1> QED
  BY <1>2, <1>4, <1>6 DEF SshInv

\* A request that is at an account has it among its accounts.
LEMMA AtAccount ==
    ASSUME NEW q, Sound(q)
    PROVE  /\ q.rest \subseteq Accounts(q) /\ Nobody \notin Accounts(q)
           /\ q.pc \notin {"idle", "next"} => q.user \in User /\ q.user \in Accounts(q)
           /\ q.pc = "idle" => Accounts(q) = {}
BY SshConstants DEF Sound, OnOne, Request, Accounts

\* History only adds, and an ended row is noted at once.
LEMMA LapsedGrows ==
    History => /\ lapsed \subseteq lapsed'
               /\ \A u \in User : EndedRow(enf.rows[u])' => u \in lapsed'
BY DEF History

\* The rows in the enforcer's hands are noted, and so are those it will lock.
LEMMA LapsingKept ==
    ASSUME TypeInv, SshInv, Next
    PROVE  Lapsing'
<1>1. History /\ lapsed \subseteq lapsed' /\ \A u \in User : EndedRow(enf.rows[u])' => u \in lapsed'
  BY LapsedGrows DEF Next
<1>2. SUFFICES ASSUME NEW u \in User, enf'.verdict[u].lock
               PROVE  u \in lapsed'
  BY <1>1 DEF Lapsing, EndedRow
<1>3. enf.verdict[u].lock \/ EndedRow(enf.rows[u]) => u \in lapsed'
  BY <1>1 DEF SshInv, Lapsing
<1>4. enf \in Pass
  BY DEF TypeInv, TypeOK
<1>5. CASE ReadRows \/ enf' = enf
  <2>1. enf'.verdict = enf.verdict
    BY <1>4, <1>5 DEF ReadRows, Pass
  <2> QED
    BY <1>2, <1>3, <2>1
<1>6. CASE ListSessions
  <2>1. PICK list : enf'.verdict = [v \in User |-> Decide(enf.rows[v], list, v)]
    BY <1>4, <1>6 DEF ListSessions, Pass
  <2>2. Decide(enf.rows[u], list, u).lock
    BY <1>2, <2>1
  <2>3. EndedRow(enf.rows[u])
    BY <2>2 DEF Decide, EndedRow, NoVerdict
  <2> QED
    BY <1>3, <2>3
<1>7. ASSUME NEW v \in User, LockExpired(v)
      PROVE  u \in lapsed'
  <2>1. enf'.verdict[u].lock => enf.verdict[u].lock
    <3>1. enf.verdict[v] \in Verdict /\ v \in User
      BY <1>4 DEF Pass
    <3>2. enf'.verdict \in {[enf.verdict EXCEPT ![v] = NoVerdict],
                            [enf.verdict EXCEPT ![v] = [enf.verdict[v] EXCEPT !.lock = FALSE]]}
      BY <1>4, <1>7 DEF LockExpired, Pass
    <3>3. ~NoVerdict.lock /\ ~[enf.verdict[v] EXCEPT !.lock = FALSE].lock
      BY <3>1 DEF NoVerdict, Verdict
    <3> QED
      BY <1>4, <3>2, <3>3 DEF Pass
  <2> QED
    BY <1>2, <1>3, <2>1
<1>8. ASSUME NEW v \in User, Disconnect(v)
      PROVE  u \in lapsed'
  <2>1. enf'.verdict[u].lock => enf.verdict[u].lock
    BY <1>4, <1>8 DEF Disconnect, Pass, Verdict
  <2> QED
    BY <1>2, <1>3, <2>1
<1>9. CASE EndPass \/ AbortPass
  BY <1>2, <1>9 DEF EndPass, AbortPass, NoPass, NoVerdict
<1>10. CASE Crash \/ NewDay
  BY <1>5, <1>10 DEF Crash, NewDay
<1>11. ASSUME NEW t \in Thread, RequestStep(t) \/ Arrives(t)
       PROVE  enf' = enf
  <2>1. CASE RequestStep(t)
    BY <2>1, RequestTypes
  <2>2. CASE Arrives(t)
    BY <2>2, Arrival DEF Begin
  <2> QED
    BY <1>11, <2>1, <2>2
<1>12. ASSUME NEW v \in User, NEW a \in Address \union {NoAddress}, Login(v, a)
       PROVE  enf' = enf
  BY <1>12 DEF Login
<1>13. ASSUME NEW t \in Terminal, Logout(t)
       PROVE  enf' = enf
  BY <1>13 DEF Logout
<1> QED
  BY <1>5, <1>6, <1>7, <1>8, <1>9, <1>10, <1>11, <1>12, <1>13 DEF Next, EnforcerStep
\* A step that leaves rows, requests and answers, and locks only what has lapsed.
LEMMA HostKept ==
    ASSUME TypeInv, SshInv, lapsed \subseteq lapsed', UNCHANGED <<profile, req, told>>,
           \A u \in User : /\ host'[u].exists = host[u].exists
                           /\ \/ host'[u].locked = host[u].locked
                              \/ host'[u].locked /\ u \in lapsed
    PROVE  Apart' /\ InHand' /\ Extending' /\ AsAsked' /\ Answers'
<1>1. Apart' /\ InHand' /\ Extending'
  BY DEF SshInv, Apart, InHand, Extending
<1>2. \A u \in User, b \in BOOLEAN : LockIs(u, b) => LockIs(u, b)'
  BY DEF LockIs
<1>3. \A t \in Thread : req[t].pc = "read" \/ req[t].pc = "profile"
                           => req[t].user \in User /\ req[t].lock \in BOOLEAN
  BY AtAccount DEF TypeInv, Sound, Request
<1>4. AsAsked'
  <2> SUFFICES ASSUME NEW t \in Thread, req[t].alone, req[t].pc \in {"read", "profile"},
                      req[t].op # "bulk extend"
               PROVE  LockIs(req[t].user, req[t].lock)'
    BY DEF AsAsked
  <2>1. LockIs(req[t].user, req[t].lock)
    BY DEF SshInv, AsAsked
  <2>2. req'[t] = req[t]
    OBVIOUS
  <2> QED
    BY <1>3, <2>1, <2>2 DEF LockIs
<1>5. Answers'
  BY DEF SshInv, Answers, SuspendedStays, OpenUnlessEnded
<1> QED
  BY <1>1, <1>4, <1>5

\* The enforcer and the outside world.
LEMMA OutsideKept ==
    ASSUME TypeInv, SshInv, History,
           \/ EnforcerStep \/ AbortPass \/ NewDay
           \/ \E u \in User, a \in Address \union {NoAddress} : Login(u, a)
           \/ \E t \in Terminal : Logout(t)
    PROVE  Apart' /\ InHand' /\ Extending' /\ AsAsked' /\ Answers'
<1>1. lapsed \subseteq lapsed'
  BY LapsedGrows
<1>2. host \in [User -> Account]
  BY DEF TypeInv, TypeOK
<1>3. UNCHANGED <<profile, req, told>>
  BY EnforcerTypes DEF NewDay, Login, Logout
<1>4. ASSUME NEW v \in User, LockExpired(v)
      PROVE  \A u \in User : /\ host'[u].exists = host[u].exists
                             /\ \/ host'[u].locked = host[u].locked
                                \/ host'[u].locked /\ u \in lapsed
  <2>1. v \in lapsed
    BY <1>4 DEF LockExpired, Locking, SshInv, Lapsing
  <2>2. host' \in {host, [host EXCEPT ![v].locked = TRUE]}
    BY <1>4 DEF LockExpired
  <2> QED
    BY <1>2, <2>1, <2>2 DEF Account
<1>5. (\E u \in User : LockExpired(u)) \/ host' = host
  BY DEF EnforcerStep, ReadRows, ListSessions, Disconnect, EndPass, AbortPass, NewDay, Login, Logout
<1> QED
  BY <1>1, <1>3, <1>4, <1>5, HostKept

\* The web process dies: no request is under way any more.
LEMMA CrashKept ==
    ASSUME TypeInv, SshInv, Crash, lapsed \subseteq lapsed'
    PROVE  Apart' /\ InHand' /\ Extending' /\ AsAsked' /\ Answers'
<1>1. \A t \in Thread : req'[t] = NoRequest
  BY DEF Crash
<1>2. \A t \in Thread : Accounts(req'[t]) = {} /\ req'[t].alone = FALSE /\ req'[t].op = "disconnect"
  BY <1>1 DEF NoRequest, Accounts
<1>3. Apart' /\ InHand' /\ Extending' /\ AsAsked'
  BY <1>2 DEF Apart, InHand, Extending, AsAsked
<1>4. Answers'
  BY DEF Crash, SshInv, Answers, SuspendedStays, OpenUnlessEnded
<1> QED
  BY <1>3, <1>4

\* A request arrives.
LEMMA ArrivalKept ==
    ASSUME TypeInv, SshInv, NEW t \in Thread, Arrives(t), lapsed \subseteq lapsed'
    PROVE  Apart' /\ InHand' /\ Extending' /\ AsAsked' /\ Answers'
<1>1. PICK q : Begin(t, q) /\ Fresh(q)
  BY Arrival
<1>2. /\ told' = [u \in User |-> IF u \in Accounts(q) /\ q.op \notin Silent THEN "unknown" ELSE told[u]]
      /\ UNCHANGED <<host, profile>> /\ req[t].pc = "idle"
  BY <1>1 DEF Begin, Silent
<1>3. /\ \E a \in BOOLEAN : req'[t] = [q EXCEPT !.alone = a]
      /\ req'[t].alone => \A s \in Thread \ {t} : Accounts(req[s]) \intersect Accounts(q) = {}
      /\ \A s \in Thread \ {t} :
            /\ \E a \in BOOLEAN : req'[s] = [req[s] EXCEPT !.alone = a]
            /\ req'[s].alone => req[s].alone /\ Accounts(req[s]) \intersect Accounts(q) = {}
  BY <1>1, ArrivalMeets DEF Fresh
<1>4. \A s \in Thread : Sound(req[s]) /\ Accounts(req[s]) \subseteq User
  BY DEF TypeInv, Accounts, Sound, Request
<1>5. /\ Accounts(req'[t]) = Accounts(q) /\ req'[t].op = q.op /\ req'[t].pc = q.pc
      /\ req'[t].rest = q.rest /\ req'[t].rows = q.rows
  <2>1. PICK a \in BOOLEAN : req'[t] = [q EXCEPT !.alone = a]
    BY <1>3
  <2>2. Sound(q)
    BY <1>1 DEF Fresh
  <2> QED
    BY <2>1, <2>2, AloneIrrelevant
<1>6. \A s \in Thread \ {t} :
         /\ Accounts(req'[s]) = Accounts(req[s]) /\ req'[s].op = req[s].op /\ req'[s].pc = req[s].pc
         /\ req'[s].rest = req[s].rest /\ req'[s].rows = req[s].rows /\ req'[s].row = req[s].row
         /\ req'[s].user = req[s].user /\ req'[s].lock = req[s].lock
  <2> TAKE s \in Thread \ {t}
  <2>1. PICK a \in BOOLEAN : req'[s] = [req[s] EXCEPT !.alone = a]
    BY <1>3
  <2>2. Sound(req[s])
    BY <1>4
  <2> QED
    BY <2>1, <2>2, AloneIrrelevant
<1>7. \A u \in User : told'[u] \in {"unknown", told[u]}
  BY <1>2
<1>8. Apart'
  BY <1>3, <1>5, <1>6 DEF SshInv, Apart
<1>9. InHand'
  BY ZenonT(60), <1>1, <1>2, <1>4, <1>5, <1>6, <1>7 DEF SshInv, InHand, Fresh
<1>10. Extending'
  <2>1. ASSUME NEW s \in Thread \ {t}, req[s].op = "bulk extend"
        PROVE  /\ \A u \in req'[s].rest : told'[u] = "suspended" => ~req'[s].rows[u].enabled
               /\ req'[s].pc \in {"expire", "profile"} /\ told'[req'[s].user] = "suspended"
                     => ~req'[s].row.enabled
    <3>1. Sound(req[s]) /\ req[s].rest \subseteq User
      BY <1>4, AtAccount
    <3>2. req[s].pc \in {"expire", "profile"} => req[s].user \in User
      BY <3>1, AtAccount
    <3>3. /\ \A u \in req[s].rest : told[u] = "suspended" => ~req[s].rows[u].enabled
          /\ req[s].pc \in {"expire", "profile"} /\ told[req[s].user] = "suspended"
                => ~req[s].row.enabled
      BY <2>1 DEF SshInv, Extending
    <3> QED
      BY <1>6, <1>7, <3>1, <3>2, <3>3
  <2>2. ASSUME q.op = "bulk extend", NEW u \in q.rest, told'[u] = "suspended"
        PROVE  ~q.rows[u].enabled
    <3>1. u \in User /\ q.rows = profile /\ told[u] = "suspended"
      BY <1>1, <1>7, <2>2, AtAccount DEF Fresh, Sound
    <3> QED
      BY <3>1 DEF SshInv, Answers, SuspendedStays
  <2>3. q.op = "bulk extend" => q.pc = "next"
    BY <1>1 DEF Fresh
  <2> QED
    BY ZenonT(60), <1>5, <1>6, <2>1, <2>2, <2>3 DEF Extending
<1>11. AsAsked'
  <2> SUFFICES ASSUME NEW s \in Thread, req'[s].alone, req'[s].pc \in {"read", "profile"},
                      req'[s].op # "bulk extend"
               PROVE  LockIs(req[s].user, req[s].lock)' 
    BY DEF AsAsked
  <2>1. s # t
    BY <1>1, <1>5 DEF Fresh
  <2>2. LockIs(req[s].user, req[s].lock)
    BY <1>3, <1>6, <2>1 DEF SshInv, AsAsked
  <2> QED
    BY <1>2, <1>6, <2>1, <2>2 DEF LockIs
<1>12. Answers'
  BY <1>2, <1>7 DEF SshInv, Answers, SuspendedStays, OpenUnlessEnded
<1> QED
  BY <1>8, <1>9, <1>10, <1>11, <1>12
\* What a step of a request may do to what has been told: an answer, at its end with
\* an account, that it alone is about.
LEMMA OnlyAnswers ==
    ASSUME TypeInv, NEW t \in Thread, RequestStep(t)
    PROVE  \/ told' = told
           \/ /\ \E x : told' = [told EXCEPT ![req[t].user] = x]
              /\ req[t].alone /\ req[t].op \notin Silent
              /\ req[t].pc \notin {"idle", "next"} /\ req[t].user \notin Accounts(req'[t])
<1> DEFINE q == req[t]
<1>0. Sound(q) /\ req \in [Thread -> Request]
  BY DEF TypeInv, TypeOK
<1>1. ASSUME req' = [req EXCEPT ![t] = Left(q)], q.pc \notin {"idle", "next"},
             q.op \notin Silent, \E x : told' = Told(q, x)
      PROVE  \/ told' = told
             \/ /\ \E x : told' = [told EXCEPT ![q.user] = x]
                /\ q.alone /\ q.op \notin Silent
                /\ q.pc \notin {"idle", "next"} /\ q.user \notin Accounts(req'[t])
  <2>1. Accounts(req'[t]) = q.rest
    BY <1>0, <1>1, LeftSound
  <2> QED
    BY <1>0, <1>1, <2>1 DEF Told, Sound, OnOne
<1>2. CASE Run(t)
  <2>1. CASE q.pc = "lock" /\ q.op \in {"bulk lock", "bulk unlock"}
    <3>1. req' = [req EXCEPT ![t] = Left(q)]
      BY <1>2, <2>1 DEF Run, Following
    <3>2. \E x : told' = Told(q, x)
      BY <1>2, <2>1 DEF Run
    <3> QED
      BY <1>1, <2>1, <3>1, <3>2 DEF Silent
  <2> QED
    BY <1>2, <2>1 DEF Run
<1>3. CASE WriteRow(t)
  <2>1. CASE q.op = "bulk extend"
    BY <1>3, <2>1 DEF WriteRow
  <2>2. CASE q.op # "bulk extend"
    <3>1. q.pc = "profile" /\ req' = [req EXCEPT ![t] = Left(q)] /\ \E x : told' = Told(q, x)
      BY <1>3, <2>2 DEF WriteRow
    <3>2. q.op \notin Silent
      BY <1>0, <2>2, <3>1 DEF Sound, Shape, Silent
    <3> QED
      BY <1>1, <3>1, <3>2
  <2> QED
    BY <2>1, <2>2
<1>4. CASE (\E u \in User : NextAccount(t, u)) \/ RunFails(t) \/ ReadRow(t) \/ DeleteRow(t)
           \/ ListOwn(t) \/ CloseOwn(t)
  BY <1>4 DEF NextAccount, RunFails, ReadRow, DeleteRow, ListOwn, CloseOwn
<1> QED
  BY <1>2, <1>3, <1>4 DEF RequestStep

\* The request that answers about an account is the only one there, so that
\* what the others hold stays true.
LEMMA RequestsKept ==
    ASSUME TypeInv, SshInv, NEW t \in Thread, RequestStep(t)
    PROVE  /\ Apart' /\ InHand'
           /\ \A s \in Thread \ {t} : req'[s] = req[s] /\ \A u \in Accounts(req[s]) : told'[u] = told[u]
           /\ \A u \in Accounts(req'[t]) : told'[u] = told[u]
<1>1. /\ req' = [req EXCEPT ![t] = req'[t]] /\ Continues(req[t], req'[t])
      /\ req \in [Thread -> Request] /\ told \in [User -> Answer]
      /\ \A s \in Thread : Sound(req[s]) /\ Accounts(req[s]) \subseteq User
  BY StepContinues DEF TypeInv, TypeOK, Answer, Sound, Request, Accounts
<1>2. \A s \in Thread \ {t} : req'[s] = req[s]
  BY <1>1
<1>3. Apart'
  BY <1>1, <1>2 DEF SshInv, Apart, Continues
<1>4. \A s \in Thread \ {t} : \A u \in Accounts(req[s]) : told'[u] = told[u]
  BY <1>1, OnlyAnswers, AtAccount DEF SshInv, Apart
<1>5. \A u \in Accounts(req'[t]) : told'[u] = told[u]
  BY <1>1, OnlyAnswers DEF Continues
<1>6. InHand'
  BY <1>1, <1>2, <1>4, <1>5 DEF SshInv, InHand, Continues
<1> QED
  BY <1>2, <1>3, <1>4, <1>5, <1>6

\* The row an extension is going to write is the one it has read, with a later end.
LEMMA ExtendingKept ==
    ASSUME TypeInv, SshInv, NEW t \in Thread, RequestStep(t)
    PROVE  Extending'
<1> DEFINE q == req[t]
           r == req'[t]
<1>1. /\ Sound(q) /\ Continues(q, r) /\ req \in [Thread -> Request]
      /\ req' = [req EXCEPT ![t] = r]
      /\ \A s \in Thread : Sound(req[s]) /\ Sound(req'[s])
  BY StepContinues DEF TypeInv, TypeOK, Continues
<1>2. /\ \A s \in Thread \ {t} : req'[s] = req[s] /\ \A u \in Accounts(req[s]) : told'[u] = told[u]
      /\ \A u \in Accounts(r) : told'[u] = told[u]
  BY RequestsKept
<1>3. ASSUME NEW s \in Thread \ {t}, req[s].op = "bulk extend"
      PROVE  /\ \A u \in req[s].rest : told'[u] = "suspended" => ~req[s].rows[u].enabled
             /\ req[s].pc \in {"expire", "profile"} /\ told'[req[s].user] = "suspended"
                   => ~req[s].row.enabled
  <2>1. /\ req[s].rest \subseteq Accounts(req[s])
        /\ req[s].pc \in {"expire", "profile"} => req[s].user \in Accounts(req[s])
    BY <1>1, AtAccount
  <2>2. /\ \A u \in req[s].rest : told[u] = "suspended" => ~req[s].rows[u].enabled
        /\ req[s].pc \in {"expire", "profile"} /\ told[req[s].user] = "suspended"
              => ~req[s].row.enabled
    BY <1>3 DEF SshInv, Extending
  <2>3. \A u \in Accounts(req[s]) : told'[u] = told[u]
    BY <1>2
  <2> QED
    BY <2>1, <2>2, <2>3
<1>4. ASSUME r.op = "bulk extend", NEW u \in r.rest, told'[u] = "suspended"
      PROVE  ~r.rows[u].enabled
  <2>1. u \in Accounts(r) /\ u \in q.rest /\ q.op = "bulk extend" /\ r.rows = q.rows
    BY <1>1, <1>4, AtAccount DEF Continues
  <2> QED
    BY <1>2, <1>4, <2>1 DEF SshInv, Extending
<1>5. ASSUME r.op = "bulk extend", r.pc \in {"expire", "profile"}, told'[r.user] = "suspended"
      PROVE  ~r.row.enabled
  <2>1. r.user \in Accounts(r) /\ r.user \in User
    BY <1>1, <1>5, AtAccount DEF Continues
  <2>2. q.op = "bulk extend" /\ told[r.user] = "suspended"
    BY <1>1, <1>2, <1>5, <2>1 DEF Continues
  <2>3. ASSUME NEW u \in User, NextAccount(t, u)
        PROVE  ~r.row.enabled
    <3> DEFINE row == Extended(q.rows[u])
               n   == [q EXCEPT !.user = u, !.rest = @ \ {u}]
    <3>1. q \in Request /\ u \in q.rest /\ q.rows[u] \in Row
      BY <1>1, <2>3 DEF NextAccount, Sound, Request
    <3>2. n \in Request /\ n.op = "bulk extend" /\ n.user = u
      BY <2>2, <3>1 DEF Request
    <3>3. r = [n EXCEPT !.pc = "expire", !.expire = row.expire, !.row = row]
      BY <1>1, <2>3, <3>2 DEF NextAccount
    <3> HIDE DEF row, n
    <3>4. r.row = row /\ r.user = u
      BY <3>2, <3>3 DEF Request
    <3>5. ~q.rows[u].enabled
      BY <2>2, <3>1, <3>4 DEF SshInv, Extending
    <3>6. row.enabled = q.rows[u].enabled
      BY <3>1, ExtendedRow DEF TypeInv, row
    <3> HIDE DEF r
    <3> QED
      BY <3>4, <3>5, <3>6
  <2>4. ASSUME r.row = q.row, r.user = q.user, q.pc = "expire"
        PROVE  ~r.row.enabled
    BY <2>2, <2>4 DEF SshInv, Extending
  <2>5. CASE Run(t)
    <3>1. q.pc = "expire" /\ r = Following(q)
      <4>1. q.pc \in Command /\ r = Following(q)
        BY <1>1, <2>5 DEF Run
      <4>2. q.pc = "expire"
        BY <1>1, <2>2, <4>1 DEF Command, Sound, Shape
      <4> QED
        BY <4>1, <4>2
    <3>2. r = [q EXCEPT !.pc = "profile"]
      BY <2>2, <3>1 DEF Following
    <3>3. r.row = q.row /\ r.user = q.user
      BY <1>1, <3>2 DEF Sound, Request
    <3> QED
      BY <2>4, <3>1, <3>3
  <2>6. CASE RunFails(t) \/ WriteRow(t)
    <3>1. r = Left(q)
      BY <1>1, <2>6 DEF RunFails, WriteRow
    <3>2. Left(q).pc \in {"idle", "next"}
      BY <1>1, LeftSound DEF NoRequest
    <3> QED
      BY <1>5, <3>1, <3>2
  <2>7. CASE ReadRow(t) \/ DeleteRow(t) \/ ListOwn(t) \/ CloseOwn(t)
    BY <1>1, <2>2, <2>7 DEF ReadRow, DeleteRow, ListOwn, CloseOwn, Sound, Shape
  <2> QED
    BY <2>3, <2>5, <2>6, <2>7 DEF RequestStep
<1> QED
  BY <1>2, <1>3, <1>4, <1>5 DEF Extending

\* What a step of a request does to the host: only at its account, and an extension
\* leaves the lock.
LEMMA HostChanges ==
    ASSUME TypeInv, NEW t \in Thread, RequestStep(t)
    PROVE  \/ host' = host
           \/ LET q == req[t]
              IN  /\ q.pc \in Command /\ profile' = profile
                  /\ \A v \in User \ {q.user} : host'[v] = host[v]
                  /\ q.op = "bulk extend" => /\ host'[q.user].locked = host[q.user].locked
                                             /\ host'[q.user].exists = host[q.user].exists
<1> DEFINE q == req[t]
<1>1. Sound(q) /\ host \in [User -> Account]
  BY DEF TypeInv, TypeOK
<1>2. CASE Run(t)
  <2>1. q.pc \in Command /\ q.user \in User /\ profile' = profile /\ host' = [host EXCEPT ![q.user] = After(q)]
    BY <1>1, <1>2, AtAccount DEF Run, Command
  <2>2. ASSUME q.op = "bulk extend"
        PROVE  After(q).locked = host[q.user].locked /\ After(q).exists = host[q.user].exists
    <3>1. q.pc = "expire"
      BY <1>1, <2>1, <2>2 DEF Command, Sound, Shape
    <3>2. After(q) = IF q.expire # Keep THEN [host[q.user] EXCEPT !.expire = q.expire] ELSE host[q.user]
      BY <3>1 DEF After
    <3>3. host[q.user] \in Account
      BY <1>1, <2>1
    <3> QED
      BY <3>2, <3>3 DEF Account
  <2> QED
    BY <1>1, <2>1, <2>2
<1>3. CASE RunFails(t)
  <2>1. q.pc \in Command /\ profile' = profile
    BY <1>3 DEF RunFails
  <2>2. \/ host' = host
        \/ q.op = "create" /\ host' = [host EXCEPT ![q.user] = NoAccount]
    BY <1>3 DEF RunFails
  <2> QED
    BY <1>1, <2>1, <2>2
<1>4. CASE (\E u \in User : NextAccount(t, u)) \/ ReadRow(t) \/ WriteRow(t) \/ DeleteRow(t)
           \/ ListOwn(t) \/ CloseOwn(t)
  BY <1>4 DEF NextAccount, ReadRow, WriteRow, DeleteRow, ListOwn, CloseOwn
<1> QED
  BY <1>2, <1>3, <1>4 DEF RequestStep
\* What a step of a request does to the rows: only at its account, and only the two
\* steps that write them.
LEMMA RowChanges ==
    ASSUME TypeInv, NEW t \in Thread, RequestStep(t)
    PROVE  \/ profile' = profile
           \/ LET q == req[t]
              IN  /\ q.pc \in {"profile", "unprofile"} /\ host' = host
                  /\ \A v \in User \ {q.user} : profile'[v] = profile[v]
<1>1. profile \in [User -> Row]
  BY DEF TypeInv, TypeOK
<1>2. CASE WriteRow(t) \/ DeleteRow(t)
  BY <1>1, <1>2 DEF WriteRow, DeleteRow
<1>3. CASE (\E u \in User : NextAccount(t, u)) \/ Run(t) \/ RunFails(t) \/ ReadRow(t)
           \/ ListOwn(t) \/ CloseOwn(t)
  BY <1>3 DEF NextAccount, Run, RunFails, ReadRow, ListOwn, CloseOwn
<1> QED
  BY <1>2, <1>3 DEF RequestStep

\* What a command that works makes of the lock, when an answer is to follow it.
LEMMA CommandSetsLock ==
    ASSUME TypeInv, NEW q, Sound(q), q.pc \in Command, q.op # "bulk extend",
           Following(q).pc \in {"read", "profile"} \/ q.op \in {"bulk lock", "bulk unlock"}
    PROVE  After(q).locked <=> q.lock
<1>1. q.user \in User /\ q.lock \in BOOLEAN /\ host[q.user] \in Account /\ q \in Request
  BY DEF TypeInv, TypeOK, Sound, OnOne, Request, Command
<1>2. \/ q.pc = "lock"
      \/ q.pc = "chpasswd" /\ q.op = "create"
  <2>1. q.op \in {"bulk lock", "bulk unlock"} => q.pc = "lock"
    BY DEF Sound, Shape, Command
  <2>2. q.pc = "useradd" => Following(q).pc = "chpasswd" /\ q.op = "create"
    BY <1>1 DEF Following, Request, Sound, Shape
  <2>3. q.pc = "chpasswd" /\ q.op = "update" => Following(q).pc = "expire"
    BY <1>1 DEF Following, Request
  <2>4. q.pc = "expire" => q.op = "update" /\ Following(q).pc = "lock"
    BY <1>1 DEF Following, Request, Sound, Shape
  <2>5. q.pc = "userdel" => Following(q).pc = "unprofile" /\ q.op = "delete"
    BY <1>1 DEF Following, Request, Sound, Shape
  <2> QED
    BY <2>1, <2>2, <2>3, <2>4, <2>5 DEF Sound, Shape, Command
<1>3. CASE q.pc = "lock"
  <2>1. After(q) = [host[q.user] EXCEPT !.locked = q.lock]
    BY <1>3 DEF After
  <2> QED
    BY <1>1, <2>1 DEF Account
<1>4. CASE q.pc = "chpasswd" /\ q.op = "create"
  <2>1. After(q) = [host[q.user] EXCEPT !.locked = FALSE] /\ ~q.lock
    BY <1>4 DEF After, Sound, Shape
  <2> QED
    BY <1>1, <2>1 DEF Account
<1> QED
  BY <1>2, <1>3, <1>4

\* A request that is about to answer has set the lock, and nobody else has touched it.
LEMMA AsAskedKept ==
    ASSUME TypeInv, SshInv, NEW t \in Thread, RequestStep(t), lapsed \subseteq lapsed'
    PROVE  AsAsked'
<1> DEFINE q == req[t]
           r == req'[t]
<1>1. /\ Sound(q) /\ Continues(q, r) /\ req \in [Thread -> Request]
      /\ req' = [req EXCEPT ![t] = r]
      /\ \A s \in Thread : Sound(req[s]) /\ Sound(req'[s])
  BY StepContinues DEF TypeInv, TypeOK, Continues
<1>2. ASSUME NEW s \in Thread \ {t}, req[s].alone, req[s].pc \in {"read", "profile"},
             req[s].op # "bulk extend"
      PROVE  LockIs(req[s].user, req[s].lock)'
  <2>1. LockIs(req[s].user, req[s].lock)
    BY <1>2 DEF SshInv, AsAsked
  <2>2. req[s].user \in User /\ req[s].user \notin Accounts(q)
    BY <1>1, <1>2, AtAccount DEF SshInv, Apart
  <2>3. q.pc \in Command => q.user \in Accounts(q)
    BY <1>1, AtAccount DEF Command
  <2>4. host'[req[s].user] = host[req[s].user] /\ req'[s] = req[s]
    BY <1>1, <2>2, <2>3, HostChanges
  <2> QED
    BY <2>1, <2>4 DEF LockIs
<1>3. ASSUME r.alone, r.pc \in {"read", "profile"}, r.op # "bulk extend"
      PROVE  LockIs(req[t].user, req[t].lock)'
  <2>1. r.user \in Accounts(r) /\ r.user \in User /\ q.op = r.op /\ q.alone
    BY <1>1, <1>3, AtAccount DEF Continues
  <2>2. CASE Run(t)
    <3>1. q.pc \in Command /\ r = Following(q) /\ host' = [host EXCEPT ![q.user] = After(q)]
      BY <1>1, <2>2 DEF Run
    <3>2. After(q).locked <=> q.lock
      BY <1>1, <1>3, <2>1, <3>1, CommandSetsLock
    <3>3. r.user = q.user /\ r.lock = q.lock
      <4>1. CASE q.pc = "lock" /\ q.op \in {"bulk lock", "bulk unlock"}
        <5>1. r = Left(q)
          BY <3>1, <4>1 DEF Following
        <5>2. Left(q).pc \in {"idle", "next"}
          BY <1>1, LeftSound DEF NoRequest
        <5> QED
          BY <1>3, <5>1, <5>2
      <4>2. CASE ~(q.pc = "lock" /\ q.op \in {"bulk lock", "bulk unlock"})
        <5>1. q \in Request
          BY <1>1 DEF Sound
        <5>2. r \in {[q EXCEPT !.pc = pc] : pc \in {"chpasswd", "expire", "lock", "read", "profile", "unprofile"}}
          BY <1>1, <3>1, <4>2 DEF Following, Sound, Shape, Command
        <5> QED
          BY <5>1, <5>2 DEF Request
      <4> QED
        BY <4>1, <4>2
    <3>4. host'[q.user] = After(q)
      BY <2>1, <3>1, <3>3 DEF TypeInv, TypeOK
    <3> QED
      BY <3>2, <3>3, <3>4 DEF LockIs
  <2>3. CASE ReadRow(t)
    <3>1. q.pc = "read" /\ host' = host /\ r.user = q.user /\ r.lock = q.lock
      <4>1. q.pc = "read" /\ host' = host /\ r # NoRequest
        <5>1. NoRequest.pc = "idle"
          BY DEF NoRequest
        <5>2. q.pc = "read" /\ host' = host
          BY <2>3 DEF ReadRow
        <5> HIDE DEF r
        <5> QED
          BY <1>3, <5>1, <5>2
      <4>2. r = [q EXCEPT !.pc = "profile",
                         !.row = [profile[q.user] EXCEPT !.known = TRUE, !.enabled = ~q.lock]]
        BY <1>1, <2>3, <4>1 DEF ReadRow
      <4>3. q \in Request
        BY <1>1 DEF Sound
      <4> QED
        BY <4>1, <4>2, <4>3 DEF Request
    <3>2. LockIs(q.user, q.lock)
      BY <1>3, <2>1, <3>1 DEF SshInv, AsAsked
    <3> QED
      BY <2>1, <3>1, <3>2 DEF LockIs
  <2>4. ASSUME NEW u \in User, NextAccount(t, u)
        PROVE  FALSE
    <3>1. r.pc \in {"expire", "list", "lock"}
      BY <1>1, <2>4 DEF NextAccount, Sound, Request
    <3> QED
      BY <1>3, <3>1
  <2>5. CASE RunFails(t) \/ WriteRow(t) \/ DeleteRow(t)
    <3>1. r = Left(q) \/ r = NoRequest
      BY <1>1, <2>5 DEF RunFails, WriteRow, DeleteRow
    <3>2. Left(q).pc \in {"idle", "next"} /\ NoRequest.pc = "idle"
      BY <1>1, LeftSound DEF NoRequest
    <3> QED
      BY <1>3, <3>1, <3>2
  <2>6. CASE ListOwn(t) \/ CloseOwn(t)
    BY <1>1, <1>3, <2>1, <2>6 DEF ListOwn, CloseOwn, Sound, Shape
  <2> QED
    BY <2>2, <2>3, <2>4, <2>5, <2>6 DEF RequestStep
<1> QED
  BY <1>1, <1>2, <1>3 DEF AsAsked

\* The answers stand.
LEMMA AnswersKept ==
    ASSUME TypeInv, SshInv, NEW t \in Thread, RequestStep(t), lapsed \subseteq lapsed'
    PROVE  Answers'
<1> DEFINE q == req[t]
           Holds(v) ==
              /\ told[v] \in {"suspended", "locked"} /\ host[v].exists => host[v].locked
              /\ told[v] = "suspended" => ~profile[v].enabled
              /\ told[v] = "open" /\ host[v].exists /\ host[v].locked => v \in lapsed
<1>1. /\ Sound(q) /\ q.user \notin q.rest /\ told \in [User -> Answer]
      /\ \A v \in User : Holds(v)
  BY DEF TypeInv, TypeOK, Answer, Sound, OnOne, SshInv, Answers, SuspendedStays, OpenUnlessEnded
<1>2. SUFFICES ASSUME NEW v \in User
               PROVE  /\ told'[v] \in {"suspended", "locked"} /\ host'[v].exists => host'[v].locked
                      /\ told'[v] = "suspended" => ~profile'[v].enabled
                      /\ told'[v] = "open" /\ host'[v].exists /\ host'[v].locked => v \in lapsed'
  BY DEF Answers, SuspendedStays, OpenUnlessEnded
<1>3. CASE v # q.user \/ (host' = host /\ profile' = profile /\ told' = told)
  <2>1. told'[v] = told[v] /\ host'[v] = host[v] /\ profile'[v] = profile[v]
    BY <1>1, <1>3, OnlyAnswers, HostChanges, RowChanges
  <2> QED
    BY <1>1, <2>1
<1>4. ASSUME v = q.user, told'[v] = "unknown"
      PROVE  /\ told'[v] \in {"suspended", "locked"} /\ host'[v].exists => host'[v].locked
             /\ told'[v] = "suspended" => ~profile'[v].enabled
             /\ told'[v] = "open" /\ host'[v].exists /\ host'[v].locked => v \in lapsed'
  BY <1>4
<1>5. ASSUME v = q.user, q.pc \in Command \union {"profile", "unprofile"}, q.op \notin Silent
      PROVE  told[v] = "unknown"
  BY <1>1, <1>5, AtAccount DEF SshInv, InHand, Command
<1>6. CASE v = q.user /\ Run(t)
  <2>1. /\ q.pc \in Command /\ profile' = profile /\ host' = [host EXCEPT ![v] = After(q)]
        /\ \/ told' = told
           \/ /\ q.op \in {"bulk lock", "bulk unlock"}
              /\ told' = Told(q, IF q.lock THEN "locked" ELSE "open")
    BY <1>6 DEF Run
  <2>2. CASE q.op = "bulk extend"
    <3>1. told'[v] = told[v] /\ profile'[v] = profile[v]
      BY <2>1, <2>2
    <3>2. host'[v].locked = host[v].locked /\ host'[v].exists = host[v].exists
      BY <1>6, <2>2, HostChanges
    <3> QED
      BY <1>1, <3>1, <3>2
  <2>3. CASE q.op # "bulk extend" /\ told' = told
    <3>1. q.op \notin Silent
      BY <1>1, <2>1, <2>3 DEF Silent, Command, Sound, Shape
    <3> QED
      BY <1>4, <1>5, <1>6, <2>1, <2>3, <3>1
  <2>4. CASE q.op \in {"bulk lock", "bulk unlock"} /\ told' = Told(q, IF q.lock THEN "locked" ELSE "open")
    <3>1. told[v] = "unknown"
      BY <1>5, <1>6, <2>1, <2>4 DEF Silent
    <3>2. told'[v] \in {"unknown", IF q.lock THEN "locked" ELSE "open"}
      BY <1>1, <1>6, <2>4, <3>1 DEF Told
    <3>3. host'[v] = After(q)
      BY <2>1 DEF TypeInv, TypeOK
    <3>4. After(q).locked <=> q.lock
      BY <1>1, <2>1, <2>4, CommandSetsLock
    <3> QED
      BY <3>2, <3>3, <3>4
  <2> QED
    BY <2>1, <2>2, <2>3, <2>4
<1>7. CASE v = q.user /\ RunFails(t)
  <2>1. q.pc \in Command /\ told' = told /\ profile' = profile
    BY <1>7 DEF RunFails
  <2>2. CASE q.op \in Silent
    <3>1. host' = host
      BY <1>7, <2>2 DEF RunFails, Silent
    <3> QED
      BY <1>3, <2>1, <3>1
  <2>3. CASE q.op \notin Silent
    BY <1>4, <1>5, <1>7, <2>1, <2>3
  <2> QED
    BY <2>2, <2>3
<1>8. CASE v = q.user /\ WriteRow(t)
  <2>1. /\ q.pc = "profile" /\ host' = host /\ profile'[v] = q.row
        /\ told' = IF q.op = "bulk extend" THEN told ELSE Told(q, IF q.lock THEN "suspended" ELSE "open")
    BY <1>8 DEF WriteRow, TypeInv, TypeOK
  <2>2. CASE q.op = "bulk extend"
    <3>1. told[v] = "suspended" => ~q.row.enabled
      BY <1>8, <2>1, <2>2 DEF SshInv, Extending
    <3> QED
      BY <1>1, <2>1, <2>2, <3>1
  <2>3. CASE q.op # "bulk extend"
    <3>1. q.op \in {"create", "update", "lock", "unlock"} /\ (q.row.enabled <=> ~q.lock)
      BY <1>1, <2>1, <2>3 DEF Sound, Shape
    <3>2. told[v] = "unknown"
      BY <1>5, <1>8, <2>1, <3>1 DEF Silent
    <3>3. CASE q.alone
      <4>1. told'[v] = (IF q.lock THEN "suspended" ELSE "open")
        BY <1>1, <1>8, <2>1, <2>3, <3>3 DEF Told
      <4>2. LockIs(v, q.lock)
        BY <1>8, <2>1, <2>3, <3>3 DEF SshInv, AsAsked
      <4> QED
        BY <2>1, <3>1, <4>1, <4>2 DEF LockIs
    <3>4. CASE ~q.alone
      BY <1>4, <1>8, <2>1, <2>3, <3>2, <3>4 DEF Told
    <3> QED
      BY <3>3, <3>4
  <2> QED
    BY <2>2, <2>3
<1>9. CASE v = q.user /\ DeleteRow(t)
  <2>1. q.pc = "unprofile" /\ told' = told
    BY <1>9 DEF DeleteRow
  <2>2. q.op \notin Silent
    BY <1>1, <2>1 DEF Sound, Shape, Silent
  <2> QED
    BY <1>4, <1>5, <1>9, <2>1, <2>2
<1>10. CASE (\E u \in User : NextAccount(t, u)) \/ ReadRow(t) \/ ListOwn(t) \/ CloseOwn(t)
  BY <1>3, <1>10 DEF NextAccount, ReadRow, ListOwn, CloseOwn
<1> QED
  BY <1>3, <1>6, <1>7, <1>8, <1>9, <1>10 DEF RequestStep

\* Every step keeps the answers about the locks and what they rest on.
LEMMA SshInvKept == TypeInv /\ SshInv /\ [Next]_vars => SshInv'
<1> SUFFICES ASSUME TypeInv, SshInv, [Next]_vars
             PROVE  SshInv'
  OBVIOUS
<1>1. CASE UNCHANGED vars
  BY <1>1 DEF vars, SshInv, Apart, InHand, Extending, AsAsked, LockIs, Lapsing, EndedRow, Expired,
     Answers, SuspendedStays, OpenUnlessEnded
<1>2. CASE Next
  <2>1. Lapsing' /\ History /\ lapsed \subseteq lapsed'
    BY <1>2, LapsingKept, LapsedGrows DEF Next
  <2>2. ASSUME NEW t \in Thread, RequestStep(t)
        PROVE  SshInv'
    BY <2>1, <2>2, RequestsKept, ExtendingKept, AsAskedKept, AnswersKept DEF SshInv
  <2>3. ASSUME NEW t \in Thread, Arrives(t)
        PROVE  SshInv'
    BY <2>1, <2>3, ArrivalKept DEF SshInv
  <2>4. CASE Crash
    BY <2>1, <2>4, CrashKept DEF SshInv
  <2>5. CASE \/ EnforcerStep \/ AbortPass \/ NewDay
             \/ \E u \in User, a \in Address \union {NoAddress} : Login(u, a)
             \/ \E t \in Terminal : Logout(t)
    BY <2>1, <2>5, OutsideKept DEF SshInv
  <2> QED
    BY <1>2, <2>2, <2>3, <2>4, <2>5 DEF Next
<1> QED
  BY <1>1, <1>2

\* The answers about the locks hold in every state.
LEMMA SshInvAlways == Spec => []SshInv
<1>1. Init => SshInv
  BY SshInvInit
<1>2. TypeInv /\ SshInv /\ [Next]_vars => SshInv'
  BY SshInvKept
<1> QED
  BY <1>1, <1>2, TypesAlways, PTL DEF Spec

\* A suspension that met no other request holds until the next request about the
\* lock, whatever extensions and passes of the enforcer (app/policy_enforcer.py) do.
THEOREM SuspensionsStay == Spec => []SuspendedStays
<1>1. SshInv => SuspendedStays
  BY DEF SshInv, Answers
<1> QED
  BY <1>1, SshInvAlways, PTL

\* An account that was left open is locked only by the enforcer, and only if a row it
\* had while it was switched on has ended.
THEOREM LockedOnlyAfterItsEnd == Spec => []OpenUnlessEnded
<1>1. SshInv => OpenUnlessEnded
  BY DEF SshInv, Answers
<1> QED
  BY <1>1, SshInvAlways, PTL
-----------------------------------------------------------------------------
(* Whom a pass disturbs.  A session that has kept its limits since the pass   *)
(* has read its row is none of those it decides to close, and its terminal is *)
(* not taken over by another.                                                 *)

\* A set of naturals that is not empty has a least member, and Min is it.
LEMMA Least ==
    ASSUME NEW S \in SUBSET Nat, S # {}
    PROVE  Min(S) \in S /\ \A y \in S : Min(S) <= y
<1>. DEFINE R == OpToRel(<, Nat)
<1>1. PICK x \in S : \A y \in S : <<y, x>> \notin R
  <2>. HIDE DEF R
  <2>. QED
    BY WFMin, NatLessThanWellFounded DEF R
<1>2. \A y \in S : ~(y < x)
  BY <1>1 DEF OpToRel
<1>3. \E z \in S : \A y \in S : z =< y
  BY <1>2
<1>. QED
  BY <1>3 DEF Min

\* Leaving out a member makes a finite set smaller.
LEMMA Fewer ==
    ASSUME NEW S, IsFiniteSet(S), NEW T \in SUBSET S, NEW x \in S \ T
    PROVE  /\ Cardinality(T) \in Nat /\ Cardinality(S) \in Nat
           /\ Cardinality(T) < Cardinality(S)
  BY FS_Subset, FS_CardinalityType

\* The sessions of a user, and the addresses they come from, are finitely many.
LEMMA FiniteLists ==
    ASSUME NEW list, NEW u
    PROVE  IsFiniteSet(Of(list, u)) /\ IsFiniteSet(From(list, u))
<1>1. IsFiniteSet(Terminal)
  BY SshConstants, FS_Interval DEF Terminal
<1>2. IsFiniteSet(Of(list, u))
  BY <1>1, FS_Subset DEF Of
<1>. DEFINE f == [t \in Of(list, u) |-> list[t].from]
            A == {list[t].from : t \in Of(list, u)}
<1>3. f \in Surjection(Of(list, u), A)
  BY DEF Surjection
<1>4. IsFiniteSet(A)
  BY <1>2, <1>3, FS_Surjection
<1>5. IsFiniteSet(A \ {NoAddress})
  BY <1>4, FS_Subset
<1>. QED
  BY <1>2, <1>5 DEF From

\* A session of an account within its limits is over neither of them.
LEMMA WithinNotOver ==
    ASSUME NEW t \in Terminal, NEW u, NEW limit \in Nat, NEW devices \in Nat,
           Cardinality(Of(session, u)) <= limit,
           Cardinality(From(session, u)) <= devices
    PROVE  t \notin OverSessions(session, u, limit) /\ t \notin OverDevices(session, u, devices)
<1>. DEFINE O == Of(session, u)
            F == From(session, u)
<1>0. IsFiniteSet(O) /\ IsFiniteSet(F)
  BY FiniteLists
<1>1. ASSUME t \in OverSessions(session, u, limit)
      PROVE  FALSE
  <2>. DEFINE S == {s \in O : s < t}
  <2>1. t \in O /\ Cardinality(S) >= limit
    BY <1>1 DEF OverSessions
  <2>2. t \in Nat
    BY DEF Terminal
  <2>3. S \in SUBSET O /\ t \in O \ S
    BY <2>1, <2>2
  <2>. HIDE DEF S
  <2>. QED
    BY <1>0, <2>1, <2>3, Fewer
<1>2. ASSUME t \in OverDevices(session, u, devices)
      PROVE  FALSE
  <2>. DEFINE a == session[t].from
              S == {b \in F : FirstLine(session, u, b) < FirstLine(session, u, a)}
              L == {s \in O : session[s].from = a}
  <2>1. t \in O /\ a # NoAddress /\ Cardinality(S) >= devices
    BY <1>2 DEF OverDevices
  <2>2. a \in F
    BY <2>1 DEF From
  <2>3. FirstLine(session, u, a) \in Nat
    <3>1. L \in SUBSET Nat /\ L # {}
      BY <2>1 DEF Of, Terminal
    <3>2. Min(L) \in Nat
      BY <3>1, Least
    <3>. QED
      BY <3>2 DEF FirstLine
  <2>4. S \in SUBSET F /\ a \in F \ S
    BY <2>2, <2>3
  <2>. HIDE DEF S, F
  <2>. QED
    BY <1>0, <2>1, <2>4, Fewer DEF F
<1>. QED
  BY <1>1, <1>2

\* A verdict is about sessions of its user.
LEMMA VerdictIsOwn ==
    ASSUME NEW row, NEW list, NEW u, NEW t,
           t \in Decide(row, list, u).close \union Decide(row, list, u).device
    PROVE  t \in Of(list, u)
<1>1. OverSessions(list, u, row.limit) \subseteq Of(list, u)
  BY DEF OverSessions
<1>2. OverDevices(list, u, row.devices) \subseteq Of(list, u)
  BY DEF OverDevices
<1>. QED
  BY <1>1, <1>2 DEF Decide, NoVerdict

\* While the rows are held, they are those of the steady sessions' accounts; once
\* the verdicts are made, none of them is about a steady session.
Unlisted(t) == \A u \in User : t \notin enf.verdict[u].close \union enf.verdict[u].device

SteadyInv ==
    /\ enf.pc = "idle" => steady = {}
    /\ \A t \in steady : Within(t)
    /\ enf.pc = "list" =>
          \A t \in steady : enf.rows[session[t].user] = profile[session[t].user]
    /\ enf.pc = "act" => \A t \in steady : Unlisted(t)

\* The verdicts spare the sessions that were steady.
LEMMA ListSpares ==
    ASSUME TypeInv, SteadyInv, ListSessions, NEW t \in steady
    PROVE  Unlisted(t)'
<1>. SUFFICES ASSUME NEW u \in User
              PROVE  t \notin enf'.verdict[u].close \union enf'.verdict[u].device
  BY DEF Unlisted
<1>1. PICK list \in {session, [s \in Terminal |-> NoSession]} :
         enf'.verdict = [v \in User |-> Decide(enf.rows[v], list, v)]
  BY DEF ListSessions, TypeInv, TypeOK, Pass
<1>. DEFINE d == Decide(enf.rows[u], list, u)
<1>2. enf'.verdict[u] = d
  BY <1>1
<1>3. t \in Terminal /\ session[t].user \in User /\ Within(t) /\ u # Nobody
  <2>1. session \in [Terminal -> Session] /\ steady \subseteq Terminal
    BY DEF TypeInv, TypeOK
  <2>2. Within(t)
    BY DEF SteadyInv
  <2>. QED
    BY <2>1, <2>2, SshConstants DEF Within, Session
<1>. SUFFICES ASSUME t \in d.close \union d.device
              PROVE  FALSE
  BY <1>2
<1>4. t \in Of(list, u)
  <2>. HIDE DEF d
  <2>. QED
    BY VerdictIsOwn DEF d
<1>5. list = session
  BY <1>3, <1>4 DEF Of, NoSession
<1>6. session[t].user = u
  BY <1>4, <1>5 DEF Of
<1>7. enf.rows[u] = profile[u]
  BY <1>6 DEF SteadyInv, ListSessions
<1>8. /\ profile[u].known /\ profile[u].enabled /\ ~Expired(profile[u].expire)
      /\ Cardinality(Of(session, u)) <= profile[u].limit
      /\ Cardinality(From(session, u)) <= profile[u].devices
  BY <1>3, <1>6 DEF Within
<1>9. profile[u].limit \in Nat /\ profile[u].devices \in Nat
  BY DEF TypeInv, TypeOK, Row
<1>10. /\ t \notin OverSessions(session, u, profile[u].limit)
       /\ t \notin OverDevices(session, u, profile[u].devices)
  BY <1>3, <1>8, <1>9, WithinNotOver
<1>11. /\ d.close = OverSessions(session, u, profile[u].limit)
       /\ d.device = OverDevices(session, u, profile[u].devices)
  BY <1>5, <1>7, <1>8 DEF Decide, NoVerdict
<1>. QED
  BY <1>10, <1>11

\* A session that is closed by the pass is one of a verdict.
LEMMA DisconnectSpares ==
    ASSUME TypeInv, SteadyInv, NEW u \in User, Disconnect(u), NEW t \in steady
    PROVE  session'[t] = session[t]
<1>. DEFINE v == enf.verdict[u]
            m == Min(ToClose(v))
<1>1. v \in Verdict
  BY DEF TypeInv, TypeOK, Pass
<1>2. ToClose(v) \in SUBSET Nat /\ ToClose(v) # {} /\ ToClose(v) \subseteq v.close \union v.device
  BY <1>1 DEF Disconnect, ToClose, Verdict, Terminal
<1>3. m \in v.close \union v.device
  <2>1. m \in ToClose(v)
    BY <1>2, Least
  <2>. QED
    BY <1>2, <2>1
<1>4. t # m
  BY <1>3 DEF SteadyInv, Unlisted, Disconnect
<1>5. session' = [session EXCEPT ![m] = NoSession] \/ UNCHANGED session
  BY DEF Disconnect
<1>. QED
  BY <1>4, <1>5 DEF TypeInv, TypeOK

\* Acting takes verdicts away.
LEMMA ActingShrinks ==
    ASSUME TypeInv, NEW u \in User, LockExpired(u) \/ Disconnect(u), NEW t, Unlisted(t)
    PROVE  Unlisted(t)'
<1>1. enf \in Pass /\ enf.verdict \in [User -> Verdict] /\ enf.verdict[u] \in Verdict
  BY DEF TypeInv, TypeOK, Pass
<1>2. PICK v \in {[enf.verdict[u] EXCEPT !.lock = FALSE], NoVerdict,
                 [enf.verdict[u] EXCEPT !.close = @ \ {Min(ToClose(enf.verdict[u]))}],
                 [enf.verdict[u] EXCEPT !.device = @ \ {Min(ToClose(enf.verdict[u]))}]} :
         enf'.verdict = [enf.verdict EXCEPT ![u] = v]
  <2>1. CASE LockExpired(u)
    BY <1>1, <2>1 DEF LockExpired, Pass
  <2>2. CASE Disconnect(u)
    BY <1>1, <2>2 DEF Disconnect, Pass
  <2>. QED
    BY <2>1, <2>2
<1>3. v.close \subseteq enf.verdict[u].close /\ v.device \subseteq enf.verdict[u].device
  <2>. DEFINE m == Min(ToClose(enf.verdict[u]))
  <2>. HIDE DEF m
  <2>1. v \in {[enf.verdict[u] EXCEPT !.lock = FALSE], NoVerdict,
              [enf.verdict[u] EXCEPT !.close = @ \ {m}],
              [enf.verdict[u] EXCEPT !.device = @ \ {m}]}
    BY <1>2 DEF m
  <2>. QED
    BY <1>1, <2>1 DEF Verdict, NoVerdict
<1>. QED
  BY <1>1, <1>2, <1>3 DEF Unlisted

\* Everybody else leaves the pass alone.
LEMMA OthersLeaveThePass ==
    ASSUME \/ Crash \/ NewDay
           \/ \E t \in Thread : RequestStep(t) \/ Arrives(t)
           \/ \E u \in User, a \in Address \union {NoAddress} : Login(u, a)
           \/ \E t \in Terminal : Logout(t)
    PROVE  enf' = enf
<1>1. ASSUME NEW t \in Thread, RequestStep(t)
      PROVE  enf' = enf
  <2>1. CASE Run(t) \/ RunFails(t)
    BY <2>1 DEF Run, RunFails
  <2>2. CASE ~(Run(t) \/ RunFails(t))
    BY <1>1, <2>2 DEF RequestStep, NextAccount, ReadRow, WriteRow, DeleteRow, ListOwn, CloseOwn
  <2>. QED
    BY <2>1, <2>2
<1>2. ASSUME NEW t \in Thread, Arrives(t)
      PROVE  enf' = enf
  <2>1. \A q : Begin(t, q) => enf' = enf
    BY DEF Begin
  <2>. QED
    BY <1>2, <2>1 DEF Arrives, BeginCreate, BeginUpdate, BeginAction, BeginBulk
<1>. QED
  BY <1>1, <1>2 DEF Crash, NewDay, Login, Logout

\* A steady session stays what it was, and so does its row.
LEMMA SteadyKept ==
    ASSUME TypeInv, SteadyInv, Next
    PROVE  SteadyInv'
<1>0. History /\ enf \in Pass /\ steady \subseteq Terminal
  BY DEF Next, TypeInv, TypeOK
<1>1. /\ enf'.pc = "idle" => steady' = {}
      /\ \A t \in steady' :
            /\ Within(t)'
            /\ enf.pc # "idle" => /\ t \in steady /\ session'[t] = session[t]
                                  /\ profile'[session[t].user] = profile[session[t].user]
  BY <1>0 DEF History
<1>2. ASSUME enf' = enf
      PROVE  SteadyInv'
  BY <1>1, <1>2 DEF SteadyInv, Unlisted
<1>3. CASE ReadRows
  BY <1>0, <1>1, <1>3 DEF ReadRows, SteadyInv, Pass
<1>4. CASE ListSessions
  <2>1. enf'.pc = "act" /\ enf.pc = "list"
    BY <1>0, <1>4 DEF ListSessions, Pass
  <2>. QED
    BY <1>1, <1>4, <2>1, ListSpares DEF SteadyInv
<1>5. CASE EndPass \/ AbortPass
  BY <1>1, <1>5 DEF EndPass, AbortPass, NoPass, SteadyInv
<1>6. ASSUME NEW u \in User, LockExpired(u) \/ Disconnect(u)
      PROVE  SteadyInv'
  <2>1. enf'.pc = "act" /\ enf.pc = "act"
    BY <1>0, <1>6 DEF LockExpired, Disconnect, Pass
  <2>. QED
    BY <1>1, <1>6, <2>1, ActingShrinks DEF SteadyInv
<1>7. CASE \/ Crash \/ NewDay
           \/ \E t \in Thread : RequestStep(t) \/ Arrives(t)
           \/ \E u \in User, a \in Address \union {NoAddress} : Login(u, a)
           \/ \E t \in Terminal : Logout(t)
  <2>1. enf' = enf
    BY <1>7, OthersLeaveThePass
  <2>. QED
    BY <1>2, <2>1
<1>. QED
  BY <1>3, <1>4, <1>5, <1>6, <1>7 DEF Next, EnforcerStep

\* What the pass does is done to others.
LEMMA PassSpares ==
    ASSUME TypeInv, SteadyInv, [Next]_vars, enf' # enf, NEW t \in steady
    PROVE  session'[t] = session[t]
<1>1. CASE ReadRows \/ ListSessions \/ EndPass \/ AbortPass \/ \E u \in User : LockExpired(u)
  BY <1>1 DEF ReadRows, ListSessions, EndPass, AbortPass, LockExpired
<1>2. ASSUME NEW u \in User, Disconnect(u)
      PROVE  session'[t] = session[t]
  BY <1>2, DisconnectSpares
<1>. QED
  BY <1>1, <1>2, OthersLeaveThePass DEF Next, EnforcerStep, vars

\* The enforcer disturbs no session whose account has kept its limits and its end since
\* the pass began, under a row nobody has changed since, for any number of sessions,
\* accounts and requests.
THEOREM SteadySessionsStay == Spec => ClosesOnlyOffenders
<1>1. Init => SteadyInv
  BY DEF Init, SteadyInv, NoPass
<1>2. TypeInv /\ SteadyInv /\ [Next]_vars => SteadyInv'
  <2>1. ASSUME SteadyInv, UNCHANGED vars
        PROVE  SteadyInv'
    <3>1. UNCHANGED <<day, session, profile, enf, steady>>
      BY <2>1 DEF vars
    <3>2. \A t \in steady : Within(t) => Within(t)'
      BY <3>1 DEF Within, Expired, Of, From
    <3>. QED
      BY <2>1, <3>1, <3>2 DEF SteadyInv, Unlisted
  <2>. QED
    BY <2>1, SteadyKept
<1>3. TypeInv /\ SteadyInv /\ [Next]_vars =>
        [enf' # enf => \A t \in steady : session'[t] = session[t]]_vars
  BY PassSpares
<1>. QED
  BY <1>1, <1>2, <1>3, TypesAlways, PTL DEF Spec, ClosesOnlyOffenders
=============================================================================
