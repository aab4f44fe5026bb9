------------------------------ MODULE SshPolicy ------------------------------
(***************************************************************************)
(* SSH accounts: an account is a system user (its password locked or not,  *)
(* an expiry in the shadow file) and a row of account_profiles that the    *)
(* host knows nothing of.  The handlers of app/main.py change one and then *)
(* the other; the enforcer (app/policy_enforcer.py) reads the rows, lists  *)
(* the sessions with who, and locks and disconnects by what it has read.   *)
(***************************************************************************)
EXTENDS Naturals, FiniteSets, FiniteSetsExt

CONSTANTS
    User, Thread,
    Address,      \* where a session may come from
    NoAddress,    \* who shows no address: a local session
    Plan,         \* what an administrator may write of an account
    Update,       \* the edits he may ask for
    MaxTerminals, \* bound: terminals, in the order in which who lists them
    MaxDay,       \* bound: last day
    MaxRequests, MaxLogins, MaxFaults,
    Nobody

\* In both places 0 is no expiry; an extension may go past the last day.
Expiry == 0..(MaxDay + 1)

ASSUME SshConstants ==
    /\ Plan \subseteq [expire : Expiry, limit : Nat \ {0}, devices : Nat \ {0}]
    /\ Update \subseteq [plan : Plan, enabled : BOOLEAN, clear : BOOLEAN, password : BOOLEAN]
    /\ NoAddress \notin Address /\ Nobody \notin User
    /\ {MaxTerminals, MaxRequests, MaxLogins, MaxFaults} \subseteq Nat /\ MaxDay \in Nat \ {0}

VARIABLES
    day,
    host,      \* /etc/passwd and /etc/shadow
    profile,   \* account_profiles
    session,   \* what who shows, by terminal
    enf,       \* the enforcer's pass
    req,       \* the request each thread is in
    told,      \* history: the last answer about the lock of an account
    lapsed,    \* history: accounts whose row, in the table or in a pass, has ended
    steady,    \* history: sessions within their limits since the pass began
    requests, logins, faults

vars == <<day, host, profile, session, enf, req, told, lapsed, steady,
          requests, logins, faults>>

-----------------------------------------------------------------------------
Terminal == 1..MaxTerminals

Account == [exists : BOOLEAN, locked : BOOLEAN, expire : Expiry]
NoAccount == [exists |-> FALSE, locked |-> FALSE, expire |-> 0]

Row == [known : BOOLEAN, enabled : BOOLEAN, expire : Expiry,
        limit : Nat \ {0}, devices : Nat \ {0}]

\* No row, and the defaults account_rows and a bulk extension take without one.
NoRow == [known |-> FALSE, enabled |-> TRUE, expire |-> 0, limit |-> 1, devices |-> 1]

\* Mutant of RowOf: limits are counted from zero.
RowOfZero(p, enabled) == [known |-> TRUE, enabled |-> enabled, expire |-> p.expire,
                          limit |-> p.limit - 1, devices |-> p.devices - 1]

\* upsert_profile with a plan.
RowOf(p, enabled) == [known |-> TRUE, enabled |-> enabled, expire |-> p.expire,
                      limit |-> p.limit, devices |-> p.devices]

Session == [user : User \union {Nobody}, from : Address \union {NoAddress}]
NoSession == [user |-> Nobody, from |-> NoAddress]

\* What a pass will do about a user: lock him, and close terminals, those over
\* the session limit before those over the device limit.
Verdict == [lock : BOOLEAN, close : SUBSET Terminal, device : SUBSET Terminal]
NoVerdict == [lock |-> FALSE, close |-> {}, device |-> {}]

Pass == [pc : {"idle", "list", "act"}, rows : [User -> Row],
         verdict : [User -> Verdict], busy : User \union {Nobody}]
NoRows == [u \in User |-> NoRow]
NoPass == [pc |-> "idle", rows |-> NoRows,
           verdict |-> [u \in User |-> NoVerdict], busy |-> Nobody]

Op == {"create", "update", "lock", "unlock", "delete", "disconnect",
       "bulk lock", "bulk unlock", "bulk extend", "bulk disconnect"}
Keep == MaxDay + 2     \* no usermod -e

\* user: the account the thread is at; rest: those a bulk request has left;
\* rows: the rows it has read; lock, expire, row: what it will write.
Request == [pc : {"idle", "next", "useradd", "chpasswd", "expire", "lock", "read",
                  "profile", "userdel", "unprofile", "list", "close"},
            op : Op, user : User \union {Nobody}, rest : SUBSET User,
            rows : [User -> Row], expire : Expiry \union {Keep}, row : Row,
            lock : BOOLEAN, close : SUBSET Terminal, alone : BOOLEAN]
NoRequest == [pc |-> "idle", op |-> "disconnect", user |-> Nobody, rest |-> {},
              rows |-> NoRows, expire |-> Keep, row |-> NoRow,
              lock |-> FALSE, close |-> {}, alone |-> FALSE]

TypeOK ==
    /\ day \in 1..MaxDay
    /\ host \in [User -> Account]
    /\ profile \in [User -> Row]
    /\ session \in [Terminal -> Session]
    /\ enf \in Pass
    /\ req \in [Thread -> Request]
    /\ told \in [User -> {"unknown", "suspended", "locked", "open"}]
    /\ lapsed \subseteq User
    /\ steady \subseteq Terminal
    /\ requests \in 0..MaxRequests /\ logins \in 0..MaxLogins /\ faults \in 0..MaxFaults

\* Accounts that create_account has made, or none.
Init ==
    /\ day = 1
    /\ profile \in [User -> {NoRow} \union {RowOf(p, TRUE) : p \in Plan}]
    /\ host = [u \in User |-> [exists |-> profile[u].known, locked |-> FALSE,
                               expire |-> profile[u].expire]]
    /\ session = [t \in Terminal |-> NoSession]
    /\ enf = NoPass
    /\ req = [t \in Thread |-> NoRequest]
    /\ told = [u \in User |-> IF profile[u].known THEN "open" ELSE "unknown"]
    /\ lapsed = {}
    /\ steady = {}
    /\ requests = 0 /\ logins = 0 /\ faults = 0

-----------------------------------------------------------------------------
\* _expired: on the day after the last.
Expired(expire) == expire # 0 /\ expire < day

Of(list, u) == {t \in Terminal : list[t].user = u}

\* Mutant of OverSessions: one session too many.
OverSessionsLate(list, u, limit) ==
    {t \in Of(list, u) : Cardinality({s \in Of(list, u) : s < t}) > limit}

\* The lines of who beyond the first limit of a user.
OverSessions(list, u, limit) ==
    {t \in Of(list, u) : Cardinality({s \in Of(list, u) : s < t}) >= limit}

\* The addresses of a user; who's lines without one do not count.
From(list, u) == {list[t].from : t \in Of(list, u)} \ {NoAddress}

FirstLine(list, u, a) == Min({t \in Of(list, u) : list[t].from = a})

\* Mutant of OverDevices: the first line's address is not let in.
OverDevicesEarly(list, u, devices) ==
    {t \in Of(list, u) :
        /\ list[t].from # NoAddress
        /\ Cardinality({a \in From(list, u) :
              FirstLine(list, u, a) <= FirstLine(list, u, list[t].from)}) >= devices}

\* The lines from addresses beyond the first of them, in who's order.
OverDevices(list, u, devices) ==
    {t \in Of(list, u) :
        /\ list[t].from # NoAddress
        /\ Cardinality({a \in From(list, u) :
              FirstLine(list, u, a) < FirstLine(list, u, list[t].from)}) >= devices}

\* Mutant of Decide: the sessions of an expired account are left open.
DecideLocksOnly(row, list, u) ==
    IF ~row.known \/ ~row.enabled THEN NoVerdict
    ELSE IF Expired(row.expire) THEN [NoVerdict EXCEPT !.lock = TRUE]
    ELSE [NoVerdict EXCEPT !.close = OverSessions(list, u, row.limit),
                           !.device = OverDevices(list, u, row.devices)]

\* enforce_once's decisions, all of them from the rows and the listing.
Decide(row, list, u) ==
    IF ~row.known \/ ~row.enabled THEN NoVerdict
    ELSE IF Expired(row.expire)
         THEN [NoVerdict EXCEPT !.lock = TRUE, !.close = Of(list, u)]
         ELSE [NoVerdict EXCEPT !.close = OverSessions(list, u, row.limit),
                                !.device = OverDevices(list, u, row.devices)]

-----------------------------------------------------------------------------
\* A command that fails although it could have worked, or a lost process.
Fault == faults < MaxFaults /\ faults' = faults + 1

\* all_profiles.
ReadRows ==
    /\ enf.pc = "idle"
    /\ enf' = [enf EXCEPT !.pc = "list", !.rows = profile]
    /\ UNCHANGED <<day, host, profile, session, req, told, requests, logins, faults>>

\* online_sessions: no session at all when who fails.
ListSessions ==
    /\ enf.pc = "list"
    /\ \E list \in {session, [t \in Terminal |-> NoSession]} :
        /\ IF list = session THEN UNCHANGED faults ELSE Fault
        /\ enf' = [enf EXCEPT !.pc = "act", !.rows = NoRows,
                       !.verdict = [u \in User |-> Decide(enf.rows[u], list, u)]]
    /\ UNCHANGED <<day, host, profile, session, req, told, requests, logins>>

Locking == {u \in User : enf.verdict[u].lock}

\* Expired accounts first, each locked before its sessions are closed.
LockExpired(u) ==
    /\ enf.pc = "act" /\ enf.busy = Nobody /\ u \in Locking
    /\ \/ /\ host[u].exists
          /\ host' = [host EXCEPT ![u].locked = TRUE]
          /\ enf' = [enf EXCEPT !.verdict[u].lock = FALSE,
                         !.busy = IF enf.verdict[u].close = {} THEN Nobody ELSE u]
          /\ UNCHANGED faults
       \/ /\ enf' = [enf EXCEPT !.verdict[u] = NoVerdict]
          /\ IF host[u].exists THEN Fault ELSE UNCHANGED faults
          /\ UNCHANGED host
    /\ UNCHANGED <<day, profile, session, req, told, requests, logins>>

\* The terminals of a verdict that are still open, in the order they are closed.
ToClose(v) == IF v.close # {} THEN v.close ELSE v.device

\* disconnect_session: kills what is on the terminal now; what fails is caught.
Disconnect(u) ==
    LET v    == enf.verdict[u]
        t    == Min(ToClose(v))
        left == IF v.close # {} THEN [v EXCEPT !.close = @ \ {t}]
                                ELSE [v EXCEPT !.device = @ \ {t}]
    IN  /\ enf.pc = "act" /\ enf.busy \in {Nobody, u}
        /\ enf.busy = Nobody => Locking = {}
        /\ ToClose(v) # {}
        /\ enf' = [enf EXCEPT !.verdict[u] = left,
                              !.busy = IF ToClose(left) = {} THEN Nobody ELSE u]
        /\ \/ session' = [session EXCEPT ![t] = NoSession] /\ UNCHANGED faults
           \/ session[t] # NoSession /\ Fault /\ UNCHANGED session
        /\ UNCHANGED <<day, host, profile, req, told, requests, logins>>

EndPass ==
    /\ enf.pc = "act"
    /\ \A u \in User : enf.verdict[u] = NoVerdict
    /\ enf' = NoPass
    /\ UNCHANGED <<day, host, profile, session, req, told, requests, logins, faults>>

\* An exception, of audit for instance, or the end of the process: main's loop
\* or systemd begins another pass.
AbortPass ==
    /\ enf.pc # "idle" /\ Fault
    /\ enf' = NoPass
    /\ UNCHANGED <<day, host, profile, session, req, told, requests, logins>>

EnforcerStep ==
    \/ ReadRows \/ ListSessions \/ EndPass
    \/ \E u \in User : LockExpired(u) \/ Disconnect(u)

-----------------------------------------------------------------------------
Accounts(q) == q.rest \union ({q.user} \ {Nobody})

\* A request arrives; whoever is at one of its accounts is no longer alone.
Begin(t, q) ==
    LET met == {s \in Thread \ {t} : Accounts(req[s]) \cap Accounts(q) # {}}
    IN  /\ req[t].pc = "idle" /\ requests < MaxRequests
        /\ requests' = requests + 1
        /\ req' = [s \in Thread |->
                     IF s = t THEN [q EXCEPT !.alone = (met = {})]
                     ELSE [req[s] EXCEPT !.alone = @ /\ s \notin met]]
        /\ told' = [u \in User |->
                      IF u \in Accounts(q) /\ q.op \notin {"disconnect", "bulk disconnect", "bulk extend"}
                      THEN "unknown" ELSE told[u]]
        /\ UNCHANGED <<day, host, profile, session, enf, logins, faults>>

BeginCreate(t, u, p) ==
    Begin(t, [NoRequest EXCEPT !.pc = "useradd", !.op = "create", !.user = u,
                               !.expire = p.expire, !.row = RowOf(p, TRUE)])

\* update_account: a payload without a date leaves the shadow file's, and clears
\* that of the row.
BeginUpdate(t, u, new) ==
    LET row == RowOf(new.plan, new.enabled)
    IN  Begin(t, [NoRequest EXCEPT
            !.pc = IF new.password THEN "chpasswd" ELSE "expire",
            !.op = "update", !.user = u, !.lock = ~new.enabled,
            !.expire = IF new.clear THEN 0
                       ELSE IF new.plan.expire = 0 THEN Keep ELSE new.plan.expire,
            !.row = IF new.clear THEN [row EXCEPT !.expire = 0] ELSE row])

BeginAction(t, u, op) ==
    Begin(t, [NoRequest EXCEPT
        !.pc = CASE op \in {"lock", "unlock"} -> "lock"
                 [] op = "delete" -> "userdel"
                 [] op = "disconnect" -> "list",
        !.op = op, !.user = u, !.lock = (op = "lock")])

\* bulk_account_action reads all rows before its loop; only an extension uses them.
BeginBulk(t, us, op) ==
    Begin(t, [NoRequest EXCEPT !.pc = "next", !.op = op, !.rest = us,
                               !.lock = (op = "bulk lock"),
                               !.rows = IF op = "bulk extend" THEN profile ELSE @])

\* Mutant of Extended: a renewal switches the account on.
ExtendedOn(row) ==
    [row EXCEPT !.known = TRUE, !.enabled = TRUE, !.expire = Min({MaxDay + 1, Max({@, day}) + 1})]

\* The row an extension by one day writes for the row it has read.
Extended(row) ==
    [row EXCEPT !.known = TRUE, !.expire = Min({MaxDay + 1, Max({@, day}) + 1})]

NextAccount(t, u) ==
    /\ req[t].pc = "next" /\ u \in req[t].rest
    /\ LET row == Extended(req[t].rows[u])
           q   == [req[t] EXCEPT !.user = u, !.rest = @ \ {u}]
       IN  req' = [req EXCEPT ![t] =
                     IF q.op = "bulk extend"
                     THEN [q EXCEPT !.pc = "expire", !.expire = row.expire, !.row = row]
                     ELSE [q EXCEPT !.pc = IF q.op = "bulk disconnect" THEN "list" ELSE "lock"]]
    /\ UNCHANGED <<day, host, profile, session, enf, told, requests, logins, faults>>

\* The end of a request, or of one account of a bulk request.
Left(q) == IF q.rest = {} THEN NoRequest
           ELSE [q EXCEPT !.pc = "next", !.user = Nobody, !.row = NoRow, !.expire = Keep]

Told(q, answer) == IF q.alone THEN [told EXCEPT ![q.user] = answer] ELSE told

-----------------------------------------------------------------------------
\* Whether the command a request is at works.
CanRun(q) ==
    CASE q.pc = "useradd" -> ~host[q.user].exists
      [] q.pc = "userdel" -> host[q.user].exists /\ Of(session, q.user) = {}
      [] q.pc = "expire" /\ q.expire = Keep -> TRUE
      [] OTHER -> host[q.user].exists

\* Mutant of After: usermod -L and -U are exchanged.
AfterSwapped(q) ==
    IF q.pc = "lock" THEN [host[q.user] EXCEPT !.locked = ~q.lock]
    ELSE IF q.pc = "useradd" THEN [exists |-> TRUE, locked |-> TRUE, expire |-> q.expire]
    ELSE host[q.user]

\* What the command makes of the account.  chpasswd writes a password without
\* the mark of a locked one.
After(q) ==
    CASE q.pc = "useradd" -> [exists |-> TRUE, locked |-> TRUE, expire |-> q.expire]
      [] q.pc = "chpasswd" -> [host[q.user] EXCEPT !.locked = FALSE]
      [] q.pc = "expire" /\ q.expire # Keep -> [host[q.user] EXCEPT !.expire = q.expire]
      [] q.pc = "lock" -> [host[q.user] EXCEPT !.locked = q.lock]
      [] q.pc = "userdel" -> NoAccount
      [] OTHER -> host[q.user]

Following(q) ==
    CASE q.pc = "useradd" -> [q EXCEPT !.pc = "chpasswd"]
      [] q.pc = "chpasswd" /\ q.op = "update" -> [q EXCEPT !.pc = "expire"]
      [] q.pc = "expire" /\ q.op = "update" -> [q EXCEPT !.pc = "lock"]
      [] q.pc = "lock" /\ q.op \in {"lock", "unlock"} -> [q EXCEPT !.pc = "read"]
      [] q.pc = "lock" /\ q.op \in {"bulk lock", "bulk unlock"} -> Left(q)
      [] q.pc = "userdel" -> [q EXCEPT !.pc = "unprofile"]
      [] OTHER -> [q EXCEPT !.pc = "profile"]

Command == {"useradd", "chpasswd", "expire", "lock", "userdel"}

\* useradd, chpasswd, usermod and userdel of app/system_ops.py.
Run(t) ==
    LET q == req[t]
    IN  /\ q.pc \in Command /\ CanRun(q)
        /\ host' = [host EXCEPT ![q.user] = After(q)]
        /\ req' = [req EXCEPT ![t] = Following(q)]
        /\ told' = IF q.pc = "lock" /\ q.op \in {"bulk lock", "bulk unlock"}
                   THEN Told(q, IF q.lock THEN "locked" ELSE "open") ELSE told
        /\ UNCHANGED <<day, profile, session, enf, requests, logins, faults>>

\* The request is answered with an error; a bulk request goes on.  A new user
\* whose password is not accepted is removed again.
RunFails(t) ==
    LET q == req[t]
    IN  /\ q.pc \in Command
        /\ IF CanRun(q) THEN q.expire # Keep \/ q.pc # "expire" ELSE TRUE
        /\ IF CanRun(q) THEN Fault ELSE UNCHANGED faults
        /\ host' = IF q.pc = "chpasswd" /\ q.op = "create"
                   THEN [host EXCEPT ![q.user] = NoAccount] ELSE host
        /\ req' = [req EXCEPT ![t] = Left(q)]
        /\ UNCHANGED <<day, profile, session, enf, told, requests, logins>>

\* account_rows after the lock: every system user, with its row or the defaults.
ReadRow(t) ==
    LET q == req[t]
        u == q.user
    IN  /\ q.pc = "read"
        /\ req' = [req EXCEPT ![t] =
                     IF host[u].exists
                     THEN [q EXCEPT !.pc = "profile",
                             !.row = [profile[u] EXCEPT !.known = TRUE, !.enabled = ~q.lock]]
                     ELSE NoRequest]
        /\ UNCHANGED <<day, host, profile, session, enf, told, requests, logins, faults>>

\* upsert_profile.
WriteRow(t) ==
    LET q == req[t]
        u == q.user
    IN  /\ q.pc = "profile"
        /\ profile' = [profile EXCEPT ![u] = q.row]
        /\ told' = IF q.op = "bulk extend" THEN told
                   ELSE Told(q, IF q.lock THEN "suspended" ELSE "open")
        /\ req' = [req EXCEPT ![t] = Left(q)]
        /\ UNCHANGED <<day, host, session, enf, requests, logins, faults>>

\* delete_profile, after userdel.
DeleteRow(t) ==
    /\ req[t].pc = "unprofile"
    /\ profile' = [profile EXCEPT ![req[t].user] = NoRow]
    /\ req' = [req EXCEPT ![t] = NoRequest]
    /\ UNCHANGED <<day, host, session, enf, told, requests, logins, faults>>

\* account_action's disconnect: the sessions are listed, then closed.
ListOwn(t) ==
    LET own == Of(session, req[t].user)
    IN  /\ req[t].pc = "list"
        /\ req' = [req EXCEPT ![t] = IF own = {} THEN Left(req[t])
                                     ELSE [req[t] EXCEPT !.pc = "close", !.close = own]]
        /\ UNCHANGED <<day, host, profile, session, enf, told, requests, logins, faults>>

CloseOwn(t) ==
    LET q == req[t]
        s == Min(q.close)
    IN  /\ q.pc = "close"
        /\ session' = [session EXCEPT ![s] = NoSession]
        /\ req' = [req EXCEPT ![t] = IF q.close = {s} THEN [Left(q) EXCEPT !.close = {}]
                                     ELSE [q EXCEPT !.close = @ \ {s}]]
        /\ UNCHANGED <<day, host, profile, enf, told, requests, logins, faults>>

\* The web process dies with its request threads.
Crash ==
    /\ \E t \in Thread : req[t].pc # "idle"
    /\ Fault
    /\ req' = [t \in Thread |-> NoRequest]
    /\ UNCHANGED <<day, host, profile, session, enf, told, requests, logins>>

RequestStep(t) ==
    \/ \E u \in User : NextAccount(t, u)
    \/ Run(t) \/ RunFails(t)
    \/ ReadRow(t) \/ WriteRow(t) \/ DeleteRow(t)
    \/ ListOwn(t) \/ CloseOwn(t)

Arrives(t) ==
    \/ \E u \in User :
        \/ \E p \in Plan : BeginCreate(t, u, p)
        \/ \E new \in Update : BeginUpdate(t, u, new)
        \/ \E op \in {"lock", "unlock", "delete", "disconnect"} : BeginAction(t, u, op)
    \/ \E us \in SUBSET User \ {{}},
              op \in {"bulk lock", "bulk unlock", "bulk extend", "bulk disconnect"} :
          BeginBulk(t, us, op)

-----------------------------------------------------------------------------
\* sshd: a password login, and pam's account check, for which the shadow file's
\* date is the first day without access.
Login(u, a) ==
    \E t \in Terminal :
        /\ logins < MaxLogins /\ logins' = logins + 1
        /\ session[t] = NoSession
        /\ host[u].exists /\ ~host[u].locked
        /\ host[u].expire = 0 \/ day < host[u].expire
        /\ session' = [session EXCEPT ![t] = [user |-> u, from |-> a]]
        /\ UNCHANGED <<day, host, profile, enf, req, told, requests, faults>>

Logout(t) ==
    /\ session[t] # NoSession
    /\ session' = [session EXCEPT ![t] = NoSession]
    /\ UNCHANGED <<day, host, profile, enf, req, told, requests, logins, faults>>

NewDay ==
    /\ day < MaxDay /\ day' = day + 1
    /\ UNCHANGED <<host, profile, session, enf, req, told, requests, logins, faults>>

\* The session's account is switched on, has not ended, and keeps both limits.
Within(t) ==
    LET u == session[t].user
    IN  /\ u # Nobody
        /\ profile[u].known /\ profile[u].enabled /\ ~Expired(profile[u].expire)
        /\ Cardinality(Of(session, u)) <= profile[u].limit
        /\ Cardinality(From(session, u)) <= profile[u].devices

EndedRow(row) == row.known /\ row.enabled /\ Expired(row.expire)
Ended(u) == EndedRow(profile[u])

History ==
    /\ lapsed' = lapsed \union {u \in User : Ended(u)' \/ EndedRow(enf.rows[u])'}
    /\ steady' = IF enf'.pc = "idle" THEN {}
                 ELSE {t \in Terminal :
                         /\ Within(t)'
                         /\ enf.pc # "idle" =>
                               /\ t \in steady /\ session'[t] = session[t]
                               /\ profile'[session[t].user] = profile[session[t].user]}

Next ==
    /\ \/ EnforcerStep \/ AbortPass \/ Crash \/ NewDay
       \/ \E t \in Thread : RequestStep(t) \/ Arrives(t)
       \/ \E u \in User, a \in Address \union {NoAddress} : Login(u, a)
       \/ \E t \in Terminal : Logout(t)
    /\ History

Spec == Init /\ [][Next]_vars

\* The enforcer is an endless loop under systemd; a request that has begun ends.
FairSpec ==
    /\ Spec
    /\ WF_vars(EnforcerStep /\ History)
    /\ \A t \in Thread : WF_vars(RequestStep(t) /\ History)

-----------------------------------------------------------------------------
\* A suspension that met no other request holds until the next request about the
\* lock: no renewal, and no pass of the enforcer, opens the account again or
\* switches its row on.
SuspendedStays ==
    \A u \in User :
        /\ told[u] \in {"suspended", "locked"} /\ host[u].exists => host[u].locked
        /\ told[u] = "suspended" => ~profile[u].enabled

\* An account whose last such request left it open is locked only by the enforcer,
\* and only if a row it had while it was switched on has ended (a renewal does not
\* unlock, and a pass may act on the row of before the renewal).
OpenUnlessEnded ==
    \A u \in User :
        told[u] = "open" /\ host[u].exists /\ host[u].locked
            => u \in lapsed

\* The enforcer disturbs no session whose account has kept its limits and its end
\* since the pass began, under a row that nobody has changed since then; whatever
\* other sessions come, go or take over terminals.
ClosesOnlyOffenders ==
    [][enf' # enf => \A t \in steady : session'[t] = session[t]]_vars

\* "expired SSH accounts are locked and active sessions are closed"
\* (app/policy_enforcer.py), whatever fails on the way: an account that is switched
\* on and has ended is locked and has no session left, in the end.
ExpiryEnforced ==
    \A u \in User :
        Ended(u) /\ host[u].exists
            ~> \/ ~Ended(u) \/ ~host[u].exists
               \/ host[u].locked /\ Of(session, u) = {}

Exceeds(u) ==
    /\ profile[u].known
    /\ \/ Cardinality(Of(session, u)) > profile[u].limit
       \/ Cardinality(From(session, u)) > profile[u].devices

\* An account that is switched on does not stay over its limits.
LimitsEnforced ==
    \A u \in User : Exceeds(u) /\ profile[u].enabled ~> ~(Exceeds(u) /\ profile[u].enabled)
=============================================================================
