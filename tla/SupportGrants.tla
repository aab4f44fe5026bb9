--------------------------- MODULE SupportGrants ---------------------------
(***************************************************************************)
(* Remote-support grants: the local administrator creates a short-lived    *)
(* code, a support operator logs in with it once, and every request of the *)
(* session is checked against the grant again.                             *)
(*                                                                         *)
(* The rows are those of the support_grants table (app/db.py); the login   *)
(* handler of app/main.py is a synchronous FastAPI handler, so each        *)
(* request runs in a thread of its own, and `with connect()` opens a       *)
(* transaction only at the first write: a SELECT and the UPDATE after it   *)
(* are two steps.                                                          *)
(***************************************************************************)
EXTENDS RateLimit, FiniteSets

CONSTANTS
    Threads,       \* request threads that may be in support_login at once
    MaxGrants,     \* bound: rows ever inserted into support_grants
    MaxAttempts,   \* bound: login requests ever begun
    Lifetimes,     \* grant lifetimes an administrator may ask for
    MinSession,    \* shortest cookie make_session issues (300 seconds)
    MaxFailures,   \* failures that block support_login (5)
    Window, Block, \* throttle window and block duration (900 seconds each)
    MaxTime        \* bound: last instant of the clock

ASSUME SupportConstants ==
    /\ MaxGrants \in Nat /\ MaxAttempts \in Nat
    /\ MinSession \in Nat /\ MaxTime \in Nat
    /\ MaxFailures \in Nat \ {0} /\ Window \in Nat /\ Block \in Nat
    /\ Lifetimes \subseteq Nat \ {0}
    /\ IsFiniteSet(Threads)    \* the server's pool

VARIABLES
    now,       \* wall clock; 0 is no timestamp, as in the tables
    grants,    \* support_grants, by id
    created,   \* AUTOINCREMENT: how many ids have been given out
    rate,      \* the login_rate_limits row of the support key of one address
    login,     \* the state of each request thread
    sessions,  \* cookies handed to support operators
    logins,    \* history: successful logins per grant
    attempts   \* bound: login requests begun

vars == <<now, grants, created, rate, login, sessions, logins, attempts>>

Ids == 1..MaxGrants

Grant == [expires : Nat, used : Nat, revoked : Nat]

NoGrant == [expires |-> 0, used |-> 0, revoked |-> 0]

LoginPC == {"idle", "stale", "code", "claim", "clear", "cookie",
            "failed", "record"}

\* What a request thread holds: the code it was sent (0: a code of no grant),
\* the rate row and the grant expiry it has read, and when.
Login == [pc : LoginPC, code : Ids \union {0}, seen : RateRow,
          at : Nat, ttl : Nat]

Idle == [pc |-> "idle", code |-> 0, seen |-> NoRate, at |-> 0, ttl |-> 0]

Session == [grant : Ids, until : Nat]

\* Rows, logins under way and cookies have the shape the tables and the handlers give
\* them, and no more grants and attempts are made than the bounds allow.
TypeOK ==
    /\ now \in Nat \ {0}
    /\ grants \in [Ids -> Grant]
    /\ created \in 0..MaxGrants
    /\ rate \in RateRow
    /\ login \in [Threads -> Login]
    /\ sessions \subseteq Session
    /\ logins \in [Ids -> Nat]
    /\ attempts \in 0..MaxAttempts

Init ==
    /\ now = 1
    /\ grants = [g \in Ids |-> NoGrant]
    /\ created = 0
    /\ rate = NoRate
    /\ login = [t \in Threads |-> Idle]
    /\ sessions = {}
    /\ logins = [g \in Ids |-> 0]
    /\ attempts = 0

-----------------------------------------------------------------------------
\* list_support_grants: the code can still be used, or its session still works.
Live(g, at) == grants[g].revoked = 0 /\ grants[g].expires > at

\* support_grant_by_id: what a session is checked against on every request.
Active(g) == Live(g, now) /\ grants[g].used > 0

\* current_user for a support cookie: read_session, then the grant.
Authorised(s) == s.until >= now /\ Active(s.grant)

-----------------------------------------------------------------------------
\* Mutant of Swept: a new grant leaves the earlier ones alone.
SweptNothing(g) == grants[g]

\* The UPDATE of create_support_grant, on the row of g.
Swept(g) == IF Live(g, now) THEN [grants[g] EXCEPT !.revoked = now] ELSE grants[g]

\* create_support_grant: revoke what is live and insert, in one transaction.
CreateGrant(life) ==
    /\ created < MaxGrants
    /\ created' = created + 1
    /\ grants' = [g \in Ids |-> IF g = created + 1
                                THEN [NoGrant EXCEPT !.expires = now + life]
                                ELSE Swept(g)]
    /\ UNCHANGED <<now, rate, login, sessions, logins, attempts>>

\* revoke_support_grant: an UPDATE by id, whatever state the row is in.
RevokeGrant(g) ==
    /\ g <= created
    /\ grants' = [grants EXCEPT ![g].revoked = now]
    /\ UNCHANGED <<now, created, rate, login, sessions, logins, attempts>>

-----------------------------------------------------------------------------
Leave(t) == login' = [login EXCEPT ![t] = Idle]

\* support_login, first statement: SELECT of login_rate_state.
BeginLogin(t, code) ==
    /\ login[t].pc = "idle"
    /\ attempts < MaxAttempts
    /\ attempts' = attempts + 1
    /\ IF IsBlocked(rate, now)
       THEN UNCHANGED login     \* 429
       ELSE login' = [login EXCEPT ![t] =
                        [Idle EXCEPT !.code = code,
                                     !.pc = IF rate # NoRate /\ StaleRate(rate, now, Window)
                                            THEN "stale" ELSE "code"]]
    /\ UNCHANGED <<now, grants, created, rate, sessions, logins>>

\* login_rate_state deletes the outdated row, in a transaction of its own.
DropStaleRate(t) ==
    /\ login[t].pc = "stale"
    /\ rate' = NoRate
    /\ login' = [login EXCEPT ![t].pc = "code"]
    /\ UNCHANGED <<now, grants, created, sessions, logins, attempts>>

\* Mutant of Usable: a code that has been used is accepted until it expires.
UsableAgain(code) == code # 0 /\ grants[code].revoked = 0 /\ grants[code].expires > now

\* consume_support_grant, the SELECT and the checks on the row it returns.
Usable(code) ==
    /\ code # 0
    /\ grants[code].revoked = 0
    /\ grants[code].expires > now
    /\ grants[code].used = 0

SelectGrant(t) ==
    /\ login[t].pc = "code"
    /\ login' = [login EXCEPT ![t] =
                    IF Usable(@.code) THEN [@ EXCEPT !.pc = "claim", !.at = now]
                                      ELSE [Idle EXCEPT !.pc = "failed"]]
    /\ UNCHANGED <<now, grants, created, rate, sessions, logins, attempts>>

\* Mutant of Claimed: the whole row is written back as it was selected.
ClaimedStale(g, at) == [grants[g] EXCEPT !.used = at, !.revoked = 0]

\* consume_support_grant, the UPDATE: by id, no condition on used_at.
Claimed(g, at) == [grants[g] EXCEPT !.used = at]

ClaimGrant(t) ==
    /\ login[t].pc = "claim"
    /\ grants' = [grants EXCEPT ![login[t].code] = Claimed(login[t].code, login[t].at)]
    /\ login' = [login EXCEPT ![t].pc = "clear", ![t].at = 0]
    /\ UNCHANGED <<now, created, rate, sessions, logins, attempts>>

\* Mutant of CookieTtl: the shortest session whatever the grant allows.
CookieTtlFlat(expires) == MinSession

\* Mutant of CookieTtl: the remaining time with no lower clamp.
CookieTtlUnclamped(expires) == expires - now

\* support_login's ttl with make_session's lower clamp, which subsumes max(60, ..);
\* the upper clamp of 30 days is beyond every grant.
CookieTtl(expires) ==
    IF expires > now THEN Larger(MinSession, expires - now) ELSE MinSession

\* clear_login_failures, then the cookie's lifetime from the remaining time.
ClearFailures(t) ==
    /\ login[t].pc = "clear"
    /\ rate' = NoRate
    /\ login' = [login EXCEPT ![t].pc = "cookie",
                              ![t].ttl = CookieTtl(grants[login[t].code].expires)]
    /\ UNCHANGED <<now, grants, created, sessions, logins, attempts>>

\* make_session stamps the cookie with the clock it reads itself.
IssueCookie(t) ==
    /\ login[t].pc = "cookie"
    /\ sessions' = sessions \union
                     {[grant |-> login[t].code, until |-> now + login[t].ttl]}
    /\ logins' = [logins EXCEPT ![login[t].code] = @ + 1]
    /\ Leave(t)
    /\ UNCHANGED <<now, grants, created, rate, attempts>>

\* record_login_failure: SELECT ...
ReadFailures(t) ==
    /\ login[t].pc = "failed"
    /\ login' = [login EXCEPT ![t].pc = "record", ![t].seen = rate, ![t].at = now]
    /\ UNCHANGED <<now, grants, created, rate, sessions, logins, attempts>>

\* ... then the upsert of what that row became.
WriteFailure(t) ==
    /\ login[t].pc = "record"
    /\ rate' = RateAfterFailure(login[t].seen, login[t].at, MaxFailures, Window, Block)
    /\ Leave(t)
    /\ UNCHANGED <<now, grants, created, sessions, logins, attempts>>

-----------------------------------------------------------------------------
\* The web process dies with its request threads; systemd starts it again.
Restart ==
    /\ \E t \in Threads : login[t].pc # "idle"
    /\ login' = [t \in Threads |-> Idle]
    /\ UNCHANGED <<now, grants, created, rate, sessions, logins, attempts>>

Tick ==
    /\ now < MaxTime
    /\ now' = now + 1
    /\ UNCHANGED <<grants, created, rate, login, sessions, logins, attempts>>

LoginStep(t) ==
    \/ \E code \in 0..created : BeginLogin(t, code)
    \/ DropStaleRate(t)
    \/ SelectGrant(t)
    \/ ClaimGrant(t)
    \/ ClearFailures(t)
    \/ IssueCookie(t)
    \/ ReadFailures(t)
    \/ WriteFailure(t)

Next ==
    \/ \E life \in Lifetimes : CreateGrant(life)
    \/ \E g \in Ids : RevokeGrant(g)
    \/ \E t \in Threads : LoginStep(t)
    \/ Restart
    \/ Tick

Spec == Init /\ [][Next]_vars

-----------------------------------------------------------------------------
\* Creating a grant ends the previous one ("creating a new grant invalidates
\* the previous active grant", CHANGELOG 0.16), so at no instant can two codes
\* or the sessions of two codes be accepted.
OneLiveGrant ==
    \A g, h \in Ids : Live(g, now) /\ Live(h, now) => g = h

\* A cookie never runs out before its grant: the lifetime is computed from one
\* reading of the clock and applied at a later one, and clamped from below.
\* The session lasts until the grant expires, unless it is revoked.
SessionCoversGrant ==
    \A s \in sessions : s.until >= grants[s.grant].expires

\* A code is "single-use for login" (CHANGELOG 0.16) but for logins that overlap: the
\* requests that have selected the unused row before the first claim, one for each
\* thread of the pool, are all let in, and no later request is.
OneLoginPerThread == \A g \in Ids : logins[g] <= Cardinality(Threads)

\* Once a revoked or expired grant stops authorising its sessions, no step
\* brings it back: not a login that selected the row before the revocation and
\* writes it after, not a second revocation, not the sweep of a new grant.
DeadStaysDead ==
    [][\A g \in 1..created : ~Live(g, now) => ~Live(g, now)']_vars
=============================================================================
