------------------------ MODULE SupportGrantsProofs ------------------------
(***************************************************************************)
(* Type correctness and the safety properties of SupportGrants, for every  *)
(* number of threads, grants and attempts and every lifetime, throttle and *)
(* clock bound.                                                            *)
(***************************************************************************)
EXTENDS SupportGrants, FiniteSetTheorems, TLAPS

USE SupportConstants

-----------------------------------------------------------------------------
(* What a login request and a cookie carry.                                *)

\* A login past its SELECT is about a grant that exists; the lifetime it has
\* computed reaches the expiry of that grant from any later instant.
LoginSound(t) ==
    LET l == login[t]
    IN  /\ l.code <= created
        /\ l.pc \in {"claim", "clear", "cookie"} => l.code # 0
        /\ l.pc = "cookie" => now + l.ttl >= grants[l.code].expires

\* Cookies are of grants that exist: a new grant, which sets an expiry, is not
\* the grant of any of them.
Sound ==
    /\ TypeOK
    /\ \A t \in Threads : LoginSound(t)
    /\ \A s \in sessions : s.grant <= created
    /\ SessionCoversGrant
    /\ OneLiveGrant

-----------------------------------------------------------------------------
\* The row written for a failed login has the type of the table.
LEMMA FailureType ==
    ASSUME NEW r \in RateRow, NEW at \in Nat
    PROVE  RateAfterFailure(r, at, MaxFailures, Window, Block) \in RateRow
  BY DEF RateAfterFailure, RateRow, Larger

\* make_session's lifetime is a number, and reaches the expiry it was given.
LEMMA TtlReaches ==
    ASSUME TypeOK, NEW expires \in Nat
    PROVE  CookieTtl(expires) \in Nat /\ now + CookieTtl(expires) >= expires
  BY DEF TypeOK, CookieTtl, Larger

\* Fields of what a thread holds.
LEMMA LoginTypes ==
    ASSUME TypeOK, NEW t \in Threads
    PROVE  /\ login[t] \in Login
           /\ login[t].code \in Ids \union {0} /\ login[t].seen \in RateRow
           /\ login[t].at \in Nat /\ login[t].ttl \in Nat
  BY DEF TypeOK, Login

\* Nothing has happened yet.
LEMMA InitSound == Init => Sound
<1>. SUFFICES ASSUME Init PROVE Sound
  OBVIOUS
<1>1. TypeOK
  BY DEF Init, TypeOK, NoGrant, Grant, NoRate, RateRow, Idle, Login, LoginPC, Ids
<1>2. \A t \in Threads : LoginSound(t)
  BY DEF Init, Idle, LoginSound
<1>3. OneLiveGrant
  <2>1. \A g \in Ids : ~Live(g, now)
    BY DEF Init, NoGrant, Live
  <2>. QED
    BY <2>1 DEF OneLiveGrant
<1>. QED
  BY <1>1, <1>2, <1>3 DEF Init, Sound, SessionCoversGrant

-----------------------------------------------------------------------------
(* The administrator.                                                      *)

\* A new grant sweeps the others away and belongs to no cookie yet.
LEMMA CreateSound ==
    ASSUME Sound, NEW life \in Lifetimes, CreateGrant(life)
    PROVE  Sound'
<1>0. TypeOK /\ life \in Nat \ {0}
  BY DEF Sound
<1>1. /\ created \in Nat /\ created' = created + 1 /\ created' \in 0..MaxGrants
      /\ now \in Nat \ {0} /\ now' = now
      /\ UNCHANGED <<rate, login, sessions, logins, attempts>>
  BY <1>0 DEF CreateGrant, TypeOK
<1>2. ASSUME NEW g \in Ids
      PROVE  /\ grants[g] \in Grant /\ grants'[g] \in Grant
             /\ g # created + 1 => /\ grants'[g].expires = grants[g].expires
                                   /\ ~Live(g, now)'
  <2>1. grants[g] \in Grant
    BY <1>0 DEF TypeOK
  <2>2. CASE g = created + 1
    BY <1>0, <1>1, <2>1, <2>2 DEF CreateGrant, NoGrant, Grant
  <2>3. CASE g # created + 1
    <3>1. grants'[g] = Swept(g)
      BY <2>3 DEF CreateGrant
    <3>2. Swept(g) \in Grant /\ Swept(g).expires = grants[g].expires
      BY <1>1, <2>1 DEF Swept, Grant
    <3>3. ~(Swept(g).revoked = 0 /\ Swept(g).expires > now)
      BY <1>1, <2>1 DEF Swept, Live, Grant
    <3>. QED
      BY <1>1, <2>1, <2>3, <3>1, <3>2, <3>3 DEF Live
  <2>. QED
    BY <2>2, <2>3
<1>3. TypeOK'
  <2>1. grants' \in [Ids -> Grant]
    BY <1>2 DEF CreateGrant
  <2>. QED
    BY <1>0, <1>1, <2>1 DEF TypeOK
<1>4. ASSUME NEW t \in Threads
      PROVE  LoginSound(t)'
  <2>1. /\ login[t].code \in Nat /\ login[t].code <= created /\ LoginSound(t)
        /\ login[t].code \in Ids \union {0}
    BY <1>0, LoginTypes DEF Sound, LoginSound, Ids
  <2>2. login[t].pc = "cookie" => grants'[login[t].code].expires = grants[login[t].code].expires
    BY <1>1, <1>2, <2>1 DEF LoginSound
  <2>. QED
    BY <1>1, <2>1, <2>2 DEF LoginSound
<1>5. ASSUME NEW s \in sessions'
      PROVE  s.grant <= created' /\ s.until >= grants'[s.grant].expires
  <2>1. s \in sessions /\ s.grant \in Ids /\ s.grant \in Nat
    BY <1>0, <1>1 DEF TypeOK, Session, Ids
  <2>2. s.grant <= created /\ s.until >= grants[s.grant].expires
    BY <2>1 DEF Sound, SessionCoversGrant
  <2>. QED
    BY <1>1, <1>2, <2>1, <2>2
<1>6. OneLiveGrant'
  BY <1>2 DEF OneLiveGrant, Ids
<1>. QED
  BY <1>3, <1>4, <1>5, <1>6 DEF Sound, SessionCoversGrant

-----------------------------------------------------------------------------
(* Every other step creates no grant, moves no expiry and revives nothing. *)

NothingRevived ==
    /\ created' = created /\ now' >= now
    /\ \A g \in Ids :
          /\ grants'[g].expires = grants[g].expires
          /\ Live(g, now)' => Live(g, now)

\* What such a step leaves to show: the threads and the cookies it touches.
LEMMA Frame ==
    ASSUME Sound, TypeOK', NothingRevived,
           \A t \in Threads : login'[t] = login[t] \/ LoginSound(t)',
           \A s \in sessions' :
              \/ s \in sessions
              \/ s.grant <= created /\ s.until >= grants[s.grant].expires
    PROVE  Sound'
<1>0. /\ TypeOK /\ created \in Nat /\ now \in Nat /\ now' \in Nat
      /\ \A g \in Ids : grants[g].expires \in Nat
  BY DEF Sound, TypeOK, Grant
<1>1. ASSUME NEW t \in Threads
      PROVE  LoginSound(t)'
  <2>1. CASE login'[t] = login[t]
    <3>1. LoginSound(t) /\ login[t].code \in Ids \union {0} /\ login[t].ttl \in Nat
      BY <1>0, LoginTypes DEF Sound
    <3>2. login[t].pc = "cookie" =>
             now' + login[t].ttl >= grants'[login[t].code].expires
      <4>1. ASSUME login[t].pc = "cookie"
            PROVE  now' + login[t].ttl >= grants'[login[t].code].expires
        <5>1. login[t].code \in Ids
          BY <3>1, <4>1 DEF LoginSound
        <5>2. now + login[t].ttl >= grants[login[t].code].expires
          BY <3>1, <4>1 DEF LoginSound
        <5>3. now' >= now /\ grants'[login[t].code].expires = grants[login[t].code].expires
          BY <5>1 DEF NothingRevived
        <5>4. grants[login[t].code].expires \in Nat
          BY <1>0, <5>1
        <5>. QED
          BY <1>0, <3>1, <5>2, <5>3, <5>4
      <4>. QED
        BY <4>1
    <3>. QED
      BY <2>1, <3>1, <3>2 DEF LoginSound, NothingRevived
  <2>. QED
    BY <2>1
<1>2. ASSUME NEW s \in sessions'
      PROVE  s.grant <= created' /\ s.until >= grants'[s.grant].expires
  <2>1. s.grant \in Ids
    BY DEF TypeOK, Session
  <2>2. s.grant <= created /\ s.until >= grants[s.grant].expires
    BY DEF Sound, SessionCoversGrant
  <2>. QED
    BY <2>1, <2>2 DEF NothingRevived
<1>3. OneLiveGrant'
  <2>1. \A g, h \in Ids : Live(g, now) /\ Live(h, now) => g = h
    BY DEF Sound, OneLiveGrant
  <2>2. \A g \in Ids : Live(g, now)' => Live(g, now)
    BY DEF NothingRevived
  <2>. QED
    BY <2>1, <2>2 DEF OneLiveGrant, Ids
<1>. QED
  BY <1>1, <1>2, <1>3 DEF Sound, SessionCoversGrant

\* Neither does an UPDATE of used_at or revoked_at.
LEMMA UpdateRevivesNothing ==
    ASSUME TypeOK, created' = created, now' = now,
           NEW g \in Ids, NEW row \in Grant, grants' = [grants EXCEPT ![g] = row],
           row.expires = grants[g].expires,
           row.revoked = 0 => grants[g].revoked = 0
    PROVE  NothingRevived
<1>1. now \in Nat
  BY DEF TypeOK
<1>2. ASSUME NEW h \in Ids
      PROVE  /\ grants'[h].expires = grants[h].expires
             /\ Live(h, now)' => Live(h, now)
  <2>1. CASE h = g
    BY <2>1 DEF TypeOK, Live
  <2>2. CASE h # g
    BY <2>2 DEF TypeOK, Live
  <2>. QED
    BY <2>1, <2>2
<1>. QED
  BY <1>1, <1>2 DEF NothingRevived

\* A step that leaves the table and the clock alone.
LEMMA SameGrants ==
    ASSUME TypeOK, created' = created, now' = now, grants' = grants
    PROVE  NothingRevived
<1>1. now \in Nat
  BY DEF TypeOK
<1>. QED
  BY <1>1 DEF NothingRevived, Live

\* The clock only takes validity away.
LEMMA TickSound ==
    ASSUME Sound, Tick
    PROVE  Sound' /\ NothingRevived
<1>0. TypeOK /\ now \in Nat \ {0} /\ now' = now + 1
  BY DEF Sound, TypeOK, Tick
<1>1. TypeOK'
  BY <1>0 DEF Tick, TypeOK
<1>2. ASSUME NEW g \in Ids
      PROVE  grants'[g].expires = grants[g].expires /\ (Live(g, now)' => Live(g, now))
  <2>1. grants' = grants /\ grants[g].expires \in Nat
    BY <1>0 DEF Tick, TypeOK, Grant
  <2>. QED
    BY <1>0, <2>1 DEF Live
<1>3. NothingRevived
  BY <1>0, <1>2 DEF NothingRevived, Tick
<1>4. UNCHANGED <<login, sessions>>
  BY DEF Tick
<1>. QED
  BY <1>1, <1>3, <1>4, Frame

\* A revocation writes a date over whatever was there.
LEMMA RevokeSound ==
    ASSUME Sound, NEW g \in Ids, RevokeGrant(g)
    PROVE  Sound' /\ NothingRevived
<1>. DEFINE row == [grants[g] EXCEPT !.revoked = now]
<1>0. TypeOK /\ grants[g] \in Grant /\ now \in Nat \ {0}
  BY DEF Sound, TypeOK
<1>1. row \in Grant /\ row.expires = grants[g].expires /\ row.revoked # 0
  BY <1>0 DEF Grant
<1>2. /\ grants' = [grants EXCEPT ![g] = row]
      /\ UNCHANGED <<now, created, rate, login, sessions, logins, attempts>>
  BY DEF RevokeGrant
<1>3. TypeOK'
  BY <1>0, <1>1, <1>2 DEF TypeOK
<1>4. NothingRevived
  BY <1>0, <1>1, <1>2, UpdateRevivesNothing
<1>. QED
  BY <1>2, <1>3, <1>4, Frame

-----------------------------------------------------------------------------
(* A login request.                                                        *)

\* A thread moves on, or leaves, with a code it already had.
LEMMA MovedSound ==
    ASSUME Sound, TypeOK', UNCHANGED <<now, created, grants, sessions>>,
           NEW t \in Threads, NEW l, login' = [login EXCEPT ![t] = l],
           l.code <= created, l.pc \notin {"claim", "clear", "cookie"}
    PROVE  Sound' /\ NothingRevived
<1>0. TypeOK
  BY DEF Sound
<1>1. NothingRevived
  BY <1>0, SameGrants
<1>2. \A u \in Threads : login'[u] = IF u = t THEN l ELSE login[u]
  BY <1>0 DEF TypeOK
<1>3. \A u \in Threads : login'[u] = login[u] \/ LoginSound(u)'
  BY <1>2 DEF LoginSound
<1>. QED
  BY <1>1, <1>3, Frame

\* A thread that leaves holds nothing.
LEMMA IdleSound ==
    /\ Idle \in Login
    /\ Idle.pc = "idle" /\ Idle.code = 0
  BY DEF Idle, Login, LoginPC, NoRate, RateRow

\* The steps that only read, and those on the throttle's row.
LEMMA ReadSound ==
    ASSUME Sound, NEW t \in Threads,
           \/ \E code \in 0..created : BeginLogin(t, code)
           \/ DropStaleRate(t) \/ SelectGrant(t) \/ ReadFailures(t) \/ WriteFailure(t)
    PROVE  Sound' /\ NothingRevived
<1>. DEFINE l == login[t]
<1>0. TypeOK /\ created \in Nat /\ 0 <= created /\ l \in Login
  BY LoginTypes DEF Sound, TypeOK
<1>1. LoginSound(t) /\ NoRate \in RateRow /\ rate \in RateRow /\ now \in Nat
  BY <1>0 DEF Sound, NoRate, RateRow, TypeOK
<1>2. ASSUME NEW code \in 0..created, BeginLogin(t, code)
      PROVE  Sound' /\ NothingRevived
  <2>. DEFINE pc == IF rate # NoRate /\ StaleRate(rate, now, Window)
                    THEN "stale" ELSE "code"
              m  == [Idle EXCEPT !.code = code, !.pc = pc]
  <2>1. /\ UNCHANGED <<now, grants, created, rate, sessions, logins>>
        /\ attempts' = attempts + 1 /\ attempts < MaxAttempts
        /\ UNCHANGED login \/ login' = [login EXCEPT ![t] = m]
    BY <1>2 DEF BeginLogin
  <2>2. code \in Ids \union {0} /\ code <= created
    BY <1>0 DEF TypeOK, Ids
  <2>3. m \in Login /\ m.code <= created /\ m.pc \in {"stale", "code"}
    BY <2>2, IdleSound DEF Login, LoginPC
  <2>. HIDE DEF m
  <2>4. TypeOK'
    BY <1>0, <2>1, <2>3 DEF TypeOK
  <2>5. CASE UNCHANGED login
    BY <1>0, <2>1, <2>4, <2>5, SameGrants, Frame
  <2>6. CASE login' = [login EXCEPT ![t] = m]
    BY <2>1, <2>3, <2>4, <2>6, MovedSound
  <2>. QED
    BY <2>1, <2>5, <2>6
<1>3. CASE DropStaleRate(t)
  <2>. DEFINE m == [l EXCEPT !.pc = "code"]
  <2>1. m \in Login /\ m.pc = "code" /\ m.code <= created
    BY <1>0, <1>1 DEF Login, LoginPC, LoginSound
  <2>2. /\ login' = [login EXCEPT ![t] = m] /\ rate' = NoRate
        /\ UNCHANGED <<now, grants, created, sessions, logins, attempts>>
    BY <1>3 DEF DropStaleRate
  <2>. HIDE DEF m
  <2>3. TypeOK'
    BY <1>0, <1>1, <2>1, <2>2 DEF TypeOK
  <2>. QED
    BY <2>1, <2>2, <2>3, MovedSound
<1>4. CASE SelectGrant(t)
  <2>1. /\ UNCHANGED <<now, grants, created, rate, sessions, logins, attempts>>
        /\ login' = [login EXCEPT ![t] = IF Usable(l.code)
                                         THEN [l EXCEPT !.pc = "claim", !.at = now]
                                         ELSE [Idle EXCEPT !.pc = "failed"]]
    BY <1>4 DEF SelectGrant
  <2>2. CASE Usable(l.code)
    <3>. DEFINE m == [l EXCEPT !.pc = "claim", !.at = now]
    <3>1. /\ m \in Login /\ m.pc = "claim" /\ m.code = l.code
          /\ l.code # 0 /\ l.code <= created
      BY <1>0, <1>1, <2>2 DEF Login, LoginPC, LoginSound, Usable
    <3>2. login' = [login EXCEPT ![t] = m]
      BY <2>1, <2>2
    <3>. HIDE DEF m
    <3>3. TypeOK'
      BY <1>0, <2>1, <3>1, <3>2 DEF TypeOK
    <3>4. \A u \in Threads : login'[u] = login[u] \/ LoginSound(u)'
      BY <1>0, <2>1, <3>1, <3>2 DEF TypeOK, LoginSound
    <3>5. NothingRevived
      BY <1>0, <2>1, SameGrants
    <3>. QED
      BY <2>1, <3>3, <3>4, <3>5, Frame
  <2>3. CASE ~Usable(l.code)
    <3>. DEFINE m == [Idle EXCEPT !.pc = "failed"]
    <3>1. m \in Login /\ m.pc = "failed" /\ m.code = 0
      BY IdleSound DEF Login, LoginPC
    <3>2. login' = [login EXCEPT ![t] = m]
      BY <2>1, <2>3
    <3>. HIDE DEF m
    <3>3. TypeOK'
      BY <1>0, <2>1, <3>1, <3>2 DEF TypeOK
    <3>. QED
      BY <1>0, <2>1, <3>1, <3>2, <3>3, MovedSound
  <2>. QED
    BY <2>2, <2>3
<1>5. CASE ReadFailures(t)
  <2>. DEFINE m == [l EXCEPT !.pc = "record", !.seen = rate, !.at = now]
  <2>1. m \in Login /\ m.pc = "record" /\ m.code <= created
    BY <1>0, <1>1 DEF Login, LoginPC, LoginSound
  <2>2. /\ login' = [login EXCEPT ![t] = m]
        /\ UNCHANGED <<now, grants, created, rate, sessions, logins, attempts>>
    BY <1>5 DEF ReadFailures
  <2>. HIDE DEF m
  <2>3. TypeOK'
    BY <1>0, <2>1, <2>2 DEF TypeOK
  <2>. QED
    BY <2>1, <2>2, <2>3, MovedSound
<1>6. CASE WriteFailure(t)
  <2>1. /\ login' = [login EXCEPT ![t] = Idle] /\ rate' \in RateRow
        /\ UNCHANGED <<now, grants, created, sessions, logins, attempts>>
    BY <1>0, <1>6, LoginTypes, FailureType DEF WriteFailure, Leave
  <2>2. TypeOK'
    BY <1>0, <2>1, IdleSound DEF TypeOK
  <2>. QED
    BY <1>0, <2>1, <2>2, IdleSound, MovedSound
<1>. QED
  BY <1>2, <1>3, <1>4, <1>5, <1>6

\* The claim overwrites used_at, and nothing else, of the row of now.
LEMMA ClaimSound ==
    ASSUME Sound, NEW t \in Threads, ClaimGrant(t)
    PROVE  Sound' /\ NothingRevived
<1>. DEFINE l   == login[t]
            row == [grants[l.code] EXCEPT !.used = l.at]
            m   == [l EXCEPT !.pc = "clear", !.at = 0]
<1>0. TypeOK /\ l \in Login /\ LoginSound(t) /\ l.at \in Nat /\ l.pc = "claim"
  BY LoginTypes DEF Sound, ClaimGrant
<1>1. l.code \in Ids /\ l.code <= created
  BY <1>0, LoginTypes DEF LoginSound
<1>2. row \in Grant /\ row.expires = grants[l.code].expires
      /\ row.revoked = grants[l.code].revoked
  BY <1>0, <1>1 DEF TypeOK, Grant
<1>3. m \in Login /\ m.pc = "clear" /\ m.code = l.code /\ l.code # 0
  BY <1>0 DEF Login, LoginPC, LoginSound
<1>4. /\ grants' = [grants EXCEPT ![l.code] = row]
      /\ UNCHANGED <<now, created, rate, sessions, logins, attempts>>
  BY DEF ClaimGrant, Claimed
<1>5. login' = [login EXCEPT ![t] = m]
  BY DEF ClaimGrant
<1>. HIDE DEF m
<1>6. TypeOK'
  BY <1>0, <1>1, <1>2, <1>3, <1>4, <1>5 DEF TypeOK
<1>7. NothingRevived
  BY <1>0, <1>1, <1>2, <1>4, UpdateRevivesNothing
<1>8. \A u \in Threads : login'[u] = login[u] \/ LoginSound(u)'
  BY <1>0, <1>1, <1>3, <1>4, <1>5 DEF TypeOK, LoginSound
<1>. QED
  BY <1>4, <1>6, <1>7, <1>8, Frame

\* The lifetime of the cookie is computed from the grant's expiry ...
LEMMA ClearSound ==
    ASSUME Sound, NEW t \in Threads, ClearFailures(t)
    PROVE  Sound' /\ NothingRevived
<1>. DEFINE l   == login[t]
            ttl == CookieTtl(grants[l.code].expires)
            m   == [l EXCEPT !.pc = "cookie", !.ttl = ttl]
<1>0. TypeOK /\ l \in Login /\ LoginSound(t) /\ l.pc = "clear" /\ NoRate \in RateRow
  BY LoginTypes DEF Sound, ClearFailures, NoRate, RateRow
<1>1. l.code \in Ids /\ l.code <= created /\ l.code # 0
  BY <1>0, LoginTypes DEF LoginSound
<1>2. ttl \in Nat /\ now + ttl >= grants[l.code].expires
  <2>1. grants[l.code].expires \in Nat
    BY <1>0, <1>1 DEF TypeOK, Grant
  <2>. QED
    BY <1>0, <2>1, TtlReaches
<1>3. m \in Login /\ m.pc = "cookie" /\ m.code = l.code /\ m.ttl = ttl
  BY <1>0, <1>2 DEF Login, LoginPC
<1>4. /\ login' = [login EXCEPT ![t] = m] /\ rate' = NoRate
      /\ UNCHANGED <<now, grants, created, sessions, logins, attempts>>
  BY DEF ClearFailures
<1>. HIDE DEF m
<1>5. TypeOK'
  BY <1>0, <1>3, <1>4 DEF TypeOK
<1>6. LoginSound(t)'
  <2>1. login'[t] = m
    BY <1>0, <1>4 DEF TypeOK
  <2>. QED
    BY <1>1, <1>2, <1>3, <1>4, <2>1 DEF LoginSound
<1>7. \A u \in Threads : login'[u] = login[u] \/ LoginSound(u)'
  BY <1>0, <1>4, <1>6 DEF TypeOK
<1>8. NothingRevived
  BY <1>0, <1>4, SameGrants
<1>. QED
  BY <1>4, <1>5, <1>7, <1>8, Frame

\* ... and applied at a later instant.
LEMMA IssueSound ==
    ASSUME Sound, NEW t \in Threads, IssueCookie(t)
    PROVE  Sound' /\ NothingRevived
<1>. DEFINE l == login[t]
            s == [grant |-> l.code, until |-> now + l.ttl]
<1>0. TypeOK /\ LoginSound(t) /\ l.pc = "cookie" /\ l.ttl \in Nat /\ now \in Nat
  BY LoginTypes DEF Sound, IssueCookie, TypeOK
<1>1. l.code \in Ids /\ l.code <= created
  BY <1>0, LoginTypes DEF LoginSound
<1>2. s \in Session /\ s.grant <= created /\ s.until >= grants[s.grant].expires
  BY <1>0, <1>1 DEF Session, LoginSound
<1>3. /\ sessions' = sessions \union {s} /\ login' = [login EXCEPT ![t] = Idle]
      /\ logins' = [logins EXCEPT ![l.code] = @ + 1]
      /\ UNCHANGED <<now, grants, created, rate, attempts>>
  BY DEF IssueCookie, Leave
<1>4. TypeOK'
  <2>1. sessions' \subseteq Session
    BY <1>0, <1>2, <1>3 DEF TypeOK
  <2>2. logins' \in [Ids -> Nat]
    <3>1. logins[l.code] + 1 \in Nat
      BY <1>0, <1>1 DEF TypeOK
    <3>. QED
      BY <1>0, <1>3, <3>1 DEF TypeOK
  <2>3. login' \in [Threads -> Login]
    BY <1>0, <1>3, IdleSound DEF TypeOK
  <2>. QED
    BY <1>0, <1>3, <2>1, <2>2, <2>3 DEF TypeOK
<1>5. NothingRevived
  BY <1>0, <1>3, SameGrants
<1>6. LoginSound(t)'
  <2>1. login'[t] = Idle /\ created' \in Nat
    BY <1>0, <1>3, <1>4 DEF TypeOK
  <2>. QED
    BY <2>1, IdleSound DEF LoginSound
<1>7. \A u \in Threads : login'[u] = login[u] \/ LoginSound(u)'
  BY <1>0, <1>3, <1>6 DEF TypeOK
<1>. QED
  BY <1>2, <1>3, <1>4, <1>5, <1>7, Frame

\* A restart of the web process drops the requests and nothing else.
LEMMA RestartSound ==
    ASSUME Sound, Restart
    PROVE  Sound' /\ NothingRevived
<1>0. TypeOK /\ created \in Nat
  BY DEF Sound, TypeOK
<1>1. /\ \A t \in Threads : login'[t] = Idle
      /\ login' \in [Threads -> Login]
      /\ UNCHANGED <<now, grants, created, rate, sessions, logins, attempts>>
  BY IdleSound DEF Restart
<1>2. TypeOK'
  BY <1>0, <1>1 DEF TypeOK
<1>3. NothingRevived
  BY <1>0, <1>1, SameGrants
<1>4. \A t \in Threads : LoginSound(t)'
  BY <1>0, <1>1, IdleSound DEF LoginSound
<1>. QED
  BY <1>1, <1>2, <1>3, <1>4, Frame

-----------------------------------------------------------------------------
\* Every step preserves the invariant; only CreateGrant makes anything live.
LEMMA NextSound ==
    ASSUME Sound, [Next]_vars
    PROVE  /\ Sound'
           /\ NothingRevived \/ \E life \in Lifetimes : CreateGrant(life)
<1>1. ASSUME NEW life \in Lifetimes, CreateGrant(life)
      PROVE  Sound'
  BY <1>1, CreateSound
<1>2. ASSUME NEW g \in Ids, RevokeGrant(g)
      PROVE  Sound' /\ NothingRevived
  BY <1>2, RevokeSound
<1>3. ASSUME NEW t \in Threads, LoginStep(t)
      PROVE  Sound' /\ NothingRevived
  BY <1>3, ReadSound, ClaimSound, ClearSound, IssueSound DEF LoginStep
<1>4. CASE UNCHANGED vars
  <2>1. /\ UNCHANGED <<now, created, grants, sessions, login, rate, logins, attempts>>
        /\ TypeOK
    BY <1>4 DEF vars, Sound
  <2>2. TypeOK'
    BY <2>1 DEF TypeOK
  <2>3. NothingRevived
    BY <2>1, SameGrants
  <2>. QED
    BY <2>1, <2>2, <2>3, Frame
<1>. QED
  BY <1>1, <1>2, <1>3, <1>4, RestartSound, TickSound DEF Next

\* The invariant holds in every reachable state.
LEMMA SoundInvariant == Spec => []Sound
<1>1. Init => Sound
  BY InitSound
<1>2. Sound /\ [Next]_vars => Sound'
  BY NextSound
<1>. QED
  BY <1>1, <1>2, PTL DEF Spec

\* Every variable keeps its type.
THEOREM TypeCorrect == Spec => []TypeOK
<1>1. Sound => TypeOK
  BY DEF Sound
<1>. QED
  BY <1>1, SoundInvariant, PTL

\* Never are two grants live at once, whatever logins are under way.
THEOREM AtMostOneLiveGrant == Spec => []OneLiveGrant
<1>1. Sound => OneLiveGrant
  BY DEF Sound
<1>. QED
  BY <1>1, SoundInvariant, PTL

\* A support cookie lasts as long as the grant it was issued for.
THEOREM SessionsCoverTheirGrants == Spec => []SessionCoversGrant
<1>1. Sound => SessionCoversGrant
  BY DEF Sound
<1>. QED
  BY <1>1, SoundInvariant, PTL

\* A grant that was revoked or has expired never authorises anything again.
THEOREM DeadGrantsStayDead == Spec => DeadStaysDead
<1>1. ASSUME Sound, [Next]_vars
      PROVE  \A g \in 1..created : ~Live(g, now) => ~Live(g, now)'
  <2>1. created \in 0..MaxGrants
    BY <1>1 DEF Sound, TypeOK
  <2>2. 1..created \subseteq Ids
    BY <2>1 DEF Ids
  <2>3. CASE NothingRevived
    BY <2>2, <2>3 DEF NothingRevived
  <2>4. ASSUME NEW life \in Lifetimes, CreateGrant(life), NEW g \in 1..created
        PROVE  ~Live(g, now)'
    <3>1. g \in Ids /\ g # created + 1 /\ grants[g] \in Grant /\ now \in Nat \ {0}
      BY <1>1, <2>1, <2>2, <2>4 DEF Sound, TypeOK
    <3>2. grants'[g] = Swept(g) /\ now' = now
      BY <2>4, <3>1 DEF CreateGrant
    <3>. QED
      BY <3>1, <3>2 DEF Swept, Live, Grant
  <2>. QED
    BY <1>1, <2>3, <2>4, NextSound
<1>2. Sound /\ [Next]_vars =>
        [\A g \in 1..created : ~Live(g, now) => ~Live(g, now)']_vars
  BY <1>1
<1>. QED
  BY <1>2, SoundInvariant, PTL DEF Spec, DeadStaysDead
-----------------------------------------------------------------------------
(* Logins with one code.  Only an unused row is selected, so the threads that *)
(* will be let in are those between the selection and the cookie when the     *)
(* first of them claims the row; from then on each of them can only leave,    *)
(* and with at most one cookie.                                               *)

InFlight(g) == {t \in Threads : /\ login[t].code = g
                                /\ login[t].pc \in {"claim", "clear", "cookie"}}

\* A claim writes the instant of its selection, which marks the row as used.
ClaimStamped == \A t \in Threads : login[t].pc = "claim" => login[t].at # 0

\* Nobody has been let in, or will be without a claim, by an unused row.
UnusedLetsNobodyIn ==
    \A g \in Ids : grants[g].used = 0 =>
        /\ logins[g] = 0
        /\ \A t \in InFlight(g) : login[t].pc = "claim"

UncreatedUnused ==
    \A g \in Ids : g > created => grants[g].used = 0

Room(g) == logins[g] + Cardinality(InFlight(g)) <= Cardinality(Threads)

OneEach ==
    /\ ClaimStamped
    /\ UnusedLetsNobodyIn
    /\ UncreatedUnused
    /\ \A g \in Ids : Room(g)

\* Requests under way are threads, so there are no more of them.
LEMMA InFlightCounted ==
    ASSUME NEW g \in Ids
    PROVE  /\ IsFiniteSet(InFlight(g))
           /\ Cardinality(InFlight(g)) \in Nat /\ Cardinality(Threads) \in Nat
           /\ Cardinality(InFlight(g)) <= Cardinality(Threads)
  BY FS_Subset, FS_CardinalityType DEF InFlight

\* A step that lets nobody in, and after which nobody new is under way with g,
\* keeps the room there is.
LEMMA RoomKept ==
    ASSUME TypeOK, NEW g \in Ids, Room(g), logins'[g] = logins[g],
           InFlight(g)' \subseteq InFlight(g)
    PROVE  Room(g)'
<1>1. /\ IsFiniteSet(InFlight(g)) /\ Cardinality(InFlight(g)) \in Nat
      /\ Cardinality(Threads) \in Nat /\ logins[g] \in Nat
  BY InFlightCounted DEF TypeOK
<1>2. /\ Cardinality(InFlight(g)') \in Nat
      /\ Cardinality(InFlight(g)') <= Cardinality(InFlight(g))
  BY <1>1, FS_Subset, FS_CardinalityType
<1>. QED
  BY <1>1, <1>2 DEF Room

\* A thread that goes from l to m, neither of which is about to be let in, or which
\* stays with the code it has selected.
LEMMA SteppedOneEach ==
    ASSUME Sound, OneEach, NEW t \in Threads, NEW m,
           login' = [login EXCEPT ![t] = m],
           UNCHANGED <<created, logins>>,
           \/ m.pc \notin {"claim", "clear", "cookie"}
           \/ m.pc = "cookie" /\ login[t].pc = "clear" /\ m.code = login[t].code,
           grants' = grants
    PROVE  OneEach'
<1>0. TypeOK
  BY DEF Sound
<1>1. \A u \in Threads : login'[u] = IF u = t THEN m ELSE login[u]
  BY <1>0 DEF TypeOK
<1>2. ClaimStamped'
  BY <1>1 DEF OneEach, ClaimStamped
<1>3. \A g \in Ids : InFlight(g)' \subseteq InFlight(g)
  BY <1>1 DEF InFlight
<1>4. UnusedLetsNobodyIn'
  BY <1>1, <1>3 DEF OneEach, UnusedLetsNobodyIn, InFlight
<1>5. \A g \in Ids : Room(g)'
  BY <1>0, <1>3, RoomKept DEF OneEach
<1>. QED
  BY <1>2, <1>4, <1>5 DEF OneEach, UncreatedUnused

\* The administrator, the clock and a restart.
LEMMA OutsideOneEach ==
    ASSUME Sound, OneEach,
           \/ \E life \in Lifetimes : CreateGrant(life)
           \/ \E g \in Ids : RevokeGrant(g)
           \/ Restart \/ Tick \/ UNCHANGED vars
    PROVE  OneEach'
<1>0. TypeOK /\ created \in Nat
  BY DEF Sound, TypeOK
<1>1. logins' = logins /\ created' \in {created, created + 1}
  BY DEF CreateGrant, RevokeGrant, Restart, Tick, vars
<1>2. login' = login \/ \A t \in Threads : login'[t] = Idle
  BY DEF CreateGrant, RevokeGrant, Restart, Tick, vars
<1>3. \A g \in Ids : grants'[g].used = grants[g].used \/ (g = created' /\ g > created)
  <2>1. CASE \E life \in Lifetimes : CreateGrant(life)
    <3>. SUFFICES ASSUME NEW g \in Ids, g # created + 1
                  PROVE  grants'[g].used = grants[g].used
      BY <1>0, <2>1 DEF CreateGrant
    <3>1. grants'[g] = Swept(g) /\ grants[g] \in Grant
      BY <1>0, <2>1 DEF CreateGrant, TypeOK
    <3>. QED
      BY <3>1 DEF Swept, Grant
  <2>2. ASSUME NEW g \in Ids, RevokeGrant(g)
        PROVE  \A h \in Ids : grants'[h].used = grants[h].used
    BY <1>0, <2>2 DEF RevokeGrant, TypeOK, Grant
  <2>. QED
    BY <2>1, <2>2 DEF Restart, Tick, vars
<1>4. \A g \in Ids : g > created => InFlight(g) = {} /\ logins[g] = 0
  <2>1. \A t \in Threads : login[t].code <= created
    BY DEF Sound, LoginSound
  <2>2. \A g \in Ids : g > created => InFlight(g) = {}
    BY <1>0, <2>1, LoginTypes DEF InFlight, Ids
  <2>. QED
    BY <2>2 DEF OneEach, UncreatedUnused, UnusedLetsNobodyIn
<1>5. \A g \in Ids : InFlight(g)' \subseteq InFlight(g)
  BY <1>2, IdleSound DEF InFlight
<1>6. ClaimStamped'
  BY <1>2, IdleSound DEF OneEach, ClaimStamped
<1>7. UnusedLetsNobodyIn'
  <2>. SUFFICES ASSUME NEW g \in Ids, grants'[g].used = 0
                PROVE  logins'[g] = 0 /\ \A t \in InFlight(g)' : login'[t].pc = "claim"
    BY DEF UnusedLetsNobodyIn
  <2>1. CASE g > created
    BY <1>1, <1>4, <1>5, <2>1
  <2>2. CASE ~(g > created)
    <3>1. grants[g].used = 0
      BY <1>3, <2>2
    <3>2. logins[g] = 0 /\ \A t \in InFlight(g) : login[t].pc = "claim"
      BY <3>1 DEF OneEach, UnusedLetsNobodyIn
    <3>3. \A t \in InFlight(g)' : login'[t] = login[t]
      BY <1>2, IdleSound DEF InFlight
    <3>. QED
      BY <1>1, <1>5, <3>2, <3>3
  <2>. QED
    BY <2>1, <2>2
<1>8. UncreatedUnused'
  <2>1. \A g \in Ids : g > created' => g > created /\ g # created' /\ g \in Nat
    BY <1>0, <1>1 DEF Ids
  <2>. QED
    BY <1>3, <2>1 DEF OneEach, UncreatedUnused
<1>9. \A g \in Ids : Room(g)'
  BY <1>0, <1>1, <1>5, RoomKept DEF OneEach
<1>. QED
  BY <1>6, <1>7, <1>8, <1>9 DEF OneEach

\* The selection of a row that lets nobody in yet: there is room for every thread.
LEMMA SelectOneEach ==
    ASSUME Sound, OneEach, NEW t \in Threads, SelectGrant(t)
    PROVE  OneEach'
<1>. DEFINE l == login[t]
            m == [l EXCEPT !.pc = "claim", !.at = now]
            n == [Idle EXCEPT !.pc = "failed"]
<1>0. TypeOK /\ l \in Login /\ now # 0
  BY LoginTypes DEF Sound, TypeOK
<1>1. /\ UNCHANGED <<grants, created, logins>>
      /\ login' = [login EXCEPT ![t] = IF Usable(l.code) THEN m ELSE n]
  BY DEF SelectGrant
<1>2. CASE ~Usable(l.code)
  <2>1. n.pc = "failed"
    BY DEF Idle
  <2>2. login' = [login EXCEPT ![t] = n]
    BY <1>1, <1>2
  <2>. HIDE DEF n
  <2>. QED
    BY <1>1, <2>1, <2>2, SteppedOneEach
<1>3. CASE Usable(l.code)
  <2>1. m.pc = "claim" /\ m.code = l.code /\ m.at # 0
    BY <1>0 DEF Login
  <2>2. login' = [login EXCEPT ![t] = m]
    BY <1>1, <1>3
  <2>3. l.code \in Ids /\ grants[l.code].used = 0
    BY <1>0, <1>3, LoginTypes DEF Usable
  <2>. HIDE DEF m
  <2>4. \A u \in Threads : login'[u] = IF u = t THEN m ELSE login[u]
    BY <1>0, <2>2 DEF TypeOK
  <2>5. ClaimStamped'
    BY <2>1, <2>4 DEF OneEach, ClaimStamped
  <2>6. \A g \in Ids : g # l.code => InFlight(g)' \subseteq InFlight(g)
    BY <2>1, <2>4 DEF InFlight
  <2>7. UnusedLetsNobodyIn'
    <3>. SUFFICES ASSUME NEW g \in Ids, grants[g].used = 0, NEW u \in InFlight(g)'
                  PROVE  login'[u].pc = "claim"
      BY <1>1 DEF OneEach, UnusedLetsNobodyIn
    <3>1. CASE u = t
      BY <2>1, <2>4, <3>1
    <3>2. CASE u # t
      <4>1. u \in InFlight(g) /\ login'[u] = login[u]
        BY <2>4, <3>2 DEF InFlight
      <4>. QED
        BY <4>1 DEF OneEach, UnusedLetsNobodyIn
    <3>. QED
      BY <3>1, <3>2
  <2>8. ASSUME NEW g \in Ids
        PROVE  Room(g)'
    <3>1. CASE g = l.code
      <4>1. logins'[g] = 0
        BY <1>1, <2>3, <3>1 DEF OneEach, UnusedLetsNobodyIn
      <4>2. InFlight(g)' \subseteq Threads
        BY DEF InFlight
      <4>3. /\ Cardinality(InFlight(g)') \in Nat
            /\ Cardinality(InFlight(g)') <= Cardinality(Threads)
        BY <4>2, FS_Subset, FS_CardinalityType
      <4>. QED
        BY <4>1, <4>3 DEF Room
    <3>2. CASE g # l.code
      BY <1>0, <1>1, <2>6, <3>2, RoomKept DEF OneEach
    <3>. QED
      BY <3>1, <3>2
  <2>. QED
    BY <1>1, <2>5, <2>7, <2>8 DEF OneEach, UncreatedUnused
<1>. QED
  BY <1>2, <1>3

\* The claim marks the row.
LEMMA ClaimOneEach ==
    ASSUME Sound, OneEach, NEW t \in Threads, ClaimGrant(t)
    PROVE  OneEach'
<1>. DEFINE l == login[t]
            m == [l EXCEPT !.pc = "clear", !.at = 0]
<1>0. TypeOK /\ LoginSound(t) /\ l \in Login /\ l.pc = "claim"
  BY LoginTypes DEF Sound, ClaimGrant
<1>1. l.code \in Ids /\ l.code <= created /\ l.at # 0 /\ created \in Nat
  BY <1>0, LoginTypes DEF LoginSound, OneEach, ClaimStamped, TypeOK
<1>2. m.pc = "clear" /\ m.code = l.code
  BY <1>0 DEF Login
<1>3. /\ UNCHANGED <<created, logins>> /\ login' = [login EXCEPT ![t] = m]
      /\ grants' = [grants EXCEPT ![l.code] = [@ EXCEPT !.used = l.at]]
  BY DEF ClaimGrant, Claimed
<1>. HIDE DEF m
<1>4. \A u \in Threads : login'[u] = IF u = t THEN m ELSE login[u]
  BY <1>0, <1>3 DEF TypeOK
<1>5. /\ grants'[l.code].used # 0
      /\ \A g \in Ids : g # l.code => grants'[g] = grants[g]
  BY <1>0, <1>1, <1>3 DEF TypeOK, Grant
<1>6. ClaimStamped'
  BY <1>2, <1>4 DEF OneEach, ClaimStamped
<1>7. \A g \in Ids : InFlight(g)' \subseteq InFlight(g)
  BY <1>0, <1>2, <1>4 DEF InFlight
<1>8. UnusedLetsNobodyIn'
  <2>. SUFFICES ASSUME NEW g \in Ids, grants'[g].used = 0
                PROVE  logins'[g] = 0 /\ \A u \in InFlight(g)' : login'[u].pc = "claim"
    BY DEF UnusedLetsNobodyIn
  <2>1. g # l.code /\ grants[g].used = 0
    BY <1>5
  <2>2. logins[g] = 0 /\ \A u \in InFlight(g) : login[u].pc = "claim"
    BY <2>1 DEF OneEach, UnusedLetsNobodyIn
  <2>3. \A u \in InFlight(g)' : login'[u] = login[u]
    BY <1>2, <1>4, <2>1 DEF InFlight
  <2>. QED
    BY <1>3, <1>7, <2>2, <2>3
<1>9. UncreatedUnused'
  BY <1>1, <1>3, <1>5 DEF OneEach, UncreatedUnused, Ids
<1>10. \A g \in Ids : Room(g)'
  BY <1>0, <1>3, <1>7, RoomKept DEF OneEach
<1>. QED
  BY <1>6, <1>8, <1>9, <1>10 DEF OneEach

\* A cookie is handed to a request that leaves: one login more, one request less.
LEMMA IssueOneEach ==
    ASSUME Sound, OneEach, NEW t \in Threads, IssueCookie(t)
    PROVE  OneEach'
<1>. DEFINE l == login[t]
<1>0. TypeOK /\ LoginSound(t) /\ l.pc = "cookie"
  BY DEF Sound, IssueCookie
<1>1. l.code \in Ids
  BY <1>0, LoginTypes DEF LoginSound
<1>2. /\ UNCHANGED <<created, grants>> /\ login' = [login EXCEPT ![t] = Idle]
      /\ logins' = [logins EXCEPT ![l.code] = @ + 1]
  BY DEF IssueCookie, Leave
<1>3. \A u \in Threads : login'[u] = IF u = t THEN Idle ELSE login[u]
  BY <1>0, <1>2 DEF TypeOK
<1>4. t \in InFlight(l.code)
  BY <1>0 DEF InFlight
<1>5. grants[l.code].used # 0
  BY <1>0, <1>1, <1>4 DEF OneEach, UnusedLetsNobodyIn
<1>6. \A g \in Ids : g # l.code => logins'[g] = logins[g]
  BY <1>0, <1>1, <1>2 DEF TypeOK
<1>7. ClaimStamped'
  BY <1>3, IdleSound DEF OneEach, ClaimStamped
<1>8. \A g \in Ids : InFlight(g)' = InFlight(g) \ {t}
  BY <1>3, IdleSound DEF InFlight
<1>9. UnusedLetsNobodyIn'
  <2>. SUFFICES ASSUME NEW g \in Ids, grants[g].used = 0
                PROVE  logins'[g] = 0 /\ \A u \in InFlight(g)' : login'[u].pc = "claim"
    BY <1>2 DEF UnusedLetsNobodyIn
  <2>1. logins[g] = 0 /\ (\A u \in InFlight(g) : login[u].pc = "claim") /\ g # l.code
    BY <1>5 DEF OneEach, UnusedLetsNobodyIn
  <2>2. \A u \in InFlight(g)' : login'[u] = login[u]
    BY <1>3, <1>8 DEF InFlight
  <2>. QED
    BY <1>6, <1>8, <2>1, <2>2
<1>10. ASSUME NEW g \in Ids
       PROVE  Room(g)'
  <2>1. CASE g = l.code
    <3>1. /\ IsFiniteSet(InFlight(g)) /\ Cardinality(InFlight(g)) \in Nat
          /\ logins[g] \in Nat /\ Cardinality(Threads) \in Nat
      BY <1>0, InFlightCounted DEF TypeOK
    <3>2. Cardinality(InFlight(g)') = Cardinality(InFlight(g)) - 1
      BY <1>4, <1>8, <2>1, <3>1, FS_RemoveElement
    <3>3. logins'[g] = logins[g] + 1
      BY <1>0, <1>2, <2>1 DEF TypeOK
    <3>. QED
      BY <3>1, <3>2, <3>3 DEF OneEach, Room
  <2>2. CASE g # l.code
    BY <1>0, <1>6, <1>8, <2>2, RoomKept DEF OneEach
  <2>. QED
    BY <2>1, <2>2
<1>. QED
  BY <1>2, <1>7, <1>9, <1>10 DEF OneEach, UncreatedUnused

\* The other steps of a request select nothing, claim nothing and let nobody in.
LEMMA OtherOneEach ==
    ASSUME Sound, OneEach, NEW t \in Threads,
           \/ \E code \in 0..created : BeginLogin(t, code)
           \/ DropStaleRate(t) \/ ClearFailures(t) \/ ReadFailures(t) \/ WriteFailure(t)
    PROVE  OneEach'
<1>. DEFINE l == login[t]
<1>0. TypeOK /\ l \in Login
  BY LoginTypes DEF Sound
<1>1. UNCHANGED <<grants, created, logins>>
  BY DEF BeginLogin, DropStaleRate, ClearFailures, ReadFailures, WriteFailure
<1>2. CASE \E code \in 0..created : BeginLogin(t, code)
  <2>1. CASE UNCHANGED login
    BY <1>1, <2>1 DEF OneEach, ClaimStamped, UnusedLetsNobodyIn, UncreatedUnused, Room, InFlight
  <2>2. CASE ~UNCHANGED login
    <3>. DEFINE pc == IF rate # NoRate /\ StaleRate(rate, now, Window) THEN "stale" ELSE "code"
                m(code) == [Idle EXCEPT !.code = code, !.pc = pc]
    <3>1. PICK code \in 0..created : login' = [login EXCEPT ![t] = m(code)]
      BY <1>2, <2>2 DEF BeginLogin
    <3>2. m(code).pc \in {"stale", "code"}
      BY DEF Idle
    <3>. HIDE DEF m
    <3>. QED
      BY <1>1, <3>1, <3>2, SteppedOneEach
  <2>. QED
    BY <2>1, <2>2
<1>3. CASE DropStaleRate(t)
  <2>. DEFINE m == [l EXCEPT !.pc = "code"]
  <2>1. m.pc = "code" /\ login' = [login EXCEPT ![t] = m]
    BY <1>0, <1>3 DEF DropStaleRate, Login
  <2>. HIDE DEF m
  <2>. QED
    BY <1>1, <2>1, SteppedOneEach
<1>4. CASE ClearFailures(t)
  <2>. DEFINE m == [l EXCEPT !.pc = "cookie", !.ttl = CookieTtl(grants[l.code].expires)]
  <2>1. m.pc = "cookie" /\ m.code = l.code /\ l.pc = "clear" /\ login' = [login EXCEPT ![t] = m]
    BY <1>0, <1>4 DEF ClearFailures, Login
  <2>. HIDE DEF m
  <2>. QED
    BY <1>1, <2>1, SteppedOneEach
<1>5. CASE ReadFailures(t)
  <2>. DEFINE m == [l EXCEPT !.pc = "record", !.seen = rate, !.at = now]
  <2>1. m.pc = "record" /\ login' = [login EXCEPT ![t] = m]
    BY <1>0, <1>5 DEF ReadFailures, Login
  <2>. HIDE DEF m
  <2>. QED
    BY <1>1, <2>1, SteppedOneEach
<1>6. CASE WriteFailure(t)
  BY <1>1, <1>6, IdleSound, SteppedOneEach DEF WriteFailure, Leave
<1>. QED
  BY <1>2, <1>3, <1>4, <1>5, <1>6

\* A code lets in at most one request of each thread of the pool: those that have
\* overlapped with the first.
THEOREM NoMoreLoginsThanThreads == Spec => []OneLoginPerThread
<1>1. Init => OneEach
  <2>. SUFFICES ASSUME Init PROVE OneEach
    OBVIOUS
  <2>1. \A t \in Threads : login[t].pc = "idle"
    BY IdleSound DEF Init
  <2>2. \A g \in Ids : InFlight(g) = {} /\ logins[g] = 0 /\ grants[g].used = 0
    BY <2>1 DEF Init, InFlight, NoGrant
  <2>3. \A g \in Ids : Room(g)
    BY <2>2, InFlightCounted DEF Room
  <2>. QED
    BY <2>1, <2>2, <2>3 DEF OneEach, ClaimStamped, UnusedLetsNobodyIn, UncreatedUnused
<1>2. Sound /\ OneEach /\ [Next]_vars => OneEach'
  BY OutsideOneEach, SelectOneEach, ClaimOneEach, IssueOneEach, OtherOneEach DEF Next, LoginStep
<1>3. Sound /\ OneEach => OneLoginPerThread
  <2>. SUFFICES ASSUME Sound, OneEach, NEW g \in Ids
                PROVE  logins[g] <= Cardinality(Threads)
    BY DEF OneLoginPerThread
  <2>. QED
    BY InFlightCounted DEF OneEach, Room, Sound, TypeOK
<1>. QED
  BY <1>1, <1>2, <1>3, SoundInvariant, PTL DEF Spec
=============================================================================
