------------------------- MODULE LicenseLeaseProofs -------------------------
(***************************************************************************)
(* Type correctness of LicenseLease and the bound on what a panel grants   *)
(* without the owner, for every set of licences, threads, terms, durations *)
(* and bounds.                                                             *)
(***************************************************************************)
EXTENDS LicenseLease, TLAPS

USE LicenseConstants

-----------------------------------------------------------------------------
(* The inductive invariant.                                                *)

\* A lease that says active is no younger than the owner's record allows.
Backed(l) ==
    l.status = "active" =>
        lastActive[l.lic] > 0 /\ l.expires <= lastActive[l.lic] + Ttl

\* A code that has not run out left the owner's hands with an active licence.
Fresh(c) ==
    c.online /\ ~Expired(c, now) =>
        lastActive[c.lic] > 0 /\ c.issued <= lastActive[c.lic]

\* The codes a setting, a request or a record may hold.
Known == codes \union {None}

\* What an actor of the panel holds came from the settings or from the owner.
Holds(p) == p.code \in Known /\ p.new \in Known /\ Backed(p.lease)

OwnerSound ==
    /\ now > 0
    /\ \A l \in Lic : /\ lastActive[l] <= now
                      /\ Active(records[l], now) => lastActive[l] = now
                      /\ records[l].current \in Known
    /\ \A d \in Desk : desk[d].new.issued <= now
    /\ \A c \in codes : Fresh(c)

PanelSound ==
    /\ code \in Known
    /\ Backed(lease)
    /\ \A a \in Actor : Holds(proc[a])

Sound == TypeOK /\ OwnerSound /\ PanelSound

-----------------------------------------------------------------------------
(* Types.                                                                  *)

\* The empty settings and an actor at rest have their types.
LEMMA EmptyTypes ==
    None \in Code /\ NoLease \in Lease /\ Idle \in Proc /\ NoLease.status # "active"
<1>1. (CHOOSE l \in Lic : TRUE) \in Lic
  BY Zenon
<1>. QED
  BY <1>1 DEF None, Code, NoLease, Lease, Idle, Proc, PC

\* So have the rows before anything is issued.
LEMMA NoRecordType == NoRecord \in Record /\ NoDesk \in DeskState
  BY EmptyTypes DEF NoRecord, Record, NoDesk, DeskState

\* The owner's answer is a lease and a code, or none.
LEMMA AnswerTypes ==
    ASSUME TypeOK, NEW r \in Record, NEW c \in Code
    PROVE  LeaseFor(r, c) \in Lease /\ Replacement(r, c) \in {r.current, None}
  BY DEF TypeOK, Record, Code, LeaseFor, Lease, Replacement

\* A renewed code is a code.
LEMMA ResignedType ==
    ASSUME TypeOK, NEW r \in Record, NEW term \in Terms
    PROVE  /\ Resigned(r, term) \in Code
           /\ Resigned(r, term).issued = now
<1>1. r.current \in Code /\ term \in Nat /\ now \in Nat
  BY DEF TypeOK, Record
<1>. DEFINE e == Ends(Later(now, r.current.expires), term)
<1>2. e \in Nat
  BY <1>1 DEF Ends, Later, Code
<1>. DEFINE v == r.current.rev + 1
            n == [r.current EXCEPT !.rev = v, !.issued = now, !.expires = e]
<1>3. v \in Nat
  BY <1>1 DEF Code
<1>4. Resigned(r, term) = n
  BY DEF Resigned
<1>. HIDE DEF e, v
<1>5. n \in Code /\ n.issued = now
  BY <1>1, <1>2, <1>3 DEF Code
<1>. HIDE DEF n
<1>. QED
  BY <1>4, <1>5

-----------------------------------------------------------------------------
(* Steps of the panel leave the owner alone.                               *)

OwnerKept == UNCHANGED <<now, records, desk, codes, lastActive>>

\* An actor moves on with what it may hold, the settings take what they may.
LEMMA PanelFrame ==
    ASSUME Sound, OwnerKept,
           code' \in Known, lease' \in Lease, Backed(lease'),
           NEW a \in Actor, NEW p \in Proc, Holds(p),
           proc' = [proc EXCEPT ![a] = p]
    PROVE  OwnerSound' /\ PanelSound' /\ code' \in Code /\ proc' \in [Actor -> Proc]
<1>1. code' \in Code
  BY EmptyTypes DEF Sound, TypeOK, Known
<1>2. proc' \in [Actor -> Proc]
  BY DEF Sound, TypeOK
<1>3. OwnerSound'
  BY DEF Sound, OwnerKept, OwnerSound, Fresh, Expired, Active, Known
<1>4. \A b \in Actor : proc'[b] = IF b = a THEN p ELSE proc[b]
  BY DEF Sound, TypeOK
<1>5. \A b \in Actor : Holds(proc'[b])
  BY <1>4 DEF Sound, PanelSound
<1>6. PanelSound'
  BY <1>5 DEF PanelSound, Known, Holds, Backed, OwnerKept
<1>. QED
  BY <1>1, <1>2, <1>3, <1>6

\* An actor at rest holds nothing.
LEMMA IdleHolds == Holds(Idle)
  BY EmptyTypes DEF Holds, Idle, Known, Backed

\* The answer to a panel holds what the owner's table vouches for.
LEMMA AnswerBacked ==
    ASSUME Sound, NEW c \in Code
    PROVE  /\ Backed(LeaseFor(records[c.lic], c))
           /\ Replacement(records[c.lic], c) \in Known
<1>. DEFINE r == records[c.lic]
<1>1. c.lic \in Lic /\ r \in Record
  BY DEF Code, Sound, TypeOK
<1>2. CASE Active(r, now)
  <2>1. lastActive[c.lic] = now /\ now > 0
    BY <1>1, <1>2 DEF Sound, OwnerSound
  <2>2. now \in Nat /\ Ttl \in Nat /\ r.current \in Known
    BY <1>1 DEF Sound, TypeOK, OwnerSound
  <2>3. LeaseFor(r, c).lic = c.lic /\ LeaseFor(r, c).expires = now + Ttl
    BY DEF LeaseFor
  <2>4. Backed(LeaseFor(r, c))
    BY <2>1, <2>2, <2>3 DEF Backed
  <2>5. Replacement(r, c) \in Known
    BY <2>2 DEF Replacement, Known
  <2>. QED
    BY <2>4, <2>5
<1>3. CASE ~Active(r, now)
  BY <1>1, <1>3 DEF LeaseFor, Backed, Replacement, Known
<1>. QED
  BY <1>2, <1>3

\* Every statement of a synchronisation, by the loop or by a request.
LEMMA SyncSound ==
    ASSUME Sound, NEW a \in Actor, SyncStep(a)
    PROVE  Sound'
<1>. DEFINE p == proc[a]
<1>1. /\ p \in Proc /\ Holds(p) /\ Holds(Idle) /\ Idle \in Proc
      /\ code \in Code /\ code \in Known /\ lease \in Lease /\ Backed(lease)
      /\ p.code \in Code /\ p.new \in Code /\ p.lease \in Lease
  BY IdleHolds, EmptyTypes DEF Sound, TypeOK, PanelSound, Proc
<1>2. CASE SyncRead(a)
  <2>. DEFINE q == [p EXCEPT !.pc = IF code.online THEN "ask" ELSE "drop", !.code = code]
  <2>1. q \in Proc /\ Holds(q)
    BY <1>1 DEF Proc, PC, Holds
  <2>2. proc' = [proc EXCEPT ![a] = Idle] \/ proc' = [proc EXCEPT ![a] = q]
    BY <1>2 DEF SyncRead, Done, Sound, TypeOK
  <2>3. UNCHANGED <<now, records, desk, codes, lastActive, ops, code, lease, requests, faults>>
    BY <1>2 DEF SyncRead, owner
  <2>. QED
    BY <1>1, <2>1, <2>2, <2>3, PanelFrame DEF Sound, TypeOK, OwnerKept
<1>3. CASE SyncAsk(a)
  <2>. DEFINE r == records[p.code.lic]
              q == [p EXCEPT !.pc = "answer", !.lease = LeaseFor(r, p.code),
                             !.new = Replacement(r, p.code)]
  <2>1. r \in Record /\ r.current \in Code
    BY <1>1 DEF Sound, TypeOK, Code, Record
  <2>2. LeaseFor(r, p.code) \in Lease /\ Replacement(r, p.code) \in Code
    BY <1>1, <2>1, AnswerTypes, EmptyTypes DEF Sound
  <2>3. q \in Proc
    BY <1>1, <2>2 DEF Proc, PC
  <2>4. Holds(q)
    <3>1. Backed(LeaseFor(r, p.code)) /\ Replacement(r, p.code) \in Known
      BY <1>1, AnswerBacked
    <3>2. q.code = p.code /\ q.new = Replacement(r, p.code) /\ q.lease = LeaseFor(r, p.code)
      BY <1>1 DEF Proc
    <3>. QED
      BY <1>1, <3>1, <3>2 DEF Holds
  <2>5. proc' = [proc EXCEPT ![a] = q]
    BY <1>3 DEF SyncAsk, Sound, TypeOK
  <2>6. UNCHANGED <<now, records, desk, codes, lastActive, ops, code, lease, requests, faults>>
    BY <1>3 DEF SyncAsk, owner
  <2>. QED
    BY <1>1, <2>3, <2>4, <2>5, <2>6, PanelFrame DEF Sound, TypeOK, OwnerKept
<1>4. CASE SyncFails(a)
  <2>1. UNCHANGED <<now, records, desk, codes, lastActive, ops, code, lease, requests>>
        /\ faults' \in Nat /\ proc' = [proc EXCEPT ![a] = Idle]
    BY <1>4 DEF SyncFails, owner, Done, Sound, TypeOK
  <2>. QED
    BY <1>1, <2>1, PanelFrame DEF Sound, TypeOK, OwnerKept
<1>5. CASE SyncStore(a)
  <2>. DEFINE q == [p EXCEPT !.pc = "replace"]
  <2>1. q \in Proc /\ Holds(q)
    BY <1>1 DEF Proc, PC, Holds
  <2>2. proc' = [proc EXCEPT ![a] = Idle] \/ proc' = [proc EXCEPT ![a] = q]
    BY <1>5 DEF SyncStore, Done, Goto, Sound, TypeOK
  <2>3. lease' \in {lease, p.lease}
    BY <1>5 DEF SyncStore
  <2>4. UNCHANGED <<now, records, desk, codes, lastActive, ops, code, requests, faults>>
    BY <1>5 DEF SyncStore, owner
  <2>5. Backed(lease') /\ lease' \in Lease
    BY <1>1, <2>3 DEF Holds
  <2>. QED
    BY <1>1, <2>1, <2>2, <2>4, <2>5, PanelFrame DEF Sound, TypeOK, OwnerKept
<1>6. CASE SyncReplace(a)
  <2>1. UNCHANGED <<now, records, desk, codes, lastActive, ops, lease, requests, faults>>
        /\ code' \in {code, p.new} /\ proc' = [proc EXCEPT ![a] = Idle]
    BY <1>6 DEF SyncReplace, owner, Done
  <2>2. code' \in Known
    BY <1>1, <2>1 DEF Holds
  <2>. QED
    BY <1>1, <2>1, <2>2, PanelFrame DEF Sound, TypeOK, OwnerKept
<1>7. CASE DropLease(a)
  <2>. DEFINE q == [Idle EXCEPT !.pc = "sync", !.op = "sync"]
  <2>1. q \in Proc /\ Holds(q)
    BY <1>1 DEF Proc, PC, Holds
  <2>2. proc' = [proc EXCEPT ![a] = Idle] \/ proc' = [proc EXCEPT ![a] = q]
    BY <1>7 DEF DropLease, Done
  <2>3. UNCHANGED <<now, records, desk, codes, lastActive, ops, code, requests, faults>>
        /\ lease' = NoLease
    BY <1>7 DEF DropLease, owner
  <2>4. Backed(lease') /\ lease' \in Lease
    BY <2>3, EmptyTypes DEF Backed
  <2>. QED
    BY <1>1, <2>1, <2>2, <2>3, <2>4, PanelFrame DEF Sound, TypeOK, OwnerKept
<1>. QED
  BY <1>2, <1>3, <1>4, <1>5, <1>6, <1>7 DEF SyncStep

\* The loop waking up, and the requests: they begin from rest, with a code that
\* is known.
LEMMA RequestSound ==
    ASSUME Sound, LoopWakes \/ \E t \in Thread : BeginRequest(t) \/ Check(t)
    PROVE  Sound'
<1>1. /\ Holds(Idle) /\ Idle \in Proc /\ None \in Known
      /\ code \in Code /\ code \in Known /\ lease \in Lease /\ Backed(lease)
      /\ codes \subseteq Known /\ codes \subseteq Code
  BY IdleHolds, EmptyTypes DEF Sound, TypeOK, PanelSound, Known
<1>2. ASSUME NEW a \in Actor, NEW q \in Proc, Holds(q), proc' = [proc EXCEPT ![a] = q],
             code' \in Known, requests' \in Nat,
             UNCHANGED <<now, records, desk, codes, lastActive, ops, lease, faults>>
      PROVE  Sound'
  BY <1>1, <1>2, PanelFrame DEF Sound, TypeOK, OwnerKept
<1>3. ASSUME NEW op \in {"sync", "remove"}, NEW pc \in {"sync", "drop"}
      PROVE  LET q == [Idle EXCEPT !.pc = pc, !.op = op] IN q \in Proc /\ Holds(q)
  BY <1>1 DEF Proc, PC, Holds
<1>4. ASSUME NEW op \in {"activate", "check"}, NEW pc \in {"drop", "check"}, NEW c \in Known
      PROVE  LET q == [Idle EXCEPT !.pc = pc, !.op = op, !.code = c]
             IN  q \in Proc /\ Holds(q)
  <2>1. c \in Code
    BY <1>1, EmptyTypes DEF Known
  <2>. QED
    BY <1>1, <2>1 DEF Proc, PC, Holds
<1>5. CASE LoopWakes
  <2>1. proc' = [proc EXCEPT ![Loop] = [Idle EXCEPT !.pc = "sync", !.op = "sync"]]
    BY <1>5 DEF LoopWakes
  <2>2. /\ UNCHANGED <<now, records, desk, codes, lastActive, ops, code, lease, faults>>
        /\ requests' \in Nat /\ Loop \in Actor
    BY <1>5 DEF LoopWakes, owner, Actor, Sound, TypeOK
  <2>. QED
    BY <1>1, <1>2, <1>3, <2>1, <2>2
<1>6. ASSUME NEW t \in Thread, BeginRequest(t) PROVE Sound'
  <2>0. t \in Actor
    BY DEF Actor
  <2>1. CASE BeginSync(t)
    <3>1. proc' = [proc EXCEPT ![t] = [Idle EXCEPT !.pc = "sync", !.op = "sync"]]
      BY <2>1 DEF BeginSync, Begin
    <3>2. /\ UNCHANGED <<now, records, desk, codes, lastActive, ops, code, lease, faults>>
          /\ requests' \in Nat
      BY <2>1 DEF BeginSync, Request, owner, Sound, TypeOK
    <3>. QED
      BY <1>1, <1>2, <1>3, <2>0, <3>1, <3>2
  <2>2. ASSUME NEW c \in codes, BeginActivate(t, c) PROVE Sound'
    <3>1. proc' = [proc EXCEPT ![t] =
                     [Idle EXCEPT !.pc = "drop", !.op = "activate", !.code = c]]
      BY <2>2 DEF BeginActivate, Begin
    <3>2. /\ UNCHANGED <<now, records, desk, codes, lastActive, ops, lease, faults>>
          /\ requests' \in Nat /\ code' = c
      BY <2>2 DEF BeginActivate, Request, owner, Sound, TypeOK
    <3>. QED
      BY <1>1, <1>2, <1>4, <2>0, <3>1, <3>2
  <2>3. CASE BeginRemove(t)
    <3>1. proc' = [proc EXCEPT ![t] = [Idle EXCEPT !.pc = "drop", !.op = "remove"]]
      BY <2>3 DEF BeginRemove, Begin
    <3>2. /\ UNCHANGED <<now, records, desk, codes, lastActive, ops, lease, faults>>
          /\ requests' \in Nat /\ code' = None
      BY <2>3 DEF BeginRemove, Request, owner, Sound, TypeOK
    <3>. QED
      BY <1>1, <1>2, <1>3, <2>0, <3>1, <3>2
  <2>4. CASE BeginCheck(t)
    <3>1. proc' = [proc EXCEPT ![t] =
                     [Idle EXCEPT !.pc = "check", !.op = "check", !.code = code]]
      BY <2>4 DEF BeginCheck, Begin
    <3>2. /\ UNCHANGED <<now, records, desk, codes, lastActive, ops, code, lease, faults>>
          /\ requests' \in Nat
      BY <2>4 DEF BeginCheck, owner, Sound, TypeOK
    <3>. QED
      BY <1>1, <1>2, <1>4, <2>0, <3>1, <3>2
  <2>. QED
    BY <1>6, <2>1, <2>2, <2>3, <2>4 DEF BeginRequest
<1>7. ASSUME NEW t \in Thread, Check(t) PROVE Sound'
  BY <1>1, <1>7, PanelFrame
  DEF Check, Done, owner, Actor, Sound, TypeOK, OwnerKept
<1>. QED
  BY <1>5, <1>6, <1>7

\* A panel that dies holds nothing any more.
LEMMA PanelDiesSound ==
    ASSUME Sound, PanelDies
    PROVE  Sound'
<1>1. UNCHANGED <<now, records, desk, codes, lastActive, ops, code, lease, requests>>
      /\ faults' \in Nat /\ proc' = [a \in Actor |-> Idle]
  BY DEF PanelDies, owner, Sound, TypeOK
<1>2. TypeOK'
  BY <1>1, EmptyTypes DEF Sound, TypeOK
<1>3. OwnerSound'
  BY <1>1 DEF Sound, OwnerSound, Fresh, Expired, Active, Known
<1>4. PanelSound'
  BY <1>1, IdleHolds DEF Sound, PanelSound, Holds, Known, Backed
<1>. QED
  BY <1>2, <1>3, <1>4 DEF Sound

-----------------------------------------------------------------------------
(* Steps of the owner and of the clock leave the panel alone.              *)

\* What the panel holds stays backed as long as codes are only added and the
\* history only grows.
LEMMA PanelKept ==
    ASSUME Sound, UNCHANGED <<code, lease, proc>>,
           codes \subseteq codes',
           lastActive' \in [Lic -> Nat],
           \A l \in Lic : lastActive[l] <= lastActive'[l]
    PROVE  PanelSound'
<1>1. \A l \in Lease : Backed(l) => Backed(l)'
  BY DEF Backed, Lease, Sound, TypeOK
<1>2. \A a \in Actor : proc[a].lease \in Lease
  BY DEF Sound, TypeOK, Proc
<1>3. lease \in Lease
  BY DEF Sound, TypeOK
<1>4. Backed(lease)' /\ code' \in Known'
  BY <1>1, <1>3 DEF Sound, PanelSound, Known
<1>5. ASSUME NEW a \in Actor PROVE Holds(proc[a])'
  <2>1. Backed(proc[a].lease)'
    BY <1>1, <1>2 DEF Sound, PanelSound, Holds
  <2>. QED
    BY <2>1 DEF Sound, PanelSound, Holds, Known
<1>. QED
  BY <1>4, <1>5 DEF PanelSound

\* A new row for l: its code joins the codes, and the history notes whether it
\* is active.
LEMMA RowSound ==
    ASSUME Sound, NEW l \in Lic, NEW r \in Record, NEW given \in SUBSET {r.current},
           UNCHANGED <<now, code, lease, proc>>,
           records' = [records EXCEPT ![l] = r],
           codes' = codes \union given,
           r.current \in Known \union given,
           \A c \in given : c.lic = l /\ c.issued <= now /\ r.status = "active",
           \A d \in Desk : desk'[d].new.issued <= now,
           Witnessed(l, r)
    PROVE  OwnerSound' /\ PanelSound' /\ lastActive' \in [Lic -> Nat]
<1>1. lastActive' = [lastActive EXCEPT ![l] = IF Active(r, now) THEN now ELSE @]
  BY DEF Witnessed
<1>2. lastActive' \in [Lic -> Nat] /\ now \in Nat
  BY <1>1 DEF Sound, TypeOK
<1>3. \A k \in Lic : lastActive[k] <= lastActive'[k] /\ lastActive'[k] <= now
  BY <1>1 DEF Sound, TypeOK, OwnerSound
<1>4. PanelSound'
  BY <1>2, <1>3, PanelKept
<1>5. ASSUME NEW k \in Lic, Active(records[k], now)'
      PROVE  lastActive'[k] = now
  <2>1. records'[k] = IF k = l THEN r ELSE records[k]
    BY DEF Sound, TypeOK
  <2>2. Active(records'[k], now)
    BY <1>5 DEF Active, Expired
  <2>. QED
    BY <1>1, <2>1, <2>2 DEF Sound, TypeOK, OwnerSound
<1>6. ASSUME NEW k \in Lic PROVE records'[k].current \in Known'
  BY DEF Sound, TypeOK, OwnerSound, Known
<1>7. ASSUME NEW c \in codes' PROVE Fresh(c)'
  <2>1. CASE c \in codes
    <3>1. c \in Code /\ c.lic \in Lic
      BY <2>1 DEF Sound, TypeOK, Code
    <3>2. Fresh(c) /\ c.issued \in Nat
      BY <2>1, <3>1 DEF Sound, OwnerSound, Code
    <3>3. Expired(c, now)' <=> Expired(c, now)
      BY DEF Expired
    <3>4. lastActive[c.lic] <= lastActive'[c.lic]
          /\ lastActive[c.lic] \in Nat /\ lastActive'[c.lic] \in Nat
      BY <1>2, <1>3, <3>1 DEF Sound, TypeOK
    <3>. QED
      BY <3>2, <3>3, <3>4 DEF Fresh
  <2>2. CASE c \in given
    <3>1. c = r.current /\ c.lic = l /\ c.issued <= now /\ r.status = "active"
      BY <2>2
    <3>2. ~Expired(c, now) => lastActive'[l] = now
      BY <1>1, <3>1 DEF Active, Sound, TypeOK
    <3>. QED
      BY <1>2, <3>1, <3>2 DEF Fresh, Expired, Sound, OwnerSound
  <2>. QED
    BY <2>1, <2>2
<1>8. OwnerSound'
  BY <1>3, <1>5, <1>6, <1>7 DEF Sound, OwnerSound
<1>. QED
  BY <1>2, <1>4, <1>8

\* Operations of the control centre.
LEMMA OwnerStepSound ==
    ASSUME Sound, OwnerStep
    PROVE  Sound'
<1>1. ASSUME NEW l \in Lic, NEW term \in Terms, Issue(l, term) PROVE Sound'
  <2>. DEFINE c == [lic |-> l, rev |-> 1, issued |-> now, expires |-> Ends(now, term),
                    online |-> TRUE]
              r == [status |-> "active", current |-> c]
  <2>1. c \in Code /\ r \in Record /\ r.current = c
    BY DEF Code, Record, Ends, Sound, TypeOK
  <2>2. /\ records' = [records EXCEPT ![l] = r]
        /\ codes' = codes \union {c}
        /\ Witnessed(l, r)
        /\ UNCHANGED <<now, desk, code, lease, proc, requests, faults>>
        /\ ops' \in Nat
    BY <1>1 DEF Issue, panel, Operation, Sound, TypeOK
  <2>3. OwnerSound' /\ PanelSound' /\ lastActive' \in [Lic -> Nat]
    <3>1. {c} \in SUBSET {r.current}
      BY <2>1
    <3>2. \A d \in Desk : desk'[d].new.issued <= now
      BY <2>2 DEF Sound, OwnerSound
    <3>3. \A x \in {c} : x.lic = l /\ x.issued <= now /\ r.status = "active"
      BY DEF Sound, TypeOK
    <3>. QED
      BY <2>1, <2>2, <3>1, <3>2, <3>3, RowSound
  <2>4. TypeOK'
    BY <2>1, <2>2, <2>3 DEF Sound, TypeOK
  <2>. QED
    BY <2>3, <2>4 DEF Sound
<1>2. ASSUME NEW d \in Desk, NEW l \in Lic, NEW term \in Terms, BeginRenew(d, l, term)
      PROVE  Sound'
  <2>. DEFINE n == [busy |-> TRUE, new |-> Resigned(records[l], term)]
  <2>1. records[l] \in Record
    BY DEF Sound, TypeOK
  <2>2. n \in DeskState /\ n.new.issued = now
    BY <2>1, ResignedType DEF DeskState, Record, Sound
  <2>3. /\ desk' = [desk EXCEPT ![d] = n]
        /\ UNCHANGED <<now, records, codes, lastActive, code, lease, proc, requests, faults>>
        /\ ops' \in Nat
    BY <1>2 DEF BeginRenew, panel, Operation, Sound, TypeOK
  <2>4. TypeOK'
    BY <2>2, <2>3 DEF Sound, TypeOK
  <2>5. \A e \in Desk : desk'[e].new.issued <= now
    BY <2>2, <2>3 DEF Sound, TypeOK, OwnerSound
  <2>6. OwnerSound'
    BY <2>3, <2>5 DEF Sound, OwnerSound, Fresh, Expired, Active, Known
  <2>7. PanelSound'
    BY <2>3 DEF Sound, PanelSound, Holds, Backed, Known
  <2>. QED
    BY <2>4, <2>6, <2>7 DEF Sound
<1>3. ASSUME NEW l \in Lic, NEW status \in {"active", "revoked"}, SetStatus(l, status)
      PROVE  Sound'
  <2>. DEFINE r == [records[l] EXCEPT !.status = status]
  <2>1. records[l] \in Record
    BY DEF Sound, TypeOK
  <2>2. r \in Record /\ r.current = records[l].current
    BY <2>1 DEF Record
  <2>3. /\ records' = [records EXCEPT ![l] = r]
        /\ Witnessed(l, r)
        /\ UNCHANGED <<now, desk, codes, code, lease, proc, requests, faults>>
        /\ ops' \in Nat
    BY <1>3 DEF SetStatus, panel, Operation, Sound, TypeOK
  <2>4. OwnerSound' /\ PanelSound' /\ lastActive' \in [Lic -> Nat]
    <3>1. {} \in SUBSET {r.current} /\ codes' = codes \union {}
      BY <2>3
    <3>2. r.current \in Known \union {}
      BY <2>2 DEF Sound, OwnerSound
    <3>3. \A d \in Desk : desk'[d].new.issued <= now
      BY <2>3 DEF Sound, OwnerSound
    <3>. QED
      BY <2>2, <2>3, <3>1, <3>2, <3>3, RowSound
  <2>5. TypeOK'
    BY <2>2, <2>3, <2>4 DEF Sound, TypeOK
  <2>. QED
    BY <2>4, <2>5 DEF Sound
<1>4. ASSUME NEW d \in Desk, FinishRenew(d) PROVE Sound'
  <2>. DEFINE c == desk[d].new
              r == [status |-> "active", current |-> c]
  <2>1. c \in Code /\ c.lic \in Lic /\ r \in Record /\ r.current = c
    BY DEF Sound, TypeOK, DeskState, Code, Record
  <2>2. /\ records' = [records EXCEPT ![c.lic] = r]
        /\ codes' = codes \union {c}
        /\ Witnessed(c.lic, r)
        /\ desk' = [desk EXCEPT ![d] = NoDesk]
        /\ UNCHANGED <<now, code, lease, proc, requests, faults, ops>>
    BY <1>4 DEF FinishRenew, panel
  <2>3. OwnerSound' /\ PanelSound' /\ lastActive' \in [Lic -> Nat]
    <3>1. {c} \in SUBSET {r.current}
      BY <2>1
    <3>2. \A e \in Desk : desk'[e].new.issued <= now
      BY <2>2 DEF Sound, TypeOK, OwnerSound, NoDesk, None
    <3>3. \A x \in {c} : x.lic = c.lic /\ x.issued <= now /\ r.status = "active"
      BY DEF Sound, OwnerSound
    <3>. QED
      BY <2>1, <2>2, <3>1, <3>2, <3>3, RowSound
  <2>4. TypeOK'
    BY <2>1, <2>2, <2>3, NoRecordType DEF Sound, TypeOK
  <2>. QED
    BY <2>3, <2>4 DEF Sound
<1>5. ASSUME NEW d \in Desk, DeskDies(d) PROVE Sound'
  <2>1. /\ desk' = [desk EXCEPT ![d] = NoDesk]
        /\ UNCHANGED <<now, records, codes, lastActive, ops, code, lease, proc, requests>>
        /\ faults' \in Nat
    BY <1>5 DEF DeskDies, panel, Sound, TypeOK
  <2>2. TypeOK'
    BY <2>1, NoRecordType DEF Sound, TypeOK
  <2>3. \A e \in Desk : desk'[e].new.issued <= now
    BY <2>1 DEF Sound, TypeOK, OwnerSound, NoDesk, None
  <2>4. OwnerSound'
    BY <2>1, <2>3 DEF Sound, OwnerSound, Fresh, Expired, Active, Known
  <2>5. PanelSound'
    BY <2>1 DEF Sound, PanelSound, Holds, Backed, Known
  <2>. QED
    BY <2>2, <2>4, <2>5 DEF Sound
<1>. QED
  BY <1>1, <1>2, <1>3, <1>4, <1>5 DEF OwnerStep, Revoke, Restore

\* An hour passes: what has run out stays so, the history follows the clock.
LEMMA TickSound ==
    ASSUME Sound, Tick
    PROVE  Sound'
<1>1. /\ now' = now + 1 /\ now \in Nat
      /\ lastActive' = [l \in Lic |-> IF Active(records[l], now') THEN now'
                                                                   ELSE lastActive[l]]
      /\ UNCHANGED <<records, desk, codes, ops, code, lease, proc, requests, faults>>
  BY DEF Tick, panel, Sound, TypeOK
<1>2. lastActive' \in [Lic -> Nat]
  BY <1>1 DEF Sound, TypeOK
<1>3. \A l \in Lic : lastActive[l] <= lastActive'[l] /\ lastActive'[l] <= now'
  BY <1>1 DEF Sound, TypeOK, OwnerSound
<1>4. PanelSound'
  BY <1>1, <1>2, <1>3, PanelKept
<1>5. \A l \in Lic : Active(records[l], now)' => lastActive'[l] = now'
  BY <1>1 DEF Active, Expired
<1>6. ASSUME NEW c \in codes' PROVE Fresh(c)'
  <2>1. c \in codes /\ c \in Code /\ c.lic \in Lic /\ c.expires \in Nat /\ c.issued \in Nat
    BY <1>1 DEF Sound, TypeOK, Code
  <2>2. ~Expired(c, now)' => ~Expired(c, now)
    BY <1>1, <2>1 DEF Expired
  <2>3. Fresh(c)
    BY <2>1 DEF Sound, OwnerSound
  <2>. QED
    BY <1>2, <1>3, <2>1, <2>2, <2>3 DEF Fresh, Sound, TypeOK
<1>7. \A d \in Desk : desk'[d].new.issued <= now'
  BY <1>1 DEF Sound, TypeOK, OwnerSound, DeskState, Code
<1>8. OwnerSound'
  BY <1>1, <1>3, <1>5, <1>6, <1>7 DEF Sound, OwnerSound, Known
<1>9. TypeOK'
  BY <1>1, <1>2 DEF Sound, TypeOK
<1>. QED
  BY <1>4, <1>8, <1>9 DEF Sound

-----------------------------------------------------------------------------
\* Before anything is issued.
LEMMA InitSound == Init => Sound
<1>. SUFFICES ASSUME Init PROVE Sound
  OBVIOUS
<1>1. TypeOK
  BY EmptyTypes, NoRecordType DEF Init, TypeOK
<1>2. OwnerSound
  <2>1. \A c \in codes : Fresh(c)
    BY DEF Init, Fresh
  <2>2. \A l \in Lic : records[l] = NoRecord /\ lastActive[l] = 0
    BY DEF Init
  <2>3. \A d \in Desk : desk[d].new.issued = 0
    BY DEF Init, NoDesk, None
  <2>. QED
    BY <2>1, <2>2, <2>3 DEF Init, OwnerSound, NoRecord, Active, Known
<1>3. PanelSound
  BY IdleHolds, EmptyTypes DEF Init, PanelSound, Known, Backed
<1>. QED
  BY <1>1, <1>2, <1>3 DEF Sound

\* No step of the owner, of the panel or of the clock leaves the invariant.
LEMMA NextSound == Sound /\ [Next]_vars => Sound'
<1>. SUFFICES ASSUME Sound, [Next]_vars PROVE Sound'
  OBVIOUS
<1>1. CASE OwnerStep
  BY <1>1, OwnerStepSound
<1>2. CASE LoopStep
  <2>1. Loop \in Actor
    BY DEF Actor
  <2>. QED
    BY <1>2, <2>1, RequestSound, SyncSound DEF LoopStep
<1>3. ASSUME NEW t \in Thread, BeginRequest(t) \/ SyncStep(t) \/ Check(t)
      PROVE  Sound'
  <2>1. t \in Actor
    BY DEF Actor
  <2>. QED
    BY <1>3, <2>1, RequestSound, SyncSound
<1>4. CASE PanelDies
  BY <1>4, PanelDiesSound
<1>5. CASE Tick
  BY <1>5, TickSound
<1>6. CASE UNCHANGED vars
  BY <1>6 DEF vars, Sound, TypeOK, OwnerSound, PanelSound, Holds, Backed, Fresh,
              Known, Active, Expired
<1>. QED
  BY <1>1, <1>2, <1>3, <1>4, <1>5, <1>6 DEF Next

\* So every reachable state satisfies it.
LEMMA AlwaysSound == Spec => []Sound
<1>. QED
  BY InitSound, NextSound, PTL DEF Spec

-----------------------------------------------------------------------------
\* Every reachable state has the shape the module declares.
THEOREM TypeCorrect == Spec => []TypeOK
<1>1. Sound => TypeOK
  BY DEF Sound
<1>. QED
  BY <1>1, AlwaysSound, PTL

\* Leases and fresh codes, wherever they are, go back to an active licence:
\* through late answers, replaced codes and renewals that race with revocations.
THEOREM LeasesAreBacked == Spec => []LeasesBacked
<1>1. Sound => LeasesBacked
  BY DEF Sound, OwnerSound, PanelSound, Holds, LeasesBacked, Leases, Backed, Fresh
<1>. QED
  BY <1>1, AlwaysSound, PTL

\* The offline grace period is bounded: a panel grants nothing that the owner
\* has not had active within one lease and one grace period.
THEOREM OfflineIsBounded == Spec => []BoundedOffline
<1>1. Sound => BoundedOffline
  <2>. SUFFICES ASSUME Sound, NEW c \in InUse, c.online, Entitled(c, lease, now)
                PROVE  lastActive[c.lic] > 0 /\ now < lastActive[c.lic] + Ttl + Grace
    BY DEF BoundedOffline
  <2>1. c \in Known /\ c # None /\ ~Expired(c, now)
    BY DEF InUse, Sound, PanelSound, Holds, Entitled, Verifies, Actor
  <2>2. c \in codes /\ c \in Code /\ c.lic \in Lic /\ c.issued \in Nat
    BY <2>1 DEF Known, Sound, TypeOK, Code
  <2>3. lastActive[c.lic] \in Nat /\ now \in Nat /\ lease \in Lease /\ lease.expires \in Nat
    BY <2>2 DEF Sound, TypeOK, Lease
  <2>4. CASE LeaseFits(lease, c)
    <3>1. lease.status = "active" /\ now < lease.expires + Grace /\ lease.lic = c.lic
      BY <2>4 DEF Entitled, StillLeased, LeaseFits
    <3>2. lastActive[c.lic] > 0 /\ lease.expires <= lastActive[c.lic] + Ttl
      BY <3>1 DEF Sound, PanelSound, Backed
    <3>. QED
      BY <2>3, <3>1, <3>2
  <2>5. CASE ~LeaseFits(lease, c)
    <3>1. now <= c.issued + Bootstrap
      BY <2>5 DEF Entitled, Bootstrapping
    <3>2. lastActive[c.lic] > 0 /\ c.issued <= lastActive[c.lic]
      BY <2>1, <2>2 DEF Sound, OwnerSound, Fresh
    <3>. QED
      BY <2>2, <2>3, <3>1, <3>2
  <2>. QED
    BY <2>4, <2>5
<1>. QED
  BY <1>1, AlwaysSound, PTL
=============================================================================
