---------------------------- MODULE LicenseLease ----------------------------
(***************************************************************************)
(* Signed licences and their online leases.  The owner's control centre    *)
(* (owner_console/license_service.py) issues, renews, revokes and restores *)
(* licences and answers lease requests; a customer's panel (app/main.py,   *)
(* app/license_ops.py) keeps one activation code and the last lease as two *)
(* settings, written by the handlers that activate and remove a licence    *)
(* and by every synchronisation: a background loop and a request handler   *)
(* run the same function, without a lock.                                  *)
(*                                                                         *)
(* A signature is what makes a code or a lease a value the owner has made, *)
(* for this installation; both hosts read one clock.  The unit of time is  *)
(* the hour or more: reading the clock and the statement before or after   *)
(* it are one step.                                                        *)
(***************************************************************************)
EXTENDS Naturals

CONSTANTS
    Lic,          \* licence ids the owner may issue for the installation
    Desk,         \* request threads of the control centre
    Loop,         \* the panel's synchronisation loop
    Thread,       \* request threads of the panel
    Offline,      \* codes signed by tools/license_issue.py: no lease needed
    Terms,        \* durations sold; 0 is a licence without an end
    Ttl,          \* how long a lease lasts
    Grace,        \* how long an outage is tolerated after it
    Bootstrap,    \* how long a new code works without any lease
    MaxOwner,     \* bound: operations of the owner
    MaxRequests,  \* bound: requests to the panel that change something
    MaxFaults,    \* bound: crashes and failed synchronisations
    MaxTime       \* bound: last instant of the clock

Actor == Thread \union {Loop}

\* An activation code: the signed payload of a licence.  expires 0 is "never".
Code == [lic : Lic, rev : Nat, issued : Nat, expires : Nat, online : BOOLEAN]

ASSUME LicenseConstants ==
    /\ Lic # {} /\ Loop \notin Thread
    /\ Offline \subseteq {c \in Code : ~c.online}
    /\ Terms \subseteq Nat
    /\ Ttl \in Nat \ {0} /\ Grace \in Nat /\ Bootstrap \in Nat
    /\ Bootstrap <= Grace
    /\ MaxOwner \in Nat /\ MaxRequests \in Nat
    /\ MaxFaults \in Nat /\ MaxTime \in Nat

VARIABLES
    now,         \* wall clock, from 1: 0 is "no date"
    records,     \* the owner's licenses table
    desk,        \* renewals under way at the control centre
    codes,       \* codes that have left the owner's hands
    code,        \* setting license_code of the panel
    lease,       \* setting license_lease_code of the panel
    proc,        \* what the panel's loop and requests are doing
    lastActive,  \* history: when the owner's record was last active
    ops, requests, faults

vars == <<now, records, desk, codes, code, lease, proc, lastActive,
          ops, requests, faults>>

owner == <<records, desk, codes, lastActive, ops>>
panel == <<code, lease, proc, requests>>

-----------------------------------------------------------------------------
\* No code, no lease: the empty settings.
None == [lic |-> CHOOSE l \in Lic : TRUE, rev |-> 0, issued |-> 0,
         expires |-> 0, online |-> TRUE]

\* status "none" is the empty setting.
Lease == [lic : Lic, status : {"none", "active", "revoked"}, expires : Nat]

NoLease == [lic |-> None.lic, status |-> "none", expires |-> 0]

\* A row of licenses; rev 0: never issued.
Record == [status : {"active", "revoked"}, current : Code]

NoRecord == [status |-> "revoked", current |-> None]

\* _resign between its SELECT and its UPDATE: the new code.
DeskState == [busy : BOOLEAN, new : Code]

NoDesk == [busy |-> FALSE, new |-> None]

PC == {"idle", "sync", "ask", "answer", "replace", "drop", "check"}

\* What an actor of the panel holds: the operation, the code it has read, and
\* the owner's answer.
Proc == [pc : PC, op : {"none", "sync", "activate", "remove", "check"},
         code : Code, lease : Lease, new : Code]

Idle == [pc |-> "idle", op |-> "none", code |-> None, lease |-> NoLease, new |-> None]

\* The owner's records, the panel's two settings and what is in flight between them
\* have the shape of the tables, codes and leases.
TypeOK ==
    /\ now \in Nat
    /\ records \in [Lic -> Record]
    /\ desk \in [Desk -> DeskState]
    /\ codes \subseteq Code
    /\ code \in Code
    /\ lease \in Lease
    /\ proc \in [Actor -> Proc]
    /\ lastActive \in [Lic -> Nat]
    /\ ops \in Nat
    /\ requests \in Nat
    /\ faults \in Nat

Init ==
    /\ now = 1
    /\ records = [l \in Lic |-> NoRecord]
    /\ desk = [d \in Desk |-> NoDesk]
    /\ codes = Offline
    /\ code = None
    /\ lease = NoLease
    /\ proc = [a \in Actor |-> Idle]
    /\ lastActive = [l \in Lic |-> 0]
    /\ ops = 0
    /\ requests = 0
    /\ faults = 0

-----------------------------------------------------------------------------
(* What codes and leases mean.                                             *)

Expired(c, at) == c.expires # 0 /\ at >= c.expires

\* verify_license: a real code, within its dates.
Verifies(c, at) == c # None /\ ~Expired(c, at)

\* verify_lease: signed for the licence the panel holds.
LeaseFits(l, c) == l.status # "none" /\ l.lic = c.lic

\* "active" or "grace" in license_status.
StillLeased(l, at) == at < l.expires + Grace

\* "bootstrap": no usable lease yet, and the code is fresh.
Bootstrapping(c, at) == at <= c.issued + Bootstrap

\* Mutant of Entitled: any lease of the owner counts.
EntitledByAny(c, l, at) ==
    /\ Verifies(c, at)
    /\ \/ ~c.online
       \/ l.status = "active" /\ StillLeased(l, at)
       \/ l.status = "none" /\ Bootstrapping(c, at)

\* license_status: does the panel grant what the code was sold for?
Entitled(c, l, at) ==
    /\ Verifies(c, at)
    /\ \/ ~c.online
       \/ IF LeaseFits(l, c) THEN l.status = "active" /\ StillLeased(l, at)
                             ELSE Bootstrapping(c, at)

-----------------------------------------------------------------------------
(* The control centre.                                                     *)

\* What lease() calls active: not revoked, not past its end.
Active(r, at) == r.status = "active" /\ ~Expired(r.current, at)

\* The history of a table whose row of l has become r.
Witnessed(l, r) ==
    lastActive' = [lastActive EXCEPT ![l] = IF Active(r, now) THEN now ELSE @]

Operation == ops < MaxOwner /\ ops' = ops + 1

Ends(base, term) == IF term = 0 THEN 0 ELSE base + term

\* issue: a new id, its code goes to the customer.
Issue(l, term) ==
    /\ records[l] = NoRecord
    /\ Operation
    /\ LET c == [lic |-> l, rev |-> 1, issued |-> now, expires |-> Ends(now, term),
                 online |-> TRUE]
           r == [status |-> "active", current |-> c]
       IN  /\ records' = [records EXCEPT ![l] = r]
           /\ codes' = codes \union {c}
           /\ Witnessed(l, r)
    /\ UNCHANGED <<now, desk, panel, faults>>

Later(m, n) == IF m >= n THEN m ELSE n

\* _resign: the next revision of the code, from the record that was read.
Resigned(r, term) ==
    [r.current EXCEPT !.rev = @ + 1, !.issued = now,
                      !.expires = Ends(Later(now, r.current.expires), term)]

\* renew: SELECT, the clock, the signature ...
BeginRenew(d, l, term) ==
    /\ ~desk[d].busy
    /\ records[l] # NoRecord
    /\ Operation
    /\ desk' = [desk EXCEPT ![d] = [busy |-> TRUE, new |-> Resigned(records[l], term)]]
    /\ UNCHANGED <<now, records, codes, lastActive, panel, faults>>

\* ... and update_license, status included, whatever the row has become.
FinishRenew(d) ==
    /\ desk[d].busy
    /\ LET c == desk[d].new
           r == [status |-> "active", current |-> c]
       IN  /\ records' = [records EXCEPT ![c.lic] = r]
           /\ codes' = codes \union {c}
           /\ Witnessed(c.lic, r)
    /\ desk' = [desk EXCEPT ![d] = NoDesk]
    /\ UNCHANGED <<now, ops, panel, faults>>

\* revoke and restore: an UPDATE of the status alone.
SetStatus(l, status) ==
    /\ records[l] # NoRecord
    /\ Operation
    /\ records' = [records EXCEPT ![l].status = status]
    /\ Witnessed(l, records'[l])
    /\ UNCHANGED <<now, desk, codes, panel, faults>>

Revoke(l) == SetStatus(l, "revoked")

Restore(l) == SetStatus(l, "active")

\* The control centre dies in the middle of a renewal.
DeskDies(d) ==
    /\ desk[d].busy
    /\ faults < MaxFaults
    /\ faults' = faults + 1
    /\ desk' = [desk EXCEPT ![d] = NoDesk]
    /\ UNCHANGED <<now, records, codes, lastActive, ops, panel>>

-----------------------------------------------------------------------------
(* lease(), the answer to a panel that holds code c.                       *)

\* Mutant of LeaseFor: the status of a licence past its end is sent as it is.
LeaseForRaw(r, c) ==
    [lic |-> c.lic,
     status |-> IF r.status = "active" /\ ~Active(r, now) THEN "expired" ELSE r.status,
     expires |-> now + Ttl]

\* Mutant of LeaseFor: only the dates decide, not the status.
LeaseForDates(r, c) ==
    [lic |-> c.lic, status |-> IF Expired(r.current, now) THEN "revoked" ELSE "active",
     expires |-> now + Ttl]

LeaseFor(r, c) ==
    [lic |-> c.lic, status |-> IF Active(r, now) THEN "active" ELSE "revoked",
     expires |-> now + Ttl]

\* Mutant of Replacement: only the code the owner has just signed is sent.
ReplacementNever(r, c) == None

\* A newer revision is sent along with an active lease.
Replacement(r, c) ==
    IF Active(r, now) /\ c.rev < r.current.rev THEN r.current ELSE None

-----------------------------------------------------------------------------
(* The panel: _sync_license_lease_once, statement by statement.            *)

Goto(a, pc) == proc' = [proc EXCEPT ![a].pc = pc]

Done(a) == proc' = [proc EXCEPT ![a] = Idle]

\* Mutant of SyncRead: a licence known to be revoked is not asked for again.
SyncReadOnce(a) ==
    /\ proc[a].pc = "sync"
    /\ IF ~Verifies(code, now) \/ lease.status = "revoked" THEN Done(a)
       ELSE proc' = [proc EXCEPT ![a].pc = IF code.online THEN "ask" ELSE "drop",
                                 ![a].code = code]
    /\ UNCHANGED <<now, owner, code, lease, requests, faults>>

\* get_setting and verify_license, here and at once again in fetch_online_lease: a
\* code that does not verify, an expired one included, ends the synchronisation.
SyncRead(a) ==
    /\ proc[a].pc = "sync"
    /\ IF ~Verifies(code, now) THEN Done(a)
       ELSE proc' = [proc EXCEPT ![a].pc = IF code.online THEN "ask" ELSE "drop",
                                 ![a].code = code]
    /\ UNCHANGED <<now, owner, code, lease, requests, faults>>

\* fetch_online_lease: the request reaches the control centre, the answer is on
\* its way back.
SyncAsk(a) ==
    /\ proc[a].pc = "ask"
    /\ LET c == proc[a].code
           r == records[c.lic]
       IN  proc' = [proc EXCEPT ![a].pc = "answer", ![a].lease = LeaseFor(r, c),
                                ![a].new = Replacement(r, c)]
    /\ UNCHANGED <<now, owner, code, lease, requests, faults>>

\* No connection, a time-out, an answer that is lost.
SyncFails(a) ==
    /\ proc[a].pc = "ask"
    /\ faults < MaxFaults
    /\ faults' = faults + 1
    /\ Done(a)
    /\ UNCHANGED <<now, owner, code, lease, requests>>

\* The answer is verified, the replacement in it too, and the lease is stored.
SyncStore(a) ==
    /\ proc[a].pc = "answer"
    /\ LET p == proc[a]
       IN  IF p.new # None /\ ~Verifies(p.new, now)
           THEN Done(a) /\ UNCHANGED lease
           ELSE /\ lease' = p.lease
                /\ IF p.new \in {None, p.code} THEN Done(a) ELSE Goto(a, "replace")
    /\ UNCHANGED <<now, owner, code, requests, faults>>

\* The replacement is stored, whatever the setting holds by now.
SyncReplace(a) ==
    /\ proc[a].pc = "replace"
    /\ code' = IF Verifies(proc[a].new, now) THEN proc[a].new ELSE code
    /\ Done(a)
    /\ UNCHANGED <<now, owner, lease, requests, faults>>

\* set_setting("license_lease_code", ""), in an activation, a removal, or the
\* synchronisation of an offline licence.  An activation synchronises next.
DropLease(a) ==
    /\ proc[a].pc = "drop"
    /\ lease' = NoLease
    /\ IF proc[a].op = "activate" /\ proc[a].code.online
       THEN proc' = [proc EXCEPT ![a] = [Idle EXCEPT !.pc = "sync", !.op = "sync"]]
       ELSE Done(a)
    /\ UNCHANGED <<now, owner, code, requests, faults>>

\* The loop wakes up.
LoopWakes ==
    /\ proc[Loop].pc = "idle"
    /\ proc' = [proc EXCEPT ![Loop] = [Idle EXCEPT !.pc = "sync", !.op = "sync"]]
    /\ UNCHANGED <<now, owner, code, lease, requests, faults>>

-----------------------------------------------------------------------------
(* Requests to the panel.                                                  *)

Begin(t, p) == proc[t].pc = "idle" /\ proc' = [proc EXCEPT ![t] = p]

Request == requests < MaxRequests /\ requests' = requests + 1

\* license_sync.
BeginSync(t) ==
    /\ Request
    /\ Begin(t, [Idle EXCEPT !.pc = "sync", !.op = "sync"])
    /\ UNCHANGED <<now, owner, code, lease, faults>>

\* license_activate: any code the customer has, old ones too; the code is
\* stored, then the lease of the previous one is dropped.
BeginActivate(t, c) ==
    /\ Request
    /\ Verifies(c, now)
    /\ Begin(t, [Idle EXCEPT !.pc = "drop", !.op = "activate", !.code = c])
    /\ code' = c
    /\ UNCHANGED <<now, owner, lease, faults>>

\* license_remove.
BeginRemove(t) ==
    /\ Request
    /\ Begin(t, [Idle EXCEPT !.pc = "drop", !.op = "remove"])
    /\ code' = None
    /\ UNCHANGED <<now, owner, lease, faults>>

\* license_snapshot, as every premium request calls it: the code is read ...
BeginCheck(t) ==
    /\ Begin(t, [Idle EXCEPT !.pc = "check", !.op = "check", !.code = code])
    /\ UNCHANGED <<now, owner, code, lease, requests, faults>>

\* ... then the lease, and license_status is answered from both.
Check(t) ==
    /\ proc[t].pc = "check"
    /\ Done(t)
    /\ UNCHANGED <<now, owner, code, lease, requests, faults>>

\* The panel dies with its loop and its requests, and is started again.
PanelDies ==
    /\ \E a \in Actor : proc[a].pc # "idle"
    /\ faults < MaxFaults
    /\ faults' = faults + 1
    /\ proc' = [a \in Actor |-> Idle]
    /\ UNCHANGED <<now, owner, code, lease, requests>>

-----------------------------------------------------------------------------
Tick ==
    /\ now < MaxTime
    /\ now' = now + 1
    /\ lastActive' = [l \in Lic |-> IF Active(records[l], now') THEN now'
                                                                 ELSE lastActive[l]]
    /\ UNCHANGED <<records, desk, codes, ops, panel, faults>>

SyncStep(a) ==
    SyncRead(a) \/ SyncAsk(a) \/ SyncFails(a) \/ SyncStore(a) \/ SyncReplace(a)
    \/ DropLease(a)

LoopStep == LoopWakes \/ SyncStep(Loop)

BeginRequest(t) ==
    \/ BeginSync(t)
    \/ \E c \in codes : BeginActivate(t, c)
    \/ BeginRemove(t)
    \/ BeginCheck(t)

OwnerStep ==
    \/ \E l \in Lic, term \in Terms : Issue(l, term)
    \/ \E d \in Desk, l \in Lic, term \in Terms : BeginRenew(d, l, term)
    \/ \E l \in Lic : Revoke(l) \/ Restore(l)
    \/ \E d \in Desk : FinishRenew(d) \/ DeskDies(d)

Next ==
    \/ OwnerStep
    \/ LoopStep
    \/ \E t \in Thread : BeginRequest(t) \/ SyncStep(t) \/ Check(t)
    \/ PanelDies
    \/ Tick

Spec == Init /\ [][Next]_vars

\* The loop is a daemon thread of a service that systemd restarts; the control
\* centre finishes what it has begun.  The clock, the owner and the customer may
\* do nothing at all.
Fairness == WF_vars(LoopStep) /\ \A d \in Desk : WF_vars(FinishRenew(d))

FairSpec == Spec /\ Fairness

-----------------------------------------------------------------------------
(* Safety.                                                                 *)

\* The codes a decision may be taken with: the one stored, and the one a check
\* has read before it reads the lease.
InUse == {code} \union {proc[t].code : t \in {u \in Thread : proc[u].pc = "check"}}

\* "Temporary outages use a bounded offline grace period" (README): whatever
\* answers are late or lost, whatever activations, removals and renewals race
\* with them, nothing is granted by a licence that the owner has not had active
\* within one lease and one grace period.
BoundedOffline ==
    \A c \in InUse : c.online /\ Entitled(c, lease, now) =>
        lastActive[c.lic] > 0 /\ now < lastActive[c.lic] + Ttl + Grace

\* Leases stored or on their way.
Leases == {lease} \union {proc[a].lease : a \in Actor}

\* Why: a lease that says active, however old, was signed while the licence was
\* active, and a fresh code left the owner's hands with an active licence.
LeasesBacked ==
    /\ \A l \in Leases : l.status = "active" =>
           lastActive[l.lic] > 0 /\ l.expires <= lastActive[l.lic] + Ttl
    /\ \A c \in codes : c.online /\ ~Expired(c, now) =>
           lastActive[c.lic] > 0 /\ c.issued <= lastActive[c.lic]

-----------------------------------------------------------------------------
(* Liveness, under FairSpec.                                               *)

GrantedBy(l) == code.lic = l /\ code.online /\ Entitled(code, lease, now)

\* "Revocation is enforced on sync" (README): once the owner leaves a licence
\* revoked, the panel ends up, and stays, without what it granted; the answers
\* of slower synchronisations and renewed activations only delay that.
RevocationSticks ==
    \A l \in Lic : <>[](records[l].status = "revoked") => <>[]~GrantedBy(l)

Behind(l) ==
    /\ code.lic = l /\ code.online /\ code # None
    /\ Active(records[l], now) /\ code.rev < records[l].current.rev

\* "Renewals are delivered automatically as a higher signed license revision"
\* (README), as long as the code the panel holds has not run out.
RenewalDelivered ==
    \A l \in Lic : Behind(l) /\ Verifies(code, now)
                      ~> ~Behind(l) \/ ~Verifies(code, now)

\* A licence the owner has restored works again without anything being done on
\* the panel: a revoked lease does not stop the synchronisation.
RestoreReaches ==
    \A l \in Lic :
        LET Good == Active(records[l], now) /\ code.lic = l /\ code.online
                       /\ Verifies(code, now)
        IN  Good ~> ~Good \/ GrantedBy(l)
=============================================================================
