-------------------------- MODULE ProtocolClients --------------------------
(***************************************************************************)
(* Metered Xray clients: the rows of the protocol_clients table, the Xray  *)
(* configuration file, the traffic counters inside the Xray process, and   *)
(* the two programs that work on all three without a lock:                 *)
(*                                                                         *)
(*   - the traffic collector (app/protocol_traffic.py), a daemon that      *)
(*     takes a snapshot of the table every 30 seconds and meters, renews   *)
(*     or suspends its clients one after the other;                        *)
(*   - the web process (app/main.py), whose handlers create, edit, reset,  *)
(*     revoke and report on clients, each request in a thread of its own.  *)
(*                                                                         *)
(* A step of an actor is what it does between two points where the other   *)
(* programs can be seen: one SQL transaction, one read of the file, one    *)
(* replacement of it, one restart of Xray, one query of its counters.      *)
(* Only protocols with per-client accounting appear (vless, vmess, trojan, *)
(* hysteria2); a client's inbound carries that client alone, as the guided *)
(* form creates it.  One byte of the model is one unit of traffic, up and  *)
(* down together; one unit of time is a day.                               *)
(***************************************************************************)
EXTENDS Integers

CONSTANTS
    Client,        \* names (with the tag of their inbound)
    Thread,        \* request threads of the web process
    Collector,     \* the traffic collector
    Edits,         \* the policy edits an administrator may send
    Plans,         \* the plans a client may be created with
    MaxId,         \* bound: rows ever inserted
    MaxRequests,   \* bound: requests that change something
    MaxTraffic,    \* bound: units of traffic per client
    MaxTime,       \* bound: last instant of the clock
    MaxFaults      \* bound: crashes, failed commands and lost answers

Actor == Thread \union {Collector}

\* A field of an edit that the request leaves out.
Keep == -1

Plan == [quota : Nat, term : Nat, reset : Nat]

Edit == [enabled : {"keep", "on", "off"}, quota : Nat \union {Keep},
         term : Nat \union {Keep}, reset : Nat \union {Keep}]

ASSUME ProtocolConstants ==
    /\ Client # {} /\ Collector \notin Thread
    /\ Plans \subseteq Plan
    /\ Edits \subseteq Edit
    /\ MaxId \in Nat /\ MaxRequests \in Nat /\ MaxTraffic \in Nat
    /\ MaxTime \in Nat /\ MaxFaults \in Nat

VARIABLES
    now,        \* wall clock, from 1: 0 is "no date" in the table
    rows,       \* protocol_clients by name; id 0 is no row
    lastId,     \* AUTOINCREMENT
    file,       \* config.json: the inbound of each client
    running,    \* the configuration the Xray process has loaded
    up,         \* is the Xray process running
    counter,    \* traffic counters of Xray, not collected yet
    proc,       \* where each actor is, and what it holds
    pass,       \* the collector's pass: its clock, snapshot and rest to do
    delivered,  \* history: traffic carried for each name
    requests, faults

vars == <<now, rows, lastId, file, running, up, counter, proc, pass,
          delivered, requests, faults>>

xray == <<file, running, up, counter>>
bounds == <<requests, faults>>

-----------------------------------------------------------------------------
Reason == {"", "quota", "expiry", "manual"}

Row == [id : Nat, enabled : BOOLEAN, reason : Reason, used : Nat,
        quota : Nat, expire : Nat, reset : Nat, next : Nat]

NoRow == [id |-> 0, enabled |-> FALSE, reason |-> "", used |-> 0,
          quota |-> 0, expire |-> 0, reset |-> 0, next |-> 0]

\* An inbound is missing, there without its client, or there with it.
Inbound == {"none", "empty", "present"}

NoInbounds == [c \in Client |-> "none"]

PC == {"idle", "next", "stats", "add", "zero", "advance",
       "cfg_read", "cfg_write", "cfg_restart", "cfg_rollback",
       "write", "usage", "answer"}

Op == {"none", "collect", "renew", "period",
       "create", "update", "reset", "revoke", "report"}

\* row: the row as the actor read it; plan/edit/expire: the request;
\* got: units taken from Xray and still in the actor's hands;
\* why: the suspension reason; doc, backup: configurations it holds.
Proc == [pc : PC, op : Op, c : Client, row : Row, plan : Plan, edit : Edit,
         got : Nat, why : Reason, doc : [Client -> Inbound],
         backup : [Client -> Inbound]]

NoPlan == [quota |-> 0, term |-> 0, reset |-> 0]

NoEdit == [enabled |-> "keep", quota |-> Keep, term |-> Keep, reset |-> Keep]

Idle == [pc |-> "idle", op |-> "none", c |-> CHOOSE c \in Client : TRUE,
         row |-> NoRow, plan |-> NoPlan, edit |-> NoEdit, got |-> 0,
         why |-> "", doc |-> NoInbounds, backup |-> NoInbounds]

Pass == [now : Nat, todo : SUBSET Client, snap : [Client -> Row]]

NoPass == [now |-> 0, todo |-> {}, snap |-> [c \in Client |-> NoRow]]

\* Rows, configurations, counters and what the collector and the handlers hold have
\* the shape the code gives them; usage and counters never become negative.
TypeOK ==
    /\ now \in Nat
    /\ rows \in [Client -> Row]
    /\ lastId \in Nat
    /\ file \in [Client -> Inbound]
    /\ running \in [Client -> Inbound]
    /\ up \in BOOLEAN
    /\ counter \in [Client -> Nat]
    /\ proc \in [Actor -> Proc]
    /\ pass \in Pass
    /\ delivered \in [Client -> Nat]
    /\ requests \in Nat
    /\ faults \in Nat

Init ==
    /\ now = 1
    /\ rows = [c \in Client |-> NoRow]
    /\ lastId = 0
    /\ file = NoInbounds
    /\ running = NoInbounds
    /\ up = TRUE
    /\ counter = [c \in Client |-> 0]
    /\ proc = [a \in Actor |-> Idle]
    /\ pass = NoPass
    /\ delivered = [c \in Client |-> 0]
    /\ requests = 0
    /\ faults = 0

-----------------------------------------------------------------------------
(* Faults, and the end of what an actor was doing.                         *)

Fault == faults < MaxFaults /\ faults' = faults + 1

\* A handler that answered is gone; the collector goes to its next client.
Resting(a) == IF a = Collector THEN [Idle EXCEPT !.pc = "next"] ELSE Idle

Done(a) == proc' = [proc EXCEPT ![a] = Resting(a)]

Goto(a, pc) == proc' = [proc EXCEPT ![a].pc = pc]

At(a, pc) == proc[a].pc = pc

-----------------------------------------------------------------------------
(* The table: UPDATE ... WHERE id = ?, so nothing happens to a row that is *)
(* gone, nor to a later row of the same name.                              *)

\* Mutant of Updated: UPDATE ... WHERE name = ?, so what was meant for a row that has
\* gone is done to its successor.
UpdatedByName(c, id, new) ==
    [rows EXCEPT ![c] = IF (@.id = 0) = (id = 0) THEN new ELSE @]

Updated(c, id, new) == [rows EXCEPT ![c] = IF rows[c].id = id THEN new ELSE @]

\* Timestamp of a duration in days; 0 stands for "never".
After(days) == IF days > 0 THEN now + days ELSE 0

Due(row, at) == row.reset # 0 /\ row.next # 0 /\ at >= row.next

-----------------------------------------------------------------------------
(* collect_once.                                                           *)

\* The clock, then list_protocol_clients: one snapshot for the whole pass.
Wake ==
    /\ At(Collector, "idle")
    /\ pass' = [now |-> now, todo |-> {c \in Client : rows[c].id # 0}, snap |-> rows]
    /\ Goto(Collector, "next")
    /\ UNCHANGED <<now, rows, lastId, xray, delivered, bounds>>

\* Mutant of Task: a suspended client is passed over whatever suspended it.
TaskRenewsNothing(row, at) ==
    IF ~row.enabled THEN "none" ELSE IF Due(row, at) THEN "period" ELSE "collect"

\* What the pass does about a client, from the row in its snapshot.
Task(row, at) ==
    IF ~row.enabled
    THEN IF row.reason = "quota" /\ Due(row, at) THEN "renew" ELSE "none"
    ELSE IF Due(row, at) THEN "period" ELSE "collect"

TakeClient(c) ==
    /\ At(Collector, "next")
    /\ c \in pass.todo
    /\ pass' = [pass EXCEPT !.todo = @ \ {c}]
    /\ LET row == pass.snap[c]
           op  == Task(row, pass.now)
       IN  IF op = "none"
           THEN UNCHANGED proc
           ELSE proc' = [proc EXCEPT ![Collector] =
                   [Idle EXCEPT !.pc = "stats", !.op = op, !.c = c, !.row = row]]
    /\ UNCHANGED <<now, rows, lastId, xray, delivered, bounds>>

Sleep ==
    /\ At(Collector, "next")
    /\ pass.todo = {}
    /\ pass' = NoPass
    /\ proc' = [proc EXCEPT ![Collector] = Idle]
    /\ UNCHANGED <<now, rows, lastId, xray, delivered, bounds>>

\* Mutant of Drained: the counters are read without -reset=true.
DrainedNot(c) == counter

Drained(c) == [counter EXCEPT ![c] = 0]

\* statsquery -reset answers: Xray hands its units over and forgets them.
\* Only the collector's metering keeps the answer.
StatsAnswered(a) ==
    /\ At(a, "stats")
    /\ up
    /\ counter' = Drained(proc[a].c)
    /\ IF proc[a].op = "collect"
       THEN proc' = [proc EXCEPT ![a].pc = "add", ![a].got = counter[proc[a].c]]
       ELSE Goto(a, "zero")
    /\ UNCHANGED <<now, rows, lastId, file, running, up, pass, delivered, bounds>>

\* A non-zero exit is an answer too, {"available": False}: metering gives the
\* client up for this pass, the resets carry on with the row alone.
StatsUnavailable(a) ==
    /\ At(a, "stats")
    /\ IF up THEN Fault ELSE UNCHANGED faults
    /\ IF proc[a].op = "collect" THEN Done(a) ELSE Goto(a, "zero")
    /\ UNCHANGED <<now, rows, lastId, xray, pass, delivered, requests>>

\* No answer within 8 seconds: an exception, with the counters reset or not.
\* A period reset that fails this way falls through to metering.
StatsBroken(a) ==
    /\ At(a, "stats")
    /\ Fault
    /\ counter' \in {counter, Drained(proc[a].c)}
    /\ IF proc[a].op = "period"
       THEN proc' = [proc EXCEPT ![a].op = "collect"]
       ELSE Done(a)
    /\ UNCHANGED <<now, rows, lastId, file, running, up, pass, delivered, requests>>

\* Mutant of Total: the stored usage is read after the new units went into it.
TotalTwice(row, c, got) == rows[c].used + got + got

\* The total a suspension is decided on: the row of the snapshot, not of the table.
Total(row, c, got) == row.used + got

\* Mutant of SuspendReason: a client is suspended beyond its quota, not at it.
SuspendReasonBeyond(row, total, at) ==
    IF row.quota > 0 /\ total > row.quota THEN "quota"
    ELSE IF row.expire > 0 /\ at >= row.expire THEN "expiry" ELSE ""

SuspendReason(row, total, at) ==
    IF row.quota > 0 /\ total >= row.quota THEN "quota"
    ELSE IF row.expire > 0 /\ at >= row.expire THEN "expiry" ELSE ""

\* add_protocol_traffic, an increment in SQL; then the verdict.
Add ==
    /\ At(Collector, "add")
    /\ LET p   == proc[Collector]
           why == SuspendReason(p.row, Total(p.row, p.c, p.got), pass.now)
       IN  /\ rows' = Updated(p.c, p.row.id, [rows[p.c] EXCEPT !.used = @ + p.got])
           /\ IF why = ""
              THEN Done(Collector)
              ELSE proc' = [proc EXCEPT ![Collector].pc = "cfg_read",
                                        ![Collector].why = why]
    /\ UNCHANGED <<now, lastId, xray, pass, delivered, bounds>>

\* reset_protocol_traffic.
Zero(a) ==
    /\ At(a, "zero")
    /\ LET p == proc[a]
       IN  /\ rows' = Updated(p.c, p.row.id, [rows[p.c] EXCEPT !.used = 0])
           /\ CASE p.op = "renew"  -> Goto(a, "cfg_read")
                [] p.op = "period" -> Goto(a, "advance")
                [] OTHER           -> Done(a)
    /\ UNCHANGED <<now, lastId, xray, pass, delivered, bounds>>

NextBoundary(row) == After(row.reset)

\* advance_protocol_reset: from the clock of this moment, by the period of the
\* snapshot.
Advance ==
    /\ At(Collector, "advance")
    /\ LET p == proc[Collector]
       IN  rows' = Updated(p.c, p.row.id, [rows[p.c] EXCEPT !.next = NextBoundary(p.row)])
    /\ Done(Collector)
    /\ UNCHANGED <<now, lastId, xray, pass, delivered, bounds>>

-----------------------------------------------------------------------------
(* The configuration transaction of create_xray_inbound,                   *)
(* remove_xray_inbound, enable_xray_client and disable_xray_client: read   *)
(* the file, edit the copy, back the file up, test, replace, restart Xray; *)
(* on any failure copy the backup back and restart.                        *)

\* The state of c's inbound after the edit an operation makes.
Target(p) ==
    CASE p.op \in {"create", "renew"} -> "present"
      [] p.op = "collect"             -> "empty"
      [] p.op = "revoke"              -> "none"
      [] OTHER -> IF p.edit.enabled = "on" THEN "present" ELSE "empty"

\* ProtocolError: the port is taken, or the inbound is not there.
EditRefused(p) ==
    \/ p.op = "create" /\ (file[p.c] # "none" \/ (up /\ running[p.c] # "none"))
    \/ p.op \in {"renew", "revoke"} /\ file[p.c] = "none"
    \/ p.op = "update" /\ p.edit.enabled = "on" /\ file[p.c] = "none"

\* "already_present", or "client not found in config": success, nothing written.
EditNeedless(p) ==
    \/ file[p.c] = Target(p)
    \/ Target(p) = "empty" /\ file[p.c] = "none"

ConfigRead(a) ==
    /\ At(a, "cfg_read")
    /\ LET p == proc[a]
       IN  IF EditRefused(p) THEN Done(a)
           ELSE IF EditNeedless(p) THEN Goto(a, "write")
           ELSE proc' = [proc EXCEPT ![a].pc = "cfg_write",
                                     ![a].doc = [file EXCEPT ![p.c] = Target(p)]]
    /\ UNCHANGED <<now, rows, lastId, xray, pass, delivered, bounds>>

\* Backup, test and os.replace.  A failed test leaves the file alone, but the
\* handler of the exception restores the backup and restarts Xray all the same.
ConfigWrite(a) ==
    /\ At(a, "cfg_write")
    /\ \/ /\ file' = proc[a].doc
          /\ proc' = [proc EXCEPT ![a].pc = "cfg_restart", ![a].backup = file,
                                  ![a].doc = NoInbounds]
          /\ UNCHANGED faults
       \/ /\ Fault
          /\ proc' = [proc EXCEPT ![a].pc = "cfg_rollback", ![a].backup = file,
                                  ![a].doc = NoInbounds]
          /\ UNCHANGED file
    /\ UNCHANGED <<now, rows, lastId, running, up, counter, pass, delivered, requests>>

NoCounters == [c \in Client |-> 0]

\* A restarted Xray loads a configuration and counts from zero.
Start(doc) == running' = doc /\ up' = TRUE /\ counter' = NoCounters

Stop == running' = NoInbounds /\ up' = FALSE /\ counter' = NoCounters

\* Test as the service user, systemctl restart, is-active.
ConfigRestart(a) ==
    /\ At(a, "cfg_restart")
    /\ \/ /\ Start(file)
          /\ proc' = [proc EXCEPT ![a].pc = "write", ![a].backup = NoInbounds]
          /\ UNCHANGED faults
       \/ /\ Fault
          /\ Stop \/ UNCHANGED <<running, up, counter>>
          /\ Goto(a, "cfg_rollback")
    /\ UNCHANGED <<now, rows, lastId, file, pass, delivered, requests>>

\* The exception is raised again once the backup is back; a restart that fails
\* as well is swallowed.
ConfigRollback(a) ==
    /\ At(a, "cfg_rollback")
    /\ file' = proc[a].backup
    /\ \/ Start(proc[a].backup) /\ UNCHANGED faults
       \/ Stop /\ Fault
    /\ Done(a)
    /\ UNCHANGED <<now, rows, lastId, pass, delivered, requests>>

-----------------------------------------------------------------------------
(* The SQL statement after the configuration.                              *)

Suspended(row, why) == [row EXCEPT !.enabled = FALSE, !.reason = why]

\* set_protocol_client_enabled(id, True).
Reactivated(row) == [row EXCEPT !.enabled = TRUE, !.reason = ""]

\* Mutant of Edited: a field the request left out is written too.
EditedBlindly(row, e) == [row EXCEPT !.quota = e.quota]

\* update_protocol_client_state: the fields the request carried.
Edited(row, e) ==
    [row EXCEPT
        !.enabled = IF e.enabled = "keep" THEN @ ELSE e.enabled = "on",
        !.reason  = CASE e.enabled = "keep" -> @ [] e.enabled = "on" -> ""
                      [] OTHER -> "manual",
        !.quota   = IF e.quota = Keep THEN @ ELSE e.quota,
        !.expire  = IF e.term = Keep THEN @ ELSE e.term,
        !.reset   = IF e.reset = Keep THEN @ ELSE e.reset,
        !.next    = IF e.reset = Keep THEN @ ELSE After(e.reset)]

\* create_protocol_client.
Inserted(plan) ==
    [id |-> lastId + 1, enabled |-> TRUE, reason |-> "", used |-> 0,
     quota |-> plan.quota, expire |-> After(plan.term), reset |-> plan.reset,
     next |-> After(plan.reset)]

WriteRow(p) ==
    CASE p.op = "collect" -> Updated(p.c, p.row.id, Suspended(rows[p.c], p.why))
      [] p.op = "renew"   -> Updated(p.c, p.row.id, Reactivated(rows[p.c]))
      [] p.op = "update"  -> Updated(p.c, p.row.id, Edited(rows[p.c], p.edit))
      [] p.op = "revoke"  -> Updated(p.c, p.row.id, NoRow)
      [] OTHER            -> Updated(p.c, 0, Inserted(p.plan))

\* UNIQUE(engine, inbound_tag, name) refuses a second row: the INSERT raises.
Write(a) ==
    /\ At(a, "write")
    /\ LET p == proc[a]
       IN  /\ rows' = WriteRow(p)
           /\ lastId' = IF p.op = "create" /\ rows[p.c].id = 0
                        THEN lastId + 1 ELSE lastId
           /\ IF p.op = "renew" THEN Goto(a, "advance") ELSE Done(a)
    /\ UNCHANGED <<now, xray, pass, delivered, bounds>>

-----------------------------------------------------------------------------
(* Requests of the web process.                                            *)

Begin(t, p) ==
    /\ At(t, "idle")
    /\ proc' = [proc EXCEPT ![t] = p]
    /\ UNCHANGED <<now, rows, lastId, xray, pass, delivered, faults>>

Request == requests < MaxRequests /\ requests' = requests + 1

\* xray_quick_inbound: no row of that name yet.
BeginCreate(t, c, plan) ==
    /\ Request
    /\ lastId < MaxId
    /\ rows[c].id = 0
    /\ Begin(t, [Idle EXCEPT !.pc = "cfg_read", !.op = "create", !.c = c,
                             !.plan = plan])

\* protocol_client_update: the configuration is touched only if the row read
\* now says otherwise; a new expiry date is computed here.
BeginUpdate(t, c, e) ==
    /\ Request
    /\ rows[c].id # 0
    /\ LET flips == e.enabled # "keep" /\ rows[c].enabled # (e.enabled = "on")
           dated == [e EXCEPT !.term = IF @ = Keep THEN Keep ELSE After(@)]
       IN  Begin(t, [Idle EXCEPT !.pc = IF flips THEN "cfg_read" ELSE "write",
                                 !.op = "update", !.c = c, !.row = rows[c],
                                 !.edit = dated])

\* protocol_client_reset_traffic.
BeginReset(t, c) ==
    /\ Request
    /\ rows[c].id # 0
    /\ Begin(t, [Idle EXCEPT !.pc = "stats", !.op = "reset", !.c = c, !.row = rows[c]])

\* access_revoke of an xray client.
BeginRevoke(t, c) ==
    /\ Request
    /\ rows[c].id # 0
    /\ Begin(t, [Idle EXCEPT !.pc = "cfg_read", !.op = "revoke", !.c = c,
                             !.row = rows[c]])

\* The subscription and the client list: the row, then the live counters of an
\* enabled client.
BeginReport(t, c) ==
    /\ rows[c].id # 0
    /\ Begin(t, [Idle EXCEPT !.pc = IF rows[c].enabled THEN "usage" ELSE "answer",
                             !.op = "report", !.c = c, !.row = rows[c]])
    /\ UNCHANGED requests

\* Xray's counters are only read; an error counts as no usage.
Usage(t) ==
    /\ At(t, "usage")
    /\ \/ /\ up
          /\ proc' = [proc EXCEPT ![t].pc = "answer", ![t].got = counter[proc[t].c]]
          /\ UNCHANGED faults
       \/ /\ IF up THEN Fault ELSE UNCHANGED faults
          /\ Goto(t, "answer")
    /\ UNCHANGED <<now, rows, lastId, xray, pass, delivered, requests>>

\* Mutant of Reported: the row is read after the counters.
ReportedLate(p) == rows[p.c].used + p.got

\* _subscription_snapshot: the usage reported, and whether the client is served.
Reported(p) == p.row.used + p.got

Serves(p) ==
    /\ p.row.enabled
    /\ ~(p.row.expire > 0 /\ p.row.expire < now)
    /\ ~(p.row.quota > 0 /\ Reported(p) >= p.row.quota)

Answer(t) ==
    /\ At(t, "answer")
    /\ Done(t)
    /\ UNCHANGED <<now, rows, lastId, xray, pass, delivered, bounds>>

-----------------------------------------------------------------------------
(* The environment: clients, the clock, Xray, systemd.                     *)

Traffic(c) ==
    /\ up
    /\ running[c] = "present"
    /\ delivered[c] < MaxTraffic
    /\ delivered' = [delivered EXCEPT ![c] = @ + 1]
    /\ counter' = [counter EXCEPT ![c] = @ + 1]
    /\ UNCHANGED <<now, rows, lastId, file, running, up, proc, pass, bounds>>

Tick ==
    /\ now < MaxTime
    /\ now' = now + 1
    /\ UNCHANGED <<rows, lastId, xray, proc, pass, delivered, bounds>>

XrayDies ==
    /\ up
    /\ Fault
    /\ Stop
    /\ UNCHANGED <<now, rows, lastId, file, proc, pass, delivered, requests>>

XrayStarts ==
    /\ ~up
    /\ Start(file)
    /\ UNCHANGED <<now, rows, lastId, file, proc, pass, delivered, bounds>>

\* The collector dies anywhere in a pass and is started again, asleep.
CollectorDies ==
    /\ ~At(Collector, "idle")
    /\ Fault
    /\ proc' = [proc EXCEPT ![Collector] = Idle]
    /\ pass' = NoPass
    /\ UNCHANGED <<now, rows, lastId, xray, delivered, requests>>

\* The web process dies with every request in it.
WebDies ==
    /\ \E t \in Thread : ~At(t, "idle")
    /\ Fault
    /\ proc' = [a \in Actor |-> IF a = Collector THEN proc[a] ELSE Idle]
    /\ UNCHANGED <<now, rows, lastId, xray, pass, delivered, requests>>

-----------------------------------------------------------------------------
ConfigStep(a) ==
    ConfigRead(a) \/ ConfigWrite(a) \/ ConfigRestart(a) \/ ConfigRollback(a)

StatsStep(a) == StatsAnswered(a) \/ StatsUnavailable(a) \/ StatsBroken(a)

CollectorStep ==
    \/ Wake \/ Sleep \/ Add \/ Advance
    \/ \E c \in Client : TakeClient(c)
    \/ StatsStep(Collector) \/ Zero(Collector)
    \/ ConfigStep(Collector) \/ Write(Collector)

\* A request that has begun.
ThreadStep(t) ==
    \/ StatsStep(t) \/ Zero(t)
    \/ ConfigStep(t) \/ Write(t)
    \/ Usage(t) \/ Answer(t)

BeginRequest(t, c) ==
    \/ \E plan \in Plans : BeginCreate(t, c, plan)
    \/ \E e \in Edits : BeginUpdate(t, c, e)
    \/ BeginReset(t, c)
    \/ BeginRevoke(t, c)
    \/ BeginReport(t, c)

Next ==
    \/ CollectorStep
    \/ \E t \in Thread : ThreadStep(t)
    \/ \E t \in Thread, c \in Client : BeginRequest(t, c)
    \/ \E c \in Client : Traffic(c)
    \/ Tick
    \/ XrayDies \/ XrayStarts
    \/ CollectorDies \/ WebDies

Spec == Init /\ [][Next]_vars

\* The collector is a loop under Restart=always, Xray is restarted by systemd,
\* a handler that has begun runs on, and days pass.  Nothing is assumed of
\* administrators or of the clients' traffic.
Fairness ==
    /\ WF_vars(CollectorStep)
    /\ \A t \in Thread : WF_vars(ThreadStep(t))
    /\ WF_vars(XrayStarts)
    /\ WF_vars(Tick)

FairSpec == Spec /\ Fairness

-----------------------------------------------------------------------------
(* Safety.                                                                 *)

\* Units that have left Xray's counters and are not in the table yet.
InHands(c) ==
    IF At(Collector, "add") /\ proc[Collector].c = c THEN proc[Collector].got ELSE 0

\* What the collector has taken out of Xray, and the row it will add it to.
Collection ==
    IF At(Collector, "add")
    THEN {[client |-> proc[Collector].c, account |-> proc[Collector].row.id,
           units |-> proc[Collector].got]}
    ELSE {}

\* "cumulative persistent traffic accounting ... using Xray Stats API" (CHANGELOG.md):
\* usage moves from Xray to the account it was collected for, once, or is lost, also
\* when the account goes and another gets its name.  See TrafficMeter.
Meter == INSTANCE TrafficMeter WITH
    carried <- delivered,
    waiting <- counter,
    held    <- Collection,
    account <- [c \in Client |-> rows[c].id],
    opened  <- lastId,
    billed  <- [c \in Client |-> rows[c].used]
MetersOnce == Meter!Spec

\* What is billed, on its way to be billed and still to be billed is never
\* more than what the client has really carried, through restarts of Xray and
\* of the collector, failed queries and any interleaving of resets and passes:
\* traffic may be lost to accounting, it is never charged twice.
NoDoubleBilling ==
    \A c \in Client : rows[c].used + counter[c] + InHands(c) <= delivered[c]

\* The collector decides on a total it has put together from a snapshot and a
\* later query; a suspension for quota is nevertheless only ever decided for a
\* client that has carried at least the quota of that snapshot.
QuotaDecisionBacked ==
    LET p == proc[Collector]
    IN  p.op = "collect" /\ p.why = "quota" =>
            p.row.quota > 0 /\ delivered[p.c] >= p.row.quota

\* The subscription and the client list add a row and counters read at two
\* instants, while the collector moves units from one to the other: what they
\* report never exceeds what the client has carried.
ReportBacked ==
    \A t \in Thread : At(t, "answer") => Reported(proc[t]) <= delivered[proc[t].c]

\* The total an actor is going to form with the counters it has still to ask
\* for, or has asked for, is one the client has carried; no verdict precedes it.
HeldBacked(p) ==
    /\ p.pc \in {"stats", "usage"} =>
           /\ p.row.used + counter[p.c] <= delivered[p.c]
           /\ p.got = 0 /\ p.why = ""
    /\ p.pc \in {"add", "answer"} =>
           /\ p.row.used + p.got <= delivered[p.c]
           /\ p.why = ""

\* Why the figures above survive stale data: usage only ever moves from
\* the counters to the table, so a row of a past instant and the counters of any
\* later one never overlap.  A snapshot, or a row read by a request, grows stale
\* on the safe side whatever resets, restarts and edits come in between.
StaleFiguresBacked ==
    /\ \A c \in Client : pass.snap[c].used + counter[c] <= delivered[c]
    /\ \A a \in Actor : HeldBacked(proc[a])

\* Every figure that is billed, decided on, reported or held for later is one the
\* client has carried.
FiguresBacked ==
    NoDoubleBilling /\ StaleFiguresBacked /\ QuotaDecisionBacked /\ ReportBacked

\* "Automatic quota suspension" beside "Manual traffic reset" (README): a client
\* with usage left is put on quota suspension only if a reset took usage away, or
\* an edit raised its quota, behind the back of the pass that suspends it.
SuspensionExplained ==
    [][\A c \in Client :
          LET p == proc[Collector]
          IN  /\ rows[c].reason # "quota" /\ rows'[c].reason = "quota"
              /\ rows[c].used < rows[c].quota
              => \/ rows[c].used < p.row.used + p.got
                 \/ rows[c].quota > p.row.quota]_vars

\* "Inactive, expired or quota-exhausted clients no longer receive active
\* subscription payloads" (CHANGELOG 0.9.0): when the last figure of an answer is
\* read, a client that is going to be served has quota left, unless the
\* collector took units out of Xray between the two readings.
ServedHasQuota ==
    [][\A t \in Thread :
          LET p == proc'[t]
          IN  /\ At(t, "usage") /\ p.pc = "answer" /\ faults' = faults /\ up
              /\ Serves(p)
              /\ rows[p.c].id = p.row.id /\ rows[p.c].quota = p.row.quota
              /\ p.row.quota > 0
              => \/ rows[p.c].used + counter[p.c] + InHands(p.c) < p.row.quota
                 \/ rows[p.c].used + InHands(p.c) > p.row.used]_vars

\* A client is suspended for quota, or served, only for a reason that its figures, or
\* what happened to them in between, explain.
DecisionsExplained == SuspensionExplained /\ ServedHasQuota

-----------------------------------------------------------------------------
(* Liveness, under FairSpec.                                               *)

OverQuota(c) ==
    rows[c].enabled /\ rows[c].quota > 0 /\ rows[c].used >= rows[c].quota

\* "Automatic quota suspension" (README): a client over its quota is suspended,
\* reset or given more, however often the collector, Xray or an apply fails.
QuotaEnforced == \A c \in Client : OverQuota(c) ~> ~OverQuota(c)

Overdue(c) == rows[c].enabled /\ rows[c].expire > 0 /\ now >= rows[c].expire

\* An expired client is suspended or extended: neither a period reset in the
\* same pass nor statistics that are unavailable for a while defer it for ever.
ExpiryEnforced == \A c \in Client : Overdue(c) ~> ~Overdue(c)

\* The limits of a client are enforced in the end.
PolicyEnforced == QuotaEnforced /\ ExpiryEnforced

\* Suspended for quota with a reset cycle whose boundary the clock reaches, the
\* inbound still in the configuration.
AwaitsRenewal(c) ==
    /\ rows[c].id # 0 /\ ~rows[c].enabled /\ rows[c].reason = "quota"
    /\ rows[c].reset > 0 /\ rows[c].next <= MaxTime
    /\ file[c] # "none"

\* "Automatic reactivation at the next quota-reset boundary" (README), also
\* after a crash anywhere between the reset, the apply and the two UPDATEs.
RenewalHappens == \A c \in Client : AwaitsRenewal(c) ~> ~AwaitsRenewal(c)

\* The boundary of an active plan is moved on once it has passed: a pass that
\* reset and never advanced would zero the usage again and again, and the
\* quota would never be reached.
BoundaryAdvances ==
    \A c \in Client : LET Pending == rows[c].enabled /\ Due(rows[c], now)
                      IN  Pending ~> ~Pending

\* What is due at the boundary of a period happens, to plans that are suspended and
\* to plans that are not.
PeriodsTurn == RenewalHappens /\ BoundaryAdvances
=============================================================================
