----------------------- MODULE ProtocolClientsProofs -----------------------
(***************************************************************************)
(* Type correctness of ProtocolClients, its accounting invariants, the     *)
(* decisions made from them and the refinement of TrafficMeter, for every  *)
(* set of clients and request threads, every plan and edit, and every      *)
(* bound.                                                                  *)
(***************************************************************************)
EXTENDS ProtocolClients, TLAPS

USE ProtocolConstants

-----------------------------------------------------------------------------
(* Types of the operators the actions are built from.                      *)

\* The empty configuration is a configuration.
LEMMA NoInboundsType == NoInbounds \in [Client -> Inbound]
  BY DEF NoInbounds, Inbound

\* An actor at rest is an actor; the name it holds is some client.
LEMMA IdleType == Idle \in Proc
<1>1. (CHOOSE c \in Client : TRUE) \in Client
  BY Zenon
<1>2. NoRow \in Row
  BY DEF NoRow, Row, Reason
<1>3. NoPlan \in Plan /\ NoEdit \in Edit
  BY DEF NoPlan, Plan, NoEdit, Edit, Keep
<1>. QED
  BY <1>1, <1>2, <1>3, NoInboundsType DEF Idle, Proc, PC, Op, Reason

\* Fields of an actor.
LEMMA ActorTypes ==
    ASSUME TypeOK, NEW a \in Actor
    PROVE  /\ proc[a] \in Proc
           /\ proc[a].c \in Client
           /\ proc[a].row \in Row
           /\ proc[a].got \in Nat
  BY DEF TypeOK, Proc

\* A date computed from a duration is a date, or 0 for never.
LEMMA AfterType ==
    ASSUME TypeOK, NEW days \in Nat
    PROVE  After(days) \in Nat
  BY DEF TypeOK, After

\* An UPDATE by id leaves a table.
LEMMA UpdatedType ==
    ASSUME TypeOK, NEW c \in Client, NEW id, NEW new \in Row
    PROVE  Updated(c, id, new) \in [Client -> Row]
  BY DEF TypeOK, Updated

\* An actor that moves on keeps its type.
LEMMA GotoType ==
    ASSUME TypeOK, NEW a \in Actor, NEW pc \in PC, Goto(a, pc)
    PROVE  proc' \in [Actor -> Proc]
<1>1. [proc[a] EXCEPT !.pc = pc] \in Proc
  BY ActorTypes DEF Proc
<1>. QED
  BY <1>1 DEF TypeOK, Goto

\* So does one that has finished.
LEMMA DoneType ==
    ASSUME TypeOK, NEW a \in Actor, Done(a)
    PROVE  proc' \in [Actor -> Proc]
<1>1. Resting(a) \in Proc
  BY IdleType DEF Resting, Proc, PC
<1>. QED
  BY <1>1 DEF TypeOK, Done

\* A started Xray has a configuration and counters ...
LEMMA StartType ==
    ASSUME NEW doc \in [Client -> Inbound], Start(doc)
    PROVE  /\ running' \in [Client -> Inbound]
           /\ up' \in BOOLEAN
           /\ counter' \in [Client -> Nat]
  BY DEF Start, NoCounters

\* ... and so, empty ones, has a dead one.
LEMMA StopType ==
    ASSUME Stop
    PROVE  /\ running' \in [Client -> Inbound]
           /\ up' \in BOOLEAN
           /\ counter' \in [Client -> Nat]
  BY NoInboundsType DEF Stop, NoCounters

-----------------------------------------------------------------------------
(* Type correctness.                                                       *)

\* Nothing exists yet.
LEMMA InitType == Init => TypeOK
<1>1. NoRow \in Row
  BY DEF NoRow, Row, Reason
<1>. QED
  BY <1>1, IdleType, NoInboundsType DEF Init, TypeOK, NoPass, Pass

\* The collector's own steps.
LEMMA CollectType ==
    ASSUME TypeOK, Wake \/ Sleep \/ Add \/ Advance \/ \E c \in Client : TakeClient(c)
    PROVE  TypeOK'
<1>. Collector \in Actor
  BY DEF Actor
<1>1. CASE Wake
  <2>1. proc' \in [Actor -> Proc]
    BY <1>1, GotoType DEF Wake, PC
  <2>2. pass' \in Pass
    BY <1>1 DEF Wake, TypeOK, Pass
  <2>. QED
    BY <1>1, <2>1, <2>2 DEF Wake, TypeOK, xray, bounds
<1>2. CASE Sleep
  <2>1. proc' \in [Actor -> Proc]
    BY <1>2, IdleType DEF Sleep, TypeOK
  <2>2. pass' \in Pass
    <3>. NoRow \in Row
      BY DEF NoRow, Row, Reason
    <3>. QED
      BY <1>2 DEF Sleep, NoPass, Pass
  <2>. QED
    BY <1>2, <2>1, <2>2 DEF Sleep, TypeOK, xray, bounds
<1>3. CASE Add
  <2>. DEFINE p == proc[Collector]
              why == SuspendReason(p.row, Total(p.row, p.c, p.got), pass.now)
  <2>1. p.c \in Client /\ p.row \in Row /\ p.got \in Nat /\ p \in Proc
    BY ActorTypes
  <2>2. [rows[p.c] EXCEPT !.used = @ + p.got] \in Row
    BY <2>1 DEF TypeOK, Row
  <2>3. rows' \in [Client -> Row]
    BY <1>3, <2>1, <2>2, UpdatedType DEF Add
  <2>4. why \in Reason
    BY DEF SuspendReason, Reason
  <2>5. [p EXCEPT !.pc = "cfg_read", !.why = why] \in Proc
    BY <2>1, <2>4 DEF Proc, PC
  <2>6. proc' \in [Actor -> Proc]
    <3>1. CASE Done(Collector)
      BY <3>1, DoneType
    <3>2. CASE proc' = [proc EXCEPT ![Collector].pc = "cfg_read", ![Collector].why = why]
      BY <3>2, <2>5 DEF TypeOK
    <3>. QED
      BY <1>3, <3>1, <3>2 DEF Add
  <2>. QED
    BY <1>3, <2>3, <2>6 DEF Add, TypeOK, xray, bounds
<1>4. CASE Advance
  <2>. DEFINE p == proc[Collector]
  <2>1. p.c \in Client /\ p.row \in Row
    BY ActorTypes
  <2>2. NextBoundary(p.row) \in Nat
    BY <2>1, AfterType DEF NextBoundary, Row
  <2>3. [rows[p.c] EXCEPT !.next = NextBoundary(p.row)] \in Row
    BY <2>1, <2>2 DEF TypeOK, Row
  <2>4. rows' \in [Client -> Row]
    BY <1>4, <2>1, <2>3, UpdatedType DEF Advance
  <2>5. proc' \in [Actor -> Proc]
    BY <1>4, DoneType DEF Advance
  <2>. QED
    BY <1>4, <2>4, <2>5 DEF Advance, TypeOK, xray, bounds
<1>5. ASSUME NEW c \in Client, TakeClient(c)
      PROVE  TypeOK'
  <2>. DEFINE row == pass.snap[c]
              op == Task(row, pass.now)
  <2>1. row \in Row /\ op \in Op
    BY DEF TypeOK, Pass, Task, Op
  <2>2. [Idle EXCEPT !.pc = "stats", !.op = op, !.c = c, !.row = row] \in Proc
    BY <2>1, IdleType DEF Proc, PC
  <2>3. proc' \in [Actor -> Proc]
    BY <1>5, <2>2 DEF TakeClient, TypeOK
  <2>4. pass' \in Pass
    BY <1>5 DEF TakeClient, TypeOK, Pass
  <2>. QED
    BY <1>5, <2>3, <2>4 DEF TakeClient, TypeOK, xray, bounds
<1>. QED
  BY <1>1, <1>2, <1>3, <1>4, <1>5

\* The three outcomes of a statistics query.
LEMMA StatsType ==
    ASSUME TypeOK, NEW a \in Actor, StatsStep(a)
    PROVE  TypeOK'
<1>. DEFINE p == proc[a]
<1>0. p.c \in Client /\ p \in Proc
  BY ActorTypes
<1>1. Drained(p.c) \in [Client -> Nat]
  BY <1>0 DEF TypeOK, Drained
<1>2. CASE StatsAnswered(a)
  <2>1. [p EXCEPT !.pc = "add", !.got = counter[p.c]] \in Proc
    BY <1>0 DEF TypeOK, Proc, PC
  <2>2. CASE proc' = [proc EXCEPT ![a].pc = "add", ![a].got = counter[proc[a].c]]
    <3>1. proc' \in [Actor -> Proc]
      BY <2>1, <2>2 DEF TypeOK
    <3>. QED
      BY <1>1, <1>2, <3>1 DEF StatsAnswered, TypeOK, bounds
  <2>3. CASE Goto(a, "zero")
    <3>1. proc' \in [Actor -> Proc]
      BY <2>3, GotoType DEF PC
    <3>. QED
      BY <1>1, <1>2, <3>1 DEF StatsAnswered, TypeOK, bounds
  <2>. QED
    BY <1>2, <2>2, <2>3 DEF StatsAnswered
<1>3. CASE StatsUnavailable(a)
  <2>1. proc' \in [Actor -> Proc]
    BY <1>3, DoneType, GotoType DEF StatsUnavailable, PC
  <2>. QED
    BY <1>3, <2>1 DEF StatsUnavailable, Fault, TypeOK, xray
<1>4. CASE StatsBroken(a)
  <2>1. [p EXCEPT !.op = "collect"] \in Proc
    BY <1>0 DEF Proc, Op
  <2>2. proc' \in [Actor -> Proc]
    <3>1. CASE proc' = [proc EXCEPT ![a].op = "collect"]
      BY <3>1, <2>1 DEF TypeOK
    <3>2. CASE Done(a)
      BY <3>2, DoneType
    <3>. QED
      BY <1>4, <3>1, <3>2 DEF StatsBroken
  <2>3. counter' \in [Client -> Nat]
    BY <1>1, <1>4 DEF StatsBroken, TypeOK
  <2>. QED
    BY <1>4, <2>2, <2>3 DEF StatsBroken, Fault, TypeOK
<1>. QED
  BY <1>2, <1>3, <1>4 DEF StatsStep

\* reset_protocol_traffic.
LEMMA ZeroType ==
    ASSUME TypeOK, NEW a \in Actor, Zero(a)
    PROVE  TypeOK'
<1>. DEFINE p == proc[a]
<1>1. p.c \in Client
  BY ActorTypes
<1>2. [rows[p.c] EXCEPT !.used = 0] \in Row
  BY <1>1 DEF TypeOK, Row
<1>3. rows' \in [Client -> Row]
  BY <1>1, <1>2, UpdatedType DEF Zero
<1>4. Goto(a, "cfg_read") \/ Goto(a, "advance") \/ Done(a)
  BY DEF Zero
<1>5. proc' \in [Actor -> Proc]
  BY <1>4, GotoType, DoneType DEF PC
<1>. QED
  BY <1>3, <1>5 DEF Zero, TypeOK, xray, bounds

\* The configuration transaction.
LEMMA ConfigType ==
    ASSUME TypeOK, NEW a \in Actor, ConfigStep(a)
    PROVE  TypeOK'
<1>. DEFINE p == proc[a]
<1>0. p.c \in Client /\ p \in Proc
  BY ActorTypes
<1>1. CASE ConfigRead(a)
  <2>1. Target(p) \in Inbound
    BY DEF Target, Inbound
  <2>2. [file EXCEPT ![p.c] = Target(p)] \in [Client -> Inbound]
    BY <1>0, <2>1 DEF TypeOK
  <2>3. [p EXCEPT !.pc = "cfg_write", !.doc = [file EXCEPT ![p.c] = Target(p)]] \in Proc
    BY <1>0, <2>2 DEF Proc, PC
  <2>4. proc' \in [Actor -> Proc]
    <3>1. CASE Done(a) \/ Goto(a, "write")
      BY <3>1, DoneType, GotoType DEF PC
    <3>2. CASE proc' = [proc EXCEPT ![a].pc = "cfg_write",
                                    ![a].doc = [file EXCEPT ![p.c] = Target(p)]]
      BY <3>2, <2>3 DEF TypeOK
    <3>. QED
      BY <1>1, <3>1, <3>2 DEF ConfigRead
  <2>. QED
    BY <1>1, <2>4 DEF ConfigRead, TypeOK, xray, bounds
<1>2. CASE ConfigWrite(a)
  <2>1. file \in [Client -> Inbound] /\ p.doc \in [Client -> Inbound]
    BY <1>0 DEF TypeOK, Proc
  <2>2. \A pc \in PC : [p EXCEPT !.pc = pc, !.backup = file, !.doc = NoInbounds] \in Proc
    BY <1>0, <2>1, NoInboundsType DEF Proc
  <2>3. proc' \in [Actor -> Proc]
    BY <1>2, <2>2 DEF ConfigWrite, TypeOK, PC
  <2>4. file' \in [Client -> Inbound]
    BY <1>2, <2>1 DEF ConfigWrite
  <2>. QED
    BY <1>2, <2>3, <2>4 DEF ConfigWrite, Fault, TypeOK
<1>3. CASE ConfigRestart(a)
  <2>1. [p EXCEPT !.pc = "write", !.backup = NoInbounds] \in Proc
    BY <1>0, NoInboundsType DEF Proc, PC
  <2>2. proc' \in [Actor -> Proc]
    <3>1. CASE proc' = [proc EXCEPT ![a].pc = "write", ![a].backup = NoInbounds]
      BY <3>1, <2>1 DEF TypeOK
    <3>2. CASE Goto(a, "cfg_rollback")
      BY <3>2, GotoType DEF PC
    <3>. QED
      BY <1>3, <3>1, <3>2 DEF ConfigRestart
  <2>3. /\ running' \in [Client -> Inbound]
        /\ up' \in BOOLEAN
        /\ counter' \in [Client -> Nat]
    <3>1. CASE Start(file)
      BY <3>1, StartType DEF TypeOK
    <3>2. CASE Stop
      BY <3>2, StopType
    <3>3. CASE UNCHANGED <<running, up, counter>>
      BY <3>3 DEF TypeOK
    <3>. QED
      BY <1>3, <3>1, <3>2, <3>3 DEF ConfigRestart
  <2>. QED
    BY <1>3, <2>2, <2>3 DEF ConfigRestart, Fault, TypeOK
<1>4. CASE ConfigRollback(a)
  <2>1. p.backup \in [Client -> Inbound]
    BY <1>0 DEF Proc
  <2>2. proc' \in [Actor -> Proc]
    BY <1>4, DoneType DEF ConfigRollback
  <2>3. /\ running' \in [Client -> Inbound]
        /\ up' \in BOOLEAN
        /\ counter' \in [Client -> Nat]
    BY <1>4, <2>1, StartType, StopType DEF ConfigRollback
  <2>. QED
    BY <1>4, <2>1, <2>2, <2>3 DEF ConfigRollback, Fault, TypeOK
<1>. QED
  BY <1>1, <1>2, <1>3, <1>4 DEF ConfigStep

\* The statement after the configuration.
LEMMA WriteType ==
    ASSUME TypeOK, NEW a \in Actor, Write(a)
    PROVE  TypeOK'
<1>. DEFINE p == proc[a]
<1>0. p.c \in Client /\ p \in Proc /\ rows[p.c] \in Row
  BY ActorTypes DEF TypeOK
<1>1. Suspended(rows[p.c], p.why) \in Row
  BY <1>0 DEF Suspended, Row, Proc
<1>2. Reactivated(rows[p.c]) \in Row
  BY <1>0 DEF Reactivated, Row, Reason
<1>3. Edited(rows[p.c], p.edit) \in Row
  <2>1. p.edit \in Edit
    BY <1>0 DEF Proc
  <2>2. p.edit.reset # Keep => After(p.edit.reset) \in Nat
    BY <2>1, AfterType DEF Edit
  <2>. QED
    BY ZenonT(60), <1>0, <2>1, <2>2 DEF Edited, Row, Reason, Edit
<1>4. Inserted(p.plan) \in Row
  <2>1. p.plan \in Plan
    BY <1>0 DEF Proc
  <2>2. After(p.plan.term) \in Nat /\ After(p.plan.reset) \in Nat
    BY <2>1, AfterType DEF Plan
  <2>3. lastId + 1 \in Nat /\ p.plan.quota \in Nat /\ p.plan.reset \in Nat
    BY <2>1 DEF Plan, TypeOK
  <2>. QED
    BY <2>2, <2>3 DEF Inserted, Row, Reason
<1>5. NoRow \in Row
  BY DEF NoRow, Row, Reason
<1>6. WriteRow(p) \in [Client -> Row]
  BY <1>0, <1>1, <1>2, <1>3, <1>4, <1>5, UpdatedType DEF WriteRow
<1>7. proc' \in [Actor -> Proc]
  BY DoneType, GotoType DEF Write, PC
<1>. QED
  BY <1>6, <1>7 DEF Write, TypeOK, xray, bounds

\* The first step of a request.
LEMMA BeginType ==
    ASSUME TypeOK, NEW t \in Thread, NEW c \in Client, BeginRequest(t, c)
    PROVE  TypeOK'
<1>. t \in Actor
  BY DEF Actor
<1>0. rows[c] \in Row
  BY DEF TypeOK
<1>1. ASSUME NEW p \in Proc, Begin(t, p), requests' \in Nat
      PROVE  TypeOK'
  BY <1>1 DEF Begin, TypeOK, xray
<1>2. ASSUME NEW plan \in Plans, BeginCreate(t, c, plan)
      PROVE  TypeOK'
  <2>1. [Idle EXCEPT !.pc = "cfg_read", !.op = "create", !.c = c, !.plan = plan] \in Proc
    BY IdleType DEF Proc, PC, Op
  <2>. QED
    BY <1>1, <1>2, <2>1 DEF BeginCreate, Request, TypeOK
<1>3. ASSUME NEW e \in Edits, BeginUpdate(t, c, e)
      PROVE  TypeOK'
  <2>. DEFINE dated == [e EXCEPT !.term = IF @ = Keep THEN Keep ELSE After(@)]
  <2>0. e \in Edit
    OBVIOUS
  <2>1. dated \in Edit
    <3>1. e.term # Keep => After(e.term) \in Nat
      BY <2>0, AfterType DEF Edit
    <3>. QED
      BY <2>0, <3>1 DEF Edit
  <2>2. \A pc \in PC : [Idle EXCEPT !.pc = pc, !.op = "update", !.c = c,
                                    !.row = rows[c], !.edit = dated] \in Proc
    BY <1>0, <2>1, IdleType DEF Proc, Op
  <2>3. requests' \in Nat
    BY <1>3 DEF BeginUpdate, Request, TypeOK
  <2>4. \E pc \in {"cfg_read", "write"} :
           Begin(t, [Idle EXCEPT !.pc = pc, !.op = "update", !.c = c,
                                 !.row = rows[c], !.edit = dated])
    BY <1>3, Zenon DEF BeginUpdate
  <2>. QED
    BY <1>1, <2>2, <2>3, <2>4 DEF PC
<1>4. CASE BeginReset(t, c)
  <2>1. [Idle EXCEPT !.pc = "stats", !.op = "reset", !.c = c, !.row = rows[c]] \in Proc
    BY <1>0, IdleType DEF Proc, PC, Op
  <2>. QED
    BY <1>1, <1>4, <2>1 DEF BeginReset, Request, TypeOK
<1>5. CASE BeginRevoke(t, c)
  <2>1. [Idle EXCEPT !.pc = "cfg_read", !.op = "revoke", !.c = c, !.row = rows[c]] \in Proc
    BY <1>0, IdleType DEF Proc, PC, Op
  <2>. QED
    BY <1>1, <1>5, <2>1 DEF BeginRevoke, Request, TypeOK
<1>6. CASE BeginReport(t, c)
  <2>1. \A pc \in PC : [Idle EXCEPT !.pc = pc, !.op = "report", !.c = c,
                                    !.row = rows[c]] \in Proc
    BY <1>0, IdleType DEF Proc, Op
  <2>. QED
    BY <1>1, <1>6, <2>1 DEF BeginReport, TypeOK, PC
<1>. QED
  BY <1>2, <1>3, <1>4, <1>5, <1>6 DEF BeginRequest

\* The steps of a report.
LEMMA ReportType ==
    ASSUME TypeOK, NEW t \in Thread, Usage(t) \/ Answer(t)
    PROVE  TypeOK'
<1>. t \in Actor
  BY DEF Actor
<1>1. CASE Usage(t)
  <2>1. [proc[t] EXCEPT !.pc = "answer", !.got = counter[proc[t].c]] \in Proc
    BY ZenonT(60), ActorTypes DEF TypeOK, Proc, PC
  <2>2. proc' \in [Actor -> Proc]
    <3>1. CASE proc' = [proc EXCEPT ![t].pc = "answer", ![t].got = counter[proc[t].c]]
      BY <3>1, <2>1 DEF TypeOK
    <3>2. CASE Goto(t, "answer")
      BY <3>2, GotoType DEF PC
    <3>. QED
      BY <1>1, <3>1, <3>2 DEF Usage
  <2>. QED
    BY <1>1, <2>2 DEF Usage, Fault, TypeOK, xray
<1>2. CASE Answer(t)
  <2>1. proc' \in [Actor -> Proc]
    BY <1>2, DoneType DEF Answer
  <2>. QED
    BY <1>2, <2>1 DEF Answer, TypeOK, xray, bounds
<1>. QED
  BY <1>1, <1>2

\* Traffic, the clock, and the deaths of processes.
LEMMA EnvironmentType ==
    ASSUME TypeOK,
           \/ \E c \in Client : Traffic(c)
           \/ Tick \/ XrayDies \/ XrayStarts \/ CollectorDies \/ WebDies
    PROVE  TypeOK'
<1>1. CASE \E c \in Client : Traffic(c)
  BY <1>1 DEF Traffic, TypeOK, bounds
<1>2. CASE Tick
  BY <1>2 DEF Tick, TypeOK, xray, bounds
<1>3. CASE XrayDies
  BY <1>3, StopType DEF XrayDies, Fault, TypeOK
<1>4. CASE XrayStarts
  <2>1. file \in [Client -> Inbound]
    BY DEF TypeOK
  <2>. QED
    BY <1>4, <2>1, StartType DEF XrayStarts, TypeOK, bounds
<1>5. CASE CollectorDies
  <2>. NoPass \in Pass
    BY DEF NoPass, Pass, NoRow, Row, Reason
  <2>1. pass' \in Pass
    BY <1>5 DEF CollectorDies
  <2>2. proc' \in [Actor -> Proc]
    BY <1>5, IdleType DEF CollectorDies, TypeOK
  <2>. QED
    BY <1>5, <2>1, <2>2 DEF CollectorDies, Fault, TypeOK, xray
<1>6. CASE WebDies
  BY <1>6, IdleType DEF WebDies, Fault, TypeOK, xray
<1>. QED
  BY <1>1, <1>2, <1>3, <1>4, <1>5, <1>6

\* Every step preserves the types.
LEMMA NextType == TypeOK /\ [Next]_vars => TypeOK'
<1>. SUFFICES ASSUME TypeOK, [Next]_vars PROVE TypeOK'
  OBVIOUS
<1>. Collector \in Actor /\ Thread \subseteq Actor
  BY DEF Actor
<1>1. CASE CollectorStep
  BY <1>1, CollectType, StatsType, ZeroType, ConfigType, WriteType DEF CollectorStep
<1>2. CASE \E t \in Thread : ThreadStep(t)
  BY <1>2, StatsType, ZeroType, ConfigType, WriteType, ReportType DEF ThreadStep
<1>3. CASE \E t \in Thread, c \in Client : BeginRequest(t, c)
  BY <1>3, BeginType
<1>4. CASE \/ \E c \in Client : Traffic(c)
           \/ Tick \/ XrayDies \/ XrayStarts \/ CollectorDies \/ WebDies
  BY <1>4, EnvironmentType
<1>5. CASE UNCHANGED vars
  BY <1>5 DEF vars, xray, bounds, TypeOK
<1>. QED
  BY <1>1, <1>2, <1>3, <1>4, <1>5 DEF Next

\* Every variable keeps its type, in every behaviour and for every instance.
THEOREM TypeCorrect == Spec => []TypeOK
<1>1. Init => TypeOK
  BY InitType
<1>2. TypeOK /\ [Next]_vars => TypeOK'
  BY NextType
<1>. QED
  BY <1>1, <1>2, PTL DEF Spec

-----------------------------------------------------------------------------
(* Accounting.  The invariant below is inductive: billing alone would not  *)
(* bound a decision, which is taken on a snapshot and on an answer whose   *)
(* counters have been zeroed since, so both carry a bound of their own.    *)

Accounting ==
    TypeOK /\ NoDoubleBilling /\ StaleFiguresBacked /\ QuotaDecisionBacked

\* Nothing has been carried and nothing is claimed.
LEMMA InitAccounting == Init => Accounting
<1>. SUFFICES ASSUME Init PROVE Accounting
  OBVIOUS
<1>0. TypeOK
  BY InitType
<1>1. \A c \in Client : rows[c].used = 0 /\ counter[c] = 0 /\ delivered[c] = 0
  BY DEF Init, NoRow
<1>2. \A a \in Actor : proc[a].pc = "idle" /\ proc[a].why = ""
  BY DEF Init, Idle
<1>3. NoDoubleBilling
  <2>1. \A c \in Client : InHands(c) = 0
    BY <1>2 DEF InHands, At, Actor
  <2>2. ASSUME NEW c \in Client
        PROVE  rows[c].used + counter[c] + InHands(c) <= delivered[c]
    <3>1. rows[c].used + counter[c] + InHands(c) = 0
      BY <1>1, <2>1
    <3>. QED
      BY <1>1, <3>1
  <2>. QED
    BY <2>2 DEF NoDoubleBilling
<1>4. StaleFiguresBacked
  <2>1. \A c \in Client : pass.snap[c].used = 0
    BY DEF Init, NoPass, NoRow
  <2>2. \A a \in Actor : HeldBacked(proc[a])
    BY <1>2 DEF HeldBacked
  <2>. QED
    BY <1>1, <2>1, <2>2 DEF StaleFiguresBacked
<1>5. QuotaDecisionBacked
  BY <1>2 DEF QuotaDecisionBacked, Actor
<1>. QED
  BY <1>0, <1>3, <1>4, <1>5 DEF Accounting

\* An actor that holds a verdict after the step held it before.
VerdictKept(a) ==
    proc'[a].op = "collect" /\ proc'[a].why = "quota" =>
        /\ proc[a].op = "collect" /\ proc[a].why = "quota"
        /\ proc'[a].row = proc[a].row /\ proc'[a].c = proc[a].c

\* What a step that bills nothing may do to an actor.
ActorKept(a) ==
    \/ proc'[a] = proc[a]
    \/ proc'[a].pc # "add" /\ HeldBacked(proc[a])' /\ VerdictKept(a)

\* What it may do to the figures: those of the table and of Xray only shrink, a
\* snapshot is kept or taken anew.
FiguresShrink ==
    /\ delivered' = delivered
    /\ \A c \in Client :
          /\ rows'[c].used <= rows[c].used
          /\ counter'[c] <= counter[c]
          /\ \/ pass'.snap[c].used <= pass.snap[c].used
             \/ pass'.snap[c].used <= rows[c].used

\* Such a step preserves the invariant.
LEMMA Frame ==
    ASSUME Accounting, TypeOK', FiguresShrink, \A a \in Actor : ActorKept(a)
    PROVE  Accounting'
<1>. USE DEF FiguresShrink, ActorKept
<1>. Collector \in Actor
  BY DEF Actor
<1>1. ASSUME NEW c \in Client
      PROVE  /\ rows[c].used \in Nat /\ rows'[c].used \in Nat
             /\ counter[c] \in Nat /\ counter'[c] \in Nat
             /\ pass.snap[c].used \in Nat /\ pass'.snap[c].used \in Nat
             /\ delivered[c] \in Nat
  BY DEF Accounting, TypeOK, Row, Pass
<1>2. ASSUME NEW a \in Actor
      PROVE  /\ proc[a].c \in Client
             /\ proc[a].got \in Nat /\ proc[a].row.used \in Nat
  BY DEF Accounting, TypeOK, Proc, Row
<1>3. \A c \in Client : InHands(c) \in Nat /\ InHands(c)' \in {0, InHands(c)}
  BY <1>2 DEF InHands, At
<1>4. NoDoubleBilling'
  BY <1>1, <1>3 DEF Accounting, NoDoubleBilling
<1>5. \A c \in Client : pass'.snap[c].used + counter'[c] <= delivered'[c]
  BY <1>1, <1>3 DEF Accounting, NoDoubleBilling, StaleFiguresBacked
<1>6. ASSUME NEW a \in Actor
      PROVE  HeldBacked(proc[a])'
  <2>1. CASE proc'[a] = proc[a]
    <3>1. HeldBacked(proc[a])
      BY DEF Accounting, StaleFiguresBacked
    <3>2. /\ counter'[proc[a].c] <= counter[proc[a].c]
          /\ delivered'[proc[a].c] = delivered[proc[a].c]
      BY <1>2
    <3>3. /\ counter[proc[a].c] \in Nat /\ counter'[proc[a].c] \in Nat
          /\ delivered[proc[a].c] \in Nat /\ proc[a].row.used \in Nat
      BY <1>1, <1>2
    <3>4. ASSUME proc'[a].pc \in {"stats", "usage"}
          PROVE  proc'[a].row.used + counter'[proc'[a].c] <= delivered'[proc'[a].c]
      <4>1. proc[a].row.used + counter[proc[a].c] <= delivered[proc[a].c]
        BY <2>1, <3>1, <3>4 DEF HeldBacked
      <4>2. proc[a].row.used + counter'[proc[a].c] <= delivered'[proc[a].c]
        BY <3>2, <3>3, <4>1
      <4>. QED
        BY <2>1, <4>2
    <3>5. ASSUME proc'[a].pc \in {"add", "answer"}
          PROVE  proc'[a].row.used + proc'[a].got <= delivered'[proc'[a].c]
      BY <2>1, <3>1, <3>2, <3>5 DEF HeldBacked
    <3>. QED
      BY <2>1, <3>1, <3>4, <3>5 DEF HeldBacked
  <2>. QED
    BY <2>1
<1>7. QuotaDecisionBacked'
  BY DEF Accounting, QuotaDecisionBacked, VerdictKept
<1>. QED
  BY <1>4, <1>5, <1>6, <1>7 DEF Accounting, StaleFiguresBacked

\* A finished actor holds nothing that needs backing.
LEMMA DoneKept ==
    ASSUME TypeOK, NEW a \in Actor, Done(a)
    PROVE  \A b \in Actor : ActorKept(b)
<1>1. Resting(a).pc \in {"idle", "next"} /\ Resting(a).why = ""
  BY DEF Resting, Idle
<1>2. proc'[a] = Resting(a) /\ \A b \in Actor : b # a => proc'[b] = proc[b]
  BY DEF Done, TypeOK
<1>. QED
  BY <1>1, <1>2 DEF ActorKept, HeldBacked, VerdictKept

\* Nor does one that moves to a place where it holds nothing.
LEMMA GotoKept ==
    ASSUME TypeOK, NEW a \in Actor, NEW pc, Goto(a, pc),
           pc \notin {"stats", "usage", "add", "answer"}
    PROVE  \A b \in Actor : ActorKept(b)
<1>1. /\ proc'[a].pc = pc /\ proc'[a].op = proc[a].op /\ proc'[a].why = proc[a].why
      /\ proc'[a].row = proc[a].row /\ proc'[a].c = proc[a].c
  BY ActorTypes DEF Goto, TypeOK, Proc
<1>2. \A b \in Actor : b # a => proc'[b] = proc[b]
  BY DEF Goto, TypeOK
<1>. QED
  BY <1>1, <1>2 DEF ActorKept, HeldBacked, VerdictKept

\* An UPDATE that does not raise the usage of its row raises none.
LEMMA UpdatedShrinks ==
    ASSUME TypeOK, NEW c \in Client, NEW id, NEW new \in Row,
           new.used <= rows[c].used, rows' = Updated(c, id, new)
    PROVE  \A d \in Client : rows'[d].used <= rows[d].used
<1>1. \A d \in Client : rows[d].used \in Nat
  BY DEF TypeOK, Row
<1>2. ASSUME NEW d \in Client
      PROVE  \/ rows'[d].used = rows[d].used
             \/ d = c /\ rows'[d].used = new.used
  <2>1. rows'[c] \in {new, rows[c]} /\ (d # c => rows'[d] = rows[d])
    BY DEF Updated, TypeOK
  <2>. QED
    BY <2>1
<1>3. ASSUME NEW d \in Client
      PROVE  rows'[d].used <= rows[d].used
  BY <1>1, <1>2
<1>. QED
  BY <1>3

\* A restart of Xray, or its death, clears its counters.
LEMMA RestartShrinks ==
    ASSUME TypeOK, NEW doc, Start(doc) \/ Stop \/ UNCHANGED <<running, up, counter>>
    PROVE  \A c \in Client : counter'[c] <= counter[c]
<1>1. \A c \in Client : counter[c] \in Nat
  BY DEF TypeOK
<1>2. (\A c \in Client : counter'[c] = 0) \/ counter' = counter
  BY DEF Start, Stop, NoCounters
<1>. QED
  BY <1>1, <1>2

\* The figures of a step that leaves some of them alone.
LEMMA UnchangedShrinks ==
    ASSUME TypeOK
    PROVE  \A c \in Client :
              /\ rows[c].used <= rows[c].used
              /\ counter[c] <= counter[c]
              /\ pass.snap[c].used <= pass.snap[c].used
<1>1. ASSUME NEW c \in Client
      PROVE  /\ rows[c].used <= rows[c].used
             /\ counter[c] <= counter[c]
             /\ pass.snap[c].used <= pass.snap[c].used
  <2>1. /\ rows[c].used \in Nat /\ counter[c] \in Nat
        /\ pass.snap[c].used \in Nat
    BY DEF TypeOK, Row, Pass
  <2>. QED
    BY <2>1
<1>. QED
  BY <1>1

\* A query with -reset only lowers counters.
LEMMA DrainedShrinks ==
    ASSUME TypeOK, NEW c \in Client
    PROVE  \A d \in Client : Drained(c)[d] <= counter[d]
<1>1. ASSUME NEW d \in Client
      PROVE  Drained(c)[d] <= counter[d]
  <2>1. counter[d] \in Nat /\ Drained(c)[d] \in {0, counter[d]}
    BY DEF TypeOK, Drained
  <2>. QED
    BY <2>1
<1>. QED
  BY <1>1

\* The configuration transaction bills nothing; its restart forgets counters.
LEMMA ConfigAccounting ==
    ASSUME Accounting, TypeOK', NEW a \in Actor, ConfigStep(a)
    PROVE  Accounting'
<1>0. TypeOK
  BY DEF Accounting
<1>1. CASE ConfigRead(a)
  <2>1. FiguresShrink
    BY <1>0, <1>1, UnchangedShrinks DEF FiguresShrink, ConfigRead, xray
  <2>2. CASE proc' = [proc EXCEPT ![a].pc = "cfg_write",
                                  ![a].doc = [file EXCEPT ![proc[a].c] = Target(proc[a])]]
    <3>1. /\ proc'[a].pc = "cfg_write" /\ proc'[a].op = proc[a].op
          /\ proc'[a].why = proc[a].why /\ proc'[a].row = proc[a].row
          /\ proc'[a].c = proc[a].c
      BY <1>0, <2>2, ActorTypes DEF TypeOK, Proc
    <3>2. \A b \in Actor : b # a => proc'[b] = proc[b]
      BY <1>0, <2>2 DEF TypeOK
    <3>3. \A b \in Actor : ActorKept(b)
      BY <3>1, <3>2 DEF ActorKept, HeldBacked, VerdictKept
    <3>. QED
      BY <2>1, <3>3, Frame
  <2>3. CASE Done(a) \/ Goto(a, "write")
    BY <1>0, <2>1, <2>3, DoneKept, GotoKept, Frame
  <2>. QED
    BY <1>1, <2>2, <2>3 DEF ConfigRead
<1>2. CASE ConfigWrite(a)
  <2>1. FiguresShrink
    BY <1>0, <1>2, UnchangedShrinks DEF FiguresShrink, ConfigWrite
  <2>2. /\ proc'[a].pc \in {"cfg_restart", "cfg_rollback"} /\ proc'[a].op = proc[a].op
        /\ proc'[a].why = proc[a].why /\ proc'[a].row = proc[a].row
        /\ proc'[a].c = proc[a].c
    BY <1>0, <1>2, ActorTypes DEF ConfigWrite, TypeOK, Proc
  <2>3. \A b \in Actor : b # a => proc'[b] = proc[b]
    BY <1>0, <1>2 DEF ConfigWrite, TypeOK
  <2>4. \A b \in Actor : ActorKept(b)
    BY <2>2, <2>3 DEF ActorKept, HeldBacked, VerdictKept
  <2>. QED
    BY <2>1, <2>4, Frame
<1>3. CASE ConfigRestart(a)
  <2>1. FiguresShrink
    BY <1>0, <1>3, UnchangedShrinks, RestartShrinks DEF FiguresShrink, ConfigRestart
  <2>2. /\ proc'[a].pc \in {"write", "cfg_rollback"} /\ proc'[a].op = proc[a].op
        /\ proc'[a].why = proc[a].why /\ proc'[a].row = proc[a].row
        /\ proc'[a].c = proc[a].c
    BY <1>0, <1>3, ActorTypes DEF ConfigRestart, Goto, TypeOK, Proc
  <2>3. \A b \in Actor : b # a => proc'[b] = proc[b]
    BY <1>0, <1>3 DEF ConfigRestart, Goto, TypeOK
  <2>4. \A b \in Actor : ActorKept(b)
    BY <2>2, <2>3 DEF ActorKept, HeldBacked, VerdictKept
  <2>. QED
    BY <2>1, <2>4, Frame
<1>4. CASE ConfigRollback(a)
  <2>1. FiguresShrink
    BY <1>0, <1>4, UnchangedShrinks, RestartShrinks DEF FiguresShrink, ConfigRollback
  <2>2. \A b \in Actor : ActorKept(b)
    BY <1>0, <1>4, DoneKept DEF ConfigRollback
  <2>. QED
    BY <2>1, <2>2, Frame
<1>. QED
  BY <1>1, <1>2, <1>3, <1>4 DEF ConfigStep

\* The statements after the configuration copy the usage or drop the row.
LEMMA WriteAccounting ==
    ASSUME Accounting, TypeOK', NEW a \in Actor, Write(a)
    PROVE  Accounting'
<1>. DEFINE p == proc[a]
<1>0. TypeOK /\ p.c \in Client /\ p \in Proc
  BY ActorTypes DEF Accounting
<1>1. rows[p.c] \in Row /\ rows[p.c].used \in Nat
  BY <1>0 DEF TypeOK, Row
<1>2. \A c \in Client : rows'[c].used \in {0, rows[c].used}
  <2>1. WriteRow(p) \in {Updated(p.c, p.row.id, Suspended(rows[p.c], p.why)),
                         Updated(p.c, p.row.id, Reactivated(rows[p.c])),
                         Updated(p.c, p.row.id, Edited(rows[p.c], p.edit)),
                         Updated(p.c, p.row.id, NoRow),
                         Updated(p.c, 0, Inserted(p.plan))}
    BY DEF WriteRow
  <2>2. \A id, new : new.used \in {0, rows[p.c].used} =>
           \A c \in Client : Updated(p.c, id, new)[c].used \in {0, rows[c].used}
    BY <1>0 DEF Updated, TypeOK
  <2>3. /\ Suspended(rows[p.c], p.why).used = rows[p.c].used
        /\ Reactivated(rows[p.c]).used = rows[p.c].used
        /\ Edited(rows[p.c], p.edit).used = rows[p.c].used
        /\ NoRow.used = 0
        /\ Inserted(p.plan).used = 0
    BY <1>1 DEF Suspended, Reactivated, Edited, NoRow, Inserted, Row
  <2>4. rows' = WriteRow(p)
    BY DEF Write
  <2>. QED
    BY <2>1, <2>2, <2>3, <2>4
<1>3. FiguresShrink
  <2>1. \A c \in Client : rows[c].used \in Nat
    BY <1>0 DEF TypeOK, Row
  <2>2. \A c \in Client : rows'[c].used <= rows[c].used
    BY <1>2, <2>1
  <2>. QED
    BY <1>0, <2>2, UnchangedShrinks DEF FiguresShrink, Write, xray
<1>4. \A b \in Actor : ActorKept(b)
  BY <1>0, DoneKept, GotoKept DEF Write
<1>. QED
  BY <1>3, <1>4, Frame

\* A reset of the stored usage lowers it.
LEMMA ZeroAccounting ==
    ASSUME Accounting, TypeOK', NEW a \in Actor, Zero(a)
    PROVE  Accounting'
<1>. DEFINE p == proc[a]
            new == [rows[p.c] EXCEPT !.used = 0]
<1>0. TypeOK /\ p.c \in Client /\ rows[p.c] \in Row
  BY ActorTypes DEF Accounting, TypeOK
<1>1. new \in Row /\ new.used <= rows[p.c].used
  BY <1>0 DEF Row
<1>2. FiguresShrink
  BY <1>0, <1>1, UpdatedShrinks, UnchangedShrinks DEF Zero, FiguresShrink, xray
<1>3. Goto(a, "cfg_read") \/ Goto(a, "advance") \/ Done(a)
  BY DEF Zero
<1>4. \A b \in Actor : ActorKept(b)
  BY <1>0, <1>3, GotoKept, DoneKept
<1>. QED
  BY <1>2, <1>4, Frame

\* What remains of a client at any instant is covered by what it has carried.
LEMMA RowBacked ==
    ASSUME Accounting, NEW c \in Client
    PROVE  /\ rows[c].used \in Nat /\ counter[c] \in Nat /\ delivered[c] \in Nat
           /\ rows[c].used + counter[c] <= delivered[c]
           /\ rows[c].used <= delivered[c]
<1>1. rows[c].used \in Nat /\ counter[c] \in Nat /\ delivered[c] \in Nat
  BY DEF Accounting, TypeOK, Row
<1>2. InHands(c) \in Nat
  BY DEF Accounting, InHands, TypeOK, Actor, Proc
<1>3. rows[c].used + counter[c] + InHands(c) <= delivered[c]
  BY DEF Accounting, NoDoubleBilling
<1>. QED
  BY <1>1, <1>2, <1>3

\* A pass begins with the rows of now and hands its snapshot on.
LEMMA PassAccounting ==
    ASSUME Accounting, TypeOK', Wake \/ Sleep \/ \E c \in Client : TakeClient(c)
    PROVE  Accounting'
<1>. Collector \in Actor
  BY DEF Actor
<1>0. TypeOK
  BY DEF Accounting
<1>1. CASE Wake
  <2>1. pass'.snap = rows
    BY <1>1 DEF Wake
  <2>2. FiguresShrink
    BY <1>0, <1>1, <2>1, UnchangedShrinks DEF Wake, FiguresShrink, xray
  <2>3. \A b \in Actor : ActorKept(b)
    BY <1>0, <1>1, GotoKept DEF Wake
  <2>. QED
    BY <2>2, <2>3, Frame
<1>2. CASE Sleep
  <2>1. \A c \in Client : pass'.snap[c].used = 0 /\ pass.snap[c].used \in Nat
    BY <1>0, <1>2 DEF Sleep, NoPass, NoRow, TypeOK, Pass, Row
  <2>2. \A c \in Client : pass'.snap[c].used <= pass.snap[c].used
    BY <2>1
  <2>3. FiguresShrink
    BY <1>0, <1>2, <2>2, UnchangedShrinks DEF Sleep, FiguresShrink, xray
  <2>4. proc'[Collector] = Idle /\ \A b \in Actor : b # Collector => proc'[b] = proc[b]
    BY <1>0, <1>2 DEF Sleep, TypeOK
  <2>5. Idle.pc = "idle" /\ Idle.why = ""
    BY DEF Idle
  <2>6. \A b \in Actor : ActorKept(b)
    BY <2>4, <2>5 DEF ActorKept, HeldBacked, VerdictKept
  <2>. QED
    BY <2>3, <2>6, Frame
<1>3. ASSUME NEW c \in Client, TakeClient(c)
      PROVE  Accounting'
  <2>1. pass'.snap = pass.snap
    BY <1>0, <1>3 DEF TakeClient, TypeOK, Pass
  <2>2. FiguresShrink
    BY <1>0, <1>3, <2>1, UnchangedShrinks DEF TakeClient, FiguresShrink, xray
  <2>3. CASE UNCHANGED proc
    <3>1. \A b \in Actor : ActorKept(b)
      BY <2>3 DEF ActorKept
    <3>. QED
      BY <2>2, <3>1, Frame
  <2>4. CASE proc' = [proc EXCEPT ![Collector] =
                [Idle EXCEPT !.pc = "stats", !.op = Task(pass.snap[c], pass.now),
                             !.c = c, !.row = pass.snap[c]]]
    <3>1. /\ proc'[Collector].pc = "stats" /\ proc'[Collector].c = c
          /\ proc'[Collector].row = pass.snap[c] /\ proc'[Collector].got = 0
          /\ proc'[Collector].why = ""
      BY <1>0, <2>4 DEF TypeOK, Idle
    <3>2. pass.snap[c].used + counter[c] <= delivered[c]
      BY DEF Accounting, StaleFiguresBacked
    <3>3. counter' = counter /\ delivered' = delivered
      BY <1>3 DEF TakeClient, xray
    <3>4. ActorKept(Collector)
      BY <3>1, <3>2, <3>3 DEF ActorKept, HeldBacked, VerdictKept
    <3>5. \A b \in Actor : b # Collector => proc'[b] = proc[b]
      BY <1>0, <2>4 DEF TypeOK
    <3>6. \A b \in Actor : ActorKept(b)
      BY <3>4, <3>5 DEF ActorKept
    <3>. QED
      BY <2>2, <3>6, Frame
  <2>. QED
    BY <1>3, <2>3, <2>4 DEF TakeClient
<1>. QED
  BY <1>1, <1>2, <1>3

\* Moving the boundary leaves the usage alone.
LEMMA AdvanceAccounting ==
    ASSUME Accounting, TypeOK', Advance
    PROVE  Accounting'
<1>. DEFINE p == proc[Collector]
            new == [rows[p.c] EXCEPT !.next = NextBoundary(p.row)]
<1>. Collector \in Actor
  BY DEF Actor
<1>0. TypeOK /\ p.c \in Client /\ p.row \in Row /\ rows[p.c] \in Row
  BY ActorTypes DEF Accounting, TypeOK
<1>1. NextBoundary(p.row) \in Nat
  BY <1>0, AfterType DEF NextBoundary, Row
<1>2. new \in Row /\ new.used <= rows[p.c].used
  BY <1>0, <1>1 DEF Row
<1>3. FiguresShrink
  BY <1>0, <1>2, UpdatedShrinks, UnchangedShrinks DEF Advance, FiguresShrink, xray
<1>4. \A b \in Actor : ActorKept(b)
  BY <1>0, DoneKept DEF Advance
<1>. QED
  BY <1>3, <1>4, Frame

\* The verdict is formed here, and the units leave the collector's hands.
LEMMA AddAccounting ==
    ASSUME Accounting, TypeOK', Add
    PROVE  Accounting'
<1>. DEFINE p == proc[Collector]
            why == SuspendReason(p.row, Total(p.row, p.c, p.got), pass.now)
<1>. Collector \in Actor
  BY DEF Actor
<1>0. /\ TypeOK /\ p.c \in Client /\ p.row.used \in Nat /\ p.row.quota \in Nat
      /\ p.got \in Nat /\ p.pc = "add"
  BY ActorTypes DEF Accounting, Add, At, Row
<1>1. p.row.used + p.got <= delivered[p.c]
  BY <1>0 DEF Accounting, StaleFiguresBacked, HeldBacked
<1>2. UNCHANGED <<counter, delivered, pass>>
  BY DEF Add, xray
<1>3. \/ proc'[Collector].pc = "next" /\ proc'[Collector].op = "none"
      \/ /\ proc'[Collector].pc = "cfg_read" /\ proc'[Collector].why = why
         /\ proc'[Collector].row = p.row /\ proc'[Collector].c = p.c
  <2>1. CASE Done(Collector)
    BY <1>0, <2>1 DEF Done, Resting, Idle, TypeOK
  <2>2. CASE proc' = [proc EXCEPT ![Collector].pc = "cfg_read", ![Collector].why = why]
    BY <1>0, <2>2, ActorTypes DEF TypeOK, Proc
  <2>. QED
    BY <2>1, <2>2 DEF Add
<1>4. \A b \in Actor : b # Collector => proc'[b] = proc[b]
  BY <1>0 DEF Add, Done, TypeOK
<1>5. NoDoubleBilling'
  <2>1. ASSUME NEW c \in Client
        PROVE  rows'[c].used + counter'[c] + InHands(c)' <= delivered'[c]
    <3>1. /\ rows[c].used \in Nat /\ counter[c] \in Nat /\ delivered[c] \in Nat
          /\ rows[c].used + counter[c] + InHands(c) <= delivered[c]
      BY RowBacked DEF Accounting, NoDoubleBilling
    <3>2. InHands(c)' = 0
      BY <1>3 DEF InHands, At
    <3>3. InHands(c) = IF c = p.c THEN p.got ELSE 0
      BY <1>0 DEF InHands, At
    <3>4. rows'[c].used \in {rows[c].used, rows[c].used + InHands(c)}
      <4>1. CASE c = p.c
        BY ZenonT(60), <1>0, <3>3, <4>1 DEF Add, Updated, TypeOK, Row
      <4>2. CASE c # p.c
        BY <1>0, <4>2 DEF Add, Updated, TypeOK
      <4>. QED
        BY <4>1, <4>2
    <3>. QED
      BY <1>0, <1>2, <3>1, <3>2, <3>3, <3>4
  <2>. QED
    BY <2>1 DEF NoDoubleBilling
<1>6. StaleFiguresBacked'
  <2>1. HeldBacked(proc[Collector])'
    BY <1>3 DEF HeldBacked
  <2>2. ASSUME NEW b \in Actor, b # Collector
        PROVE  HeldBacked(proc[b])'
    BY <1>2, <1>4, <2>2 DEF Accounting, StaleFiguresBacked, HeldBacked
  <2>. QED
    BY <1>2, <2>1, <2>2 DEF Accounting, StaleFiguresBacked
<1>7. QuotaDecisionBacked'
  <2>1. why = "quota" => p.row.quota > 0 /\ delivered[p.c] >= p.row.quota
    <3>1. delivered[p.c] \in Nat
      BY <1>0 DEF TypeOK
    <3>. QED
      BY <1>0, <1>1, <3>1 DEF SuspendReason, Total
  <2>. QED
    BY <1>2, <1>3, <2>1 DEF QuotaDecisionBacked
<1>. QED
  BY <1>5, <1>6, <1>7 DEF Accounting

\* What leaves Xray's counters arrives in the collector's hands, or nowhere.
LEMMA StatsAccounting ==
    ASSUME Accounting, TypeOK', NEW a \in Actor, StatsStep(a)
    PROVE  Accounting'
<1>. DEFINE p == proc[a]
<1>0. /\ TypeOK /\ p.c \in Client /\ p \in Proc
      /\ p.row.used \in Nat /\ p.got \in Nat
  BY ActorTypes DEF Accounting, Row
<1>1. CASE StatsAnswered(a) /\ p.op = "collect"
  <2>. DEFINE taken == counter[p.c]
  <2>1. /\ p.pc = "stats" /\ counter' = Drained(p.c)
        /\ UNCHANGED <<rows, delivered, pass>>
        /\ proc' = [proc EXCEPT ![a].pc = "add", ![a].got = taken]
    BY <1>1 DEF StatsAnswered, At
  <2>2. /\ proc'[a].pc = "add" /\ proc'[a].got = taken /\ proc'[a].c = p.c
        /\ proc'[a].row = p.row /\ proc'[a].why = p.why
    BY <1>0, <2>1 DEF TypeOK, Proc
  <2>3. \A b \in Actor : b # a => proc'[b] = proc[b]
    BY <1>0, <2>1 DEF TypeOK
  <2>4. p.row.used + taken <= delivered[p.c] /\ p.why = ""
    BY <2>1 DEF Accounting, StaleFiguresBacked, HeldBacked
  <2>5. ASSUME NEW c \in Client
        PROVE  /\ counter'[c] + InHands(c)' <= counter[c] + InHands(c)
               /\ counter'[c] <= counter[c]
               /\ counter'[c] \in Nat /\ InHands(c)' \in Nat /\ InHands(c) \in Nat
    <3>1. counter[c] \in Nat /\ taken \in Nat
      BY <1>0 DEF TypeOK
    <3>2. counter'[c] = IF c = p.c THEN 0 ELSE counter[c]
      BY <1>0, <2>1 DEF Drained, TypeOK
    <3>3. InHands(c) \in Nat
      BY <1>0 DEF InHands, TypeOK, Actor, Proc
    <3>4. InHands(c)' = InHands(c) \/ (c = p.c /\ InHands(c)' = taken)
      <4>1. CASE a = Collector
        <5>1. InHands(c) = 0
          BY <2>1, <4>1 DEF InHands, At
        <5>2. InHands(c)' = IF p.c = c THEN taken ELSE 0
          BY <2>2, <4>1 DEF InHands, At
        <5>. QED
          BY <5>1, <5>2
      <4>2. CASE a # Collector
        BY <2>3, <4>2 DEF InHands, At, Actor
      <4>. QED
        BY <4>1, <4>2
    <3>. QED
      BY <3>1, <3>2, <3>3, <3>4
  <2>6. NoDoubleBilling'
    <3>1. ASSUME NEW c \in Client
          PROVE  rows'[c].used + counter'[c] + InHands(c)' <= delivered'[c]
      <4>1. rows[c].used + counter[c] + InHands(c) <= delivered[c]
        BY DEF Accounting, NoDoubleBilling
      <4>2. rows[c].used \in Nat /\ counter[c] \in Nat /\ delivered[c] \in Nat
        BY <1>0 DEF TypeOK, Row
      <4>. QED
        BY <2>1, <2>5, <4>1, <4>2
    <3>. QED
      BY <3>1 DEF NoDoubleBilling
  <2>7. StaleFiguresBacked'
    <3>1. ASSUME NEW c \in Client
          PROVE  pass'.snap[c].used + counter'[c] <= delivered'[c]
      <4>1. pass.snap[c].used + counter[c] <= delivered[c]
        BY DEF Accounting, StaleFiguresBacked
      <4>2. pass.snap[c].used \in Nat /\ counter[c] \in Nat /\ delivered[c] \in Nat
        BY <1>0 DEF TypeOK, Pass, Row
      <4>. QED
        BY <2>1, <2>5, <4>1, <4>2
    <3>2. HeldBacked(proc[a])'
      BY <2>1, <2>2, <2>4 DEF HeldBacked
    <3>3. ASSUME NEW b \in Actor, b # a
          PROVE  HeldBacked(proc[b])'
      <4>1. HeldBacked(proc[b])
        BY DEF Accounting, StaleFiguresBacked
      <4>2. /\ proc[b].c \in Client /\ proc[b].row.used \in Nat
        BY <1>0, ActorTypes DEF Row
      <4>3. /\ counter[proc[b].c] \in Nat /\ delivered[proc[b].c] \in Nat
            /\ counter'[proc[b].c] <= counter[proc[b].c]
            /\ counter'[proc[b].c] \in Nat
        BY <1>0, <2>5, <4>2 DEF TypeOK
      <4>4. ASSUME proc[b].pc \in {"stats", "usage"}
            PROVE  proc[b].row.used + counter'[proc[b].c] <= delivered[proc[b].c]
        <5>1. proc[b].row.used + counter[proc[b].c] <= delivered[proc[b].c]
          BY <4>1, <4>4 DEF HeldBacked
        <5>. QED
          BY <4>2, <4>3, <5>1
      <4>. QED
        BY <2>1, <2>3, <3>3, <4>1, <4>4 DEF HeldBacked
    <3>. QED
      BY <3>1, <3>2, <3>3 DEF StaleFiguresBacked
  <2>8. QuotaDecisionBacked'
    BY <2>1, <2>2, <2>3, <2>4 DEF Accounting, QuotaDecisionBacked, Actor
  <2>. QED
    BY <2>6, <2>7, <2>8 DEF Accounting
<1>2. CASE StatsAnswered(a) /\ p.op # "collect"
  <2>1. FiguresShrink
    BY <1>0, <1>2, DrainedShrinks, UnchangedShrinks DEF StatsAnswered, FiguresShrink
  <2>2. \A b \in Actor : ActorKept(b)
    BY <1>0, <1>2, GotoKept DEF StatsAnswered
  <2>. QED
    BY <2>1, <2>2, Frame
<1>3. CASE StatsUnavailable(a)
  <2>1. FiguresShrink
    BY <1>0, <1>3, UnchangedShrinks DEF StatsUnavailable, FiguresShrink, xray
  <2>2. \A b \in Actor : ActorKept(b)
    BY <1>0, <1>3, GotoKept, DoneKept DEF StatsUnavailable
  <2>. QED
    BY <2>1, <2>2, Frame
<1>4. CASE StatsBroken(a)
  <2>1. \A c \in Client : counter'[c] <= counter[c]
    BY <1>0, <1>4, DrainedShrinks, UnchangedShrinks DEF StatsBroken
  <2>2. FiguresShrink
    BY <1>0, <1>4, <2>1, UnchangedShrinks DEF StatsBroken, FiguresShrink
  <2>3. CASE Done(a)
    BY <1>0, <2>2, <2>3, DoneKept, Frame
  <2>4. CASE proc' = [proc EXCEPT ![a].op = "collect"]
    <3>1. /\ proc'[a].pc = "stats" /\ proc'[a].c = p.c /\ proc'[a].row = p.row
          /\ proc'[a].got = p.got /\ proc'[a].why = p.why
      BY <1>0, <1>4, <2>4 DEF StatsBroken, At, TypeOK, Proc
    <3>2. p.row.used + counter[p.c] <= delivered[p.c] /\ p.got = 0 /\ p.why = ""
      BY <1>4 DEF StatsBroken, At, Accounting, StaleFiguresBacked, HeldBacked
    <3>3. p.row.used + counter'[p.c] <= delivered'[p.c]
      <4>1. /\ counter[p.c] \in Nat /\ counter'[p.c] \in Nat /\ delivered[p.c] \in Nat
            /\ counter'[p.c] <= counter[p.c] /\ delivered'[p.c] = delivered[p.c]
            /\ p.row.used \in Nat
        BY <1>0, <1>4, <2>1 DEF TypeOK, StatsBroken
      <4>2. p.row.used + counter[p.c] <= delivered[p.c]
        BY <3>2
      <4>. QED
        BY ONLY <4>1, <4>2
    <3>4. ActorKept(a)
      BY <3>1, <3>2, <3>3 DEF ActorKept, HeldBacked, VerdictKept
    <3>5. \A b \in Actor : b # a => proc'[b] = proc[b]
      BY <1>0, <2>4 DEF TypeOK
    <3>6. \A b \in Actor : ActorKept(b)
      BY <3>4, <3>5 DEF ActorKept
    <3>. QED
      BY <2>2, <3>6, Frame
  <2>. QED
    BY <1>4, <2>3, <2>4 DEF StatsBroken
<1>. QED
  BY <1>1, <1>2, <1>3, <1>4 DEF StatsStep

\* A request begins with the row of now.
LEMMA BeginAccounting ==
    ASSUME Accounting, TypeOK', NEW t \in Thread, NEW c \in Client, BeginRequest(t, c)
    PROVE  Accounting'
<1>. t \in Actor
  BY DEF Actor
<1>0. TypeOK
  BY DEF Accounting
\* A request begins at a point where it holds nothing, or with the row of now.
<1>1. ASSUME NEW p, Begin(t, p), p.why = "", p.got = 0, p.pc # "add",
             p.pc \in {"stats", "usage", "answer"} => p.c = c /\ p.row = rows[c]
      PROVE  Accounting'
  <2>1. /\ rows' = rows /\ counter' = counter /\ delivered' = delivered
        /\ pass' = pass
    BY <1>1 DEF Begin, xray
  <2>2. FiguresShrink
    BY <1>0, <2>1, UnchangedShrinks DEF FiguresShrink
  <2>3. proc'[t] = p /\ \A b \in Actor : b # t => proc'[b] = proc[b]
    BY <1>0, <1>1 DEF Begin, TypeOK
  <2>4. /\ p.pc \in {"stats", "usage"} => p.row.used + counter[p.c] <= delivered[p.c]
        /\ p.pc = "answer" => p.row.used + p.got <= delivered[p.c]
    <3>1. rows[c].used + counter[c] <= delivered[c] /\ rows[c].used + 0 <= delivered[c]
      BY RowBacked
    <3>. QED
      BY <1>1, <3>1
  <2>5. HeldBacked(proc[t])'
    BY <1>1, <2>1, <2>3, <2>4 DEF HeldBacked
  <2>6. ActorKept(t)
    BY <1>1, <2>3, <2>5 DEF ActorKept, VerdictKept
  <2>7. \A b \in Actor : ActorKept(b)
    BY <2>3, <2>6 DEF ActorKept
  <2>. QED
    BY <2>2, <2>7, Frame
<1>2. Idle.why = "" /\ Idle.got = 0
  BY DEF Idle
<1>3. ASSUME NEW plan \in Plans, BeginCreate(t, c, plan)
      PROVE  Accounting'
  <2>. DEFINE p == [Idle EXCEPT !.pc = "cfg_read", !.op = "create", !.c = c,
                                !.plan = plan]
  <2>1. p.why = "" /\ p.got = 0 /\ p.pc = "cfg_read"
    BY DEF Idle
  <2>2. Begin(t, p)
    BY <1>3 DEF BeginCreate
  <2>. QED
    BY <1>1, <2>1, <2>2
<1>4. ASSUME NEW e \in Edits, BeginUpdate(t, c, e)
      PROVE  Accounting'
  <2>. DEFINE dated == [e EXCEPT !.term = IF @ = Keep THEN Keep ELSE After(@)]
              p(pc) == [Idle EXCEPT !.pc = pc, !.op = "update", !.c = c,
                                    !.row = rows[c], !.edit = dated]
  <2>1. \A pc : p(pc).why = "" /\ p(pc).got = 0 /\ p(pc).pc = pc
    BY DEF Idle
  <2>2. \E pc \in {"cfg_read", "write"} : Begin(t, p(pc))
    BY <1>4, Zenon DEF BeginUpdate
  <2>. HIDE DEF p
  <2>. QED
    BY <1>1, <2>1, <2>2
<1>5. CASE BeginReset(t, c)
  <2>. DEFINE p == [Idle EXCEPT !.pc = "stats", !.op = "reset", !.c = c, !.row = rows[c]]
  <2>1. p.why = "" /\ p.got = 0 /\ p.pc = "stats" /\ p.c = c /\ p.row = rows[c]
    BY DEF Idle
  <2>2. Begin(t, p)
    BY <1>5 DEF BeginReset
  <2>. QED
    BY <1>1, <2>1, <2>2
<1>6. CASE BeginRevoke(t, c)
  <2>. DEFINE p == [Idle EXCEPT !.pc = "cfg_read", !.op = "revoke", !.c = c,
                                !.row = rows[c]]
  <2>1. p.why = "" /\ p.got = 0 /\ p.pc = "cfg_read"
    BY DEF Idle
  <2>2. Begin(t, p)
    BY <1>6 DEF BeginRevoke
  <2>. QED
    BY <1>1, <2>1, <2>2
<1>7. CASE BeginReport(t, c)
  <2>. DEFINE pc == IF rows[c].enabled THEN "usage" ELSE "answer"
              p  == [Idle EXCEPT !.pc = pc, !.op = "report", !.c = c, !.row = rows[c]]
  <2>1. p.why = "" /\ p.got = 0 /\ p.pc = pc /\ p.c = c /\ p.row = rows[c]
    BY DEF Idle
  <2>2. Begin(t, p)
    BY <1>7 DEF BeginReport
  <2>3. pc # "add"
    OBVIOUS
  <2>. HIDE DEF p
  <2>. QED
    BY <1>1, <2>1, <2>2, <2>3
<1>. QED
  BY <1>3, <1>4, <1>5, <1>6, <1>7 DEF BeginRequest

\* A report adds the counters of now to the row it has read.
LEMMA ReportAccounting ==
    ASSUME Accounting, TypeOK', NEW t \in Thread, Usage(t) \/ Answer(t)
    PROVE  Accounting'
<1>. t \in Actor
  BY DEF Actor
<1>0. TypeOK
  BY DEF Accounting
<1>1. CASE Usage(t)
  <2>. DEFINE p == proc[t]
  <2>1. FiguresShrink
    BY <1>0, <1>1, UnchangedShrinks DEF Usage, FiguresShrink, xray
  <2>2. p.row.used + counter[p.c] <= delivered[p.c] /\ p.got = 0 /\ p.why = ""
    BY <1>1 DEF Usage, At, Accounting, StaleFiguresBacked, HeldBacked
  <2>3. p.row.used + 0 <= delivered[p.c]
    <3>1. /\ p.row.used \in Nat /\ counter[p.c] \in Nat /\ delivered[p.c] \in Nat
      BY <1>0, ActorTypes DEF TypeOK, Row
    <3>2. p.row.used + counter[p.c] <= delivered[p.c]
      BY <2>2
    <3>. QED
      BY ONLY <3>1, <3>2
  <2>4. /\ proc'[t].pc = "answer" /\ proc'[t].c = p.c /\ proc'[t].row = p.row
        /\ proc'[t].got \in {p.got, counter[p.c]} /\ proc'[t].why = p.why
    BY <1>0, <1>1, ActorTypes DEF Usage, Goto, TypeOK, Proc
  <2>5. \A b \in Actor : b # t => proc'[b] = proc[b]
    BY <1>0, <1>1 DEF Usage, Goto, TypeOK
  <2>6. HeldBacked(proc[t])'
    BY <2>1, <2>2, <2>3, <2>4 DEF HeldBacked, FiguresShrink
  <2>7. ActorKept(t)
    BY <2>2, <2>4, <2>6 DEF ActorKept, VerdictKept
  <2>8. \A b \in Actor : ActorKept(b)
    BY <2>5, <2>7 DEF ActorKept
  <2>. QED
    BY <2>1, <2>8, Frame
<1>2. CASE Answer(t)
  <2>1. FiguresShrink
    BY <1>0, <1>2, UnchangedShrinks DEF Answer, FiguresShrink, xray
  <2>2. \A b \in Actor : ActorKept(b)
    BY <1>0, <1>2, DoneKept DEF Answer
  <2>. QED
    BY <2>1, <2>2, Frame
<1>. QED
  BY <1>1, <1>2

\* Traffic is carried and counted at once.
LEMMA TrafficAccounting ==
    ASSUME Accounting, TypeOK', NEW c \in Client, Traffic(c)
    PROVE  Accounting'
<1>0. TypeOK /\ UNCHANGED <<rows, proc, pass>>
  BY DEF Accounting, Traffic
<1>1. ASSUME NEW d \in Client
      PROVE  /\ counter[d] \in Nat /\ delivered[d] \in Nat
             /\ \/ counter'[d] = counter[d] /\ delivered'[d] = delivered[d]
                \/ counter'[d] = counter[d] + 1 /\ delivered'[d] = delivered[d] + 1
  BY <1>0 DEF Traffic, TypeOK
<1>2. NoDoubleBilling'
  <2>1. ASSUME NEW d \in Client
        PROVE  rows'[d].used + counter'[d] + InHands(d)' <= delivered'[d]
    <3>1. rows[d].used + counter[d] + InHands(d) <= delivered[d]
      BY DEF Accounting, NoDoubleBilling
    <3>2. InHands(d)' = InHands(d) /\ InHands(d) \in Nat
      BY <1>0 DEF InHands, At, TypeOK, Actor, Proc
    <3>3. rows'[d].used = rows[d].used /\ rows[d].used \in Nat
      BY <1>0 DEF TypeOK, Row
    <3>. QED
      BY <1>1, <3>1, <3>2, <3>3
  <2>. QED
    BY <2>1 DEF NoDoubleBilling
<1>3. StaleFiguresBacked'
  <2>1. ASSUME NEW d \in Client
        PROVE  pass'.snap[d].used + counter'[d] <= delivered'[d]
    <3>1. pass.snap[d].used + counter[d] <= delivered[d]
      BY DEF Accounting, StaleFiguresBacked
    <3>2. pass'.snap[d].used = pass.snap[d].used /\ pass.snap[d].used \in Nat
      BY <1>0 DEF TypeOK, Pass, Row
    <3>. QED
      BY <1>1, <3>1, <3>2
  <2>2. ASSUME NEW a \in Actor
        PROVE  HeldBacked(proc[a])'
    <3>. DEFINE p == proc[a]
    <3>1. HeldBacked(p)
      BY DEF Accounting, StaleFiguresBacked
    <3>2. p.c \in Client /\ p.row.used \in Nat /\ p.got \in Nat
      BY <1>0, ActorTypes DEF Row
    <3>3. proc'[a] = p
      BY <1>0
    <3>4. ASSUME p.pc \in {"stats", "usage"}
          PROVE  p.row.used + counter'[p.c] <= delivered'[p.c]
      <4>1. p.row.used + counter[p.c] <= delivered[p.c]
        BY <3>1, <3>4 DEF HeldBacked
      <4>. QED
        BY <1>1, <3>2, <4>1
    <3>5. ASSUME p.pc \in {"add", "answer"}
          PROVE  p.row.used + p.got <= delivered'[p.c]
      <4>1. p.row.used + p.got <= delivered[p.c]
        BY <3>1, <3>5 DEF HeldBacked
      <4>. QED
        BY <1>1, <3>2, <4>1
    <3>. QED
      BY <3>1, <3>3, <3>4, <3>5 DEF HeldBacked
  <2>. QED
    BY <2>1, <2>2 DEF StaleFiguresBacked
<1>4. QuotaDecisionBacked'
  <2>. DEFINE p == proc[Collector]
  <2>1. p.c \in Client /\ p.row.quota \in Nat
    BY <1>0, ActorTypes DEF Actor, Row
  <2>2. ASSUME p.op = "collect", p.why = "quota"
        PROVE  p.row.quota > 0 /\ delivered'[p.c] >= p.row.quota
    <3>1. p.row.quota > 0 /\ delivered[p.c] >= p.row.quota
      BY <2>2 DEF Accounting, QuotaDecisionBacked
    <3>. QED
      BY <1>1, <2>1, <3>1
  <2>. QED
    BY <1>0, <2>2 DEF QuotaDecisionBacked
<1>. QED
  BY <1>2, <1>3, <1>4 DEF Accounting

\* The clock moves no figure; deaths only lose some.
LEMMA EnvironmentAccounting ==
    ASSUME Accounting, TypeOK',
           Tick \/ XrayDies \/ XrayStarts \/ CollectorDies \/ WebDies
    PROVE  Accounting'
<1>0. TypeOK
  BY DEF Accounting
<1>1. CASE Tick \/ XrayDies \/ XrayStarts
  <2>1. FiguresShrink
    BY <1>0, <1>1, UnchangedShrinks, RestartShrinks
       DEF Tick, XrayDies, XrayStarts, FiguresShrink, xray
  <2>2. \A b \in Actor : ActorKept(b)
    BY <1>1 DEF Tick, XrayDies, XrayStarts, ActorKept
  <2>. QED
    BY <2>1, <2>2, Frame
<1>2. CASE CollectorDies \/ WebDies
  <2>1. pass' = NoPass \/ pass' = pass
    BY <1>2 DEF CollectorDies, WebDies
  <2>2. ASSUME NEW c \in Client
        PROVE  pass'.snap[c].used <= pass.snap[c].used
    <3>1. NoPass.snap[c].used = 0 /\ pass.snap[c].used \in Nat
      BY <1>0 DEF NoPass, NoRow, TypeOK, Pass, Row
    <3>2. pass'.snap[c].used = 0 \/ pass'.snap[c].used = pass.snap[c].used
      BY <2>1, <3>1, Zenon
    <3>. QED
      BY <3>1, <3>2
  <2>3. FiguresShrink
    BY <1>0, <1>2, <2>2, UnchangedShrinks DEF CollectorDies, WebDies, FiguresShrink, xray
  <2>4. \A b \in Actor : proc'[b] = proc[b] \/ proc'[b] = Idle
    BY <1>0, <1>2 DEF CollectorDies, WebDies, TypeOK
  <2>5. Idle.pc = "idle" /\ Idle.why = ""
    BY DEF Idle
  <2>6. \A b \in Actor : ActorKept(b)
    BY <2>4, <2>5 DEF ActorKept, HeldBacked, VerdictKept
  <2>. QED
    BY <2>3, <2>6, Frame
<1>. QED
  BY <1>1, <1>2

\* Every step preserves the invariant.
LEMMA NextAccounting == Accounting /\ [Next]_vars => Accounting'
<1>. SUFFICES ASSUME Accounting, [Next]_vars PROVE Accounting'
  OBVIOUS
<1>. Collector \in Actor /\ Thread \subseteq Actor
  BY DEF Actor
<1>0. TypeOK'
  BY NextType DEF Accounting
<1>1. CASE CollectorStep
  BY <1>0, <1>1, PassAccounting, StatsAccounting, AddAccounting, ZeroAccounting,
     AdvanceAccounting, ConfigAccounting, WriteAccounting DEF CollectorStep
<1>2. CASE \E t \in Thread : ThreadStep(t)
  BY <1>0, <1>2, StatsAccounting, ZeroAccounting, ConfigAccounting, WriteAccounting,
     ReportAccounting DEF ThreadStep
<1>3. CASE \E t \in Thread, c \in Client : BeginRequest(t, c)
  BY <1>0, <1>3, BeginAccounting
<1>4. CASE \E c \in Client : Traffic(c)
  BY <1>0, <1>4, TrafficAccounting
<1>5. CASE Tick \/ XrayDies \/ XrayStarts \/ CollectorDies \/ WebDies
  BY <1>0, <1>5, EnvironmentAccounting
<1>6. CASE UNCHANGED vars
  <2>1. FiguresShrink
    BY <1>6, UnchangedShrinks DEF FiguresShrink, vars, xray, Accounting
  <2>2. \A b \in Actor : ActorKept(b)
    BY <1>6 DEF ActorKept, vars
  <2>. QED
    BY <1>0, <2>1, <2>2, Frame
<1>. QED
  BY <1>1, <1>2, <1>3, <1>4, <1>5, <1>6 DEF Next

\* The invariant holds of every behaviour.
LEMMA AccountingInvariant == Spec => []Accounting
<1>1. Init => Accounting
  BY InitAccounting
<1>2. Accounting /\ [Next]_vars => Accounting'
  BY NextAccounting
<1>. QED
  BY <1>1, <1>2, PTL DEF Spec

\* However passes, requests, restarts and crashes interleave, no unit of traffic
\* is charged to a client twice.
THEOREM NoUnitIsBilledTwice == Spec => []NoDoubleBilling
<1>1. Accounting => NoDoubleBilling
  BY DEF Accounting
<1>. QED
  BY <1>1, AccountingInvariant, PTL

\* Snapshots, rows and answers that have gone stale stay within what has been
\* carried: the collector's and every request's.
THEOREM StaleFiguresAreBacked == Spec => []StaleFiguresBacked
<1>1. Accounting => StaleFiguresBacked
  BY DEF Accounting
<1>. QED
  BY <1>1, AccountingInvariant, PTL

\* A client suspended for quota has carried at least the quota it was judged by.
THEOREM QuotaDecisionsAreBacked == Spec => []QuotaDecisionBacked
<1>1. Accounting => QuotaDecisionBacked
  BY DEF Accounting
<1>. QED
  BY <1>1, AccountingInvariant, PTL

\* No subscription answer and no client list overstates the usage of a client.
THEOREM ReportsAreBacked == Spec => []ReportBacked
<1>1. Accounting => ReportBacked
  <2>. SUFFICES ASSUME Accounting, NEW t \in Thread, At(t, "answer")
                PROVE  Reported(proc[t]) <= delivered[proc[t].c]
    BY DEF ReportBacked
  <2>1. HeldBacked(proc[t])
    BY DEF Accounting, StaleFiguresBacked, Actor
  <2>. QED
    BY <2>1 DEF HeldBacked, Reported, At
<1>. QED
  BY <1>1, AccountingInvariant, PTL

\* Every figure that is billed, that the collector decides on, a request reports or
\* anybody still holds is one the client has carried.
THEOREM FiguresAreBacked == Spec => []FiguresBacked
<1>1. /\ NoDoubleBilling /\ StaleFiguresBacked /\ QuotaDecisionBacked /\ ReportBacked
      => FiguresBacked
  BY DEF FiguresBacked
<1>. QED
  BY <1>1, NoUnitIsBilledTwice, StaleFiguresAreBacked, QuotaDecisionsAreBacked,
     ReportsAreBacked, PTL

-----------------------------------------------------------------------------
(* Decisions that races with resets and edits explain.                        *)

\* A verdict for quota is about the total of the row and the answer the collector
\* holds; requests give no verdicts.
VerdictFormed ==
    LET p == proc[Collector] IN p.why = "quota" => p.row.used + p.got >= p.row.quota

Own == {"collect", "renew", "period"}

Verdicts == VerdictFormed /\ \A t \in Thread : proc[t].op \notin Own

\* What an actor makes of its task without the table: it goes on with what it holds,
\* or is done with it.
SameTask(p, q) == q.op = p.op /\ q.why = p.why /\ q.row = p.row /\ q.got = p.got

\* A configuration, a statement and a reset change nothing the actor holds of its task.
LEMMA TaskKept ==
    ASSUME TypeOK, NEW a \in Actor, Zero(a) \/ ConfigStep(a) \/ Write(a)
    PROVE  \E q : /\ proc' = [proc EXCEPT ![a] = q]
                  /\ SameTask(proc[a], q) \/ q = Resting(a)
<1>. DEFINE p == proc[a]
<1>0. p \in Proc
  BY ActorTypes
<1>1. ASSUME NEW pc, Goto(a, pc)
      PROVE  \E q : proc' = [proc EXCEPT ![a] = q] /\ SameTask(p, q)
  <2>. DEFINE q == [p EXCEPT !.pc = pc]
  <2>1. proc' = [proc EXCEPT ![a] = q] /\ SameTask(p, q)
    BY <1>0, <1>1 DEF Goto, SameTask, Proc
  <2>. QED
    BY <2>1
<1>2. Done(a) => proc' = [proc EXCEPT ![a] = Resting(a)]
  BY DEF Done
<1>3. CASE Zero(a) \/ Write(a)
  BY <1>1, <1>2, <1>3 DEF Zero, Write
<1>4. CASE ConfigRead(a)
  <2>. DEFINE q == [p EXCEPT !.pc = "cfg_write", !.doc = [file EXCEPT ![p.c] = Target(p)]]
  <2>1. CASE proc' = [proc EXCEPT ![a].pc = "cfg_write",
                                  ![a].doc = [file EXCEPT ![p.c] = Target(p)]]
    <3>1. proc' = [proc EXCEPT ![a] = q] /\ SameTask(p, q)
      BY <1>0, <2>1 DEF SameTask, Proc
    <3>. QED
      BY <3>1
  <2>. QED
    BY <1>1, <1>2, <1>4, <2>1 DEF ConfigRead
<1>5. CASE ConfigWrite(a)
  <2>1. PICK pc \in {"cfg_restart", "cfg_rollback"} :
           proc' = [proc EXCEPT ![a].pc = pc, ![a].backup = file, ![a].doc = NoInbounds]
    BY <1>5 DEF ConfigWrite
  <2>. DEFINE q == [p EXCEPT !.pc = pc, !.backup = file, !.doc = NoInbounds]
  <2>2. proc' = [proc EXCEPT ![a] = q] /\ SameTask(p, q)
    BY <1>0, <2>1 DEF SameTask, Proc
  <2>. QED
    BY <2>2
<1>6. CASE ConfigRestart(a)
  <2>. DEFINE q == [p EXCEPT !.pc = "write", !.backup = NoInbounds]
  <2>1. CASE proc' = [proc EXCEPT ![a].pc = "write", ![a].backup = NoInbounds]
    <3>1. proc' = [proc EXCEPT ![a] = q] /\ SameTask(p, q)
      BY <1>0, <2>1 DEF SameTask, Proc
    <3>. QED
      BY <3>1
  <2>. QED
    BY <1>1, <1>6, <2>1 DEF ConfigRestart
<1>7. CASE ConfigRollback(a)
  BY <1>2, <1>7 DEF ConfigRollback
<1>. QED
  BY <1>3, <1>4, <1>5, <1>6, <1>7 DEF ConfigStep

\* A query changes the answer an actor holds, and makes metering of a period reset
\* that breaks off.
LEMMA QueryKept ==
    ASSUME TypeOK, NEW a \in Actor, StatsStep(a)
    PROVE  \E q : /\ proc' = [proc EXCEPT ![a] = q]
                  /\ \/ q = Resting(a)
                     \/ /\ q.why = proc[a].why
                        /\ q.op = proc[a].op \/ (proc[a].op = "period" /\ q.op = "collect")
<1>. DEFINE p == proc[a]
<1>0. p \in Proc
  BY ActorTypes
<1>1. Done(a) => proc' = [proc EXCEPT ![a] = Resting(a)]
  BY DEF Done
<1>2. Goto(a, "zero") => proc' = [proc EXCEPT ![a] = [p EXCEPT !.pc = "zero"]]
  BY DEF Goto
<1>3. [p EXCEPT !.pc = "zero"].why = p.why /\ [p EXCEPT !.pc = "zero"].op = p.op
  BY <1>0 DEF Proc
<1>4. CASE StatsAnswered(a)
  <2>. DEFINE q == [p EXCEPT !.pc = "add", !.got = counter[p.c]]
  <2>1. CASE proc' = [proc EXCEPT ![a].pc = "add", ![a].got = counter[p.c]]
    <3>1. proc' = [proc EXCEPT ![a] = q] /\ q.why = p.why /\ q.op = p.op
      BY <1>0, <2>1 DEF Proc
    <3>. QED
      BY <3>1
  <2>2. CASE Goto(a, "zero")
    BY <1>2, <1>3, <2>2
  <2>. QED
    BY <1>4, <2>1, <2>2 DEF StatsAnswered
<1>5. CASE StatsUnavailable(a)
  BY <1>1, <1>2, <1>3, <1>5 DEF StatsUnavailable
<1>6. CASE StatsBroken(a)
  <2>. DEFINE q == [p EXCEPT !.op = "collect"]
  <2>1. CASE p.op = "period" /\ proc' = [proc EXCEPT ![a].op = "collect"]
    <3>1. proc' = [proc EXCEPT ![a] = q] /\ q.why = p.why /\ q.op = "collect"
      BY <1>0, <2>1 DEF Proc
    <3>. QED
      BY <2>1, <3>1
  <2>. QED
    BY <1>1, <1>6, <2>1 DEF StatsBroken
<1>. QED
  BY <1>4, <1>5, <1>6 DEF StatsStep

\* A request's step is its own, and makes it nobody of the collector's kind.
LEMMA RequestIsOwn ==
    ASSUME TypeOK, NEW t \in Thread,
           ThreadStep(t) \/ \E c \in Client : BeginRequest(t, c)
    PROVE  \E q : /\ proc' = [proc EXCEPT ![t] = q]
                  /\ proc[t].op \notin Own => q.op \notin Own
<1>. t \in Actor /\ t # Collector
  BY DEF Actor
<1>0. proc[t] \in Proc
  BY ActorTypes
<1>1. Resting(t).op \notin Own
  BY DEF Resting, Idle, Own
<1>2. CASE StatsStep(t)
  BY <1>1, <1>2, QueryKept DEF Own
<1>3. CASE Zero(t) \/ ConfigStep(t) \/ Write(t)
  BY <1>1, <1>3, TaskKept DEF SameTask
<1>4. CASE Usage(t)
  <2>1. PICK q \in {[proc[t] EXCEPT !.pc = "answer"],
                    [proc[t] EXCEPT !.pc = "answer", !.got = counter[proc[t].c]]} :
           proc' = [proc EXCEPT ![t] = q]
    BY <1>4 DEF Usage, Goto
  <2>2. q.op = proc[t].op
    BY <1>0, <2>1 DEF Proc
  <2>. QED
    BY <2>1, <2>2
<1>5. CASE Answer(t)
  BY <1>1, <1>5 DEF Answer, Done
<1>6. ASSUME NEW c \in Client, BeginRequest(t, c)
      PROVE  \E q : proc' = [proc EXCEPT ![t] = q] /\ q.op \notin Own
  <2>1. \A q : Begin(t, q) => proc' = [proc EXCEPT ![t] = q]
    BY DEF Begin
  <2>2. ASSUME NEW plan \in Plans, BeginCreate(t, c, plan)
        PROVE  \E q : proc' = [proc EXCEPT ![t] = q] /\ q.op \notin Own
    <3>. DEFINE q == [Idle EXCEPT !.pc = "cfg_read", !.op = "create", !.c = c, !.plan = plan]
    <3>1. q.op = "create"
      BY DEF Idle
    <3>. QED
      BY <2>1, <2>2, <3>1 DEF BeginCreate, Own
  <2>3. ASSUME NEW e \in Edits, BeginUpdate(t, c, e)
        PROVE  \E q : proc' = [proc EXCEPT ![t] = q] /\ q.op \notin Own
    <3>. DEFINE flips == e.enabled # "keep" /\ rows[c].enabled # (e.enabled = "on")
                dated == [e EXCEPT !.term = IF @ = Keep THEN Keep ELSE After(@)]
                q == [Idle EXCEPT !.pc = IF flips THEN "cfg_read" ELSE "write",
                                  !.op = "update", !.c = c, !.row = rows[c], !.edit = dated]
    <3>1. proc' = [proc EXCEPT ![t] = q]
      BY <2>1, <2>3 DEF BeginUpdate
    <3>2. q.op = "update"
      BY DEF Idle
    <3>. HIDE DEF q
    <3>. QED
      BY <3>1, <3>2 DEF Own
  <2>4. CASE BeginReset(t, c)
    <3>. DEFINE q == [Idle EXCEPT !.pc = "stats", !.op = "reset", !.c = c, !.row = rows[c]]
    <3>1. q.op = "reset"
      BY DEF Idle
    <3>. QED
      BY <2>1, <2>4, <3>1 DEF BeginReset, Own
  <2>5. CASE BeginRevoke(t, c)
    <3>. DEFINE q == [Idle EXCEPT !.pc = "cfg_read", !.op = "revoke", !.c = c, !.row = rows[c]]
    <3>1. q.op = "revoke"
      BY DEF Idle
    <3>. QED
      BY <2>1, <2>5, <3>1 DEF BeginRevoke, Own
  <2>6. CASE BeginReport(t, c)
    <3>. DEFINE q == [Idle EXCEPT !.pc = IF rows[c].enabled THEN "usage" ELSE "answer",
                                  !.op = "report", !.c = c, !.row = rows[c]]
    <3>1. q.op = "report"
      BY DEF Idle
    <3>. QED
      BY <2>1, <2>6, <3>1 DEF BeginReport, Own
  <2>. QED
    BY <1>6, <2>2, <2>3, <2>4, <2>5, <2>6 DEF BeginRequest
<1>. QED
  BY <1>2, <1>3, <1>4, <1>5, <1>6 DEF ThreadStep

\* The collector's verdict is formed by Add, from what it holds, and kept from then on.
LEMMA CollectorForms ==
    ASSUME Accounting, VerdictFormed, CollectorStep
    PROVE  VerdictFormed' /\ \A t \in Thread : proc'[t] = proc[t]
<1>. DEFINE p == proc[Collector]
<1>. Collector \in Actor /\ (\A t \in Thread : t \in Actor /\ t # Collector)
  BY DEF Actor
<1>0. TypeOK /\ p \in Proc /\ proc \in [Actor -> Proc]
  BY ActorTypes DEF Accounting, TypeOK
<1>1. ASSUME NEW q, proc' = [proc EXCEPT ![Collector] = q],
             q.why = "quota" => q.row.used + q.got >= q.row.quota
      PROVE  VerdictFormed' /\ \A t \in Thread : proc'[t] = proc[t]
  BY <1>0, <1>1 DEF VerdictFormed
<1>2. Idle.why = "" /\ Resting(Collector).why = ""
  BY DEF Idle, Resting
<1>3. CASE Wake \/ Sleep \/ Advance
  <2>1. CASE Wake
    <3>. DEFINE q == [p EXCEPT !.pc = "next"]
    <3>1. proc' = [proc EXCEPT ![Collector] = q]
      BY <2>1 DEF Wake, Goto
    <3>2. q.why = p.why /\ q.row = p.row /\ q.got = p.got
      BY <1>0 DEF Proc
    <3>. HIDE DEF q
    <3>. QED
      BY <1>1, <3>1, <3>2 DEF VerdictFormed
  <2>. QED
    BY <1>1, <1>2, <1>3, <2>1 DEF Sleep, Advance, Done
<1>4. CASE Add
  <2>. DEFINE why == SuspendReason(p.row, Total(p.row, p.c, p.got), pass.now)
              q == [p EXCEPT !.pc = "cfg_read", !.why = why]
  <2>1. CASE Done(Collector)
    BY <1>1, <1>2, <2>1 DEF Done
  <2>2. CASE proc' = [proc EXCEPT ![Collector].pc = "cfg_read", ![Collector].why = why]
    <3>1. proc' = [proc EXCEPT ![Collector] = q]
      BY <2>2
    <3>2. q.why = why /\ q.row = p.row /\ q.got = p.got
      BY <1>0 DEF Proc
    <3>3. why = "quota" => p.row.used + p.got >= p.row.quota
      BY DEF SuspendReason, Total
    <3>. HIDE DEF q, why
    <3>. QED
      BY <1>1, <3>1, <3>2, <3>3
  <2>. QED
    BY <1>4, <2>1, <2>2 DEF Add
<1>5. ASSUME NEW c \in Client, TakeClient(c)
      PROVE  VerdictFormed' /\ \A t \in Thread : proc'[t] = proc[t]
  <2>1. CASE UNCHANGED proc
    BY <2>1 DEF VerdictFormed
  <2>2. CASE ~UNCHANGED proc
    <3>. DEFINE q == [Idle EXCEPT !.pc = "stats", !.op = Task(pass.snap[c], pass.now),
                                  !.c = c, !.row = pass.snap[c]]
    <3>1. proc' = [proc EXCEPT ![Collector] = q]
      BY <1>5, <2>2 DEF TakeClient
    <3>2. q.why = ""
      BY DEF Idle
    <3>. HIDE DEF q
    <3>. QED
      BY <1>1, <3>1, <3>2
  <2>. QED
    BY <2>1, <2>2
<1>6. CASE StatsStep(Collector)
  <2>1. p.why = ""
    BY <1>6 DEF StatsStep, StatsAnswered, StatsUnavailable, StatsBroken, At, Accounting,
       StaleFiguresBacked, HeldBacked
  <2>2. PICK q : /\ proc' = [proc EXCEPT ![Collector] = q]
                 /\ q = Resting(Collector) \/ q.why = p.why
    <3>. HIDE DEF p
    <3>. QED
      BY <1>0, <1>6, QueryKept DEF p
  <2>. QED
    BY <1>1, <1>2, <2>1, <2>2
<1>7. CASE Zero(Collector) \/ ConfigStep(Collector) \/ Write(Collector)
  <2>1. PICK q : /\ proc' = [proc EXCEPT ![Collector] = q]
                 /\ SameTask(p, q) \/ q = Resting(Collector)
    BY <1>0, <1>7, TaskKept
  <2>. QED
    BY <1>1, <1>2, <2>1 DEF SameTask, VerdictFormed
<1>. QED
  BY <1>3, <1>4, <1>5, <1>6, <1>7 DEF CollectorStep

\* Every step keeps the verdicts what they are.
LEMMA VerdictsKept == Accounting /\ Verdicts /\ [Next]_vars => Verdicts'
<1>. SUFFICES ASSUME Accounting, Verdicts, [Next]_vars PROVE Verdicts'
  OBVIOUS
<1>. Collector \in Actor /\ (\A t \in Thread : t \in Actor /\ t # Collector)
  BY DEF Actor
<1>0. TypeOK /\ proc \in [Actor -> Proc]
  BY DEF Accounting, TypeOK
<1>1. CASE CollectorStep
  BY <1>1, CollectorForms DEF Verdicts
<1>2. ASSUME NEW t \in Thread, ThreadStep(t) \/ \E c \in Client : BeginRequest(t, c)
      PROVE  Verdicts'
  <2>1. PICK q : /\ proc' = [proc EXCEPT ![t] = q]
                 /\ proc[t].op \notin Own => q.op \notin Own
    BY <1>0, <1>2, RequestIsOwn
  <2>2. proc'[t] = q /\ \A a \in Actor : a # t => proc'[a] = proc[a]
    BY <1>0, <2>1
  <2>. QED
    BY <2>1, <2>2 DEF Verdicts, VerdictFormed
<1>3. CASE (\E c \in Client : Traffic(c)) \/ Tick \/ XrayDies \/ XrayStarts \/ UNCHANGED vars
  <2>1. proc' = proc
    BY <1>3 DEF Traffic, Tick, XrayDies, XrayStarts, vars
  <2>. QED
    BY <2>1 DEF Verdicts, VerdictFormed
<1>4. CASE CollectorDies \/ WebDies
  <2>1. \A a \in Actor : proc'[a] \in {proc[a], Idle}
    BY <1>0, <1>4 DEF CollectorDies, WebDies
  <2>2. Idle.why = "" /\ Idle.op \notin Own
    BY DEF Idle, Own
  <2>. QED
    BY <2>1, <2>2 DEF Verdicts, VerdictFormed
<1>. QED
  BY <1>1, <1>2, <1>3, <1>4 DEF Next

\* An UPDATE changes the one row it is about.
LEMMA OneRowChanges ==
    ASSUME TypeOK, NEW c \in Client, NEW d \in Client, NEW id, NEW new,
           rows' = Updated(d, id, new), rows'[c] # rows[c]
    PROVE  d = c /\ rows'[c] = new
  BY DEF TypeOK, Updated

\* A reason is given by the statement of a suspension, an edit or a renewal only.
LEMMA ReasonKept ==
    ASSUME TypeOK, [Next]_vars, NEW c \in Client,
           rows[c].reason # "quota", rows'[c].reason = "quota"
    PROVE  \E a \in Actor : /\ Write(a) /\ proc[a].op = "collect"
                            /\ proc[a].c = c /\ proc[a].why = "quota"
<1>0. rows \in [Client -> Row] /\ Collector \in Actor /\ Thread \subseteq Actor /\ TypeOK
  BY DEF TypeOK, Actor
<1>1. ASSUME NEW d \in Client, NEW id, NEW new, rows' = Updated(d, id, new),
             new.reason = rows[d].reason
      PROVE  FALSE
  BY <1>1, OneRowChanges
<1>2. ASSUME NEW a \in Actor, Zero(a)
      PROVE  FALSE
  <2>. DEFINE p == proc[a]
              new == [rows[p.c] EXCEPT !.used = 0]
  <2>1. p.c \in Client /\ rows' = Updated(p.c, p.row.id, new)
    BY <1>2, ActorTypes DEF Zero
  <2>2. new.reason = rows[p.c].reason
    BY <1>0, <2>1 DEF Row
  <2>. HIDE DEF new
  <2>. QED
    BY <1>1, <2>1, <2>2
<1>3. ~Add
  <2>. SUFFICES ASSUME Add PROVE FALSE
    OBVIOUS
  <2>. DEFINE p == proc[Collector]
              new == [rows[p.c] EXCEPT !.used = @ + p.got]
  <2>1. p.c \in Client /\ rows' = Updated(p.c, p.row.id, new)
    BY <1>0, ActorTypes DEF Add
  <2>2. new.reason = rows[p.c].reason
    BY <1>0, <2>1 DEF Row
  <2>. HIDE DEF new
  <2>. QED
    BY <1>1, <2>1, <2>2
<1>4. ~Advance
  <2>. SUFFICES ASSUME Advance PROVE FALSE
    OBVIOUS
  <2>. DEFINE p == proc[Collector]
              new == [rows[p.c] EXCEPT !.next = NextBoundary(p.row)]
  <2>1. p.c \in Client /\ rows' = Updated(p.c, p.row.id, new)
    BY <1>0, ActorTypes DEF Advance
  <2>2. new.reason = rows[p.c].reason
    BY <1>0, <2>1 DEF Row
  <2>. HIDE DEF new
  <2>. QED
    BY <1>1, <2>1, <2>2
<1>5. \E a \in Actor : Write(a)
  <2>1. ~UNCHANGED rows
    OBVIOUS
  <2>2. \A a \in Actor : ~StatsStep(a) /\ ~ConfigStep(a)
    BY <2>1 DEF StatsStep, StatsAnswered, StatsUnavailable, StatsBroken, ConfigStep, ConfigRead,
       ConfigWrite, ConfigRestart, ConfigRollback
  <2>3. ~Wake /\ ~Sleep /\ ~(\E d \in Client : TakeClient(d))
    BY <2>1 DEF Wake, Sleep, TakeClient
  <2>4. \A t \in Thread : ~Usage(t) /\ ~Answer(t) /\ ~(\E d \in Client : BeginRequest(t, d))
    BY <2>1 DEF Usage, Answer, BeginRequest, BeginCreate, BeginUpdate, BeginReset, BeginRevoke,
       BeginReport, Begin
  <2>5. /\ ~(\E d \in Client : Traffic(d)) /\ ~Tick /\ ~XrayDies /\ ~XrayStarts
        /\ ~CollectorDies /\ ~WebDies /\ ~UNCHANGED vars
    BY <2>1 DEF Traffic, Tick, XrayDies, XrayStarts, CollectorDies, WebDies, vars
  <2>. QED
    BY <1>0, <1>2, <1>3, <1>4, <2>2, <2>3, <2>4, <2>5 DEF Next, CollectorStep, ThreadStep
<1>6. PICK a \in Actor : Write(a)
  BY <1>5
<1>. DEFINE p == proc[a]
<1>7. p.c \in Client /\ rows' = WriteRow(p) /\ rows'[c] # rows[c]
  BY <1>6, ActorTypes DEF Write
<1>8. CASE p.op = "collect"
  <2>1. rows' = Updated(p.c, p.row.id, Suspended(rows[p.c], p.why))
    BY <1>7, <1>8 DEF WriteRow
  <2>2. rows'[c] = Suspended(rows[p.c], p.why) /\ p.c = c
    <3>. HIDE DEF p
    <3>. QED
      BY <1>0, <1>7, <2>1, OneRowChanges
  <2>3. rows'[c].reason = p.why
    BY <1>0, <2>2 DEF Suspended, Row
  <2>. QED
    BY <1>6, <1>8, <2>2, <2>3
<1>9. CASE p.op = "renew"
  <2>1. rows' = Updated(p.c, p.row.id, Reactivated(rows[p.c]))
    BY <1>7, <1>9 DEF WriteRow
  <2>2. rows'[c] = Reactivated(rows[p.c]) /\ p.c = c
    <3>. HIDE DEF p
    <3>. QED
      BY <1>0, <1>7, <2>1, OneRowChanges
  <2>3. Reactivated(rows[c]).reason = ""
    BY <1>0 DEF Reactivated, Row
  <2>. QED
    BY <2>2, <2>3
<1>10. CASE p.op = "update"
  <2>1. rows' = Updated(p.c, p.row.id, Edited(rows[p.c], p.edit))
    BY <1>7, <1>10 DEF WriteRow
  <2>2. rows'[c] = Edited(rows[p.c], p.edit) /\ p.c = c
    <3>. HIDE DEF p
    <3>. QED
      BY <1>0, <1>7, <2>1, OneRowChanges
  <2>3. Edited(rows[c], p.edit).reason \in {rows[c].reason, "", "manual"}
    BY <1>0 DEF Edited, Row
  <2>. QED
    BY <2>2, <2>3
<1>11. CASE p.op = "revoke"
  <2>1. rows' = Updated(p.c, p.row.id, NoRow)
    BY <1>7, <1>11 DEF WriteRow
  <2>2. rows'[c] = NoRow /\ p.c = c
    <3>. HIDE DEF p
    <3>. QED
      BY <1>0, <1>7, <2>1, OneRowChanges
  <2>3. NoRow.reason = ""
    BY <1>0 DEF NoRow
  <2>. QED
    BY <2>2, <2>3
<1>12. CASE p.op \notin {"collect", "renew", "update", "revoke"}
  <2>1. WriteRow(p) = Updated(p.c, 0, Inserted(p.plan))
    BY <1>12 DEF WriteRow
  <2>2. rows' = Updated(p.c, 0, Inserted(p.plan))
    BY <1>7, <2>1
  <2>3. rows'[c] = Inserted(p.plan)
    <3>. HIDE DEF p
    <3>. QED
      BY <1>0, <1>7, <2>2, OneRowChanges
  <2>4. Inserted(p.plan).reason = ""
    BY DEF Inserted
  <2>. QED
    BY <2>3, <2>4
<1>. QED
  BY <1>8, <1>9, <1>10, <1>11, <1>12

\* The last figure of an answer is read by its own request.
LEMMA UsageReadByItself ==
    ASSUME TypeOK, [Next]_vars, NEW t \in Thread, At(t, "usage"), proc'[t].pc = "answer"
    PROVE  Usage(t)
<1>. t \in Actor /\ t # Collector /\ Collector \in Actor /\ Thread \subseteq Actor
  BY DEF Actor
<1>0. proc \in [Actor -> Proc] /\ proc'[t] # proc[t] /\ proc[t].pc = "usage"
  BY DEF TypeOK, At
<1>1. ASSUME NEW a \in Actor, NEW q, proc' = [proc EXCEPT ![a] = q]
      PROVE  a = t
  BY <1>0, <1>1
<1>2. ASSUME NEW u \in Thread, ThreadStep(u) \/ \E c \in Client : BeginRequest(u, c)
      PROVE  u = t
  BY <1>1, <1>2, RequestIsOwn
<1>3. ~CollectorStep
  <2>1. \A pc : ~Goto(Collector, pc)
    BY <1>0 DEF Goto
  <2>2. ~Wake /\ ~Sleep /\ ~Advance /\ ~Add /\ ~(\E c \in Client : TakeClient(c))
    BY <1>0, <1>1, <2>1 DEF Wake, Sleep, Advance, Done, Add, TakeClient
  <2>3. ~StatsStep(Collector)
    BY <1>1, QueryKept
  <2>4. ~Zero(Collector) /\ ~ConfigStep(Collector) /\ ~Write(Collector)
    BY <1>1, TaskKept
  <2>. QED
    BY <2>2, <2>3, <2>4 DEF CollectorStep
<1>4. /\ ~(\E c \in Client : Traffic(c)) /\ ~Tick /\ ~XrayDies /\ ~XrayStarts
      /\ ~CollectorDies /\ ~UNCHANGED vars
  BY <1>0, <1>1 DEF Traffic, Tick, XrayDies, XrayStarts, CollectorDies, vars
<1>5. ~WebDies
  <2>1. WebDies => proc'[t] = Idle
    BY DEF WebDies
  <2>2. Idle.pc = "idle"
    BY DEF Idle
  <2>. QED
    BY <2>1, <2>2
<1>6. ThreadStep(t) \/ \E c \in Client : BeginRequest(t, c)
  BY <1>2, <1>3, <1>4, <1>5 DEF Next
<1>7. ~(\E c \in Client : BeginRequest(t, c))
  BY DEF BeginRequest, BeginCreate, BeginUpdate, BeginReset, BeginRevoke, BeginReport, Begin, At
<1>8. ~StatsStep(t) /\ ~Zero(t) /\ ~ConfigStep(t) /\ ~Write(t) /\ ~Answer(t)
  BY DEF StatsStep, StatsAnswered, StatsUnavailable, StatsBroken, Zero, ConfigStep, ConfigRead,
     ConfigWrite, ConfigRestart, ConfigRollback, Write, Answer, At
<1>. QED
  BY <1>6, <1>7, <1>8 DEF ThreadStep

\* A client with quota left that is suspended for quota has been reset, or given more,
\* behind the back of the pass that suspends it.
LEMMA SuspensionStep ==
    ASSUME Accounting, Verdicts, [Next]_vars, NEW c \in Client,
           rows[c].reason # "quota", rows'[c].reason = "quota", rows[c].used < rows[c].quota
    PROVE  \/ rows[c].used < proc[Collector].row.used + proc[Collector].got
           \/ rows[c].quota > proc[Collector].row.quota
<1>. DEFINE p == proc[Collector]
<1>0. TypeOK /\ Collector \in Actor
  BY DEF Accounting, Actor
<1>1. p.why = "quota"
  BY <1>0, ReasonKept DEF Verdicts, Own, Actor
<1>2. p.row.used + p.got >= p.row.quota
  BY <1>1 DEF Verdicts, VerdictFormed
<1>3. /\ rows[c].used \in Nat /\ rows[c].quota \in Nat
      /\ p.row.used \in Nat /\ p.row.quota \in Nat /\ p.got \in Nat
  BY <1>0, ActorTypes DEF TypeOK, Row
<1>. QED
  BY <1>2, <1>3

\* A client that is going to be served has quota left, unless the collector took units
\* between the two readings.
LEMMA ServingStep ==
    ASSUME TypeOK, [Next]_vars, NEW t \in Thread, NEW p, p = proc'[t],
           At(t, "usage"), p.pc = "answer", faults' = faults, up, Serves(p),
           rows[p.c].quota = p.row.quota, p.row.quota > 0
    PROVE  \/ rows[p.c].used + counter[p.c] + InHands(p.c) < p.row.quota
           \/ rows[p.c].used + InHands(p.c) > p.row.used
<1>. t \in Actor /\ Collector \in Actor
  BY DEF Actor
<1>0. proc[t] \in Proc /\ proc[t].c \in Client /\ proc[t].row \in Row
  BY ActorTypes
<1>1. Usage(t)
  BY UsageReadByItself
<1>2. proc' = [proc EXCEPT ![t].pc = "answer", ![t].got = counter[proc[t].c]]
  <2>1. ~Fault
    BY DEF Fault, TypeOK
  <2>. QED
    BY <1>1, <2>1 DEF Usage
<1>3. p.c = proc[t].c /\ p.row = proc[t].row /\ p.got = counter[p.c]
  BY <1>0, <1>2 DEF TypeOK, Proc
<1>4. p.row.used + counter[p.c] < p.row.quota
  <2>1. /\ p.row.used \in Nat /\ p.row.quota \in Nat /\ counter[p.c] \in Nat
    BY <1>0, <1>3 DEF Row, TypeOK
  <2>. QED
    BY <1>3, <2>1 DEF Serves, Reported
<1>5. /\ rows[p.c].used \in Nat /\ counter[p.c] \in Nat /\ InHands(p.c) \in Nat
      /\ p.row.used \in Nat /\ p.row.quota \in Nat
  BY <1>0, <1>3, ActorTypes DEF TypeOK, Row, InHands
<1>. QED
  BY <1>4, <1>5

\* Suspensions for quota, and answers that serve a client, are explained by the figures
\* or by what changed them meanwhile, whatever passes, requests and crashes interleave.
THEOREM DecisionsAreExplained == Spec => DecisionsExplained
<1>1. Init => Verdicts
  <2>. SUFFICES ASSUME Init PROVE Verdicts
    OBVIOUS
  <2>1. \A a \in Actor : proc[a].why = "" /\ proc[a].op = "none"
    BY DEF Init, Idle
  <2>. QED
    BY <2>1 DEF Verdicts, VerdictFormed, Own, Actor
<1>2. Accounting /\ Verdicts /\ [Next]_vars => Verdicts'
  BY VerdictsKept
<1>3. Accounting /\ Verdicts /\ [Next]_vars =>
        [\A c \in Client :
          LET p == proc[Collector]
          IN  /\ rows[c].reason # "quota" /\ rows'[c].reason = "quota"
              /\ rows[c].used < rows[c].quota
              => \/ rows[c].used < p.row.used + p.got
                 \/ rows[c].quota > p.row.quota]_vars
  BY SuspensionStep
<1>4. Accounting /\ [Next]_vars =>
        [\A t \in Thread :
          LET p == proc'[t]
          IN  /\ At(t, "usage") /\ p.pc = "answer" /\ faults' = faults /\ up
              /\ Serves(p)
              /\ rows[p.c].id = p.row.id /\ rows[p.c].quota = p.row.quota
              /\ p.row.quota > 0
              => \/ rows[p.c].used + counter[p.c] + InHands(p.c) < p.row.quota
                 \/ rows[p.c].used + InHands(p.c) > p.row.used]_vars
  BY ServingStep DEF Accounting
<1>. QED
  BY <1>1, <1>2, <1>3, <1>4, AccountingInvariant, PTL
     DEF Spec, DecisionsExplained, SuspensionExplained, ServedHasQuota
-----------------------------------------------------------------------------
(* Metering implements TrafficMeter.  A collection is made for a row that has *)
(* been inserted, and only an insertion uses an id, so a row that has gone    *)
(* never gets what was collected for it billed to its successor.              *)

Configuring == {"cfg_read", "cfg_write", "cfg_restart", "cfg_rollback", "write"}

Writing == {"create", "update", "revoke", "collect", "renew"}

\* What an actor does to a configuration or to a row is one of five operations; what
\* the collector asks Xray about is a row that has been inserted.
OnCourse(a) ==
    /\ proc[a].pc \in Configuring \union {"add"} => proc[a].op \in Writing
    /\ a = Collector /\ proc[a].pc = "stats" => proc[a].row.id \in 1..lastId

Numbered ==
    /\ \A c \in Client : rows[c].id <= lastId
    /\ \A c \in pass.todo : pass.snap[c].id \in 1..lastId
    /\ \A a \in Actor : OnCourse(a)

\* Steps that give no row a number of its own, and go on as begun.
LEMMA NumbersKept ==
    ASSUME TypeOK, TypeOK', Numbered, lastId <= lastId',
           \A c \in Client : rows'[c].id \in {0, rows[c].id, lastId'},
           \/ pass' = pass
           \/ pass'.snap = pass.snap /\ pass'.todo \subseteq pass.todo
           \/ pass'.todo = {},
           \A a \in Actor : proc'[a] = proc[a] \/ OnCourse(a)'
    PROVE  Numbered'
<1>0. lastId \in Nat /\ lastId' \in Nat
  BY DEF TypeOK
<1>1. \A c \in Client : rows[c].id \in Nat
  BY DEF TypeOK, Row
<1>2. \A c \in Client : rows'[c].id <= lastId'
  BY <1>0, <1>1 DEF Numbered
<1>3. \A c \in pass'.todo : pass'.snap[c].id \in 1..lastId'
  BY <1>0 DEF Numbered
<1>4. ASSUME NEW a \in Actor, proc'[a] = proc[a] PROVE OnCourse(a)'
  BY <1>0, <1>4 DEF Numbered, OnCourse
<1>. QED
  BY <1>2, <1>3, <1>4 DEF Numbered

\* An UPDATE that leaves the number alone.
LEMMA UpdatedNumbers ==
    ASSUME TypeOK, NEW c \in Client, NEW id, NEW new,
           rows' = Updated(c, id, new), new.id = rows[c].id
    PROVE  \A d \in Client : rows'[d].id = rows[d].id
  BY DEF TypeOK, Updated

\* Actors at rest are on no course.
LEMMA RestingOnCourse ==
    ASSUME TypeOK, NEW a \in Actor, Done(a)
    PROVE  \A b \in Actor : proc'[b] = proc[b] \/ OnCourse(b)'
<1>1. proc'[a] = Resting(a) /\ \A b \in Actor \ {a} : proc'[b] = proc[b]
  BY DEF TypeOK, Done
<1>2. Resting(a).pc \in {"idle", "next"}
  BY DEF Resting, Idle
<1>. QED
  BY <1>1, <1>2 DEF OnCourse, Configuring

\* An actor goes on with what it has begun, or to where no course is.
LEMMA GoesOnCourse ==
    ASSUME TypeOK, NEW a \in Actor, NEW pc, Goto(a, pc), pc # "stats",
           pc \in Configuring \union {"add"} => proc[a].op \in Writing
    PROVE  \A b \in Actor : proc'[b] = proc[b] \/ OnCourse(b)'
<1>1. \A b \in Actor \ {a} : proc'[b] = proc[b]
  BY DEF TypeOK, Goto
<1>2. proc'[a].pc = pc /\ proc'[a].op = proc[a].op
  BY DEF TypeOK, Proc, Goto
<1>. QED
  BY <1>1, <1>2 DEF OnCourse

\* A configuration is changed for the operation it was begun for.
LEMMA ConfigNumbered ==
    ASSUME TypeOK, TypeOK', Numbered, NEW a \in Actor, ConfigStep(a)
    PROVE  Numbered'
<1>0. proc \in [Actor -> Proc] /\ proc[a] \in Proc /\ OnCourse(a)
  BY DEF TypeOK, Numbered
<1>1. UNCHANGED <<rows, lastId, pass>> /\ proc[a].pc \in Configuring
  BY DEF ConfigStep, ConfigRead, ConfigWrite, ConfigRestart, ConfigRollback, At, Configuring
<1>2. proc[a].op \in Writing
  BY <1>0, <1>1 DEF OnCourse
<1>3. ASSUME NEW q, proc' = [proc EXCEPT ![a] = q], q.op = proc[a].op, q.pc # "stats"
      PROVE  \A b \in Actor : proc'[b] = proc[b] \/ OnCourse(b)'
  BY <1>0, <1>2, <1>3 DEF OnCourse
<1>4. \A b \in Actor : proc'[b] = proc[b] \/ OnCourse(b)'
  <2>1. CASE ConfigRead(a)
    <3>. DEFINE p == proc[a]
                q == [p EXCEPT !.pc = "cfg_write", !.doc = [file EXCEPT ![p.c] = Target(p)]]
    <3>1. \/ Done(a) \/ Goto(a, "write")
          \/ proc' = [proc EXCEPT ![a].pc = "cfg_write",
                                  ![a].doc = [file EXCEPT ![p.c] = Target(p)]]
      BY <2>1 DEF ConfigRead
    <3>2. CASE Done(a) \/ Goto(a, "write")
      BY <1>2, <3>2, RestingOnCourse, GoesOnCourse
    <3>3. CASE proc' = [proc EXCEPT ![a].pc = "cfg_write",
                                    ![a].doc = [file EXCEPT ![p.c] = Target(p)]]
      <4>1. proc' = [proc EXCEPT ![a] = q]
        BY <3>3
      <4>2. q.op = p.op /\ q.pc = "cfg_write"
        BY <1>0 DEF Proc
      <4>. QED
        BY <1>3, <4>1, <4>2
    <3>. QED
      BY <3>1, <3>2, <3>3
  <2>2. CASE ConfigWrite(a)
    <3>1. PICK pc \in {"cfg_restart", "cfg_rollback"} :
             proc' = [proc EXCEPT ![a].pc = pc, ![a].backup = file, ![a].doc = NoInbounds]
      BY <2>2 DEF ConfigWrite
    <3>. DEFINE q == [proc[a] EXCEPT !.pc = pc, !.backup = file, !.doc = NoInbounds]
    <3>2. proc' = [proc EXCEPT ![a] = q]
      BY <3>1
    <3>3. q.op = proc[a].op /\ q.pc = pc
      BY <1>0 DEF Proc
    <3>. QED
      BY <1>3, <3>2, <3>3
  <2>3. CASE ConfigRestart(a)
    <3>. DEFINE q == [proc[a] EXCEPT !.pc = "write", !.backup = NoInbounds]
    <3>1. Goto(a, "cfg_rollback")
          \/ proc' = [proc EXCEPT ![a].pc = "write", ![a].backup = NoInbounds]
      BY <2>3 DEF ConfigRestart
    <3>2. CASE Goto(a, "cfg_rollback")
      BY <1>2, <3>2, GoesOnCourse
    <3>3. CASE proc' = [proc EXCEPT ![a].pc = "write", ![a].backup = NoInbounds]
      <4>1. proc' = [proc EXCEPT ![a] = q]
        BY <3>3
      <4>2. q.op = proc[a].op /\ q.pc = "write"
        BY <1>0 DEF Proc
      <4>. QED
        BY <1>3, <4>1, <4>2
    <3>. QED
      BY <3>1, <3>2, <3>3
  <2>4. CASE ConfigRollback(a)
    BY <2>4, RestingOnCourse DEF ConfigRollback
  <2>. QED
    BY <2>1, <2>2, <2>3, <2>4 DEF ConfigStep
<1>. QED
  BY <1>1, <1>4, NumbersKept DEF TypeOK

\* Only an insertion numbers a row, with the number it uses up.
LEMMA WriteNumbered ==
    ASSUME TypeOK, TypeOK', Numbered, NEW a \in Actor, Write(a)
    PROVE  Numbered'
<1>. DEFINE p == proc[a]
<1>0. p \in Proc /\ p.c \in Client /\ rows[p.c] \in Row /\ lastId \in Nat
  BY ActorTypes DEF TypeOK
<1>1. p.op \in Writing
  BY DEF Write, At, Numbered, OnCourse, Configuring
<1>2. \A b \in Actor : proc'[b] = proc[b] \/ OnCourse(b)'
  BY RestingOnCourse, GoesOnCourse DEF Write, Configuring
<1>3. rows' = WriteRow(p) /\ pass' = pass
      /\ lastId' = IF p.op = "create" /\ rows[p.c].id = 0 THEN lastId + 1 ELSE lastId
  BY DEF Write
<1>4. ASSUME NEW d \in Client
      PROVE  rows'[d].id \in {0, rows[d].id, lastId'}
  <2>1. CASE p.op = "collect"
    <3>1. rows' = Updated(p.c, p.row.id, Suspended(rows[p.c], p.why))
      BY <1>3, <2>1 DEF WriteRow
    <3>2. Suspended(rows[p.c], p.why).id = rows[p.c].id
      BY <1>0 DEF Suspended, Row
    <3>. QED
      BY <1>0, <3>1, <3>2, UpdatedNumbers
  <2>2. CASE p.op = "renew"
    <3>1. rows' = Updated(p.c, p.row.id, Reactivated(rows[p.c]))
      BY <1>3, <2>2 DEF WriteRow
    <3>2. Reactivated(rows[p.c]).id = rows[p.c].id
      BY <1>0 DEF Reactivated, Row
    <3>. QED
      BY <1>0, <3>1, <3>2, UpdatedNumbers
  <2>3. CASE p.op = "update"
    <3>1. rows' = Updated(p.c, p.row.id, Edited(rows[p.c], p.edit))
      BY <1>3, <2>3 DEF WriteRow
    <3>2. Edited(rows[p.c], p.edit).id = rows[p.c].id
      BY <1>0 DEF Edited, Row
    <3>. QED
      BY <1>0, <3>1, <3>2, UpdatedNumbers
  <2>4. CASE p.op = "revoke"
    <3>1. rows' = Updated(p.c, p.row.id, NoRow)
      BY <1>3, <2>4 DEF WriteRow
    <3>. QED
      BY <1>0, <3>1 DEF TypeOK, Updated, NoRow
  <2>5. CASE p.op = "create"
    <3>1. rows' = Updated(p.c, 0, Inserted(p.plan))
      BY <1>3, <2>5 DEF WriteRow
    <3>2. Inserted(p.plan).id = lastId + 1
      BY DEF Inserted
    <3>. QED
      BY <1>0, <1>3, <2>5, <3>1, <3>2 DEF TypeOK, Updated
  <2>. QED
    BY <1>1, <2>1, <2>2, <2>3, <2>4, <2>5 DEF Writing
<1>. QED
  BY <1>0, <1>2, <1>3, <1>4, NumbersKept

\* The collector goes to sleep and wakes, takes clients, adds and advances.
LEMMA CollectorNumbered ==
    ASSUME TypeOK, TypeOK', Numbered,
           Wake \/ Sleep \/ (\E c \in Client : TakeClient(c)) \/ Add \/ Advance
    PROVE  Numbered'
<1>. DEFINE p == proc[Collector]
<1>. Collector \in Actor
  BY DEF Actor
<1>0. proc \in [Actor -> Proc] /\ p \in Proc /\ p.c \in Client /\ rows \in [Client -> Row]
      /\ lastId \in Nat /\ lastId' = lastId /\ pass \in Pass
  BY ActorTypes DEF TypeOK, Wake, Sleep, TakeClient, Add, Advance
<1>1. CASE Wake
  <2>1. proc'[Collector].pc = "next" /\ \A b \in Actor \ {Collector} : proc'[b] = proc[b]
    BY <1>0, <1>1 DEF Wake, Goto, Proc
  <2>2. \A a \in Actor : OnCourse(a)'
    BY <1>0, <2>1 DEF OnCourse, Numbered, Configuring
  <2>3. \A c \in Client : rows[c].id \in Nat /\ rows[c].id <= lastId
    BY <1>0 DEF Row, Numbered
  <2>4. pass'.todo = {c \in Client : rows[c].id # 0} /\ pass'.snap = rows /\ rows' = rows
    BY <1>1 DEF Wake
  <2>5. \A c \in pass'.todo : pass'.snap[c].id \in 1..lastId'
    BY <1>0, <2>3, <2>4
  <2>. QED
    BY <1>0, <2>2, <2>3, <2>4, <2>5 DEF Numbered
<1>2. CASE Sleep
  <2>1. proc'[Collector].pc = "idle" /\ \A b \in Actor \ {Collector} : proc'[b] = proc[b]
    BY <1>0, <1>2 DEF Sleep, Idle
  <2>2. \A b \in Actor : proc'[b] = proc[b] \/ OnCourse(b)'
    BY <2>1 DEF OnCourse, Configuring
  <2>3. rows' = rows /\ pass'.todo = {}
    BY <1>2 DEF Sleep, NoPass
  <2>. QED
    BY <1>0, <2>2, <2>3, NumbersKept
<1>3. ASSUME NEW c \in Client, TakeClient(c)
      PROVE  Numbered'
  <2>. DEFINE row == pass.snap[c]
              q == [Idle EXCEPT !.pc = "stats", !.op = Task(row, pass.now), !.c = c, !.row = row]
  <2>1. rows' = rows /\ pass'.snap = pass.snap /\ pass'.todo \subseteq pass.todo
        /\ row.id \in 1..lastId
    BY <1>0, <1>3 DEF TakeClient, Pass, Numbered
  <2>2. proc' = proc \/ proc' = [proc EXCEPT ![Collector] = q]
    BY <1>3 DEF TakeClient
  <2>3. q.pc = "stats" /\ q.row = row
    BY DEF Idle
  <2>. HIDE DEF q
  <2>4. CASE proc' = [proc EXCEPT ![Collector] = q]
    <3>1. proc'[Collector] = q /\ \A b \in Actor \ {Collector} : proc'[b] = proc[b]
      BY <1>0, <2>4
    <3>2. OnCourse(Collector)'
      BY <1>0, <2>1, <2>3, <3>1 DEF OnCourse, Configuring
    <3>. QED
      BY <1>0, <2>1, <3>1, <3>2, NumbersKept
  <2>5. CASE proc' = proc
    BY <1>0, <2>1, <2>5, NumbersKept
  <2>. QED
    BY <2>2, <2>4, <2>5
<1>4. CASE Add
  <2>1. rows' = Updated(p.c, p.row.id, [rows[p.c] EXCEPT !.used = @ + p.got])
        /\ pass' = pass
    BY <1>4 DEF Add
  <2>2. [rows[p.c] EXCEPT !.used = @ + p.got].id = rows[p.c].id
    BY <1>0 DEF Row
  <2>3. \A d \in Client : rows'[d].id = rows[d].id
    BY <1>0, <2>1, <2>2, UpdatedNumbers
  <2>4. \A b \in Actor : proc'[b] = proc[b] \/ OnCourse(b)'
    <3>. DEFINE why == SuspendReason(p.row, Total(p.row, p.c, p.got), pass.now)
                q == [p EXCEPT !.pc = "cfg_read", !.why = why]
    <3>1. Done(Collector) \/ proc' = [proc EXCEPT ![Collector] = q]
      BY <1>0, <1>4 DEF Add
    <3>2. q.pc = "cfg_read" /\ q.op = p.op
      BY <1>0 DEF Proc
    <3>3. CASE proc' = [proc EXCEPT ![Collector] = q]
      <4>. HIDE DEF q
      <4>1. proc'[Collector] = q /\ \A b \in Actor \ {Collector} : proc'[b] = proc[b]
        BY <1>0, <3>3
      <4>2. p.op \in Writing
        BY <1>4 DEF Add, At, Numbered, OnCourse
      <4>. QED
        BY <3>2, <4>1, <4>2 DEF OnCourse
    <3>. QED
      BY <3>1, <3>3, RestingOnCourse
  <2>. QED
    BY <1>0, <2>1, <2>3, <2>4, NumbersKept
<1>5. CASE Advance
  <2>1. rows' = Updated(p.c, p.row.id, [rows[p.c] EXCEPT !.next = NextBoundary(p.row)])
        /\ pass' = pass
    BY <1>5 DEF Advance
  <2>2. [rows[p.c] EXCEPT !.next = NextBoundary(p.row)].id = rows[p.c].id
    BY <1>0 DEF Row
  <2>3. \A d \in Client : rows'[d].id = rows[d].id
    BY <1>0, <2>1, <2>2, UpdatedNumbers
  <2>4. \A b \in Actor : proc'[b] = proc[b] \/ OnCourse(b)'
    BY <1>5, RestingOnCourse DEF Advance
  <2>. QED
    BY <1>0, <2>1, <2>3, <2>4, NumbersKept
<1>. QED
  BY <1>1, <1>2, <1>3, <1>4, <1>5

\* Queries and resets.
LEMMA StatsNumbered ==
    ASSUME TypeOK, TypeOK', Numbered, NEW a \in Actor, StatsStep(a) \/ Zero(a)
    PROVE  Numbered'
<1>. DEFINE p == proc[a]
<1>0. proc \in [Actor -> Proc] /\ p \in Proc /\ p.c \in Client /\ rows[p.c] \in Row
      /\ lastId \in Nat /\ UNCHANGED <<lastId, pass>> /\ OnCourse(a)
  BY ActorTypes DEF TypeOK, Numbered, StatsStep, StatsAnswered, StatsUnavailable,
     StatsBroken, Zero
<1>1. CASE StatsAnswered(a)
  <2>. DEFINE q == [p EXCEPT !.pc = "add", !.got = counter[p.c]]
  <2>1. \/ Goto(a, "zero")
        \/ p.op = "collect" /\ proc' = [proc EXCEPT ![a] = q]
    BY <1>0, <1>1 DEF StatsAnswered
  <2>2. q.pc = "add" /\ q.op = p.op
    BY <1>0 DEF Proc
  <2>3. ASSUME p.op = "collect", proc' = [proc EXCEPT ![a] = q]
        PROVE  \A b \in Actor : proc'[b] = proc[b] \/ OnCourse(b)'
    <3>. HIDE DEF q
    <3>. QED
      BY <1>0, <2>2, <2>3 DEF OnCourse, Configuring, Writing
  <2>4. \A b \in Actor : proc'[b] = proc[b] \/ OnCourse(b)'
    BY <2>1, <2>3, GoesOnCourse DEF Configuring
  <2>. QED
    BY <1>0, <1>1, <2>4, NumbersKept DEF StatsAnswered
<1>2. CASE StatsUnavailable(a)
  <2>1. \A b \in Actor : proc'[b] = proc[b] \/ OnCourse(b)'
    BY <1>2, RestingOnCourse, GoesOnCourse DEF StatsUnavailable, Configuring
  <2>. QED
    BY <1>0, <1>2, <2>1, NumbersKept DEF StatsUnavailable
<1>3. CASE StatsBroken(a)
  <2>. DEFINE q == [p EXCEPT !.op = "collect"]
  <2>1. Done(a) \/ proc' = [proc EXCEPT ![a] = q]
    BY <1>0, <1>3 DEF StatsBroken
  <2>2. q.pc = "stats" /\ q.row = p.row
    BY <1>0, <1>3 DEF Proc, StatsBroken, At
  <2>3. ASSUME proc' = [proc EXCEPT ![a] = q]
        PROVE  \A b \in Actor : proc'[b] = proc[b] \/ OnCourse(b)'
    <3>. HIDE DEF q
    <3>1. p.pc = "stats"
      BY <1>3 DEF StatsBroken, At
    <3>. QED
      BY <1>0, <2>2, <2>3, <3>1 DEF OnCourse, Configuring
  <2>4. \A b \in Actor : proc'[b] = proc[b] \/ OnCourse(b)'
    BY <2>1, <2>3, RestingOnCourse
  <2>. QED
    BY <1>0, <1>3, <2>4, NumbersKept DEF StatsBroken
<1>4. CASE Zero(a)
  <2>1. rows' = Updated(p.c, p.row.id, [rows[p.c] EXCEPT !.used = 0])
    BY <1>4 DEF Zero
  <2>2. [rows[p.c] EXCEPT !.used = 0].id = rows[p.c].id
    BY <1>0 DEF Row
  <2>3. \A d \in Client : rows'[d].id = rows[d].id
    BY <1>0, <2>1, <2>2, UpdatedNumbers
  <2>4. \A b \in Actor : proc'[b] = proc[b] \/ OnCourse(b)'
    BY <1>4, RestingOnCourse, GoesOnCourse DEF Zero, Configuring, Writing
  <2>. QED
    BY <1>0, <2>3, <2>4, NumbersKept
<1>. QED
  BY <1>1, <1>2, <1>3, <1>4 DEF StatsStep

\* A request begins as one of the operations, or as none of them.
LEMMA BeginNumbered ==
    ASSUME TypeOK, TypeOK', Numbered, NEW t \in Thread, NEW c \in Client,
           BeginRequest(t, c)
    PROVE  Numbered'
<1>. t \in Actor /\ t # Collector
  BY DEF Actor
<1>0. proc \in [Actor -> Proc] /\ UNCHANGED <<rows, lastId, pass>> /\ lastId \in Nat
  BY DEF TypeOK, BeginRequest, BeginCreate, BeginUpdate, BeginReset, BeginRevoke,
     BeginReport, Begin
<1>1. ASSUME NEW q, Begin(t, q), q.pc \in Configuring \union {"add"} => q.op \in Writing
      PROVE  Numbered'
  <2>1. proc'[t] = q /\ \A b \in Actor \ {t} : proc'[b] = proc[b]
    BY <1>0, <1>1 DEF Begin
  <2>2. \A b \in Actor : proc'[b] = proc[b] \/ OnCourse(b)'
    BY <1>1, <2>1 DEF OnCourse
  <2>. QED
    BY <1>0, <2>2, NumbersKept
<1>2. ASSUME NEW plan \in Plans, BeginCreate(t, c, plan)
      PROVE  Numbered'
  <2>. DEFINE q == [Idle EXCEPT !.pc = "cfg_read", !.op = "create", !.c = c, !.plan = plan]
  <2>1. q.op = "create" /\ Begin(t, q)
    BY <1>2 DEF Idle, BeginCreate
  <2>. HIDE DEF q
  <2>. QED
    BY <1>1, <2>1 DEF Writing
<1>3. ASSUME NEW e \in Edits, BeginUpdate(t, c, e)
      PROVE  Numbered'
  <2>. DEFINE flips == e.enabled # "keep" /\ rows[c].enabled # (e.enabled = "on")
              dated == [e EXCEPT !.term = IF @ = Keep THEN Keep ELSE After(@)]
              q == [Idle EXCEPT !.pc = IF flips THEN "cfg_read" ELSE "write",
                                !.op = "update", !.c = c, !.row = rows[c], !.edit = dated]
  <2>1. Begin(t, q)
    BY <1>3 DEF BeginUpdate
  <2>2. q.op = "update"
    BY DEF Idle
  <2>. HIDE DEF q
  <2>. QED
    BY <1>1, <2>1, <2>2 DEF Writing
<1>4. CASE BeginReset(t, c)
  <2>. DEFINE q == [Idle EXCEPT !.pc = "stats", !.op = "reset", !.c = c, !.row = rows[c]]
  <2>1. q.pc = "stats" /\ Begin(t, q)
    BY <1>4 DEF Idle, BeginReset
  <2>. HIDE DEF q
  <2>. QED
    BY <1>1, <2>1 DEF Configuring
<1>5. CASE BeginRevoke(t, c)
  <2>. DEFINE q == [Idle EXCEPT !.pc = "cfg_read", !.op = "revoke", !.c = c, !.row = rows[c]]
  <2>1. q.op = "revoke" /\ Begin(t, q)
    BY <1>5 DEF Idle, BeginRevoke
  <2>. HIDE DEF q
  <2>. QED
    BY <1>1, <2>1 DEF Writing
<1>6. CASE BeginReport(t, c)
  <2>. DEFINE q == [Idle EXCEPT !.pc = IF rows[c].enabled THEN "usage" ELSE "answer",
                                !.op = "report", !.c = c, !.row = rows[c]]
  <2>1. q.pc \in {"usage", "answer"} /\ Begin(t, q)
    BY <1>6 DEF Idle, BeginReport
  <2>. HIDE DEF q
  <2>. QED
    BY <1>1, <2>1 DEF Configuring
<1>. QED
  BY <1>2, <1>3, <1>4, <1>5, <1>6 DEF BeginRequest

\* Reports write nothing.
LEMMA ReportNumbered ==
    ASSUME TypeOK, TypeOK', Numbered, NEW t \in Thread, Usage(t) \/ Answer(t)
    PROVE  Numbered'
<1>. t \in Actor /\ t # Collector
  BY DEF Actor
<1>0. proc \in [Actor -> Proc] /\ UNCHANGED <<rows, lastId, pass>> /\ lastId \in Nat
  BY DEF TypeOK, Usage, Answer
<1>1. proc'[t].pc \in {"answer", "idle"} /\ \A b \in Actor \ {t} : proc'[b] = proc[b]
  <2>1. CASE Usage(t)
    BY <1>0, <2>1 DEF Usage, Goto, Proc
  <2>2. CASE Answer(t)
    BY <1>0, <2>2 DEF Answer, Done, Resting, Idle
  <2>. QED
    BY <2>1, <2>2
<1>2. \A b \in Actor : proc'[b] = proc[b] \/ OnCourse(b)'
  BY <1>1 DEF OnCourse, Configuring
<1>. QED
  BY <1>0, <1>2, NumbersKept

\* The rest of the world: actors stay where they are or die.
LEMMA EnvironmentNumbered ==
    ASSUME TypeOK, TypeOK', Numbered,
           \/ \E c \in Client : Traffic(c)
           \/ Tick \/ XrayDies \/ XrayStarts \/ CollectorDies \/ WebDies \/ UNCHANGED vars
    PROVE  Numbered'
<1>. Collector \in Actor
  BY DEF Actor
<1>0. UNCHANGED <<rows, lastId>> /\ lastId \in Nat /\ (pass' = pass \/ pass'.todo = {})
  BY DEF TypeOK, Traffic, Tick, XrayDies, XrayStarts, CollectorDies, WebDies, vars, NoPass
<1>1. ASSUME NEW b \in Actor
      PROVE  proc'[b] = proc[b] \/ proc'[b] = Idle
  <2>. proc \in [Actor -> Proc]
    BY DEF TypeOK
  <2>1. CASE CollectorDies
    BY <2>1 DEF CollectorDies
  <2>2. CASE WebDies
    BY <2>2 DEF WebDies
  <2>3. CASE proc' = proc
    BY <2>3
  <2>. QED
    BY <2>1, <2>2, <2>3 DEF Traffic, Tick, XrayDies, XrayStarts, vars
<1>2. \A b \in Actor : proc'[b] = proc[b] \/ OnCourse(b)'
  <2>1. Idle.pc = "idle"
    BY DEF Idle
  <2>. QED
    BY <1>1, <2>1 DEF OnCourse, Configuring
<1>3. lastId <= lastId' /\ \A c \in Client : rows'[c].id \in {0, rows[c].id, lastId'}
  BY <1>0
<1>. QED
  BY <1>0, <1>2, <1>3, NumbersKept

\* Every step keeps numbers and courses.
LEMMA NextNumbered == TypeOK /\ Numbered /\ [Next]_vars => Numbered'
<1>. SUFFICES ASSUME TypeOK, Numbered, [Next]_vars PROVE Numbered'
  OBVIOUS
<1>. Collector \in Actor /\ Thread \subseteq Actor
  BY DEF Actor
<1>0. TypeOK'
  BY NextType
<1>1. CASE CollectorStep
  BY <1>0, <1>1, CollectorNumbered, StatsNumbered, ConfigNumbered, WriteNumbered
     DEF CollectorStep
<1>2. ASSUME NEW t \in Thread, ThreadStep(t) PROVE Numbered'
  BY <1>0, <1>2, ReportNumbered, StatsNumbered, ConfigNumbered, WriteNumbered
     DEF ThreadStep
<1>3. ASSUME NEW t \in Thread, NEW c \in Client, BeginRequest(t, c) PROVE Numbered'
  BY <1>0, <1>3, BeginNumbered
<1>4. CASE \/ \E c \in Client : Traffic(c)
           \/ Tick \/ XrayDies \/ XrayStarts \/ CollectorDies \/ WebDies \/ UNCHANGED vars
  BY <1>0, <1>4, EnvironmentNumbered
<1>. QED
  BY <1>1, <1>2, <1>3, <1>4 DEF Next

\* Nothing has a number at first.
LEMMA NumberedInvariant == Spec => []Numbered
<1>1. Init => Numbered
  <2>. SUFFICES ASSUME Init PROVE Numbered
    OBVIOUS
  <2>0. lastId = 0 /\ \A c \in Client : rows[c].id = 0
    BY DEF Init, NoRow
  <2>1. \A c \in Client : rows[c].id <= lastId
    <3>1. ASSUME NEW i \in Nat PROVE i <= i
      OBVIOUS
    <3>2. lastId \in Nat /\ \A c \in Client : rows[c].id = lastId
      BY <2>0
    <3>. QED
      BY <3>1, <3>2, Zenon
  <2>2. pass.todo = {}
    BY DEF Init, NoPass
  <2>3. \A a \in Actor : proc[a].pc = "idle"
    BY DEF Init, Idle
  <2>. QED
    BY <2>1, <2>2, <2>3 DEF Numbered, OnCourse, Configuring
<1>2. TypeOK /\ Numbered /\ [Next]_vars => Numbered'
  BY NextNumbered
<1>. QED
  BY <1>1, <1>2, TypeCorrect, PTL DEF Spec

\* What the steps below have in common: nothing but the counters and what the
\* collector holds may change.
OnlyCounters ==
    /\ delivered' = delivered /\ lastId' = lastId
    /\ \A c \in Client : rows'[c].id = rows[c].id /\ rows'[c].used = rows[c].used

\* The collector holds what it held if it has not moved, or was and is elsewhere.
LEMMA SameCollection ==
    ASSUME \/ proc'[Collector] = proc[Collector]
           \/ proc[Collector].pc # "add" /\ proc'[Collector].pc # "add"
    PROVE  Collection' = Collection
  BY DEF Collection, At

\* Accounts and their usage as TrafficMeter sees them.
LEMMA SameAccounts ==
    ASSUME OnlyCounters
    PROVE  /\ [c \in Client |-> rows[c].id]' = [c \in Client |-> rows[c].id]
           /\ [c \in Client |-> rows[c].used]' = [c \in Client |-> rows[c].used]
  BY DEF OnlyCounters

\* A step that meters nothing.
LEMMA MeterRests ==
    ASSUME OnlyCounters, counter' = counter, Collection' = Collection
    PROVE  UNCHANGED Meter!vars
  BY SameAccounts DEF Meter!vars, OnlyCounters

\* One that loses counters.
LEMMA MeterLoses ==
    ASSUME OnlyCounters, Collection' = Collection, NEW gone \in SUBSET Client,
           counter' = [c \in Client |-> IF c \in gone THEN 0 ELSE counter[c]]
    PROVE  Meter!Next
<1>1. Meter!Lose
  BY SameAccounts DEF Meter!Lose, OnlyCounters
<1>. QED
  BY <1>1 DEF Meter!Next

\* A query drains one counter.
LEMMA DrainedOne ==
    ASSUME TypeOK, NEW c \in Client
    PROVE  Drained(c) = [d \in Client |-> IF d \in {c} THEN 0 ELSE counter[d]]
  BY DEF Drained, TypeOK

\* A started Xray, and a stopped one, has none.
LEMMA RestartLoses ==
    ASSUME TypeOK, counter' = NoCounters, OnlyCounters, Collection' = Collection
    PROVE  Meter!Next
<1>1. counter' = [c \in Client |-> IF c \in Client THEN 0 ELSE counter[c]]
  BY DEF NoCounters
<1>. QED
  BY <1>1, MeterLoses

\* An UPDATE of other columns.
LEMMA UpdatedApart ==
    ASSUME TypeOK, NEW c \in Client, NEW id, NEW new, rows' = Updated(c, id, new),
           new.id = rows[c].id, new.used = rows[c].used,
           delivered' = delivered, lastId' = lastId
    PROVE  OnlyCounters
  BY DEF TypeOK, Updated, OnlyCounters

\* An UPDATE that clears the usage, or takes the row away.
LEMMA UpdatedClears ==
    ASSUME TypeOK, NEW c \in Client, NEW id, NEW new, rows' = Updated(c, id, new),
           new.id \in {0, rows[c].id}, new.used = 0,
           delivered' = delivered, lastId' = lastId, counter' = counter,
           Collection' = Collection
    PROVE  [Meter!Next]_(Meter!vars)
<1>0. rows \in [Client -> Row]
  BY DEF TypeOK
<1>1. CASE rows[c].id = id
  <2>1. rows' = [rows EXCEPT ![c] = new]
    BY <1>1 DEF Updated
  <2>2. [d \in Client |-> rows[d].used]' = [[d \in Client |-> rows[d].used] EXCEPT ![c] = 0]
    BY <1>0, <2>1
  <2>3. [d \in Client |-> rows[d].id]' \in
          {[d \in Client |-> rows[d].id], [[d \in Client |-> rows[d].id] EXCEPT ![c] = 0]}
    <3>1. CASE new.id = 0
      BY <1>0, <2>1, <3>1
    <3>2. CASE new.id = rows[c].id
      BY <1>0, <2>1, <3>2
    <3>. QED
      BY <3>1, <3>2
  <2>4. Meter!Clear(c)
    BY <2>2, <2>3 DEF Meter!Clear
  <2>. QED
    BY <2>4 DEF Meter!Next
<1>2. CASE rows[c].id # id
  <2>1. rows' = rows
    BY <1>0, <1>2 DEF Updated
  <2>2. OnlyCounters
    BY <2>1 DEF OnlyCounters
  <2>. QED
    BY <2>2, MeterRests
<1>. QED
  BY <1>1, <1>2

\* Only the collector collects, for the row of its snapshot; every other query, and
\* every one that breaks off, loses what it drains.
LEMMA StatsMetered ==
    ASSUME TypeOK, Numbered, NEW a \in Actor, StatsStep(a)
    PROVE  [Meter!Next]_(Meter!vars)
<1>. DEFINE p == proc[a]
<1>0. /\ proc \in [Actor -> Proc] /\ p \in Proc /\ p.c \in Client
      /\ p.pc = "stats" /\ OnCourse(a)
      /\ counter \in [Client -> Nat] /\ Collector \in Actor
  BY ActorTypes DEF TypeOK, Numbered, StatsStep, StatsAnswered, StatsUnavailable,
     StatsBroken, At, Actor
<1>1. OnlyCounters
  BY DEF OnlyCounters, StatsStep, StatsAnswered, StatsUnavailable, StatsBroken, xray
<1>2. CASE a = Collector /\ p.op = "collect" /\ StatsAnswered(a)
  <2>. DEFINE h == [client |-> p.c, account |-> p.row.id, units |-> counter[p.c]]
              q == [p EXCEPT !.pc = "add", !.got = counter[p.c]]
  <2>1. proc' = [proc EXCEPT ![Collector] = q]
    BY <1>2 DEF StatsAnswered
  <2>2. q.pc = "add" /\ q.c = p.c /\ q.row = p.row /\ q.got = counter[p.c]
    BY <1>0 DEF Proc
  <2>3. proc'[Collector] = q
    BY <1>0, <2>1
  <2>4. Collection = {} /\ Collection' = {h}
    <3>. HIDE DEF q
    <3>. QED
      BY <1>0, <1>2, <2>2, <2>3 DEF Collection, At
  <2>5. counter' = [counter EXCEPT ![p.c] = 0]
    BY <1>2 DEF StatsAnswered, Drained
  <2>6. p.row.id \in 1..lastId
    BY <1>0, <1>2 DEF OnCourse
  <2>7. Meter!Collect(p.c)
    BY <1>1, <2>4, <2>5, <2>6, SameAccounts DEF Meter!Collect, OnlyCounters
  <2>. QED
    BY <1>0, <2>7 DEF Meter!Next
<1>3. CASE ~(a = Collector /\ p.op = "collect" /\ StatsAnswered(a))
  <2>1. Collection' = Collection
    <3>1. CASE a # Collector
      <4>1. proc'[Collector] = proc[Collector]
        BY <1>0, <3>1 DEF StatsStep, StatsAnswered, StatsUnavailable, StatsBroken,
           Goto, Done
      <4>. QED
        BY <4>1, SameCollection
    <3>2. CASE a = Collector
      <4>1. ASSUME Done(a) PROVE proc'[Collector].pc = "next"
        BY <1>0, <3>2, <4>1 DEF Done, Resting, Idle
      <4>2. ASSUME Goto(a, "zero") PROVE proc'[Collector].pc = "zero"
        BY <1>0, <3>2, <4>2 DEF Goto, Proc
      <4>3. ASSUME proc' = [proc EXCEPT ![a].op = "collect"]
            PROVE  proc'[Collector].pc = "stats"
        BY <1>0, <3>2, <4>3 DEF Proc
      <4>4. \/ Done(a) \/ Goto(a, "zero")
            \/ proc' = [proc EXCEPT ![a].op = "collect"]
        BY <1>3, <3>2 DEF StatsStep, StatsAnswered, StatsUnavailable, StatsBroken
      <4>5. proc'[Collector].pc # "add"
        BY <4>1, <4>2, <4>3, <4>4
      <4>. QED
        BY <1>0, <3>2, <4>5, SameCollection
    <3>. QED
      BY <3>1, <3>2
  <2>2. counter' = counter \/ counter' = Drained(p.c)
    BY DEF StatsStep, StatsAnswered, StatsUnavailable, StatsBroken, xray
  <2>3. CASE counter' = counter
    BY <1>1, <2>1, <2>3, MeterRests
  <2>4. CASE counter' = Drained(p.c)
    <3>1. counter' = [d \in Client |-> IF d \in {p.c} THEN 0 ELSE counter[d]]
      BY <1>0, <2>4, DrainedOne
    <3>. DEFINE gone == {p.c}
    <3>2. gone \in SUBSET Client
      BY <1>0
    <3>3. counter' = [d \in Client |-> IF d \in gone THEN 0 ELSE counter[d]]
      BY <3>1
    <3>. HIDE DEF gone
    <3>4. Meter!Next
      BY <1>1, <2>1, <3>2, <3>3, MeterLoses
    <3>. QED
      BY <3>4
  <2>. QED
    BY <2>2, <2>3, <2>4
<1>. QED
  BY <1>2, <1>3

\* add_protocol_traffic bills the row the collection was made for, or nobody.
LEMMA AddMetered ==
    ASSUME TypeOK, Add
    PROVE  Meter!Next
<1>. DEFINE p == proc[Collector]
            h == [client |-> p.c, account |-> p.row.id, units |-> p.got]
<1>0. /\ proc \in [Actor -> Proc] /\ p \in Proc /\ p.c \in Client
      /\ p.pc = "add" /\ Collector \in Actor /\ rows \in [Client -> Row]
      /\ UNCHANGED <<counter, delivered, lastId>>
  BY ActorTypes DEF TypeOK, Add, At, Actor, xray
<1>1. Collection = {h}
  BY <1>0 DEF Collection, At
<1>2. Collection' = {}
  <2>. DEFINE why == SuspendReason(p.row, Total(p.row, p.c, p.got), pass.now)
              q == [p EXCEPT !.pc = "cfg_read", !.why = why]
  <2>1. Done(Collector) \/ proc' = [proc EXCEPT ![Collector] = q]
    BY DEF Add
  <2>2. ASSUME Done(Collector) PROVE proc'[Collector].pc = "next"
    BY <1>0, <2>2 DEF Done, Resting, Idle
  <2>3. q.pc = "cfg_read"
    BY <1>0 DEF Proc
  <2>4. ASSUME proc' = [proc EXCEPT ![Collector] = q] PROVE proc'[Collector].pc = "cfg_read"
    <3>. HIDE DEF q
    <3>. QED
      BY <1>0, <2>3, <2>4
  <2>. QED
    BY <2>1, <2>2, <2>4 DEF Collection, At
<1>3. rows' = Updated(p.c, p.row.id, [rows[p.c] EXCEPT !.used = @ + p.got])
  BY DEF Add
<1>4. \A d \in Client : rows'[d].id = rows[d].id
  <2>1. [rows[p.c] EXCEPT !.used = @ + p.got].id = rows[p.c].id
    BY <1>0 DEF Row
  <2>. HIDE DEF p
  <2>. QED
    BY <1>0, <1>3, <2>1, UpdatedNumbers
<1>5. [d \in Client |-> rows[d].id]' = [d \in Client |-> rows[d].id]
  BY <1>4
<1>6. [d \in Client |-> rows[d].used]' =
        [[d \in Client |-> rows[d].used] EXCEPT ![h.client] =
            IF [d \in Client |-> rows[d].id][h.client] = h.account THEN @ + h.units ELSE @]
  <2>1. [rows[p.c] EXCEPT !.used = @ + p.got].used = rows[p.c].used + p.got
    BY <1>0 DEF Row
  <2>2. rows'[p.c].used = IF rows[p.c].id = p.row.id
                          THEN rows[p.c].used + p.got ELSE rows[p.c].used
    BY <1>0, <1>3, <2>1 DEF Updated
  <2>3. \A d \in Client \ {p.c} : rows'[d].used = rows[d].used
    BY <1>0, <1>3 DEF Updated
  <2>. QED
    BY <1>0, <2>2, <2>3
<1>7. Meter!Bill
  BY <1>0, <1>1, <1>2, <1>5, <1>6 DEF Meter!Bill
<1>. QED
  BY <1>7 DEF Meter!Next

\* reset_protocol_traffic clears the row it was asked to, or nothing.
LEMMA ZeroMetered ==
    ASSUME TypeOK, NEW a \in Actor, Zero(a)
    PROVE  [Meter!Next]_(Meter!vars)
<1>. DEFINE p == proc[a]
<1>0. /\ proc \in [Actor -> Proc] /\ p \in Proc /\ p.c \in Client /\ Collector \in Actor
      /\ p.pc = "zero" /\ rows[p.c] \in Row /\ UNCHANGED <<counter, delivered, lastId>>
  BY ActorTypes DEF TypeOK, Zero, At, Actor, xray
<1>1. Collection' = Collection
  <2>1. CASE a # Collector
    <3>1. proc'[Collector] = proc[Collector]
      BY <1>0, <2>1 DEF Zero, Goto, Done
    <3>. QED
      BY <3>1, SameCollection
  <2>2. CASE a = Collector
    <3>1. ASSUME Done(a) PROVE proc'[Collector].pc = "next"
      BY <1>0, <2>2, <3>1 DEF Done, Resting, Idle
    <3>2. ASSUME NEW pc, Goto(a, pc) PROVE proc'[Collector].pc = pc
      BY <1>0, <2>2, <3>2 DEF Goto, Proc
    <3>3. Done(a) \/ Goto(a, "cfg_read") \/ Goto(a, "advance")
      BY DEF Zero
    <3>4. proc'[Collector].pc # "add"
      BY <3>1, <3>2, <3>3
    <3>. QED
      BY <1>0, <2>2, <3>4, SameCollection
  <2>. QED
    BY <2>1, <2>2
<1>2. rows' = Updated(p.c, p.row.id, [rows[p.c] EXCEPT !.used = 0])
  BY DEF Zero
<1>3. [rows[p.c] EXCEPT !.used = 0].id = rows[p.c].id /\ [rows[p.c] EXCEPT !.used = 0].used = 0
  BY <1>0 DEF Row
<1>. HIDE DEF p
<1>. QED
  BY <1>0, <1>1, <1>2, <1>3, UpdatedClears

\* A configuration changes no figure; a restart loses the counters.
LEMMA ConfigMetered ==
    ASSUME TypeOK, NEW a \in Actor, ConfigStep(a)
    PROVE  [Meter!Next]_(Meter!vars)
<1>0. /\ proc \in [Actor -> Proc] /\ proc[a] \in Proc /\ Collector \in Actor
      /\ proc[a].pc \in Configuring
      /\ UNCHANGED <<rows, delivered, lastId>>
  BY DEF TypeOK, ConfigStep, ConfigRead, ConfigWrite, ConfigRestart, ConfigRollback,
     At, Actor, Configuring, xray
<1>1. OnlyCounters
  BY <1>0 DEF OnlyCounters
<1>2. counter' = counter \/ counter' = NoCounters
  BY DEF ConfigStep, ConfigRead, ConfigWrite, ConfigRestart, ConfigRollback, xray,
     Start, Stop
<1>3. Collection' = Collection
  <2>1. CASE a # Collector
    <3>1. proc'[Collector] = proc[Collector]
      BY <1>0, <2>1 DEF ConfigStep, ConfigRead, ConfigWrite, ConfigRestart,
         ConfigRollback, Goto, Done
    <3>. QED
      BY <3>1, SameCollection
  <2>2. CASE a = Collector
    <3>1. ASSUME Done(a) PROVE proc'[a].pc # "add"
      BY <1>0, <2>2, <3>1 DEF Done, Resting, Idle
    <3>2. ASSUME NEW pc \in {"write", "cfg_rollback"}, Goto(a, pc) PROVE proc'[a].pc # "add"
      BY <1>0, <2>2, <3>2 DEF Goto, Proc
    <3>3. CASE ConfigRead(a)
      <4>1. CASE \E doc : proc' = [proc EXCEPT ![a].pc = "cfg_write", ![a].doc = doc]
        <5>1. proc'[a].pc # "add"
          BY <1>0, <4>1 DEF Proc
        <5>. QED
          BY <1>0, <2>2, <5>1, SameCollection DEF Configuring
      <4>2. CASE Done(a) \/ Goto(a, "write")
        <5>1. proc'[a].pc # "add"
          BY <3>1, <3>2, <4>2
        <5>. QED
          BY <1>0, <2>2, <5>1, SameCollection DEF Configuring
      <4>. QED
        BY <3>3, <4>1, <4>2 DEF ConfigRead
    <3>4. CASE ConfigWrite(a)
      <4>1. proc'[a].pc # "add"
        BY <1>0, <3>4 DEF ConfigWrite, Proc
      <4>. QED
        BY <1>0, <2>2, <4>1, SameCollection DEF Configuring
    <3>5. CASE ConfigRestart(a)
      <4>1. \/ Goto(a, "cfg_rollback")
            \/ proc' = [proc EXCEPT ![a].pc = "write", ![a].backup = NoInbounds]
        BY <3>5 DEF ConfigRestart
      <4>2. proc'[a].pc # "add"
        BY <1>0, <3>2, <4>1 DEF Proc
      <4>. QED
        BY <1>0, <2>2, <4>2, SameCollection DEF Configuring
    <3>6. CASE ConfigRollback(a)
      <4>1. proc'[a].pc # "add"
        BY <3>1, <3>6 DEF ConfigRollback
      <4>. QED
        BY <1>0, <2>2, <4>1, SameCollection DEF Configuring
    <3>. QED
      BY <3>3, <3>4, <3>5, <3>6 DEF ConfigStep
  <2>. QED
    BY <2>1, <2>2
<1>4. CASE counter' = counter
  BY <1>1, <1>3, <1>4, MeterRests
<1>5. CASE counter' = NoCounters
  BY <1>1, <1>3, <1>5, RestartLoses
<1>. QED
  BY <1>2, <1>4, <1>5

\* An insertion opens an account, a removal closes one; the other statements change
\* no figure.
LEMMA WriteMetered ==
    ASSUME TypeOK, Numbered, NEW a \in Actor, Write(a)
    PROVE  [Meter!Next]_(Meter!vars)
<1>. DEFINE p == proc[a]
<1>0. /\ proc \in [Actor -> Proc] /\ p \in Proc /\ p.c \in Client /\ Collector \in Actor
      /\ p.pc = "write" /\ rows \in [Client -> Row] /\ rows[p.c] \in Row
      /\ UNCHANGED <<counter, delivered>> /\ rows' = WriteRow(p)
  BY ActorTypes DEF TypeOK, Write, At, Actor, xray
<1>1. p.op \in Writing
  BY DEF Write, At, Numbered, OnCourse, Configuring
<1>2. Collection' = Collection
  <2>1. CASE a # Collector
    <3>1. proc'[Collector] = proc[Collector]
      BY <1>0, <2>1 DEF Write, Goto, Done
    <3>. QED
      BY <3>1, SameCollection
  <2>2. CASE a = Collector
    <3>1. ASSUME Done(a) PROVE proc'[a].pc # "add"
      BY <1>0, <2>2, <3>1 DEF Done, Resting, Idle
    <3>2. ASSUME Goto(a, "advance") PROVE proc'[a].pc # "add"
      BY <1>0, <3>2 DEF Goto, Proc
    <3>3. Done(a) \/ Goto(a, "advance")
      BY DEF Write
    <3>. QED
      BY <1>0, <2>2, <3>1, <3>2, <3>3, SameCollection
  <2>. QED
    BY <2>1, <2>2
<1>3. lastId' = IF p.op = "create" /\ rows[p.c].id = 0 THEN lastId + 1 ELSE lastId
  BY DEF Write
<1>4. ASSUME NEW new, rows' = Updated(p.c, p.row.id, new), p.op # "create",
             new.id = rows[p.c].id, new.used = rows[p.c].used
      PROVE  UNCHANGED Meter!vars
  <2>1. lastId' = lastId
    BY <1>3, <1>4
  <2>. HIDE DEF p
  <2>2. OnlyCounters
    BY <1>0, <1>4, <2>1, UpdatedApart
  <2>. QED
    BY <1>0, <1>2, <2>2, MeterRests
<1>5. CASE p.op = "collect"
  <2>1. rows' = Updated(p.c, p.row.id, Suspended(rows[p.c], p.why))
    BY <1>0, <1>5 DEF WriteRow
  <2>2. /\ Suspended(rows[p.c], p.why).id = rows[p.c].id
        /\ Suspended(rows[p.c], p.why).used = rows[p.c].used
    BY <1>0 DEF Suspended, Row
  <2>. QED
    BY <1>4, <1>5, <2>1, <2>2
<1>6. CASE p.op = "renew"
  <2>1. rows' = Updated(p.c, p.row.id, Reactivated(rows[p.c]))
    BY <1>0, <1>6 DEF WriteRow
  <2>2. /\ Reactivated(rows[p.c]).id = rows[p.c].id
        /\ Reactivated(rows[p.c]).used = rows[p.c].used
    BY <1>0 DEF Reactivated, Row
  <2>. QED
    BY <1>4, <1>6, <2>1, <2>2
<1>7. CASE p.op = "update"
  <2>1. rows' = Updated(p.c, p.row.id, Edited(rows[p.c], p.edit))
    BY <1>0, <1>7 DEF WriteRow
  <2>2. /\ Edited(rows[p.c], p.edit).id = rows[p.c].id
        /\ Edited(rows[p.c], p.edit).used = rows[p.c].used
    BY <1>0 DEF Edited, Row
  <2>. QED
    BY <1>4, <1>7, <2>1, <2>2
<1>8. CASE p.op = "revoke"
  <2>1. rows' = Updated(p.c, p.row.id, NoRow) /\ lastId' = lastId
    BY <1>0, <1>3, <1>8 DEF WriteRow
  <2>2. NoRow.id = 0 /\ NoRow.used = 0
    BY DEF NoRow
  <2>. HIDE DEF p
  <2>. QED
    BY <1>0, <1>2, <2>1, <2>2, UpdatedClears
<1>9. CASE p.op = "create"
  <2>1. rows' = Updated(p.c, 0, Inserted(p.plan))
    BY <1>0, <1>9 DEF WriteRow
  <2>2. Inserted(p.plan).id = lastId + 1 /\ Inserted(p.plan).used = 0
    BY DEF Inserted
  <2>3. CASE rows[p.c].id = 0
    <3>1. rows' = [rows EXCEPT ![p.c] = Inserted(p.plan)] /\ lastId' = lastId + 1
      BY <1>0, <1>3, <1>9, <2>1, <2>3 DEF Updated
    <3>. DEFINE ids == [d \in Client |-> rows[d].id]
                figures == [d \in Client |-> rows[d].used]
    <3>2. /\ ids' = [ids EXCEPT ![p.c] = lastId + 1]
          /\ figures' = [figures EXCEPT ![p.c] = 0]
      BY <1>0, <2>2, <3>1
    <3>3. ids[p.c] = 0
      BY <1>0, <2>3
    <3>4. PICK d \in Client : d = p.c
      BY <1>0
    <3>5. Meter!Open(d)
      BY <1>0, <1>2, <3>1, <3>2, <3>3, <3>4 DEF Meter!Open
    <3>6. Meter!Next
      BY <3>5 DEF Meter!Next
    <3>. QED
      BY <3>6
  <2>4. CASE rows[p.c].id # 0
    <3>1. rows' = rows /\ lastId' = lastId
      BY <1>0, <1>3, <2>1, <2>4 DEF Updated
    <3>2. OnlyCounters
      BY <1>0, <3>1 DEF OnlyCounters
    <3>. QED
      BY <1>0, <1>2, <3>2, MeterRests
  <2>. QED
    BY <2>3, <2>4
<1>. QED
  BY <1>1, <1>5, <1>6, <1>7, <1>8, <1>9 DEF Writing

\* The collector's other steps meter nothing.
LEMMA PassMetered ==
    ASSUME TypeOK, Wake \/ Sleep \/ (\E c \in Client : TakeClient(c)) \/ Advance
    PROVE  UNCHANGED Meter!vars
<1>. DEFINE p == proc[Collector]
<1>0. /\ proc \in [Actor -> Proc] /\ p \in Proc /\ Collector \in Actor
      /\ UNCHANGED <<counter, delivered, lastId>>
      /\ p.pc # "add" /\ p.c \in Client /\ rows[p.c] \in Row
  BY ActorTypes DEF TypeOK, Actor, Wake, Sleep, TakeClient, Advance, At, xray
<1>1. CASE Wake
  <2>1. proc'[Collector].pc = "next" /\ rows' = rows
    BY <1>0, <1>1 DEF Wake, Goto, Proc
  <2>. QED
    BY <1>0, <2>1, SameCollection, MeterRests DEF OnlyCounters
<1>2. CASE Sleep
  <2>1. proc'[Collector] = Idle /\ rows' = rows
    BY <1>0, <1>2 DEF Sleep
  <2>2. Idle.pc = "idle"
    BY DEF Idle
  <2>3. Collection' = Collection
    BY <1>0, <2>1, <2>2, SameCollection
  <2>. QED
    BY <1>0, <2>1, <2>3, MeterRests DEF OnlyCounters
<1>3. ASSUME NEW c \in Client, TakeClient(c)
      PROVE  UNCHANGED Meter!vars
  <2>. DEFINE row == pass.snap[c]
              q == [Idle EXCEPT !.pc = "stats", !.op = Task(row, pass.now), !.c = c, !.row = row]
  <2>1. rows' = rows /\ (proc' = proc \/ proc' = [proc EXCEPT ![Collector] = q])
    BY <1>3 DEF TakeClient
  <2>2. q.pc = "stats"
    BY DEF Idle
  <2>. HIDE DEF q
  <2>3. proc'[Collector].pc # "add"
    BY <1>0, <2>1, <2>2
  <2>. QED
    BY <1>0, <2>1, <2>3, SameCollection, MeterRests DEF OnlyCounters
<1>4. CASE Advance
  <2>1. rows' = Updated(p.c, p.row.id, [rows[p.c] EXCEPT !.next = NextBoundary(p.row)])
    BY <1>4 DEF Advance
  <2>2. /\ [rows[p.c] EXCEPT !.next = NextBoundary(p.row)].id = rows[p.c].id
        /\ [rows[p.c] EXCEPT !.next = NextBoundary(p.row)].used = rows[p.c].used
    BY <1>0 DEF Row
  <2>3. proc'[Collector].pc = "next"
    BY <1>0, <1>4 DEF Advance, Done, Resting, Idle
  <2>4. Collection' = Collection
    BY <1>0, <2>3, SameCollection
  <2>. HIDE DEF p
  <2>5. OnlyCounters
    BY <1>0, <2>1, <2>2, UpdatedApart
  <2>. QED
    BY <1>0, <2>4, <2>5, MeterRests
<1>. QED
  BY <1>1, <1>2, <1>3, <1>4

\* Requests begin, read and answer without metering anything.
LEMMA RequestMetered ==
    ASSUME TypeOK, NEW t \in Thread,
           Usage(t) \/ Answer(t) \/ \E c \in Client : BeginRequest(t, c)
    PROVE  UNCHANGED Meter!vars
<1>0. UNCHANGED <<rows, counter, delivered, lastId>>
  BY DEF Usage, Answer, BeginRequest, BeginCreate, BeginUpdate, BeginReset, BeginRevoke,
     BeginReport, Begin, xray
<1>1. proc'[Collector] = proc[Collector]
  <2>1. PICK q : proc' = [proc EXCEPT ![t] = q]
    BY RequestIsOwn DEF ThreadStep
  <2>. QED
    BY <2>1 DEF TypeOK, Actor
<1>. QED
  BY <1>0, <1>1, SameCollection, MeterRests DEF OnlyCounters

\* Traffic is carried and counted; a restart loses counters, a death of the collector
\* what it held.
LEMMA EnvironmentMetered ==
    ASSUME TypeOK,
           \/ \E c \in Client : Traffic(c)
           \/ Tick \/ XrayDies \/ XrayStarts \/ CollectorDies \/ WebDies \/ UNCHANGED vars
    PROVE  [Meter!Next]_(Meter!vars)
<1>0. UNCHANGED <<rows, lastId>>
  BY DEF Traffic, Tick, XrayDies, XrayStarts, CollectorDies, WebDies, vars
<1>1. ASSUME NEW c \in Client, Traffic(c)
      PROVE  Meter!Next
  <2>1. /\ [d \in Client |-> rows[d].id]' = [d \in Client |-> rows[d].id]
        /\ [d \in Client |-> rows[d].used]' = [d \in Client |-> rows[d].used]
    BY <1>0
  <2>2. Collection' = Collection
    BY <1>1, SameCollection DEF Traffic
  <2>3. Meter!Carry(c)
    BY <1>0, <1>1, <2>1, <2>2 DEF Traffic, Meter!Carry
  <2>. QED
    BY <2>3 DEF Meter!Next
<1>2. CASE Tick \/ WebDies \/ UNCHANGED vars
  <2>1. UNCHANGED <<counter, delivered>>
    BY <1>2 DEF Tick, WebDies, vars, xray
  <2>2. proc'[Collector] = proc[Collector]
    BY <1>2 DEF Tick, WebDies, vars, Actor
  <2>. QED
    BY <1>0, <2>1, <2>2, SameCollection, MeterRests DEF OnlyCounters
<1>3. CASE XrayDies \/ XrayStarts
  <2>1. counter' = NoCounters /\ delivered' = delivered /\ proc' = proc
    BY <1>3 DEF XrayDies, XrayStarts, Start, Stop
  <2>. QED
    BY <1>0, <2>1, SameCollection, RestartLoses DEF OnlyCounters
<1>4. CASE CollectorDies
  <2>1. UNCHANGED <<counter, delivered>> /\ proc'[Collector] = Idle
    BY <1>4 DEF CollectorDies, xray, TypeOK, Actor
  <2>2. Idle.pc = "idle"
    BY DEF Idle
  <2>3. Collection' = {}
    BY <2>1, <2>2 DEF Collection, At
  <2>4. Meter!Drop
    BY <1>0, <2>1, <2>3, SameAccounts DEF Meter!Drop, OnlyCounters
  <2>. QED
    BY <2>4 DEF Meter!Next
<1>. QED
  BY <1>1, <1>2, <1>3, <1>4

\* Metering implements TrafficMeter: whatever passes, requests, restarts and crashes
\* interleave, a unit is counted once, collected once, and billed at most once, to
\* the account it was collected for.
THEOREM UsageIsMeteredOnce == Spec => MetersOnce
<1>1. Init => Meter!Init
  <2>. SUFFICES ASSUME Init PROVE Meter!Init
    OBVIOUS
  <2>1. \A c \in Client : rows[c].id = 0 /\ rows[c].used = 0
    BY DEF Init, NoRow
  <2>2. proc[Collector].pc = "idle"
    BY DEF Init, Idle, Actor
  <2>3. Collection = {}
    BY <2>2 DEF Collection, At
  <2>. QED
    BY <2>1, <2>3 DEF Init, Meter!Init
<1>2. TypeOK /\ Numbered /\ [Next]_vars => [Meter!Next]_(Meter!vars)
  <2>. SUFFICES ASSUME TypeOK, Numbered, [Next]_vars
                PROVE  [Meter!Next]_(Meter!vars)
    OBVIOUS
  <2>. Collector \in Actor /\ Thread \subseteq Actor
    BY DEF Actor
  <2>1. CASE CollectorStep
    BY <2>1, PassMetered, AddMetered, StatsMetered, ZeroMetered, ConfigMetered, WriteMetered
       DEF CollectorStep
  <2>2. ASSUME NEW t \in Thread, ThreadStep(t) PROVE [Meter!Next]_(Meter!vars)
    BY <2>2, RequestMetered, StatsMetered, ZeroMetered, ConfigMetered, WriteMetered
       DEF ThreadStep
  <2>3. ASSUME NEW t \in Thread, NEW c \in Client, BeginRequest(t, c)
        PROVE  [Meter!Next]_(Meter!vars)
    BY <2>3, RequestMetered
  <2>4. CASE \/ \E c \in Client : Traffic(c)
             \/ Tick \/ XrayDies \/ XrayStarts \/ CollectorDies \/ WebDies \/ UNCHANGED vars
    BY <2>4, EnvironmentMetered
  <2>. QED
    BY <2>1, <2>2, <2>3, <2>4 DEF Next
<1>. QED
  BY <1>1, <1>2, TypeCorrect, NumberedInvariant, PTL DEF Spec, MetersOnce, Meter!Spec
=============================================================================
