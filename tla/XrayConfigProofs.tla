-------------------------- MODULE XrayConfigProofs --------------------------
(***************************************************************************)
(* The safety properties of XrayConfig, for any inbounds, any number of    *)
(* threads, any configurations from the editor and any bounds.             *)
(***************************************************************************)
EXTENDS XrayConfig, TLAPS

USE XrayConstants

-----------------------------------------------------------------------------
(* The type of the state.                                                  *)

\* An operation that goes on has a whole configuration to go on with.
LEMMA EditedType ==
    ASSUME TypeOK, NEW op \in Op, NEW i \in Inbound \union {None}, ~Refused(op, i)
    PROVE  Base(op) \in Conf /\ Edited(op, i) \in Conf
<1>1. Base(op) \in Conf
  BY DEF Refused
<1>2. \A s \in State : [Base(op) EXCEPT ![i] = s] \in Conf
  BY <1>1 DEF Conf
<1>3. {"on", "off", "absent"} \subseteq State
  BY DEF State
<1>. QED
  BY <1>1, <1>2, <1>3 DEF Edited

\* Xray loads a configuration or does not run.
LEMMA LoadedType == \A f : Loaded(f) \in Conf \union {None}
  BY DEF Loaded, Accepted

\* What a thread holds.
LEMMA ProcTypes ==
    ASSUME TypeOK, NEW t \in Thread
    PROVE  /\ proc[t] \in Proc
           /\ proc[t].pc \in PC /\ proc[t].op \in Op \union {"none"}
           /\ proc[t].i \in Inbound \union {None}
           /\ proc[t].conf \in Conf \union {None}
           /\ proc[t].backup \in Content /\ proc[t].alone \in BOOLEAN
  BY DEF TypeOK, Proc

\* A thread goes on, or is done.
LEMMA ControlType ==
    ASSUME TypeOK, NEW t \in Thread
    PROVE  /\ \A pc \in PC : Goto(t, pc) => proc' \in [Thread -> Proc]
           /\ Done(t) => proc' \in [Thread -> Proc]
<1>1. Idle \in Proc
  BY DEF Idle, Proc, PC, Content
<1>2. \A pc \in PC : [proc[t] EXCEPT !.pc = pc] \in Proc
  BY DEF TypeOK, Proc
<1>. QED
  BY <1>1, <1>2 DEF TypeOK, Goto, Done

\* The beginning of an operation.
LEMMA BeginType ==
    ASSUME TypeOK, NEW t \in Thread, NEW p \in Proc, Begin(t, p)
    PROVE  /\ proc' \in [Thread -> Proc] /\ told' \in [Inbound -> Word]
           /\ requests' \in Nat
<1>1. [p EXCEPT !.alone = UnderWay = {}] \in Proc
  BY DEF Proc
<1>2. \A u \in Thread : [proc[u] EXCEPT !.alone = FALSE] \in Proc
  BY DEF TypeOK, Proc
<1>3. proc' \in [Thread -> Proc]
  BY <1>1, <1>2 DEF Begin, TypeOK
<1>4. Nothing \in Word
  BY DEF Nothing, Word
<1>. QED
  BY <1>3, <1>4 DEF Begin, TypeOK

\* The end of one.
LEMMA TellType ==
    ASSUME TypeOK, NEW p, NEW c \in Conf, Tell(p, c, TRUE)
    PROVE  told' \in [Inbound -> Word]
<1>1. \A i \in Inbound : [state |-> c[i], live |-> TRUE] \in Word
  BY DEF Word, Conf
<1>. QED
  BY <1>1 DEF Tell, TypeOK

\* What may become of the file.
LEMMA FileType ==
    /\ \A c \in Content, o \in BOOLEAN :
          [conf |-> c, owned |-> o] \in [conf : Content, owned : BOOLEAN]
    /\ TypeOK => \A c \in Content :
          [file EXCEPT !.conf = c] \in [conf : Content, owned : BOOLEAN]
<1>1. \A c \in Content, o \in BOOLEAN :
         [conf |-> c, owned |-> o] \in [conf : Content, owned : BOOLEAN]
  OBVIOUS
<1>2. ASSUME file \in [conf : Content, owned : BOOLEAN], NEW c \in Content
      PROVE  [file EXCEPT !.conf = c] \in [conf : Content, owned : BOOLEAN]
  BY <1>2
<1>. QED
  BY <1>1, <1>2 DEF TypeOK

\* Faults are counted.
LEMMA FaultType == TypeOK /\ (Fault \/ UNCHANGED faults) => faults' \in Nat
<1>. SUFFICES ASSUME faults \in Nat, Fault \/ UNCHANGED faults PROVE faults' \in Nat
  BY DEF TypeOK
<1>. QED
  BY DEF Fault

\* What a thread keeps of its operation until it is done.
SameOperation(t) ==
    /\ proc'[t].op = proc[t].op /\ proc'[t].i = proc[t].i
    /\ proc'[t].conf = proc[t].conf /\ proc'[t].alone = proc[t].alone

\* A backup is taken by one thread, and may be another's: c is what they find there.
BackUpLeaves(t, c) ==
    /\ c # file.conf => c = Torn /\ Fault /\ file.conf # None
    /\ \/ proc'[t] = Idle /\ Fault
       \/ /\ proc'[t].pc = "replace" /\ proc'[t].backup = file.conf
          /\ SameOperation(t) /\ c = file.conf /\ UNCHANGED faults
    /\ \A u \in Thread \ {t} :
          \/ proc'[u] = proc[u]
          \/ /\ proc'[u].pc = proc[u].pc /\ proc'[u].backup = c /\ SameOperation(u)
             /\ proc[u].pc # "backup" /\ proc[u].pc # "idle"
    /\ proc' \in [Thread -> Proc]

\* Every backup is one, completed or not.
LEMMA BackUpMoves ==
    ASSUME TypeOK, NEW t \in Thread, BackUp(t)
    PROVE  \E c \in {file.conf, Torn} : BackUpLeaves(t, c)
<1>1. /\ \A u \in Thread : proc[u] \in Proc
      /\ file.conf \in Content /\ Torn \in Content
  BY DEF TypeOK, Content
<1>. DEFINE p == [proc[t] EXCEPT !.pc = "replace", !.backup = file.conf]
<1>2. PICK same \in SUBSET SameName(t) :
        \/ Copy(t, p, same, file.conf) /\ UNCHANGED faults
        \/ /\ Fault
           /\ \E c \in {file.conf, Torn} : (file.conf = None => c = None) /\ Copy(t, Idle, same, c)
  BY DEF BackUp
<1>3. \A u \in same : proc[u].pc # "backup" /\ proc[u].pc # "idle" /\ u # t
  BY DEF SameName
<1>4. /\ p \in Proc /\ p.pc = "replace" /\ p.backup = file.conf
      /\ p.op = proc[t].op /\ p.i = proc[t].i /\ p.conf = proc[t].conf
      /\ p.alone = proc[t].alone
  BY <1>1 DEF Proc, PC
<1>5. Idle \in Proc
  BY DEF Idle, Proc, PC, Content
<1>. HIDE DEF p
\* The others.
<1>6. ASSUME NEW q \in Proc, NEW c \in Content, Copy(t, q, same, c)
      PROVE  /\ proc'[t] = q /\ proc' \in [Thread -> Proc]
             /\ \A u \in Thread \ {t} :
                   \/ proc'[u] = proc[u]
                   \/ /\ proc'[u].pc = proc[u].pc /\ proc'[u].backup = c
                      /\ SameOperation(u) /\ u \in same
  <2>1. \A u \in Thread : [proc[u] EXCEPT !.backup = c] \in Proc
    <3>1. ASSUME NEW r \in Proc PROVE [r EXCEPT !.backup = c] \in Proc
      BY <1>6 DEF Proc
    <3>. QED
      BY <1>1, <3>1
  <2>2. proc'[t] = q /\ proc' \in [Thread -> Proc]
    BY <1>1, <1>6, <2>1 DEF Copy
  <2>3. ASSUME NEW u \in Thread \ {t}, proc'[u] # proc[u]
        PROVE  /\ proc'[u].pc = proc[u].pc /\ proc'[u].backup = c
               /\ SameOperation(u) /\ u \in same
    <3>1. proc'[u] = [proc[u] EXCEPT !.backup = c] /\ u \in same
      BY <1>6, <2>3 DEF Copy
    <3>. QED
      BY <1>1, <3>1 DEF SameOperation, Proc
  <2>. QED
    BY <2>2, <2>3
<1>7. CASE Copy(t, p, same, file.conf) /\ UNCHANGED faults
  <2>1. BackUpLeaves(t, file.conf)
    BY <1>1, <1>3, <1>4, <1>6, <1>7 DEF BackUpLeaves, SameOperation
  <2>. QED
    BY <2>1
<1>8. CASE ~(Copy(t, p, same, file.conf) /\ UNCHANGED faults)
  <2>1. PICK c \in {file.conf, Torn} : (file.conf = None => c = None) /\ Copy(t, Idle, same, c)
    BY <1>2, <1>8
  <2>2. BackUpLeaves(t, c)
    BY <1>1, <1>2, <1>3, <1>5, <1>6, <1>8, <2>1 DEF BackUpLeaves
  <2>. QED
    BY <2>2
<1>. QED
  BY <1>7, <1>8

\* Types, and whoever is in an operation has a candidate.
Shape ==
    /\ TypeOK
    /\ \A t \in Thread : proc[t].pc # "idle" => proc[t].conf \in Conf

\* At the beginning nobody is in an operation.
LEMMA InitShape == Init => Shape
<1>. SUFFICES ASSUME Init PROVE Shape
  OBVIOUS
<1>1. Idle \in Proc /\ Nothing \in Word /\ Empty \in Conf
  BY DEF Idle, Proc, PC, Content, Nothing, Word, Empty, Conf, State
<1>2. file \in [conf : Content, owned : BOOLEAN] /\ running \in Conf \union {None}
  <2>1. None \in Content /\ Empty \in Content
    BY <1>1 DEF Content
  <2>. QED
    BY <1>1, <2>1, FileType DEF Init
<1>3. TypeOK
  BY <1>1, <1>2 DEF Init, TypeOK
<1>. QED
  BY <1>3 DEF Init, Shape, Idle

\* Every step keeps the types; only the beginning of an operation makes a candidate.
LEMMA ShapeStep == Shape /\ [Next]_vars => Shape'
<1>. SUFFICES ASSUME Shape, [Next]_vars PROVE Shape'
  OBVIOUS
<1>. USE DEF Shape
<1>1. ASSUME NEW t \in Thread, NEW op \in Op, NEW i \in Inbound \union {None},
             BeginEdit(t, op, i)
      PROVE  Shape'
  <2>1. Edited(op, i) \in Conf
    BY <1>1, EditedType DEF BeginEdit
  <2>. DEFINE p == [Idle EXCEPT !.pc = "backup", !.op = op, !.i = i,
                                !.conf = Edited(op, i)]
  <2>2. p \in Proc /\ p.conf \in Conf
    BY <2>1 DEF Idle, Proc, PC, Content
  <2>3. Begin(t, p) /\ UNCHANGED <<file, running, faults>>
    BY <1>1 DEF BeginEdit
  <2>. HIDE DEF p
  <2>4. TypeOK'
    BY <2>2, <2>3, BeginType DEF TypeOK
  <2>. QED
    BY <2>2, <2>3, <2>4 DEF Begin, TypeOK, Proc, UnderWay
<1>2. ASSUME NEW t \in Thread, NEW i \in Inbound, NEW op \in Op, AnswerNeedless(t, op, i)
      PROVE  Shape'
  <2>1. file.conf \in Conf
    BY <1>2 DEF AnswerNeedless, Refused, Needless, Base
  <2>2. told' \in [Inbound -> Word]
    BY <1>2, <2>1 DEF AnswerNeedless, Word, Conf, TypeOK
  <2>. QED
    BY <1>2, <2>2 DEF AnswerNeedless, TypeOK
<1>3. ASSUME NEW t \in Thread, NEW c \in Expert, BeginApply(t, c)
      PROVE  Shape'
  <2>. DEFINE p == [Idle EXCEPT !.pc = "backup", !.op = "apply", !.conf = c]
  <2>2. p \in Proc /\ p.conf \in Conf
    BY DEF Idle, Proc, PC, Content, Op
  <2>3. Begin(t, p) /\ UNCHANGED <<file, running, faults>>
    BY <1>3 DEF BeginApply
  <2>. HIDE DEF p
  <2>4. TypeOK'
    BY <2>2, <2>3, BeginType DEF TypeOK
  <2>. QED
    BY <2>2, <2>3, <2>4 DEF Begin, TypeOK, Proc, UnderWay
\* Every other step keeps the candidates.
<1>. DEFINE SameCandidates ==
              \A u \in Thread :
                 \/ proc'[u] = Idle
                 \/ proc'[u].conf = proc[u].conf /\ proc[u].pc # "idle"
                 \/ proc'[u] = proc[u]
<1>4. ASSUME NEW t \in Thread, proc[t].pc # "idle", Done(t) \/ \E pc \in PC : Goto(t, pc)
      PROVE  SameCandidates /\ proc' \in [Thread -> Proc]
  BY <1>4, ControlType DEF TypeOK, Done, Goto, Proc
<1>5. ASSUME SameCandidates, proc' \in [Thread -> Proc],
             file' \in [conf : Content, owned : BOOLEAN],
             running' \in Conf \union {None}, told' \in [Inbound -> Word],
             requests' = requests, Fault \/ UNCHANGED faults
      PROVE  Shape'
  BY <1>5, FaultType DEF TypeOK, Idle
<1>6. ASSUME NEW t \in Thread, BackUp(t)
      PROVE  Shape'
  <2>1. SameCandidates /\ proc' \in [Thread -> Proc]
    BY <1>6, BackUpMoves DEF BackUpLeaves, SameOperation, BackUp
  <2>2. UNCHANGED <<file, running, told, requests>> /\ (Fault \/ UNCHANGED faults)
    BY <1>6 DEF BackUp
  <2>. QED
    BY <2>1, <2>2, <1>5 DEF TypeOK
<1>7. ASSUME NEW t \in Thread, Replace(t)
      PROVE  Shape'
  <2>1. SameCandidates /\ proc' \in [Thread -> Proc]
    BY <1>7, <1>4 DEF Replace, PC
  <2>2. file' \in [conf : Content, owned : BOOLEAN]
    <3>1. Tested(proc[t].conf) => proc[t].conf \in Content
      BY DEF Tested, Accepted, Content
    <3>2. file \in [conf : Content, owned : BOOLEAN]
      BY DEF TypeOK
    <3>3. \/ Tested(proc[t].conf) /\ file' = [conf |-> proc[t].conf, owned |-> FALSE]
          \/ file' = file
      BY <1>7 DEF Replace
    <3>. QED
      BY <3>1, <3>2, <3>3, FileType
  <2>3. UNCHANGED <<running, told, requests>> /\ (Fault \/ UNCHANGED faults)
    BY <1>7 DEF Replace
  <2>. QED
    BY <2>1, <2>2, <2>3, <1>5 DEF TypeOK
<1>8. ASSUME NEW t \in Thread, Own(t)
      PROVE  Shape'
  <2>1. SameCandidates /\ proc' \in [Thread -> Proc]
    BY <1>8, <1>4 DEF Own, PC
  <2>2. file' \in [conf : Content, owned : BOOLEAN]
    BY <1>8 DEF Own, TypeOK
  <2>3. UNCHANGED <<running, told, requests>> /\ (Fault \/ UNCHANGED faults)
    BY <1>8 DEF Own
  <2>. QED
    BY <2>1, <2>2, <2>3, <1>5 DEF TypeOK
<1>9. ASSUME NEW t \in Thread, Verify(t)
      PROVE  Shape'
  <2>1. SameCandidates /\ proc' \in [Thread -> Proc]
    BY <1>9, <1>4 DEF Verify, PC
  <2>3. UNCHANGED <<file, running, told, requests>> /\ (Fault \/ UNCHANGED faults)
    BY <1>9 DEF Verify
  <2>. QED
    BY <2>1, <2>3, <1>5 DEF TypeOK
<1>10. ASSUME NEW t \in Thread, Restart(t)
      PROVE  Shape'
  <2>1. SameCandidates /\ proc' \in [Thread -> Proc]
    BY <1>10, <1>4 DEF Restart, PC
  <2>2. running' \in Conf \union {None}
    BY <1>10, LoadedType DEF Restart, TypeOK
  <2>3. UNCHANGED <<file, told, requests>> /\ (Fault \/ UNCHANGED faults)
    BY <1>10 DEF Restart
  <2>. QED
    BY <2>1, <2>2, <2>3, <1>5 DEF TypeOK
<1>11. ASSUME NEW t \in Thread, Finish(t)
      PROVE  Shape'
  <2>1. SameCandidates /\ proc' \in [Thread -> Proc]
    BY <1>11, <1>4 DEF Finish, PC
  <2>2. told' \in [Inbound -> Word]
    BY <1>11, TellType DEF Finish, TypeOK
  <2>3. UNCHANGED <<file, running, requests>> /\ (Fault \/ UNCHANGED faults)
    BY <1>11 DEF Finish
  <2>. QED
    BY <2>1, <2>2, <2>3, <1>5 DEF TypeOK
<1>12. ASSUME NEW t \in Thread, Restore(t)
      PROVE  Shape'
  <2>1. SameCandidates /\ proc' \in [Thread -> Proc]
    BY <1>12, <1>4 DEF Restore, PC
  <2>2. file' \in [conf : Content, owned : BOOLEAN]
    <3>1. file.owned \in BOOLEAN /\ file \in [conf : Content, owned : BOOLEAN]
      BY DEF TypeOK
    <3>2. proc[t].backup \in Content /\ Torn \in Content
      BY ProcTypes DEF Content
    <3>3. \/ file' = file \/ file' = [file EXCEPT !.conf = Torn]
          \/ file' = [file EXCEPT !.conf = proc[t].backup]
          \/ \E o \in BOOLEAN : file' = [conf |-> proc[t].backup, owned |-> o]
      BY <1>12, <3>1 DEF Restore
    <3>. QED
      BY <3>1, <3>2, <3>3, FileType
  <2>3. UNCHANGED <<running, told, requests>> /\ (Fault \/ UNCHANGED faults)
    BY <1>12 DEF Restore
  <2>. QED
    BY <2>1, <2>2, <2>3, <1>5 DEF TypeOK
<1>13. ASSUME NEW t \in Thread, Rerun(t)
      PROVE  Shape'
  <2>1. SameCandidates /\ proc' \in [Thread -> Proc]
    BY <1>13, <1>4 DEF Rerun, PC
  <2>2. running' \in Conf \union {None}
    BY <1>13, LoadedType DEF Rerun, AfterRollback, TypeOK
  <2>3. told' \in [Inbound -> Word]
    BY <1>13, TellType DEF Rerun, TypeOK
  <2>4. UNCHANGED <<file, requests>> /\ (Fault \/ UNCHANGED faults)
    BY <1>13 DEF Rerun
  <2>. QED
    BY <2>1, <2>2, <2>3, <2>4, <1>5 DEF TypeOK
<1>14. CASE XrayRestarts
  BY <1>14, LoadedType DEF XrayRestarts, TypeOK
<1>15. ASSUME NEW T \in SUBSET Thread, Dies(T)
      PROVE  Shape'
  <2>1. SameCandidates /\ proc' \in [Thread -> Proc]
    <3>1. Idle \in Proc
      BY DEF Idle, Proc, PC, Content
    <3>. QED
      BY <1>15, <3>1 DEF Dies, TypeOK
  <2>2. file' \in [conf : Content, owned : BOOLEAN]
    BY <1>15 DEF Dies, TypeOK, Content
  <2>3. UNCHANGED <<running, told, requests>> /\ (Fault \/ UNCHANGED faults)
    BY <1>15 DEF Dies
  <2>. QED
    BY <2>1, <2>2, <2>3, <1>5 DEF TypeOK
<1>16. CASE UNCHANGED vars
  BY <1>16 DEF vars, TypeOK
<1>. QED
  BY <1>1, <1>2, <1>3, <1>6, <1>7, <1>8, <1>9, <1>10, <1>11, <1>12, <1>13, <1>14,
     <1>15, <1>16 DEF Next, Step, Edit, Op

\* Every state has the type the module declares (all of XrayConfig's state).
THEOREM TypeCorrect == Spec => []TypeOK
<1>1. Shape => TypeOK
  BY DEF Shape
<1>. QED
  BY InitShape, ShapeStep, <1>1, PTL DEF Spec

-----------------------------------------------------------------------------
(* Where configurations come from.                                         *)

\* A step leaves the file, backs it up, puts a tested candidate in its place or
\* a backup, or truncates it and has failed; and Xray loads the file or goes on.
Lineage ==
    /\ faults' \in Nat /\ faults' >= faults
    /\ \/ file'.conf = file.conf
       \/ file'.conf = Torn /\ faults' > 0
       \/ Accepted(file'.conf)
       \/ \E t \in Thread : file'.conf = proc[t].backup
    /\ \A u \in Thread :
          \/ proc'[u].backup \in {None, proc[u].backup, file.conf}
          \/ proc'[u].backup = Torn /\ faults' > 0 /\ file.conf # None
    /\ running' \in {running, Loaded(file)}

\* Every step is of that kind.
LEMMA LineageStep == Shape /\ [Next]_vars => Lineage
<1>. SUFFICES ASSUME Shape, [Next]_vars PROVE Lineage
  OBVIOUS
<1>1. /\ file \in [conf : Content, owned : BOOLEAN]
      /\ faults \in Nat /\ proc \in [Thread -> Proc]
  BY DEF Shape, TypeOK
<1>2. (UNCHANGED faults \/ Fault) => faults' \in Nat /\ faults' >= faults
  BY <1>1 DEF Fault
<1>3. Fault => faults' > 0
  BY <1>1 DEF Fault
\* What is left to show of a step that leaves the file, or Xray, alone.
<1>. DEFINE Backups == \A u \in Thread : proc'[u].backup \in {None, proc[u].backup, file.conf}
<1>4. ASSUME NEW t \in Thread, Done(t) \/ \E pc \in PC : Goto(t, pc)
      PROVE  Backups
  BY <1>1, <1>4 DEF Done, Goto, Idle, Proc
<1>5. ASSUME NEW t \in Thread, NEW p \in Proc, p.backup = None, Begin(t, p)
      PROVE  Backups
  <2>1. [p EXCEPT !.alone = UnderWay = {}].backup = None
    BY <1>5 DEF Proc
  <2>2. \A u \in Thread : [proc[u] EXCEPT !.alone = FALSE].backup = proc[u].backup
    BY <1>1 DEF Proc
  <2>. QED
    BY <1>5, <2>1, <2>2 DEF Begin
<1>6. ASSUME NEW t \in Thread, NEW op \in Op, NEW i \in Inbound \union {None},
             BeginEdit(t, op, i)
      PROVE  Lineage
  <2>1. Edited(op, i) \in Conf
    BY <1>6, EditedType DEF BeginEdit, Shape
  <2>. DEFINE p == [Idle EXCEPT !.pc = "backup", !.op = op, !.i = i,
                                !.conf = Edited(op, i)]
  <2>2. p \in Proc /\ p.backup = None
    BY <2>1 DEF Idle, Proc, PC, Content
  <2>3. Begin(t, p) /\ UNCHANGED <<file, running, faults>>
    BY <1>6 DEF BeginEdit
  <2>. HIDE DEF p
  <2>. QED
    BY <1>2, <1>5, <2>2, <2>3 DEF Lineage
<1>7. ASSUME NEW t \in Thread, NEW i \in Inbound, NEW op \in Op, AnswerNeedless(t, op, i)
      PROVE  Lineage
  BY <1>2, <1>7 DEF AnswerNeedless, Lineage
<1>8. ASSUME NEW t \in Thread, NEW c \in Expert, BeginApply(t, c)
      PROVE  Lineage
  <2>. DEFINE p == [Idle EXCEPT !.pc = "backup", !.op = "apply", !.conf = c]
  <2>2. p \in Proc /\ p.backup = None
    BY DEF Idle, Proc, PC, Content, Op
  <2>3. Begin(t, p) /\ UNCHANGED <<file, running, faults>>
    BY <1>8 DEF BeginApply
  <2>. HIDE DEF p
  <2>. QED
    BY <1>2, <1>5, <2>2, <2>3 DEF Lineage
<1>9. ASSUME NEW t \in Thread, BackUp(t)
      PROVE  Lineage
  <2>1. PICK c \in {file.conf, Torn} : BackUpLeaves(t, c)
    BY <1>1, <1>9, BackUpMoves DEF Shape
  <2>2. \A u \in Thread : proc'[u].backup \in {None, proc[u].backup, file.conf, c}
    BY <2>1 DEF BackUpLeaves, Idle
  <2>3. c # file.conf => c = Torn /\ faults' > 0 /\ file.conf # None
    BY <1>3, <2>1 DEF BackUpLeaves
  <2>. QED
    BY <1>2, <1>9, <2>2, <2>3 DEF BackUp, Lineage
<1>10. ASSUME NEW t \in Thread, Replace(t)
      PROVE  Lineage
  <2>1. Backups
    BY <1>4, <1>10 DEF Replace, PC
  <2>2. file'.conf = file.conf \/ Accepted(file'.conf)
    BY <1>10 DEF Replace, Tested
  <2>. QED
    BY <1>2, <1>10, <2>1, <2>2 DEF Replace, Lineage
<1>11. ASSUME NEW t \in Thread, Own(t)
      PROVE  Lineage
  <2>1. Backups
    BY <1>4, <1>11 DEF Own, PC
  <2>2. file'.conf = file.conf
    BY <1>1, <1>11 DEF Own
  <2>. QED
    BY <1>2, <1>11, <2>1, <2>2 DEF Own, Lineage
<1>12. ASSUME NEW t \in Thread, Verify(t)
      PROVE  Lineage
  <2>1. Backups
    BY <1>4, <1>12 DEF Verify, PC
  <2>. QED
    BY <1>2, <1>12, <2>1 DEF Verify, Lineage
<1>13. ASSUME NEW t \in Thread, Restart(t)
      PROVE  Lineage
  <2>1. Backups
    BY <1>4, <1>13 DEF Restart, PC
  <2>. QED
    BY <1>2, <1>13, <2>1 DEF Restart, Lineage
<1>14. ASSUME NEW t \in Thread, Finish(t)
      PROVE  Lineage
  <2>1. Backups
    BY <1>4, <1>14 DEF Finish, PC
  <2>. QED
    BY <1>2, <1>14, <2>1 DEF Finish, Lineage
<1>15. ASSUME NEW t \in Thread, Restore(t)
      PROVE  Lineage
  <2>1. Backups
    BY <1>4, <1>15 DEF Restore, PC
  <2>2. \/ file'.conf = file.conf
        \/ file'.conf = Torn /\ faults' > 0
        \/ file'.conf = proc[t].backup
    BY <1>1, <1>3, <1>15 DEF Restore
  <2>. QED
    BY <1>2, <1>15, <2>1, <2>2 DEF Restore, Lineage
<1>16. ASSUME NEW t \in Thread, Rerun(t)
      PROVE  Lineage
  <2>1. Backups
    BY <1>4, <1>16 DEF Rerun
  <2>. QED
    BY <1>2, <1>16, <2>1 DEF Rerun, AfterRollback, Lineage
<1>17. CASE XrayRestarts
  BY <1>2, <1>17 DEF XrayRestarts, Lineage
<1>18. ASSUME NEW T \in SUBSET Thread, Dies(T)
      PROVE  Lineage
  <2>1. Backups
    BY <1>1, <1>18 DEF Dies, Idle
  <2>2. file'.conf = file.conf \/ (file'.conf = Torn /\ faults' > 0)
    BY <1>1, <1>3, <1>18 DEF Dies
  <2>. QED
    BY <1>2, <1>18, <2>1, <2>2 DEF Dies, Lineage
<1>19. CASE UNCHANGED vars
  BY <1>2, <1>19 DEF vars, Lineage
<1>. QED
  BY <1>6, <1>7, <1>8, <1>9, <1>10, <1>11, <1>12, <1>13, <1>14, <1>15, <1>16, <1>17,
     <1>18, <1>19 DEF Next, Step, Edit, Op

\* What a backup may hold: a configuration that has passed the test, or what a
\* failed copy has left.
Sound(c, n) == (c \in Conf => Accepted(c)) /\ (c = Torn => n > 0)

Tests ==
    /\ Sound(file.conf, faults)
    /\ \A t \in Thread : Sound(proc[t].backup, faults)
    /\ running # None => Accepted(running)

\* The configuration without inbounds passes the test.
LEMMA InitTests == Init => Tests
<1>1. Accepted(Empty) /\ None \notin Conf /\ None # Torn /\ Empty # Torn
  BY DEF Accepted, Has, Empty, Conf, State
<1>. QED
  BY <1>1 DEF Init, Tests, Sound, Idle

\* What comes from the file, a backup or a tested candidate has passed the test.
LEMMA TestsStep == Tests /\ Shape /\ [Next]_vars => Tests'
<1>. SUFFICES ASSUME Tests, Lineage, faults \in Nat PROVE Tests'
  BY LineageStep DEF Shape, TypeOK
<1>1. \A c : Sound(c, faults) => Sound(c, faults')
  BY DEF Sound, Lineage
<1>2. /\ Sound(None, faults') /\ (faults' > 0 => Sound(Torn, faults'))
      /\ \A c : Accepted(c) => Sound(c, faults')
  BY DEF Sound, Accepted
<1>3. Sound(file'.conf, faults')
  BY <1>1, <1>2 DEF Lineage, Tests, Sound
<1>4. \A t \in Thread : Sound(proc'[t].backup, faults')
  BY <1>1, <1>2 DEF Lineage, Tests
<1>5. running' # None => Accepted(running')
  BY DEF Lineage, Tests, Loaded
<1>. QED
  BY <1>3, <1>4, <1>5 DEF Tests

\* Only what has passed the test is written, restored or loaded: for every number
\* of threads, through races, rollbacks and crashes.
THEOREM OnlyTestedConfigurations == Spec => []OnlyTested
<1>1. Tests => OnlyTested
  BY DEF Tests, Sound, OnlyTested
<1>. QED
  BY InitShape, ShapeStep, InitTests, TestsStep, <1>1, PTL DEF Spec

-----------------------------------------------------------------------------
(* Whose turn it is.                                                       *)

\* A thread that goes on changes nothing of its operation.
LEMMA GotoMoves ==
    ASSUME TypeOK, NEW t \in Thread, NEW pc, Goto(t, pc)
    PROVE  /\ proc'[t].pc = pc
           /\ proc'[t].op = proc[t].op /\ proc'[t].i = proc[t].i
           /\ proc'[t].conf = proc[t].conf /\ proc'[t].backup = proc[t].backup
           /\ proc'[t].alone = proc[t].alone
           /\ \A u \in Thread \ {t} : proc'[u] = proc[u]
  BY DEF TypeOK, Goto, Proc

\* A thread that is done is idle, and the others stay where they are.
LEMMA DoneMoves ==
    ASSUME TypeOK, NEW t \in Thread, Done(t)
    PROVE  /\ proc'[t] = Idle /\ Idle.pc = "idle" /\ Idle.backup = None
           /\ \A u \in Thread \ {t} : proc'[u] = proc[u]
  BY DEF TypeOK, Done, Idle

\* Who begins is alone if nobody was there, and nobody else is.
LEMMA AloneFields ==
    ASSUME NEW p \in Proc, NEW a, NEW q, q = [p EXCEPT !.alone = a]
    PROVE  /\ q.alone = a /\ q.pc = p.pc /\ q.op = p.op /\ q.i = p.i
           /\ q.conf = p.conf /\ q.backup = p.backup
  BY DEF Proc

\* The others keep their operations, and are no longer alone.
LEMMA BeginMoves ==
    ASSUME TypeOK, NEW t \in Thread, NEW p \in Proc, Begin(t, p)
    PROVE  /\ proc[t].pc = "idle"
           /\ proc'[t].alone = (UnderWay = {}) /\ proc'[t].pc = p.pc
           /\ proc'[t].op = p.op /\ proc'[t].i = p.i
           /\ proc'[t].conf = p.conf /\ proc'[t].backup = p.backup
           /\ \A u \in Thread \ {t} :
                 \/ proc[u].pc = "idle" /\ proc'[u] = proc[u]
                 \/ /\ ~proc'[u].alone /\ proc'[u].pc = proc[u].pc
                    /\ proc[u].pc # "idle"
                    /\ proc'[u].op = proc[u].op /\ proc'[u].i = proc[u].i
                    /\ proc'[u].conf = proc[u].conf /\ proc'[u].backup = proc[u].backup
<1>1. proc[t].pc = "idle" /\ proc'[t] = [p EXCEPT !.alone = UnderWay = {}]
  BY DEF Begin, UnderWay
<1>2. \A u \in Thread \ {t} :
         IF proc[u].pc = "idle" THEN proc'[u] = proc[u]
         ELSE proc'[u] = [proc[u] EXCEPT !.alone = FALSE]
  BY DEF Begin, UnderWay
<1>3. \A u \in Thread : proc[u] \in Proc
  BY DEF TypeOK
<1>4. /\ proc'[t].alone = (UnderWay = {}) /\ proc'[t].pc = p.pc
      /\ proc'[t].op = p.op /\ proc'[t].i = p.i
      /\ proc'[t].conf = p.conf /\ proc'[t].backup = p.backup
  BY <1>1, AloneFields
<1>5. ASSUME NEW u \in Thread \ {t}, proc[u].pc # "idle"
      PROVE  /\ ~proc'[u].alone /\ proc'[u].pc = proc[u].pc
             /\ proc'[u].op = proc[u].op /\ proc'[u].i = proc[u].i
             /\ proc'[u].conf = proc[u].conf /\ proc'[u].backup = proc[u].backup
  <2>1. proc'[u] = [proc[u] EXCEPT !.alone = FALSE] /\ proc[u] \in Proc
    BY <1>2, <1>3, <1>5
  <2>. QED
    BY <2>1, AloneFields
<1>. QED
  BY <1>1, <1>2, <1>4, <1>5

\* The beginning of an operation: its candidate differs from the file only in the
\* inbounds it is about.
Begins(t) ==
    \E p \in Proc :
        /\ Begin(t, p)
        /\ p.pc = "backup" /\ p.backup = None /\ p.conf \in Conf
        /\ \A i \in Inbound \ About(p) :
              file.conf # Torn /\ (file.conf \in Conf => p.conf[i] = file.conf[i])
        /\ UNCHANGED <<file, running, faults>>

\* An edit begins an operation about one inbound, or about none.
LEMMA EditBegins ==
    ASSUME TypeOK, NEW t \in Thread, NEW op \in Op, NEW i \in Inbound \union {None},
           BeginEdit(t, op, i)
    PROVE  Begins(t)
<1>. DEFINE p == [Idle EXCEPT !.pc = "backup", !.op = op, !.i = i,
                              !.conf = Edited(op, i)]
<1>1. Base(op) \in Conf /\ Edited(op, i) \in Conf
  BY EditedType DEF BeginEdit
<1>2. /\ p.pc = "backup" /\ p.op = op /\ p.i = i
      /\ p.conf = Edited(op, i) /\ p.backup = None
  BY DEF Idle
<1>3. p \in Proc
  BY <1>1 DEF Idle, Proc, PC, Content
<1>4. \A j \in Inbound : j # i => Edited(op, i)[j] = Base(op)[j]
  BY <1>1 DEF Edited, Conf
<1>5. file.conf # Torn /\ (file.conf \in Conf => Base(op) = file.conf)
  BY <1>1 DEF Base, TypeOK, Content
<1>6. \A j \in Inbound \ About(p) : j # i \/ op = "apply"
  BY <1>2 DEF About
<1>7. op = "apply" => Edited(op, i) = Base(op)
  BY DEF Edited
<1>8. Begin(t, p) /\ UNCHANGED <<file, running, faults>>
  BY DEF BeginEdit
<1>9. p.pc = "backup" /\ p.backup = None /\ p.conf = Edited(op, i)
  BY <1>2
<1>. HIDE DEF p
<1>. QED
  BY <1>1, <1>3, <1>4, <1>5, <1>6, <1>7, <1>8, <1>9 DEF Begins

\* A configuration from the editor is about all of them.
LEMMA ApplyBegins ==
    ASSUME TypeOK, NEW t \in Thread, NEW c \in Expert, BeginApply(t, c)
    PROVE  Begins(t)
<1>. DEFINE p == [Idle EXCEPT !.pc = "backup", !.op = "apply", !.conf = c]
<1>1. p.pc = "backup" /\ p.op = "apply" /\ p.conf = c /\ p.backup = None
  BY DEF Idle
<1>2. p \in Proc /\ c \in Conf
  BY DEF Idle, Proc, PC, Content, Op
<1>3. About(p) = Inbound
  BY <1>1 DEF About
<1>4. Begin(t, p) /\ UNCHANGED <<file, running, faults>>
  BY DEF BeginApply
<1>5. p.pc = "backup" /\ p.backup = None /\ p.conf = c
  BY <1>1
<1>. HIDE DEF p
<1>. QED
  BY <1>2, <1>3, <1>4, <1>5 DEF Begins

\* A step is the beginning of an operation, or goes on with one, or is Xray's.
LEMMA Steps ==
    ASSUME TypeOK, Next
    PROVE  \/ \E t \in Thread : Begins(t)
           \/ \E t \in Thread, i \in Inbound, op \in {"disable", "enable"} :
                 AnswerNeedless(t, op, i)
           \/ \E t \in Thread : Step(t)
           \/ XrayRestarts
           \/ \E T \in SUBSET Thread : Dies(T)
<1>1. ASSUME NEW t \in Thread, Edit(t)
      PROVE  \/ Begins(t)
             \/ \E i \in Inbound, op \in {"disable", "enable"} : AnswerNeedless(t, op, i)
  BY <1>1, EditBegins, ApplyBegins DEF Edit, Op
<1>. QED
  BY <1>1 DEF Next

\* An operation that is alone: nobody else is in one, and what it has written or
\* put back is there.
Turn(t) ==
    /\ \A u \in Thread \ {t} : proc[u].pc = "idle"
    /\ proc[t].pc \in {"own", "verify", "restart", "finish"}
          => file.conf = proc[t].conf
    /\ proc[t].pc = "finish" => running \in {None, proc[t].conf}
    /\ proc[t].pc = "rerun" => file.conf = proc[t].backup

Turns == \A t \in Thread : proc[t].pc # "idle" /\ proc[t].alone => Turn(t)

\* An operation that is alone keeps its turn: nobody else moves.
LEMMA TurnsStep == Shape /\ Turns /\ [Next]_vars => Turns'
<1>. SUFFICES ASSUME Shape, Turns, [Next]_vars PROVE Turns'
  OBVIOUS
<1>1. TypeOK /\ \A u \in Thread : proc[u] \in Proc
  BY DEF Shape, TypeOK
<1>2. Loaded(file) \in {None, file.conf}
  BY DEF Loaded
\* The others stay where they are while one goes on.
<1>. DEFINE Others(t) == \A u \in Thread \ {t} : /\ proc'[u].pc = proc[u].pc
                                                 /\ proc'[u].alone = proc[u].alone
<1>3. ASSUME NEW t \in Thread, proc[t].pc # "idle", Others(t),
             proc'[t].pc # "idle" /\ proc'[t].alone =>
               /\ proc[t].alone
               /\ (proc'[t].pc \in {"own", "verify", "restart", "finish"}
                     => file'.conf = proc'[t].conf)
               /\ (proc'[t].pc = "finish" => running' \in {None, proc'[t].conf})
               /\ (proc'[t].pc = "rerun" => file'.conf = proc'[t].backup)
      PROVE  Turns'
  <2>1. \A u \in Thread \ {t} : ~(proc[u].pc # "idle" /\ proc[u].alone)
    BY <1>3 DEF Turns, Turn
  <2>2. \A u \in Thread \ {t} : ~(proc'[u].pc # "idle" /\ proc'[u].alone)
    BY <1>3, <2>1
  <2>3. proc'[t].pc # "idle" /\ proc'[t].alone => \A u \in Thread \ {t} : proc'[u].pc = "idle"
    BY <1>3 DEF Turns, Turn
  <2>4. ASSUME proc'[t].pc # "idle", proc'[t].alone PROVE Turn(t)'
    BY <1>3, <2>3, <2>4 DEF Turn
  <2>. QED
    BY <2>2, <2>4 DEF Turns
<1>4. ASSUME NEW t \in Thread, Begins(t)
      PROVE  Turns'
  <2>1. PICK p \in Proc : /\ Begin(t, p) /\ p.pc = "backup"
    BY <1>4 DEF Begins
  <2>2. proc'[t].pc = "backup" /\ (proc'[t].alone => UnderWay = {})
    BY <1>1, <2>1, BeginMoves
  <2>3. \A u \in Thread \ {t} : proc'[u].pc # "idle" => proc[u].pc # "idle" /\ ~proc'[u].alone
    BY <1>1, <2>1, BeginMoves
  <2>. QED
    BY <2>2, <2>3 DEF Turns, Turn, UnderWay
<1>5. ASSUME NEW t \in Thread, NEW i \in Inbound, NEW op \in Op, AnswerNeedless(t, op, i)
      PROVE  Turns'
  BY <1>5 DEF AnswerNeedless, Turns, Turn
<1>6. ASSUME NEW t \in Thread, BackUp(t)
      PROVE  Turns'
  <2>1. PICK c \in {file.conf, Torn} : BackUpLeaves(t, c)
    BY <1>1, <1>6, BackUpMoves
  <2>2. Others(t)
    BY <2>1 DEF BackUpLeaves, SameOperation
  <2>3. proc'[t].pc \in {"idle", "replace"} /\ (proc'[t].pc = "replace" => proc'[t].alone = proc[t].alone)
    BY <2>1 DEF BackUpLeaves, SameOperation, Idle
  <2>. QED
    BY <1>3, <1>6, <2>2, <2>3 DEF BackUp
<1>7. ASSUME NEW t \in Thread, Replace(t)
      PROVE  Turns'
  <2>1. CASE Goto(t, "own") /\ file' = [conf |-> proc[t].conf, owned |-> FALSE]
    BY <1>1, <1>3, <1>7, <2>1, GotoMoves DEF Replace
  <2>2. CASE Goto(t, "restore")
    BY <1>1, <1>3, <1>7, <2>2, GotoMoves DEF Replace
  <2>. QED
    BY <1>7, <2>1, <2>2 DEF Replace
<1>8. ASSUME NEW t \in Thread, Own(t)
      PROVE  Turns'
  <2>1. file'.conf = file.conf
    BY <1>1, <1>8 DEF Own, TypeOK
  <2>2. CASE Goto(t, "verify")
    BY <1>1, <1>3, <1>8, <2>1, <2>2, GotoMoves DEF Own, Turns, Turn
  <2>3. CASE Goto(t, "restore")
    BY <1>1, <1>3, <1>8, <2>3, GotoMoves DEF Own
  <2>. QED
    BY <1>8, <2>2, <2>3 DEF Own
<1>9. ASSUME NEW t \in Thread, Verify(t)
      PROVE  Turns'
  <2>2. CASE Goto(t, "restart")
    BY <1>1, <1>3, <1>9, <2>2, GotoMoves DEF Verify, Turns, Turn
  <2>3. CASE Goto(t, "restore")
    BY <1>1, <1>3, <1>9, <2>3, GotoMoves DEF Verify
  <2>. QED
    BY <1>9, <2>2, <2>3 DEF Verify
<1>10. ASSUME NEW t \in Thread, Restart(t)
      PROVE  Turns'
  <2>2. CASE Goto(t, "finish") /\ running' = Loaded(file)
    BY <1>1, <1>2, <1>3, <1>10, <2>2, GotoMoves DEF Restart, Turns, Turn
  <2>3. CASE Goto(t, "restore")
    BY <1>1, <1>3, <1>10, <2>3, GotoMoves DEF Restart
  <2>. QED
    BY <1>10, <2>2, <2>3 DEF Restart
<1>11. ASSUME NEW t \in Thread, Finish(t)
      PROVE  Turns'
  <2>2. CASE Done(t)
    BY <1>1, <1>3, <1>11, <2>2, DoneMoves DEF Finish
  <2>3. CASE Goto(t, "restore")
    BY <1>1, <1>3, <1>11, <2>3, GotoMoves DEF Finish
  <2>. QED
    BY <1>11, <2>2, <2>3 DEF Finish
<1>12. ASSUME NEW t \in Thread, Restore(t)
      PROVE  Turns'
  <2>2. CASE Done(t)
    BY <1>1, <1>3, <1>12, <2>2, DoneMoves DEF Restore
  <2>3. CASE ~Done(t)
    <3>1. Goto(t, "rerun") /\ file'.conf = proc[t].backup
      BY <1>12, <2>3 DEF Restore
    <3>. QED
      BY <1>1, <1>3, <1>12, <3>1, GotoMoves DEF Restore
  <2>. QED
    BY <2>2, <2>3
<1>13. ASSUME NEW t \in Thread, Rerun(t)
      PROVE  Turns'
  BY <1>1, <1>3, <1>13, DoneMoves DEF Rerun
<1>14. CASE XrayRestarts
  BY <1>2, <1>14 DEF XrayRestarts, Turns, Turn
<1>15. ASSUME NEW T \in SUBSET Thread, Dies(T)
      PROVE  Turns'
  <2>1. \A u \in T : proc[u].pc # "idle" /\ proc'[u].pc = "idle"
    BY <1>15 DEF Dies, UnderWay, Idle
  <2>2. \A u \in Thread \ T : proc'[u] = proc[u]
    BY <1>15 DEF Dies
  <2>3. T # {} /\ running' = running
    BY <1>15 DEF Dies
  <2>. QED
    BY <2>1, <2>2, <2>3 DEF Turns, Turn
<1>16. CASE UNCHANGED vars
  BY <1>16 DEF vars, Turns, Turn
<1>. QED
  BY <1>1, <1>4, <1>5, <1>6, <1>7, <1>8, <1>9, <1>10, <1>11, <1>12, <1>13, <1>14,
     <1>15, <1>16, Steps DEF Step, Op

-----------------------------------------------------------------------------
(* What has been told is kept.                                             *)

\* The file, and Xray, are as told of inbound i.
Holds(i) ==
    /\ file.conf # Torn => file.conf \in Conf /\ file.conf[i] = told[i].state
    /\ told[i].live /\ running # None => running[i] = told[i].state

\* Operation p will not change that: it is about other inbounds, and its candidate
\* and its backup are as told.
Respects(p, i) ==
    /\ i \notin About(p)
    /\ p.conf[i] = told[i].state
    /\ p.pc # "backup" =>
         p.backup = Torn \/ (p.backup \in Conf /\ p.backup[i] = told[i].state)

Words ==
    \A i \in Inbound :
        told[i] # Nothing =>
            Holds(i) /\ \A t \in Thread : proc[t].pc # "idle" => Respects(proc[t], i)

\* At the beginning nothing has been told.
LEMMA InitWords == Init => Turns /\ Words
  BY DEF Init, Turns, Words, Idle

\* A step that tells nothing keeps the word if the file and Xray stay as told and
\* those who are in an operation respect it.
LEMMA KeepWords ==
    ASSUME UNCHANGED told,
           \A i \in Inbound : told[i] # Nothing =>
              /\ Holds(i)'
              /\ \A t \in Thread : proc'[t].pc # "idle" => Respects(proc[t], i)'
    PROVE  Words'
  BY DEF Words

\* No step breaks a word: who began without knowing of it has read a file that agrees.
LEMMA WordsStep == Shape /\ Turns /\ Words /\ [Next]_vars => Words'
<1>. SUFFICES ASSUME Shape, Turns, Words, [Next]_vars PROVE Words'
  OBVIOUS
<1>1. TypeOK /\ (\A u \in Thread : proc[u] \in Proc) /\ Torn \notin Conf /\ Torn # None
  BY DEF Shape, TypeOK
<1>2. Loaded(file) = None \/ (Loaded(file) = file.conf /\ file.conf \in Conf)
  BY DEF Loaded, Accepted
\* What the step of a thread may do to the file, to Xray and to backups.
<1>. DEFINE AsTold(c, i) == c = Torn \/ (c \in Conf /\ c[i] = told[i].state)
<1>3. ASSUME NEW i \in Inbound, told[i] # Nothing
      PROVE  /\ AsTold(file.conf, i)
             /\ told[i].live /\ running # None => running[i] = told[i].state
             /\ told[i].live /\ Loaded(file) # None => Loaded(file)[i] = told[i].state
             /\ \A t \in Thread : proc[t].pc # "idle" => Respects(proc[t], i)
  BY <1>1, <1>2, <1>3 DEF Words, Holds
<1>4. ASSUME NEW i \in Inbound, UNCHANGED told, AsTold(file'.conf, i),
             told[i].live /\ running' # None => running'[i] = told[i].state
      PROVE  Holds(i)'
  BY <1>4 DEF Holds
<1>5. ASSUME NEW i \in Inbound, told[i] # Nothing, UNCHANGED told, NEW u \in Thread,
             proc[u].pc # "idle", proc[u].pc # "backup", SameOperation(u),
             proc'[u].backup \in {proc[u].backup, file.conf, Torn}
      PROVE  Respects(proc[u], i)'
  BY <1>3, <1>5 DEF Respects, About, SameOperation
<1>6. ASSUME NEW i \in Inbound, UNCHANGED told, NEW u \in Thread,
             proc'[u] = proc[u], Respects(proc[u], i)
      PROVE  Respects(proc[u], i)'
  BY <1>6 DEF Respects, About
\* A thread goes on, or is done without an answer that counts.
<1>7. ASSUME NEW t \in Thread, UNCHANGED told,
             \/ Done(t)
             \/ /\ proc[t].pc # "backup" /\ proc[t].pc # "idle"
                /\ \E pc \in PC : Goto(t, pc),
             \A i \in Inbound : told[i] # Nothing =>
                /\ AsTold(file'.conf, i)
                /\ told[i].live /\ running' # None => running'[i] = told[i].state
      PROVE  Words'
  <2>1. ASSUME NEW i \in Inbound, told[i] # Nothing, NEW u \in Thread,
               proc'[u].pc # "idle"
        PROVE  Respects(proc[u], i)'
    <3>1. CASE proc'[u] = proc[u]
      BY <1>3, <1>6, <1>7, <2>1, <3>1
    <3>2. CASE proc'[u] # proc[u]
      <4>1. u = t /\ ~Done(t)
        BY <1>1, <1>7, <2>1, <3>2, GotoMoves, DoneMoves
      <4>2. SameOperation(t) /\ proc'[t].backup = proc[t].backup
        BY <1>1, <1>7, <4>1, GotoMoves DEF SameOperation
      <4>. QED
        BY <1>5, <1>7, <2>1, <4>1, <4>2
    <3>. QED
      BY <3>1, <3>2
  <2>. QED
    BY <1>4, <1>7, <2>1, KeepWords
<1>8. ASSUME NEW t \in Thread, Begins(t)
      PROVE  Words'
  <2>1. PICK p \in Proc :
          /\ Begin(t, p)
          /\ p.pc = "backup" /\ p.backup = None /\ p.conf \in Conf
          /\ \A i \in Inbound \ About(p) :
                file.conf # Torn /\ (file.conf \in Conf => p.conf[i] = file.conf[i])
          /\ UNCHANGED <<file, running, faults>>
    BY <1>8 DEF Begins
  <2>2. ASSUME NEW i \in Inbound, told'[i] # Nothing
        PROVE  i \notin About(p) /\ told'[i] = told[i]
    BY <2>1, <2>2 DEF Begin
  <2>3. ASSUME NEW i \in Inbound, told'[i] # Nothing
        PROVE  Holds(i)'
    BY <1>3, <2>1, <2>2, <2>3 DEF Holds
  <2>4. ASSUME NEW i \in Inbound, told'[i] # Nothing
        PROVE  Respects(proc[t], i)'
    <3>1. /\ proc'[t].pc = "backup" /\ proc'[t].op = p.op /\ proc'[t].i = p.i
          /\ proc'[t].conf = p.conf
      BY <1>1, <2>1, BeginMoves
    <3>2. p.conf[i] = told'[i].state
      BY <1>3, <2>1, <2>2, <2>4
    <3>. QED
      BY <2>2, <2>4, <3>1, <3>2 DEF Respects, About
  <2>5. ASSUME NEW i \in Inbound, told'[i] # Nothing, NEW u \in Thread \ {t},
               proc'[u].pc # "idle"
        PROVE  Respects(proc[u], i)'
    <3>1. /\ proc'[u].pc = proc[u].pc /\ proc'[u].op = proc[u].op
          /\ proc'[u].i = proc[u].i /\ proc'[u].conf = proc[u].conf
          /\ proc'[u].backup = proc[u].backup
      BY <1>1, <2>1, <2>5, BeginMoves
    <3>2. Respects(proc[u], i)
      BY <1>3, <2>2, <2>5, <3>1
    <3>. QED
      BY <2>2, <2>5, <3>1, <3>2 DEF Respects, About
  <2>. QED
    BY <2>3, <2>4, <2>5 DEF Words
<1>9. ASSUME NEW t \in Thread, NEW i \in Inbound, NEW op \in {"disable", "enable"},
             AnswerNeedless(t, op, i)
      PROVE  Words'
  <2>1. UNCHANGED <<file, running, proc>>
    BY <1>9 DEF AnswerNeedless
  <2>2. CASE UNCHANGED told
    BY <2>1, <2>2 DEF Words, Holds, Respects, About
  <2>3. CASE ~UNCHANGED told
    <3>1. UnderWay = {} /\ told' = [told EXCEPT ![i].state = file.conf[i]]
      BY <1>9, <2>3 DEF AnswerNeedless
    <3>2. file.conf \in Conf
      BY <1>9 DEF AnswerNeedless, Refused, Base
    <3>3. ASSUME NEW j \in Inbound \ {i} PROVE told'[j] = told[j]
      BY <1>1, <3>1, <3>3 DEF TypeOK
    <3>4. told'[i].state = file.conf[i] /\ told'[i].live = told[i].live
      BY <1>1, <3>1 DEF TypeOK, Word
    <3>5. told[i].live => told[i].state = file.conf[i] /\ told[i] # Nothing
      BY <1>1, <1>3, <3>2 DEF Nothing
    <3>6. Holds(i)'
      BY <1>3, <2>1, <3>2, <3>4, <3>5 DEF Holds
    <3>7. \A j \in Inbound \ {i} : told[j] # Nothing => Holds(j)'
      BY <1>3, <2>1, <3>2, <3>3, <1>1 DEF Holds
    <3>8. \A u \in Thread : proc'[u].pc = "idle"
      BY <2>1, <3>1 DEF UnderWay
    <3>. QED
      BY <3>3, <3>6, <3>7, <3>8 DEF Words
  <2>. QED
    BY <2>2, <2>3
<1>10. ASSUME NEW t \in Thread, BackUp(t)
      PROVE  Words'
  <2>1. UNCHANGED <<file, running, told>> /\ proc[t].pc = "backup"
    BY <1>10 DEF BackUp
  <2>2. PICK c \in {file.conf, Torn} : BackUpLeaves(t, c)
    BY <1>1, <1>10, BackUpMoves
  <2>3. ASSUME NEW i \in Inbound, told[i] # Nothing, proc'[t].pc # "idle"
        PROVE  Respects(proc[t], i)'
    <3>1. proc'[t].pc = "replace" /\ proc'[t].backup = file.conf /\ SameOperation(t)
      BY <2>2, <2>3 DEF BackUpLeaves, Idle
    <3>2. Respects(proc[t], i) /\ AsTold(file.conf, i)
      BY <1>3, <2>1, <2>3
    <3>. QED
      BY <2>1, <3>1, <3>2 DEF Respects, About, SameOperation
  <2>4. ASSUME NEW i \in Inbound, told[i] # Nothing, NEW u \in Thread \ {t},
               proc'[u].pc # "idle"
        PROVE  Respects(proc[u], i)'
    <3>1. CASE proc'[u] = proc[u]
      BY <1>3, <1>6, <2>1, <2>4, <3>1
    <3>2. CASE proc'[u] # proc[u]
      <4>1. /\ proc'[u].backup \in {file.conf, Torn} /\ SameOperation(u)
            /\ proc[u].pc # "backup" /\ proc[u].pc # "idle"
        BY <2>2, <3>2 DEF BackUpLeaves
      <4>. QED
        BY <1>5, <2>1, <2>4, <4>1
    <3>. QED
      BY <3>1, <3>2
  <2>5. \A i \in Inbound : told[i] # Nothing => Holds(i)'
    BY <1>3, <1>4, <2>1
  <2>. QED
    BY <2>1, <2>3, <2>4, <2>5, KeepWords
<1>11. ASSUME NEW t \in Thread, Replace(t)
      PROVE  Words'
  <2>1. UNCHANGED <<running, told>> /\ proc[t].pc = "replace" /\ proc[t].conf \in Conf
    BY <1>11 DEF Replace, Shape
  <2>2. file'.conf \in {file.conf, proc[t].conf}
    BY <1>11 DEF Replace
  <2>3. \A i \in Inbound : told[i] # Nothing => AsTold(file'.conf, i)
    BY <1>3, <2>1, <2>2 DEF Respects
  <2>. QED
    BY <1>3, <1>7, <1>11, <2>1, <2>3 DEF Replace, PC
<1>12. ASSUME NEW t \in Thread, Own(t)
      PROVE  Words'
  <2>1. UNCHANGED <<running, told>> /\ proc[t].pc = "own"
    BY <1>12 DEF Own
  <2>2. file'.conf = file.conf
    BY <1>1, <1>12 DEF Own, TypeOK
  <2>. QED
    BY <1>3, <1>7, <1>12, <2>1, <2>2 DEF Own, PC
<1>13. ASSUME NEW t \in Thread, Verify(t)
      PROVE  Words'
  BY <1>3, <1>7, <1>13 DEF Verify, PC
<1>14. ASSUME NEW t \in Thread, Restart(t)
      PROVE  Words'
  <2>1. UNCHANGED <<file, told>> /\ proc[t].pc = "restart"
    BY <1>14 DEF Restart
  <2>2. running' \in {running, Loaded(file)}
    BY <1>14 DEF Restart
  <2>3. \E pc \in PC : Goto(t, pc)
    BY <1>14 DEF Restart, PC
  <2>. QED
    BY <1>3, <1>7, <2>1, <2>2, <2>3
<1>15. ASSUME NEW t \in Thread, Restore(t)
      PROVE  Words'
  <2>1. UNCHANGED <<running, told>> /\ proc[t].pc = "restore"
    BY <1>15 DEF Restore
  <2>2. file'.conf \in {file.conf, Torn, proc[t].backup}
    BY <1>1, <1>15 DEF Restore, TypeOK
  <2>3. \A i \in Inbound : told[i] # Nothing => AsTold(file'.conf, i)
    BY <1>3, <2>1, <2>2 DEF Respects
  <2>4. Done(t) \/ \E pc \in PC : Goto(t, pc)
    BY <1>15 DEF Restore, PC
  <2>. QED
    BY <1>3, <1>7, <2>1, <2>3, <2>4
\* An answer: what is told is what is there, and nobody else is in an operation.
<1>16. ASSUME NEW t \in Thread, proc[t].pc # "idle", Done(t), NEW c \in Conf,
              Tell(proc[t], c, TRUE), UNCHANGED file,
              running' \in {running, Loaded(file)},
              proc[t].alone => file.conf = c /\ running' \in {None, c}
      PROVE  Words'
  <2>1. CASE proc[t].alone
    <3>1. \A u \in Thread : proc'[u].pc = "idle"
      BY <1>1, <1>16, <2>1, DoneMoves DEF Turns, Turn
    <3>2. ASSUME NEW i \in Inbound, i \in About(proc[t])
          PROVE  Holds(i)'
      BY <1>16, <2>1, <3>2 DEF Tell, Holds
    <3>3. ASSUME NEW i \in Inbound, i \notin About(proc[t]), told[i] # Nothing
          PROVE  Holds(i)' /\ told'[i] = told[i]
      BY <1>1, <1>3, <1>16, <3>3 DEF Tell, Holds
    <3>4. ASSUME NEW i \in Inbound, i \notin About(proc[t]) PROVE told'[i] = told[i]
      BY <1>16, <3>4 DEF Tell
    <3>. QED
      BY <3>1, <3>2, <3>3, <3>4 DEF Words
  <2>2. CASE ~proc[t].alone
    <3>1. UNCHANGED told
      BY <1>1, <1>16, <2>2 DEF Tell, TypeOK
    <3>. QED
      BY <1>3, <1>7, <1>16, <3>1
  <2>. QED
    BY <2>1, <2>2
<1>17. ASSUME NEW t \in Thread, Finish(t)
      PROVE  Words'
  <2>1. UNCHANGED <<file, running>> /\ proc[t].pc = "finish" /\ proc[t].conf \in Conf
    BY <1>17 DEF Finish, Shape
  <2>2. CASE Tell(proc[t], proc[t].conf, TRUE) /\ Done(t)
    <3>1. proc[t].alone => file.conf = proc[t].conf /\ running \in {None, proc[t].conf}
      BY <2>1 DEF Turns, Turn
    <3>. QED
      BY <1>16, <2>1, <2>2, <3>1
  <2>3. CASE Goto(t, "restore") /\ UNCHANGED told
    BY <1>3, <1>7, <2>1, <2>3 DEF PC
  <2>. QED
    BY <1>17, <2>2, <2>3 DEF Finish
<1>18. ASSUME NEW t \in Thread, Rerun(t)
      PROVE  Words'
  <2>1. UNCHANGED file /\ proc[t].pc = "rerun" /\ Done(t)
    BY <1>18 DEF Rerun
  <2>2. running' \in {running, Loaded(file)}
    BY <1>18 DEF Rerun, AfterRollback
  <2>3. CASE UNCHANGED told
    BY <1>3, <1>7, <2>1, <2>2, <2>3
  <2>4. CASE ~UNCHANGED told
    <3>1. /\ proc[t].backup \in Conf /\ Tell(proc[t], proc[t].backup, TRUE)
          /\ running' = Loaded(file)
      BY <1>18, <2>4 DEF Rerun, AfterRollback
    <3>2. proc[t].alone => file.conf = proc[t].backup
      BY <2>1 DEF Turns, Turn
    <3>. QED
      BY <1>2, <1>16, <2>1, <3>1, <3>2
  <2>. QED
    BY <2>3, <2>4
<1>19. CASE XrayRestarts
  <2>1. UNCHANGED <<file, proc, told>> /\ running' = Loaded(file)
    BY <1>19 DEF XrayRestarts
  <2>. QED
    BY <1>3, <1>4, <1>6, <2>1, KeepWords
<1>20. ASSUME NEW T \in SUBSET Thread, Dies(T)
      PROVE  Words'
  <2>1. UNCHANGED <<running, told>>
    BY <1>20 DEF Dies
  <2>2. file'.conf \in {file.conf, Torn}
    BY <1>1, <1>20 DEF Dies, TypeOK
  <2>3. \A u \in Thread : proc'[u].pc # "idle" => proc'[u] = proc[u]
    BY <1>20 DEF Dies, Idle
  <2>. QED
    BY <1>3, <1>4, <1>6, <2>1, <2>2, <2>3, KeepWords
<1>21. CASE UNCHANGED vars
  BY <1>21 DEF vars, Words, Holds, Respects, About
<1>. QED
  BY <1>1, <1>8, <1>9, <1>10, <1>11, <1>12, <1>13, <1>14, <1>15, <1>17, <1>18, <1>19,
     <1>20, <1>21, Steps DEF Step

\* What an operation that met no other has answered holds, in the file and in Xray,
\* until an operation about that inbound begins.
THEOREM AnswersAreKept == Spec => []Kept
<1>1. Words => Kept
  BY DEF Words, Holds, Kept
<1>. QED
  BY InitShape, ShapeStep, InitWords, TurnsStep, WordsStep, <1>1, PTL DEF Spec

-----------------------------------------------------------------------------
(* Xray serves what the file says.                                         *)

\* A thread that is still to restart Xray.
Pending(t) ==
    \/ proc[t].pc \in {"own", "verify", "restart", "rerun"}
    \/ proc[t].pc = "restore" /\ proc[t].backup # None

\* There is no way back to having no file: an operation that has written one, and
\* one that has a backup, will find one.
HasFile ==
    /\ file.conf = None => \A t \in Thread : proc[t].backup = None
    /\ \A t \in Thread : proc[t].pc \in {"own", "verify"} => file.conf # None

\* Somebody is to restart Xray, or Xray is up to date; somebody is to hand the file
\* to Xray's user, or it is done.
Syncs ==
    /\ (\E t \in Thread : Pending(t)) \/ running = Loaded(file)
    /\ file.conf # None => file.owned \/ \E t \in Thread : proc[t].pc = "own"

\* Nothing removes the file, and Replace, which leads to the others, has written one.
LEMMA HasFileStep == Shape /\ HasFile /\ [Next]_vars => HasFile'
<1>. SUFFICES ASSUME Shape, HasFile, [Next]_vars PROVE HasFile'
  OBVIOUS
<1>1. TypeOK /\ (\A u \in Thread : proc[u] \in Proc) /\ Torn # None /\ None \notin Conf
  BY DEF Shape, TypeOK
<1>2. Lineage
  BY LineageStep
<1>3. file.conf # None => file'.conf # None
  <2>1. CASE \E t \in Thread : Restore(t)
    BY <1>1, <2>1 DEF Restore, TypeOK
  <2>2. CASE \E t \in Thread : Replace(t)
    BY <1>1, <2>2 DEF Replace, Tested, Accepted
  <2>3. CASE \E t \in Thread : Own(t)
    BY <1>1, <2>3 DEF Own, TypeOK
  <2>4. CASE \E T \in SUBSET Thread : Dies(T)
    BY <1>1, <2>4 DEF Dies, TypeOK
  <2>5. CASE \E t \in Thread : BackUp(t) \/ Verify(t) \/ Restart(t) \/ Finish(t) \/ Rerun(t)
    BY <2>5 DEF BackUp, Verify, Restart, Finish, Rerun
  <2>6. CASE XrayRestarts \/ UNCHANGED vars
    BY <2>6 DEF XrayRestarts, vars
  <2>7. CASE \E t \in Thread : Begins(t)
    BY <2>7 DEF Begins
  <2>8. CASE \E t \in Thread, i \in Inbound, op \in {"disable", "enable"} : AnswerNeedless(t, op, i)
    BY <2>8 DEF AnswerNeedless
  <2>. QED
    BY <1>1, <2>1, <2>2, <2>3, <2>4, <2>5, <2>6, <2>7, <2>8, Steps DEF Step
<1>4. file'.conf = None => \A t \in Thread : proc'[t].backup = None
  BY <1>2, <1>3 DEF Lineage, HasFile
<1>5. ASSUME NEW u \in Thread, proc'[u].pc \in {"own", "verify"}
      PROVE  file'.conf # None
  <2>1. CASE proc[u].pc \in {"own", "verify"}
    BY <1>3, <2>1 DEF HasFile
  <2>2. CASE proc[u].pc \notin {"own", "verify"}
    \* Only Replace leads there, with its candidate in place.
    <3>1. Replace(u)
      <4>1. ASSUME NEW t \in Thread, Begins(t) PROVE FALSE
        <5>1. PICK p \in Proc : Begin(t, p) /\ p.pc = "backup"
          BY <4>1 DEF Begins
        <5>. QED
          BY <1>1, <1>5, <2>2, <5>1, BeginMoves
      <4>2. ASSUME NEW t \in Thread, BackUp(t) PROVE FALSE
        BY <1>1, <1>5, <2>2, <4>2, BackUpMoves DEF BackUpLeaves, Idle
      <4>3. ASSUME NEW t \in Thread, Replace(t) PROVE u = t
        BY <1>1, <1>5, <2>2, <4>3, GotoMoves DEF Replace
      <4>4. ASSUME NEW t \in Thread, Own(t) PROVE FALSE
        BY <1>1, <1>5, <2>2, <4>4, GotoMoves DEF Own
      <4>5. ASSUME NEW t \in Thread, Verify(t) PROVE FALSE
        BY <1>1, <1>5, <2>2, <4>5, GotoMoves DEF Verify
      <4>6. ASSUME NEW t \in Thread, Restart(t) PROVE FALSE
        BY <1>1, <1>5, <2>2, <4>6, GotoMoves DEF Restart
      <4>7. ASSUME NEW t \in Thread, Finish(t) PROVE FALSE
        BY ZenonT(60), <1>1, <1>5, <2>2, <4>7, GotoMoves, DoneMoves DEF Finish
      <4>8. ASSUME NEW t \in Thread, Restore(t) PROVE FALSE
        BY <1>1, <1>5, <2>2, <4>8, GotoMoves, DoneMoves DEF Restore
      <4>9. ASSUME NEW t \in Thread, Rerun(t) PROVE FALSE
        BY <1>1, <1>5, <2>2, <4>9, DoneMoves DEF Rerun
      <4>10. ASSUME NEW T \in SUBSET Thread, Dies(T) PROVE FALSE
        BY <1>5, <2>2, <4>10 DEF Dies, Idle
      <4>11. CASE XrayRestarts \/ UNCHANGED vars
        BY <1>5, <2>2, <4>11 DEF XrayRestarts, vars
      <4>12. ASSUME NEW t \in Thread, NEW i \in Inbound, NEW op \in Op, AnswerNeedless(t, op, i)
             PROVE FALSE
        BY <1>5, <2>2, <4>12 DEF AnswerNeedless
      <4>. QED
        BY <1>1, <4>1, <4>2, <4>3, <4>4, <4>5, <4>6, <4>7, <4>8, <4>9, <4>10, <4>11,
           <4>12, Steps DEF Step, Op
    <3>. QED
      BY <1>1, <1>5, <3>1, GotoMoves DEF Replace, Tested, Accepted
  <2>. QED
    BY <2>1, <2>2
<1>. QED
  BY <1>4, <1>5 DEF HasFile

\* Without failures, a thread ceases to be pending by restarting Xray.
LEMMA SyncsStep ==
    ASSUME Shape, Tests, HasFile, Syncs, [Next]_vars, faults = 0, faults' = 0
    PROVE  Syncs'
<1>1. TypeOK /\ (\A u \in Thread : proc[u] \in Proc) /\ Torn # None /\ None \notin Conf
  BY DEF Shape, TypeOK
<1>2. ~Fault
  BY DEF Fault
<1>3. file.conf # Torn /\ (file.conf # None => Accepted(file.conf))
  BY <1>1 DEF Tests, Sound, TypeOK, Content
\* The others go on waiting; a shared backup that there was is one.
<1>4. ASSUME NEW v \in Thread, Pending(v), proc'[v].pc = proc[v].pc,
             proc'[v].backup \in {proc[v].backup, file.conf}
      PROVE  Pending(v)'
  BY <1>4 DEF Pending, HasFile
<1>5. ASSUME \A v \in Thread : Pending(v) => Pending(v)',
             \A v \in Thread : proc[v].pc = "own" => proc'[v].pc = "own",
             UNCHANGED <<file, running>>
      PROVE  Syncs'
  BY <1>5 DEF Syncs, Loaded
<1>6. ASSUME NEW t \in Thread, Begins(t)
      PROVE  Syncs'
  <2>1. PICK p \in Proc : Begin(t, p) /\ UNCHANGED <<file, running>>
    BY <1>6 DEF Begins
  <2>2. proc[t].pc = "idle"
    BY <1>1, <2>1, BeginMoves
  <2>3. ASSUME NEW v \in Thread \ {t}
        PROVE  proc'[v].pc = proc[v].pc /\ proc'[v].backup = proc[v].backup
    BY <1>1, <2>1, <2>3, BeginMoves
  <2>4. ~Pending(t) /\ proc[t].pc # "own"
    BY <2>2 DEF Pending
  <2>5. \A v \in Thread : Pending(v) => Pending(v)'
    BY <1>4, <2>3, <2>4
  <2>6. \A v \in Thread : proc[v].pc = "own" => proc'[v].pc = "own"
    BY <2>3, <2>4
  <2>. QED
    BY <1>5, <2>1, <2>5, <2>6
<1>7. ASSUME NEW t \in Thread, BackUp(t)
      PROVE  Syncs'
  <2>1. UNCHANGED <<file, running>> /\ proc[t].pc = "backup"
    BY <1>7 DEF BackUp
  <2>2. \A v \in Thread \ {t} : /\ proc'[v].pc = proc[v].pc
                                /\ proc'[v].backup \in {proc[v].backup, file.conf}
    BY <1>1, <1>2, <1>7, BackUpMoves DEF BackUpLeaves
  <2>3. ~Pending(t) /\ proc[t].pc # "own"
    BY <2>1 DEF Pending
  <2>4. \A v \in Thread : Pending(v) => Pending(v)'
    BY <1>4, <2>2, <2>3
  <2>5. \A v \in Thread : proc[v].pc = "own" => proc'[v].pc = "own"
    BY <2>2, <2>3
  <2>. QED
    BY <1>5, <2>1, <2>4, <2>5
\* A thread that goes on leaves the others where they are.
<1>8. ASSUME NEW t \in Thread, Done(t) \/ \E pc \in PC : Goto(t, pc), NEW v \in Thread \ {t}
      PROVE  /\ Pending(v) => Pending(v)'
             /\ proc[v].pc = "own" => proc'[v].pc = "own"
  <2>1. proc'[v] = proc[v]
    BY <1>1, <1>8, GotoMoves, DoneMoves
  <2>. QED
    BY <1>4, <2>1
<1>9. ASSUME NEW t \in Thread, Replace(t)
      PROVE  Syncs'
  <2>1. CASE Goto(t, "own")
    <3>1. proc'[t].pc = "own"
      BY <1>1, <2>1, GotoMoves
    <3>. QED
      BY <3>1 DEF Syncs, Pending
  <2>2. CASE Goto(t, "restore") /\ UNCHANGED file
    <3>1. ~Pending(t) /\ proc[t].pc # "own" /\ UNCHANGED running
      BY <1>9 DEF Replace, Pending
    <3>. QED
      BY <1>5, <1>8, <2>2, <3>1 DEF PC
  <2>. QED
    BY <1>9, <2>1, <2>2 DEF Replace
<1>10. ASSUME NEW t \in Thread, Own(t)
      PROVE  Syncs'
  <2>1. Goto(t, "verify") /\ file' = [file EXCEPT !.owned = TRUE]
    BY <1>2, <1>10 DEF Own
  <2>2. proc'[t].pc = "verify" /\ file'.owned
    BY <1>1, <2>1, GotoMoves DEF TypeOK
  <2>. QED
    BY <2>2 DEF Syncs, Pending
<1>11. ASSUME NEW t \in Thread, Verify(t)
      PROVE  Syncs'
  <2>1. UNCHANGED <<file, running>> /\ proc[t].pc = "verify"
    BY <1>11 DEF Verify
  <2>2. CASE Goto(t, "restart")
    <3>1. Pending(t)'
      BY <1>1, <2>2, GotoMoves DEF Pending
    <3>. QED
      BY <1>5, <1>8, <2>1, <2>2, <3>1 DEF PC
  <2>3. CASE Goto(t, "restore") /\ ~file.owned
    \* Somebody else has replaced the file and has yet to hand it over.
    <3>1. file.conf # None
      BY <2>1 DEF HasFile
    <3>2. PICK v \in Thread : proc[v].pc = "own"
      BY <2>3, <3>1 DEF Syncs
    <3>3. v # t
      BY <2>1, <3>2
    <3>4. Pending(v)' /\ proc'[v].pc = "own"
      BY <1>8, <2>3, <3>2, <3>3 DEF Pending, PC
    <3>. QED
      BY <3>4 DEF Syncs
  <2>4. Goto(t, "restart") \/ (Goto(t, "restore") /\ ~file.owned)
    <3>1. Accepted(file.conf)
      BY <1>3, <2>1 DEF HasFile
    <3>2. \/ Goto(t, "restart")
          \/ Goto(t, "restore") /\ ~(file.owned /\ Accepted(file.conf))
      BY <1>2, <1>11 DEF Verify
    <3>. QED
      BY <3>1, <3>2
  <2>. QED
    BY <2>2, <2>3, <2>4
<1>12. ASSUME NEW t \in Thread, Restart(t)
      PROVE  Syncs'
  <2>1. UNCHANGED file /\ running' = Loaded(file) /\ proc[t].pc = "restart"
    BY <1>2, <1>12 DEF Restart
  <2>2. Done(t) \/ \E pc \in PC : Goto(t, pc)
    BY <1>12 DEF Restart, PC
  <2>3. \A v \in Thread : proc[v].pc = "own" => proc'[v].pc = "own"
    BY <1>8, <2>1, <2>2
  <2>. QED
    BY <2>1, <2>3 DEF Syncs, Loaded
<1>13. ASSUME NEW t \in Thread, Finish(t)
      PROVE  Syncs'
  <2>1. UNCHANGED <<file, running>> /\ Done(t) /\ ~Pending(t) /\ proc[t].pc # "own"
    BY <1>2, <1>13 DEF Finish, Pending
  <2>. QED
    BY <1>5, <1>8, <2>1
<1>14. ASSUME NEW t \in Thread, Restore(t)
      PROVE  Syncs'
  <2>0. proc[t].pc = "restore" /\ UNCHANGED running
    BY <1>14 DEF Restore
  <2>1. CASE proc[t].backup = None
    <3>1. Done(t) /\ UNCHANGED file /\ ~Pending(t)
      BY <1>14, <2>1 DEF Restore, Pending
    <3>. QED
      BY <1>5, <1>8, <2>0, <3>1
  <2>2. CASE proc[t].backup # None
    <3>1. Goto(t, "rerun") /\ (file.owned => file'.owned)
      <4>1. /\ Goto(t, "rerun")
            /\ file' = [conf |-> proc[t].backup,
                        owned |-> file.owned \/ proc[t].op # "apply"]
        BY <1>2, <1>14, <2>2 DEF Restore
      <4>. QED
        BY <4>1
    <3>2. Pending(t)'
      BY <1>1, <3>1, GotoMoves DEF Pending
    <3>3. file.conf # None
      BY <2>2 DEF HasFile
    <3>4. file.owned \/ \E v \in Thread : proc'[v].pc = "own"
      BY <1>8, <2>0, <3>1, <3>3 DEF Syncs, PC
    <3>. QED
      BY <3>1, <3>2, <3>4 DEF Syncs
  <2>. QED
    BY <2>1, <2>2
<1>15. ASSUME NEW t \in Thread, Rerun(t)
      PROVE  Syncs'
  <2>1. UNCHANGED file /\ running' = Loaded(file) /\ Done(t) /\ proc[t].pc = "rerun"
    BY <1>2, <1>15 DEF Rerun, AfterRollback
  <2>2. \A v \in Thread : proc[v].pc = "own" => proc'[v].pc = "own"
    BY <1>8, <2>1
  <2>. QED
    BY <2>1, <2>2 DEF Syncs, Loaded
<1>16. CASE XrayRestarts
  BY <1>16 DEF XrayRestarts, Syncs, Loaded
<1>17. ASSUME NEW T \in SUBSET Thread, Dies(T)
      PROVE  Syncs'
  BY <1>2, <1>17 DEF Dies
<1>18. ASSUME NEW t \in Thread, NEW i \in Inbound, NEW op \in Op, AnswerNeedless(t, op, i)
      PROVE  Syncs'
  BY <1>5, <1>18 DEF AnswerNeedless, Pending
<1>19. CASE UNCHANGED vars
  BY <1>5, <1>19 DEF vars, Pending
<1>. QED
  BY <1>1, <1>6, <1>7, <1>9, <1>10, <1>11, <1>12, <1>13, <1>14, <1>15, <1>16, <1>17,
     <1>18, <1>19, Steps DEF Step, Op

\* Where nothing fails or dies, Xray serves what the file says once the last
\* operation is over, and the file is its user's: whatever has raced.
THEOREM XrayServesTheFile == Spec => []Synced
<1>. DEFINE IInv == Tests /\ HasFile /\ (faults = 0 => Syncs)
<1>1. Init => IInv
  <2>1. Accepted(Empty) /\ ~Has(Empty, Unstartable) /\ None \notin Conf /\ None # Torn
        /\ Empty # Torn /\ Empty # None
    BY DEF Accepted, Has, Empty, Conf, State
  <2>2. Init => HasFile
    BY <2>1 DEF Init, HasFile, Idle
  <2>3. Init => Tests
    BY InitTests
  <2>4. Init => Syncs
    BY <2>1 DEF Init, Syncs, Loaded, Accepted
  <2>. QED
    BY <2>2, <2>3, <2>4
<1>2. IInv /\ Shape /\ [Next]_vars => IInv'
  <2>. SUFFICES ASSUME IInv, Shape, [Next]_vars PROVE IInv'
    OBVIOUS
  <2>1. Lineage /\ faults \in Nat
    BY LineageStep DEF Shape, TypeOK
  <2>2. faults' = 0 => faults = 0
    BY <2>1 DEF Lineage
  <2>. QED
    BY <2>2, TestsStep, HasFileStep, SyncsStep
<1>3. IInv => Synced
  BY DEF Syncs, Synced, Pending, UnderWay
<1>. QED
  BY InitShape, ShapeStep, <1>1, <1>2, <1>3, PTL DEF Spec
=============================================================================
