------------------------ MODULE ReleaseUpdateProofs -------------------------
(* The invariants of ReleaseUpdate, and the promise it keeps, for all sets of *)
(* releases, units, domains and threads and all bounds.                      *)
EXTENDS ReleaseUpdate, TLAPS

-----------------------------------------------------------------------------
(* What a step writes.                                                       *)

\* A step writes parts of the installation.
LEMMA WrittenParts ==
    /\ Written \subseteq Part
    /\ upd.pc \in {"idle", "snapshot", "download", "stop", "keep", "gates", "restart",
                   "health", "smoke", "exit", "rerun", "recheck"} => Written = {}
BY DEF Written, Part, Saved, Core

\* What it writes is what a part may hold.
LEMMA PutsContent ==
    ASSUME TypeOK, NEW p \in Written, upd.pc = "untar" \/ upd.target \in Release \union {None}
    PROVE  Puts(p) \in Content
<1>1. p \in Part
  BY WrittenParts
<1>2. disk["requirements"] \in Content
  BY DEF TypeOK, Part, Saved, Core
<1>3. upd.saved[p] \in Content
  BY <1>1 DEF TypeOK, Updater
<1> QED
  BY <1>2, <1>3 DEF Puts, Content, TypeOK, Updater

\* A finished step leaves contents.
LEMMA PutType ==
    ASSUME TypeOK, NEW done \in SUBSET Written
    PROVE  Put(done) \in [Part -> Content]
<1>1. upd.target \in Release \union {None}
  BY DEF TypeOK, Updater
<1>2. ASSUME NEW p \in Part
      PROVE  (IF p \in done THEN Puts(p) ELSE disk[p]) \in Content
  <2>1. CASE p \in done
    BY <2>1, <1>1, PutsContent
  <2>2. CASE p \notin done
    BY <2>2 DEF TypeOK
  <2> QED
    BY <2>1, <2>2
<1> QED
  BY <1>2 DEF Put

\* A step that stops on its way leaves contents, and touches only what it writes.
LEMMA HalfwayType ==
    ASSUME TypeOK, NEW d \in Halfway
    PROVE  /\ d \in [Part -> Content]
           /\ \A p \in Part \ Written : d[p] = disk[p]
<1>1. PICK st \in Stopped :
        d = [p \in Part |-> IF p \in st.torn THEN Torn ELSE Put(st.done)[p]]
  BY DEF Halfway
<1>2. st.done \subseteq Written /\ st.torn \subseteq Written
  BY DEF Stopped
<1>3. Put(st.done) \in [Part -> Content]
  BY <1>2, PutType
<1>4. Torn \in Content
  BY DEF Content
<1>5. ASSUME NEW p \in Part \ Written
      PROVE  d[p] = disk[p]
  <2>1. p \notin st.torn /\ p \notin st.done
    BY <1>2
  <2> QED
    BY <1>1, <2>1 DEF Put
<1> QED
  BY <1>1, <1>3, <1>4, <1>5

-----------------------------------------------------------------------------
(* Types.                                                                    *)

PanelTypes ==
    /\ site \in Text \union {None} /\ live \in Text \union {None}
    /\ panelDomain \in Name
    /\ op \in [Thread -> Op]

\* Threads that are idle are of the type, and so is the site of an installation.
LEMMA Bases == Idle \in Op /\ Template \in Site /\ Site \subseteq Text /\ Blank \in Text /\ NoUpdate \in Updater
<1>1. Idle \in Op /\ Template \in Site /\ Site \subseteq Text /\ Blank \in Text
  BY DEF Idle, Op, Template, Text, Site, Name
<1>2. [p \in Part |-> None] \in [Part -> Content]
  BY DEF Content
<1> QED
  BY <1>1, <1>2 DEF NoUpdate, Updater, Step

\* A request that is about to write a text has read one.
OpSound == \A t \in Thread : op[t].pc \in {"write", "fill"} => op[t].original # None

Begins(t) == \E d \in Domain : BeginApply(t, d) \/ BeginCertificate(t, d)
RequestStep(t) == ApplyStep(t) \/ CertificateStep(t) \/ Record(t) \/ RecordFails(t)

\* What certbot installs is a site with a certificate for the domain.
LEMMA CertifiedType ==
    ASSUME NEW t \in Thread, op[t] \in Op, CanInstall(t)
    PROVE  Certified(t) \in Site /\ Certified(t).name = op[t].domain
<1>1. op[t].original \in Site /\ op[t].original.name = op[t].domain /\ op[t].domain \in Name
  BY DEF CanInstall, Accepted, Op, Text
<1> QED
  BY <1>1 DEF Certified, Site

\* A certbot that is killed leaves texts.
LEMMA KilledType ==
    ASSUME PanelTypes, NEW t \in Thread, CertbotKilled(t)
    PROVE  site' \in Text \union {None} /\ live' \in Text \union {None}
<1>1. Certified(t) \in Text
  BY CertifiedType, Bases DEF PanelTypes, CertbotKilled
<1> QED
  BY <1>1, Bases DEF PanelTypes, CertbotKilled

\* A request keeps the types of the site.
LEMMA PanelTypesKept == PanelTypes /\ OpSound /\ PanelNext => PanelTypes' /\ OpSound'
<1> SUFFICES ASSUME PanelTypes, OpSound, PanelNext
             PROVE  PanelTypes' /\ OpSound'
  OBVIOUS
<1>1. ASSUME NEW t \in Thread, Begins(t) \/ RequestStep(t)
      PROVE  PanelTypes' /\ OpSound'
  <2>1. op[t] \in Op /\ None \in Name /\ Domain \subseteq Name
    BY DEF PanelTypes, Name
  <2>2. ASSUME NEW d \in Domain, BeginApply(t, d) \/ BeginCertificate(t, d)
        PROVE  PanelTypes' /\ OpSound'
    BY <2>1, <2>2 DEF PanelTypes, OpSound, BeginApply, BeginCertificate, Op
  <2>3. CASE Empty(t)
    BY <2>1, <2>3, Bases DEF PanelTypes, OpSound, Empty, Goes, Op
  <2>4. CASE WriteSite(t)
    <3>1. op[t].original \in Text /\ op[t].domain \in Name
      BY <2>1, <2>4 DEF WriteSite, OpSound, Op
    <3>2. site' \in Text
      BY <3>1, <2>4, Bases DEF WriteSite, Renamed, Text, Site
    <3> QED
      BY <2>1, <2>4, <3>2 DEF PanelTypes, OpSound, WriteSite, Goes, Op
  <2>5. CASE Validate(t)
    BY <2>1, <2>5 DEF PanelTypes, OpSound, Validate, Goes, Op
  <2>6. CASE ValidateFails(t)
    BY <2>1, <2>6 DEF PanelTypes, OpSound, ValidateFails, Goes, Op
  <2>7. CASE Undo(t)
    BY <2>1, <2>7 DEF PanelTypes, OpSound, Undo, Goes, Op
  <2>8. CASE ReloadOriginal(t) \/ WriteFails(t) \/ Record(t) \/ RecordFails(t) \/ CertbotFails(t)
    BY <2>1, <2>8, Bases DEF PanelTypes, OpSound, ReloadOriginal, WriteFails, Record, RecordFails,
       CertbotFails, Ends, Op, Idle
  <2>9. CASE Certbot(t)
    <3>1. site' \in Text /\ live' \in Text
      BY <2>1, <2>9, CertifiedType, Bases DEF Certbot
    <3> QED
      BY <2>1, <2>9, <3>1 DEF PanelTypes, OpSound, Certbot, Goes, Op
  <2>10. CASE CertbotTimesOut(t)
    BY <2>1, <2>10, KilledType, Bases DEF PanelTypes, OpSound, CertbotTimesOut, Ends, Idle
  <2> QED
    BY <1>1, <2>2, <2>3, <2>4, <2>5, <2>6, <2>7, <2>8, <2>9, <2>10
       DEF Begins, RequestStep, ApplyStep, CertificateStep
<1>2. CASE PanelDies
  <2>1. site' \in Text \union {None} /\ live' \in Text \union {None}
    BY <1>2, KilledType DEF PanelDies, PanelTypes
  <2> QED
    BY <1>2, <2>1, Bases DEF PanelDies, PanelTypes, OpSound, Idle
<1> QED
  BY <1>1, <1>2 DEF PanelNext, Begins, RequestStep

UpdTypes ==
    /\ disk \in [Part -> Content] /\ backend \in Release \union {None}
    /\ upd \in Updater
    /\ outcome \in {"none", "updated", "restored", "unhealthy", "failed"}
    /\ harm \in BOOLEAN

\* An updater that goes on to another step is one, and so is the panel it starts.
LEMMA Moved == \A pc \in Step : upd \in Updater /\ Moves(pc) => upd' \in Updater
BY DEF Updater, Moves

LEMMA BootsType == \A d : Boots(d) \subseteq Release \union {None}
BY DEF Boots

\* The updater, and a power loss, keep the types.
LEMMA UpdTypesKept ==
    ASSUME TypeOK, OpSound, Start \/ UpdaterStep \/ Crash
    PROVE  UpdTypes' /\ PanelTypes' /\ OpSound'
<1> USE DEF TypeOK, UpdTypes, PanelTypes, OpSound, panelVars
<1>1. op' = op \/ op' = [t \in Thread |-> Idle]
  BY DEF Start, UpdaterStep, Crash, Snapshot, NoSnapshot, Download, Stop, Replace, Pip,
         KeepSite, Gates, Restart, Health, Smoke, Fails, Exit, ClearApp, Untar, RePip,
         RollbackFails, Rerun, Recheck, Kills
<1>2. op' \in [Thread -> Op] /\ OpSound'
  BY <1>1, Bases DEF Idle
<1>3. Put(Written) \in [Part -> Content] /\ Halfway \subseteq [Part -> Content]
  BY PutType, HalfwayType
<1>4. CASE Start
  BY <1>2, <1>4, Moved DEF Start, Step
<1>5. CASE Snapshot
  BY <1>2, <1>5 DEF Snapshot, Updater, Step
<1>6. CASE NoSnapshot
  BY <1>2, <1>6, Moved DEF NoSnapshot, Step
<1>7. ASSUME NEW r \in Release, Download(r)
      PROVE  UpdTypes' /\ PanelTypes'
  BY <1>2, <1>7 DEF Download, Updater, Step
<1>8. CASE Stop
  BY <1>2, <1>8 DEF Stop, Updater, Step
<1>9. CASE Replace
  <2>1. After[upd.pc] \in Step
    BY <1>9 DEF Replace, After, Step
  <2> QED
    BY <1>2, <1>3, <1>9, <2>1, Moved DEF Replace
<1>10. CASE Pip
  BY <1>2, <1>3, <1>10, Moved DEF Pip, Step
<1>11. CASE KeepSite
  BY <1>2, <1>11, Moved, Bases DEF KeepSite, Step
<1>12. CASE Gates
  BY <1>2, <1>12, Moved DEF Gates, Step
<1>13. CASE Restart
  BY <1>2, <1>13, Moved, BootsType DEF Restart, Step
<1>14. CASE Health
  BY <1>2, <1>14, Moved DEF Health, Step
<1>15. CASE Smoke
  BY <1>2, <1>15, Moved, Bases DEF Smoke, Step
<1>16. CASE Fails
  BY <1>2, <1>3, <1>16 DEF Fails, Updater, Step
<1>17. CASE Exit
  BY <1>2, <1>17, Moved, Bases DEF Exit, Step
<1>18. CASE ClearApp
  BY <1>2, <1>3, <1>18, Moved DEF ClearApp, Step
<1>19. CASE Untar
  <2>1. upd.site \in Text \union {None}
    BY DEF Updater
  <2> QED
    BY <1>2, <1>3, <1>19, <2>1, Moved DEF Untar, Step
<1>20. CASE RePip
  BY <1>2, <1>3, <1>20, Moved DEF RePip, Step
<1>21. CASE RollbackFails
  BY <1>2, <1>3, <1>21, Moved DEF RollbackFails, Step
<1>22. CASE Rerun
  BY <1>2, <1>22, Moved, BootsType DEF Rerun, Step
<1>23. CASE Recheck
  BY <1>2, <1>23, Bases DEF Recheck
<1>24. CASE Crash
  <2>1. \A t \in Thread : CanInstall(t) => Certified(t) \in Text
    BY CertifiedType, Bases
  <2>2. site' \in Text \union {None}
    BY <1>24, <2>1, Bases DEF Crash
  <2> QED
    BY <1>2, <1>3, <1>24, <2>2, Bases, BootsType DEF Crash
<1> QED
  BY <1>2, <1>4, <1>5, <1>6, <1>7, <1>8, <1>9, <1>10, <1>11, <1>12, <1>13, <1>14, <1>15,
     <1>16, <1>17, <1>18, <1>19, <1>20, <1>21, <1>22, <1>23, <1>24 DEF UpdaterStep

\* Types hold throughout.
THEOREM TypeCorrect == Spec => [](TypeOK /\ OpSound)
<1>1. Init => TypeOK /\ OpSound
  <2> SUFFICES ASSUME Init
               PROVE  TypeOK /\ OpSound
    OBVIOUS
  <2>1. PanelTypes /\ OpSound
    BY Bases DEF Init, PanelInit, PanelTypes, OpSound, Idle, Template, Text, Site, Name
  <2>2. UpdTypes
    BY Bases DEF Init, UpdInit, UpdTypes, Content
  <2> QED
    BY <2>1, <2>2 DEF Init, PanelTypes, UpdTypes, TypeOK
<1>2. TypeOK /\ OpSound /\ [Next]_vars => TypeOK' /\ OpSound'
  <2> SUFFICES ASSUME TypeOK, OpSound, [Next]_vars
               PROVE  TypeOK' /\ OpSound'
    OBVIOUS
  <2>1. CASE UNCHANGED vars
    BY <2>1 DEF vars, panelVars, updVars, history, TypeOK, OpSound
  <2>2. CASE Next
    <3>1. UpdTypes' /\ PanelTypes' /\ OpSound'
      <4>1. CASE Start \/ UpdaterStep \/ Crash
        BY <4>1, UpdTypesKept
      <4>2. CASE PanelStep
        BY <4>2, PanelTypesKept DEF PanelStep, updVars, TypeOK, PanelTypes, UpdTypes
      <4> QED
        BY <2>2, <4>1, <4>2 DEF Next
    <3>2. (alone \subseteq Thread)'
      BY <2>2 DEF Next, History, TypeOK
    <3> QED
      BY <3>1, <3>2 DEF TypeOK, UpdTypes, PanelTypes
  <2> QED
    BY <2>1, <2>2
<1> QED
  BY <1>1, <1>2, PTL DEF Spec

-----------------------------------------------------------------------------
(* The promise.  The libraries follow the requirements file unless there has *)
(* been harm; the rollback point is what was there when the files began to   *)
(* change; the replacement, and the rollback, have written what they have    *)
(* passed.                                                                   *)

Unarmed == {"idle", "snapshot", "download", "stop"}

ArmedWhenReplacing ==
    /\ upd.pc \in Unarmed => ~upd.armed
    /\ upd.pc \notin Unarmed \union {"exit"} => upd.armed

PointSaved == upd.pc \in {"download", "stop"} => upd.saved = disk

Coherent(d) == d["requirements"] \in Release /\ d["venv"] = d["requirements"]
LibrariesFollow == ~harm => Coherent(IF upd.armed THEN upd.saved ELSE disk)

Late == {"units", "keep", "tools", "gates", "restart", "health", "smoke"}
Progress ==
    /\ upd.pc \in Late \union {"stop", "remove", "copy", "files", "pip"} => upd.target \in Release
    /\ upd.pc \in Late \union {"files", "pip"} => disk["app"] = upd.target
    /\ upd.pc \in Late \union {"pip"} => disk["requirements"] = upd.target /\ disk["version"] = upd.target
    /\ upd.pc \in Late => disk["venv"] = upd.target
    /\ upd.pc \in Late \ {"units"} => \A u \in Unit : disk[u] = upd.target

Restored ==
    /\ upd.pc \in {"repip", "rerun", "recheck"} /\ ~harm
         => \A p \in Saved : upd.saved[p] # None => disk[p] = upd.saved[p]
    /\ upd.pc \in {"rerun", "recheck"} /\ ~harm => disk["venv"] = disk["requirements"]

PromiseInv == ArmedWhenReplacing /\ PointSaved /\ LibrariesFollow /\ Progress /\ Restored

\* What a finished step has written.
LEMMA PutWritten ==
    /\ \A p \in Part \ Written : Put(Written)[p] = disk[p]
    /\ \A p \in Written : Put(Written)[p] = Puts(p)
BY WrittenParts DEF Put

\* The parts have different names.
LEMMA PartNames ==
    /\ Core \subseteq Saved /\ Unit \subseteq Saved /\ Saved \subseteq Part /\ "venv" \in Part
    /\ "app" \in Core /\ "requirements" \in Core /\ "version" \in Core
    /\ "venv" \notin Saved /\ "tools" \notin Saved /\ Core \intersect Unit = {}
    /\ Saved = {"app", "requirements", "version"} \union Unit
BY ReleaseAssumption DEF Core, Saved, Part

\* The installation at first is coherent, and no update has begun.
LEMMA PromiseInvInit == Init => PromiseInv
<1> SUFFICES ASSUME Init
             PROVE  PromiseInv
  OBVIOUS
<1>1. upd.pc = "idle" /\ upd.armed = FALSE
  BY DEF Init, UpdInit, NoUpdate
<1>2. Coherent(disk)
  BY PartNames DEF Init, UpdInit, Coherent
<1> QED
  BY <1>1, <1>2 DEF PromiseInv, ArmedWhenReplacing, PointSaved, LibrariesFollow, Progress,
     Restored, Unarmed, Late

\* The updater, and a power loss wherever it is, keep the invariant.
LEMMA PromiseInvKept ==
    ASSUME TypeOK, PromiseInv, Start \/ UpdaterStep \/ Crash
    PROVE  PromiseInv'
<1> USE DEF PromiseInv, ArmedWhenReplacing, PointSaved, LibrariesFollow, Progress, Restored,
            Unarmed, Late, Coherent, Moves
<1> upd \in Updater
  BY DEF TypeOK
<1>0. /\ upd.pc \in Step /\ disk \in [Part -> Content]
      /\ \A p \in Part : disk[p] \in Content
  BY DEF TypeOK, Updater
<1>4. CASE Start
  BY <1>4 DEF Start, Updater
<1>5. CASE Snapshot
  BY <1>5 DEF Snapshot, Updater
<1>6. CASE NoSnapshot
  BY <1>6 DEF NoSnapshot, Updater
<1>7. ASSUME NEW r \in Release, Download(r)
      PROVE  PromiseInv'
  BY <1>7 DEF Download, Updater
<1>8. CASE Stop
  BY <1>8 DEF Stop, Updater
<1>9. CASE Replace
  <2>1. CASE upd.pc = "remove"
    BY <1>9, <2>1 DEF Replace, After, Updater
  <2>2. CASE upd.pc = "copy"
    <3>1. disk'["app"] = upd.target
      BY <1>9, <2>2, PutWritten DEF Replace, Written, Puts
    <3> QED
      BY <1>9, <2>2, <3>1 DEF Replace, After, Updater
  <2>3. CASE upd.pc = "files"
    <3>1. disk'["app"] = disk["app"] /\ disk'["requirements"] = upd.target /\ disk'["version"] = upd.target
      BY <1>9, <2>3, PutWritten, PartNames DEF Replace, Written, Puts
    <3> QED
      BY <1>9, <2>3, <3>1 DEF Replace, After, Updater
  <2>4. CASE upd.pc = "units"
    <3>1. \A u \in Unit : disk'[u] = upd.target
      BY <1>9, <2>4, PutWritten, PartNames DEF Replace, Written, Puts
    <3>2. \A p \in {"app", "requirements", "version", "venv"} : disk'[p] = disk[p]
      BY <1>9, <2>4, PutWritten, PartNames DEF Replace, Written
    <3> QED
      BY <1>9, <2>4, <3>1, <3>2 DEF Replace, After, Updater
  <2>5. CASE upd.pc = "tools"
    <3>1. \A p \in Saved \union {"venv"} : disk'[p] = disk[p]
      BY <1>9, <2>5, PutWritten, PartNames DEF Replace, Written
    <3> QED
      BY <1>9, <2>5, <3>1, PartNames DEF Replace, After, Updater
  <2> QED
    BY <1>9, <2>1, <2>2, <2>3, <2>4, <2>5 DEF Replace, After
<1>10. CASE Pip
  <2>1. disk'["venv"] = disk["requirements"]
    BY <1>10, PutWritten DEF Pip, Written, Puts
  <2>2. \A p \in Saved : disk'[p] = disk[p]
    BY <1>10, PutWritten, PartNames DEF Pip, Written
  <2> QED
    BY <1>10, <2>1, <2>2, PartNames DEF Pip, Updater
<1>11. CASE KeepSite
  BY <1>11 DEF KeepSite, Updater
<1>12. CASE Gates
  BY <1>12 DEF Gates, Updater, panelVars
<1>13. CASE Restart
  BY <1>13 DEF Restart, Updater
<1>14. CASE Health
  BY <1>14 DEF Health, Updater
<1>15. CASE Smoke
  BY <1>15 DEF Smoke, Updater, NoUpdate
<1>16. CASE Fails
  <2>1. upd'.pc = "exit" /\ upd'.saved = upd.saved /\ upd'.armed = (upd.armed \/ upd.pc = "stop")
    BY <1>16 DEF Fails, Updater
  <2>2. ~upd.armed => disk' = disk
    <3> HAVE ~upd.armed
    <3>1. Written = {}
      BY <1>16, WrittenParts DEF Fails
    <3> QED
      BY <1>16, <3>1, HalfwayType DEF Fails, TypeOK
  <2> QED
    BY <1>16, <2>1, <2>2 DEF Fails
<1>17. CASE Exit
  BY <1>17 DEF Exit, Updater, NoUpdate
<1>18. CASE ClearApp
  BY <1>18 DEF ClearApp, Updater
<1>19. CASE Untar
  <2>1. \A p \in Saved : upd.saved[p] # None => disk'[p] = upd.saved[p]
    BY <1>19, PutWritten DEF Untar, Written, Puts
  <2> QED
    BY <1>19, <2>1 DEF Untar, Updater
<1>20. CASE RePip
  <2>1. \A p \in Saved : disk'[p] = disk[p]
    BY <1>20, PutWritten, PartNames DEF RePip, Written
  <2>2. ~harm => disk["requirements"] = upd.saved["requirements"] /\ disk["requirements"] \in Release
    BY <1>20, PartNames, ReleaseAssumption DEF RePip
  <2>3. ~harm => disk'["venv"] = disk'["requirements"]
    BY <1>20, <2>1, <2>2, PutWritten, PartNames DEF RePip, Written, Puts
  <2> QED
    BY <1>20, <2>1, <2>3 DEF RePip, Updater
<1>21. CASE RollbackFails
  BY <1>21 DEF RollbackFails, Updater
<1>22. CASE Rerun
  BY <1>22 DEF Rerun, Updater
<1>23. CASE Recheck
  <2>1. ~harm => Coherent(disk)
    BY <1>23, PartNames, ReleaseAssumption DEF Recheck
  <2> QED
    BY <1>23, <2>1 DEF Recheck, NoUpdate
<1>24. CASE Crash
  <2>1. ~upd.armed => disk' = disk
    <3> HAVE ~upd.armed
    <3>1. Written = {}
      BY WrittenParts DEF Step
    <3> QED
      BY <1>24, <3>1, HalfwayType DEF Crash, TypeOK
  <2> QED
    BY <1>24, <2>1 DEF Crash, NoUpdate
<1> QED
  BY <1>4, <1>5, <1>6, <1>7, <1>8, <1>9, <1>10, <1>11, <1>12, <1>13, <1>14, <1>15,
     <1>16, <1>17, <1>18, <1>19, <1>20, <1>21, <1>22, <1>23, <1>24 DEF UpdaterStep

\* The invariants the promise rests on.
Inv == TypeOK /\ OpSound /\ PromiseInv

\* They hold throughout.
THEOREM PromiseInvCorrect == Spec => []Inv
<1>1. Init => PromiseInv
  BY PromiseInvInit
<1>2. TypeOK /\ PromiseInv /\ [Next]_vars => PromiseInv'
  <2> SUFFICES ASSUME TypeOK, PromiseInv, [Next]_vars
               PROVE  PromiseInv'
    OBVIOUS
  <2>1. CASE Start \/ UpdaterStep \/ Crash
    BY <2>1, PromiseInvKept
  <2>2. CASE UNCHANGED updVars
    BY <2>2 DEF updVars, PromiseInv, ArmedWhenReplacing, PointSaved, LibrariesFollow,
       Progress, Restored, Coherent
  <2> QED
    BY <2>1, <2>2 DEF Next, PanelStep, vars
<1> QED
  BY <1>1, <1>2, TypeCorrect, PTL DEF Spec, Inv

\* What is installed once no update runs is what is on the disk.
LEMMA InstalledIdle ==
    ASSUME upd' = NoUpdate, disk' \in [Part -> Content]
    PROVE  /\ Installed' = [p \in Kept |-> disk'[p]]
           /\ Installed' \in [Kept -> Content]
<1>1. Kept \subseteq Part
  BY PartNames DEF Kept
<1>2. upd'.armed = FALSE
  BY DEF NoUpdate
<1>3. Installed' = [p \in Kept |-> disk'[p]]
  BY <1>2 DEF Installed
<1> QED
  BY <1>1, <1>3

\* An update that ends without success and has done no harm has left what there
\* was.
LEMMA FailKept ==
    ASSUME Inv, upd.pc # "idle", upd' = NoUpdate, disk' \in [Part -> Content],
           harm \in BOOLEAN, harm' \in BOOLEAN, harm => harm',
           ~harm' => \A p \in Kept : Installed[p] # None => disk'[p] = Installed[p]
    PROVE  Promise!Fail \/ Promise!Wreck
<1>1. upd'.pc = "idle"
  BY DEF NoUpdate
<1>2. Installed' = [p \in Kept |-> disk'[p]] /\ Installed' \in [Kept -> Content]
  BY InstalledIdle
<1>3. CASE ~harm'
  <2>1. \A p \in Kept : Installed[p] # None => Installed'[p] = Installed[p]
    BY <1>2, <1>3
  <2>2. Promise!Fail
    BY <1>1, <1>2, <1>3, <2>1 DEF Promise!Fail
  <2> QED
    BY <2>2
<1>4. CASE harm'
  BY <1>1, <1>2, <1>4 DEF Promise!Wreck
<1> QED
  BY <1>3, <1>4

\* Every step of the updater, every power loss and every request is a step of the
\* promise, or leaves it alone.
LEMMA PromiseStep ==
    ASSUME Inv, UpdTypes', [Next]_vars
    PROVE  [Promise!Next]_(Promise!vars)
<1> USE DEF Inv, PromiseInv
<1> upd \in Updater /\ disk \in [Part -> Content] /\ harm \in BOOLEAN
  BY DEF TypeOK
<1> disk' \in [Part -> Content] /\ harm' \in BOOLEAN
  BY DEF UpdTypes
<1>1. ASSUME UNCHANGED <<disk, harm>>, upd'.pc # "idle", upd.pc # "idle",
             upd'.armed = upd.armed, upd'.saved = upd.saved
      PROVE  UNCHANGED Promise!vars
  BY <1>1 DEF Promise!vars, Installed
<1>2. ASSUME UNCHANGED harm, upd'.pc # "idle", upd.pc # "idle",
             upd.armed, upd'.armed, upd'.saved = upd.saved
      PROVE  UNCHANGED Promise!vars
  BY <1>2 DEF Promise!vars, Installed
<1>3. CASE UNCHANGED updVars
  BY <1>3 DEF updVars, Promise!vars, Installed
<1>4. CASE Start
  <2>1. Promise!Begin
    BY <1>4 DEF Start, Moves, Updater, Promise!Begin, Installed
  <2> QED
    BY <2>1 DEF Promise!Next
<1>5. CASE Snapshot
  <2>1. upd.armed = FALSE /\ upd'.armed = FALSE /\ upd'.pc = "download" /\ upd.pc = "snapshot"
    BY <1>5 DEF Snapshot, Updater, ArmedWhenReplacing, Unarmed
  <2> QED
    BY <1>5, <2>1 DEF Snapshot, Promise!vars, Installed
<1>6. CASE NoSnapshot \/ KeepSite \/ Gates \/ Restart \/ Health \/ Rerun
  BY <1>1, <1>6 DEF NoSnapshot, KeepSite, Gates, Restart, Health, Rerun, Moves, Updater
<1>7. ASSUME NEW r \in Release, Download(r)
      PROVE  UNCHANGED Promise!vars
  BY <1>1, <1>7 DEF Download, Updater
<1>8. CASE Stop
  <2>1. upd.saved = disk /\ disk' = disk /\ upd'.saved = upd.saved /\ harm' = harm
        /\ ~upd.armed /\ upd'.armed /\ upd.pc = "stop" /\ upd'.pc = "remove"
    BY <1>8 DEF Stop, Updater, PointSaved, ArmedWhenReplacing, Unarmed
  <2> QED
    BY <2>1 DEF Promise!vars, Installed
<1>9. CASE Replace \/ Pip \/ ClearApp \/ Untar \/ RePip
  <2>1. upd.pc # "idle" /\ upd.armed
    BY <1>9 DEF Replace, Pip, ClearApp, Untar, RePip, After, ArmedWhenReplacing, Unarmed
  <2>2. UNCHANGED harm /\ upd'.pc # "idle" /\ upd'.armed = upd.armed /\ upd'.saved = upd.saved
    BY <1>9 DEF Replace, Pip, ClearApp, Untar, RePip, After, Moves, Updater
  <2> QED
    BY <1>2, <2>1, <2>2
<1>10. CASE Smoke
  <2>1. CASE Accepted(site)
    <3>1. upd.target \in Release /\ \A p \in Kept : disk'[p] = upd.target
      BY <1>10, <2>1, PartNames DEF Smoke, Progress, Late, Kept
    <3>2. upd' = NoUpdate /\ upd.pc # "idle" /\ harm' = FALSE
      BY <1>10, <2>1 DEF Smoke
    <3>3. Installed' = [p \in Kept |-> disk'[p]]
      BY <3>2, InstalledIdle
    <3>4. Installed' = [p \in Kept |-> upd.target]
      BY <3>1, <3>3
    <3>5. Promise!Succeed
      BY <3>1, <3>2, <3>4 DEF Promise!Succeed, NoUpdate
    <3> QED
      BY <3>5 DEF Promise!Next
  <2>2. CASE ~Accepted(site)
    BY <1>1, <1>10, <2>2 DEF Smoke, Moves, Updater
  <2> QED
    BY <2>1, <2>2
<1>11. CASE Fails
  <2>1. upd'.pc = "exit" /\ upd.pc # "idle" /\ upd'.saved = upd.saved /\ harm' = harm
        /\ upd'.armed = (upd.armed \/ upd.pc = "stop")
    BY <1>11 DEF Fails, Updater
  <2>2. CASE upd.armed
    BY <1>2, <2>1, <2>2
  <2>3. CASE ~upd.armed
    <3>1. Written = {}
      BY <1>11, <2>3, WrittenParts DEF Fails, ArmedWhenReplacing, Unarmed
    <3>2. disk' = disk
      BY <1>11, <3>1, HalfwayType DEF Fails
    <3>3. upd.pc = "stop" => upd.saved = disk
      BY DEF PointSaved
    <3> QED
      BY <2>1, <2>3, <3>2, <3>3 DEF Promise!vars, Installed
  <2> QED
    BY <2>2, <2>3
<1>12. CASE Exit
  <2>1. CASE upd.armed
    BY <1>2, <1>12, <2>1 DEF Exit, Moves, Updater
  <2>2. CASE ~upd.armed
    <3>1. upd' = NoUpdate /\ disk' = disk /\ harm' = harm /\ upd.pc # "idle"
      BY <1>12, <2>2 DEF Exit
    <3>2. \A p \in Kept : Installed[p] = disk[p]
      BY <2>2 DEF Installed
    <3>3. Promise!Fail \/ Promise!Wreck
      BY <3>1, <3>2, FailKept
    <3> QED
      BY <3>3 DEF Promise!Next
  <2> QED
    BY <2>1, <2>2
<1>13. CASE RollbackFails
  <2>1. upd.pc # "idle" /\ upd'.pc # "idle" /\ upd.armed /\ upd'.armed /\ upd'.saved = upd.saved
        /\ harm' = TRUE
    BY <1>13 DEF RollbackFails, ArmedWhenReplacing, Unarmed, Moves, Updater
  <2>2. Promise!Harm
    BY <2>1 DEF Promise!Harm, Installed
  <2> QED
    BY <2>2 DEF Promise!Next
<1>14. CASE Recheck
  <2>1. upd' = NoUpdate /\ disk' = disk /\ harm' = harm /\ upd.pc = "recheck" /\ upd.armed
    BY <1>14 DEF Recheck, ArmedWhenReplacing, Unarmed
  <2>2. ASSUME ~harm, NEW p \in Kept, Installed[p] # None
        PROVE  disk[p] = Installed[p]
    <3>1. Installed[p] = upd.saved[p]
      BY <2>1 DEF Installed
    <3>2. CASE p \in Saved
      BY <2>1, <2>2, <3>1, <3>2 DEF Restored
    <3>3. CASE p = "venv"
      <4>1. upd.saved["venv"] = upd.saved["requirements"] /\ upd.saved["requirements"] \in Release
        BY <2>1, <2>2 DEF LibrariesFollow, Coherent
      <4>2. disk["requirements"] = upd.saved["requirements"]
        BY <2>1, <2>2, <4>1, PartNames, ReleaseAssumption DEF Restored
      <4> QED
        BY <2>1, <2>2, <3>1, <3>3, <4>1, <4>2 DEF Restored
    <3> QED
      BY <3>2, <3>3 DEF Kept
  <2>3. Promise!Fail \/ Promise!Wreck
    BY <2>1, <2>2, FailKept
  <2> QED
    BY <2>3 DEF Promise!Next
<1>15. CASE Crash
  <2>1. upd' = NoUpdate /\ harm' = (harm \/ upd.armed) /\ disk' \in Halfway
    BY <1>15 DEF Crash
  <2>2. ~upd.armed => disk' = disk /\ \A p \in Kept : Installed[p] = disk[p]
    <3> HAVE ~upd.armed
    <3>1. Written = {}
      BY WrittenParts DEF ArmedWhenReplacing, Unarmed, Step, Updater
    <3> QED
      BY <2>1, <3>1, HalfwayType DEF Installed
  <2>3. CASE upd.pc = "idle"
    <3>1. ~upd.armed
      BY <2>3 DEF ArmedWhenReplacing, Unarmed
    <3>2. upd'.armed = FALSE /\ upd'.pc = "idle" /\ harm' = harm /\ disk' = disk
      BY <2>1, <2>2, <3>1 DEF NoUpdate, Updater
    <3> QED
      BY <2>3, <3>1, <3>2 DEF Promise!vars, Installed
  <2>4. CASE upd.pc # "idle"
    <3>1. ~harm' => \A p \in Kept : Installed[p] # None => disk'[p] = Installed[p]
      BY <2>1, <2>2
    <3>2. Promise!Fail \/ Promise!Wreck
      BY <2>1, <2>4, <3>1, FailKept
    <3> QED
      BY <3>2 DEF Promise!Next
  <2> QED
    BY <2>3, <2>4
<1> QED
  BY <1>3, <1>4, <1>5, <1>6, <1>7, <1>8, <1>9, <1>10, <1>11, <1>12, <1>13, <1>14, <1>15
     DEF Next, UpdaterStep, PanelStep, vars

\* What the updater promises, it keeps: README.md and CHANGELOG.md on the rollback,
\* as AtomicRelease states it.
THEOREM PromiseKept == Spec => KeepsPromise
<1>1. Init => Promise!Init
  <2> SUFFICES ASSUME Init
               PROVE  Promise!Init
    OBVIOUS
  <2>1. upd = NoUpdate /\ harm = FALSE
    BY DEF Init, UpdInit
  <2>2. PICK r \in Release : \E present \in SUBSET Unit :
          disk = [p \in Part |-> IF p \in Unit \ present THEN None ELSE r]
    BY DEF Init, UpdInit
  <2>3. Installed = [p \in Kept |-> disk[p]]
    BY <2>1 DEF Installed, NoUpdate
  <2>4. Installed \in [Kept -> {r, None}]
    BY <2>2, <2>3, PartNames DEF Kept
  <2> QED
    BY <2>1, <2>4 DEF Promise!Init, NoUpdate
<1>2. Inv /\ Inv' /\ [Next]_vars => [Promise!Next]_(Promise!vars)
  BY PromiseStep DEF Inv, TypeOK, UpdTypes
<1> QED
  BY <1>1, <1>2, PromiseInvCorrect, PTL DEF Spec, KeepsPromise, Promise!Spec

-----------------------------------------------------------------------------
(* The verdicts.                                                             *)

\* What has been started is what the disk can start, until the files change again.
VerdictInv ==
    /\ upd.pc \in {"health", "smoke", "recheck"} => backend \in Boots(disk)
    /\ upd.pc = "smoke" => backend # None
    /\ VerdictTrue

\* A panel that has started runs the installed release, which is not broken.
LEMMA BootsWhole ==
    \A d : \A b \in Boots(d) : b # None => b = d["app"] /\ b \in Release \ Broken
BY DEF Boots

\* After "Update complete" and after "Rollback successful" the panel runs the
\* release that is installed.
THEOREM VerdictCorrect == Spec => []VerdictTrue
<1>1. Init => VerdictInv
  BY DEF Init, UpdInit, NoUpdate, VerdictInv, VerdictTrue
<1>2. TypeOK /\ VerdictInv /\ [Next]_vars => VerdictInv'
  <2> SUFFICES ASSUME TypeOK, VerdictInv, [Next]_vars
               PROVE  VerdictInv'
    OBVIOUS
  <2> USE DEF VerdictInv, VerdictTrue, Moves
  <2> upd \in Updater
    BY DEF TypeOK
  <2>1. CASE UNCHANGED updVars
    BY <2>1 DEF updVars
  <2>2. CASE Start
    BY <2>2 DEF Start, Updater
  <2>3. CASE Snapshot \/ NoSnapshot \/ (\E r \in Release : Download(r)) \/ Stop
    BY <2>3 DEF Snapshot, NoSnapshot, Download, Stop, Updater
  <2>4. CASE Replace \/ Pip \/ KeepSite \/ Gates
    BY <2>4 DEF Replace, After, Pip, KeepSite, Gates, Updater
  <2>5. CASE Restart
    BY <2>5 DEF Restart, Updater
  <2>6. CASE Health
    BY <2>6 DEF Health, Updater
  <2>7. CASE Smoke
    BY <2>7, BootsWhole DEF Smoke, Updater, NoUpdate
  <2>8. CASE Fails
    BY <2>8 DEF Fails, Updater
  <2>9. CASE Exit
    BY <2>9 DEF Exit, Updater, NoUpdate
  <2>10. CASE ClearApp \/ Untar \/ RePip
    BY <2>10 DEF ClearApp, Untar, RePip, Updater
  <2>11. CASE RollbackFails
    BY <2>11 DEF RollbackFails, Updater
  <2>12. CASE Rerun
    BY <2>12 DEF Rerun, Updater
  <2>13. CASE Recheck
    BY <2>13, BootsWhole DEF Recheck, NoUpdate
  <2>14. CASE Crash
    BY <2>14 DEF Crash, NoUpdate
  <2> QED
    BY <2>1, <2>2, <2>3, <2>4, <2>5, <2>6, <2>7, <2>8, <2>9, <2>10, <2>11, <2>12, <2>13, <2>14
       DEF Next, UpdaterStep, PanelStep, vars
<1> QED
  BY <1>1, <1>2, TypeCorrect, PTL DEF Spec, VerdictInv

-----------------------------------------------------------------------------
(* The site.                                                                 *)

\* What the site may hold: what it has held since the update began.
Allowed == left \union {s \in {Template} : None \in left}

\* The copy in the rollback point is one of these.
SiteInv ==
    /\ upd.pc = "idle" => upd.site = None
    /\ upd.pc # "idle" => site \in Allowed /\ (upd.site = None \/ upd.site \in Allowed)

\* "Preserving active Makia Nginx/Certbot configuration": the updater puts nothing
\* into the site that the panel has not left there since the update began.
THEOREM SiteKeptCorrect == Spec => []SiteKept
<1>1. Init => SiteInv
  BY DEF Init, UpdInit, NoUpdate, SiteInv
<1>2. TypeOK /\ SiteInv /\ [Next]_vars => SiteInv'
  <2> SUFFICES ASSUME TypeOK, SiteInv, [Next]_vars
               PROVE  SiteInv'
    OBVIOUS
  <2> USE DEF SiteInv, Moves
  <2> upd \in Updater
    BY DEF TypeOK
  <2>1. CASE UNCHANGED vars
    BY <2>1 DEF vars, panelVars, updVars, history, Allowed
  <2>2. CASE PanelStep /\ History
    <3>1. upd' = upd
      BY <2>2 DEF PanelStep, updVars
    <3>2. upd.pc # "idle" => left' = left \union {site'}
      BY <2>2, <3>1 DEF PanelStep, History
    <3> QED
      BY <3>1, <3>2 DEF Allowed
  <2>3. CASE (Start \/ UpdaterStep \/ Crash) /\ History /\ upd'.pc = "idle"
    <3>1. CASE Smoke \/ Exit \/ Recheck \/ Crash
      BY <2>3, <3>1 DEF Smoke, Exit, Recheck, Crash, NoUpdate, Updater
    <3>2. CASE Start \/ Snapshot \/ NoSnapshot \/ (\E r \in Release : Download(r)) \/ Stop
      BY <2>3, <3>2 DEF Start, Snapshot, NoSnapshot, Download, Stop, Updater
    <3>3. CASE Replace
      <4>1. upd'.pc \in {"copy", "files", "pip", "keep", "gates"}
        BY <3>3 DEF Replace, After, Updater
      <4> QED
        BY <2>3, <4>1
    <3>5. CASE Pip \/ KeepSite \/ Gates \/ Restart \/ Health \/ Fails
      BY <2>3, <3>5 DEF Pip, KeepSite, Gates, Restart, Health, Fails, Updater
    <3>4. CASE ClearApp \/ Untar \/ RePip \/ RollbackFails \/ Rerun
      BY <2>3, <3>4 DEF ClearApp, Untar, RePip, RollbackFails, Rerun, Updater
    <3> QED
      BY <2>3, <3>1, <3>2, <3>3, <3>4, <3>5 DEF UpdaterStep
  <2>4. CASE Start /\ History
    <3>1. upd'.pc = "snapshot" /\ upd.pc = "idle" /\ upd'.site = None /\ site' = site
      BY <2>4 DEF Start, Updater, panelVars
    <3>2. left' = {site}
      BY <2>4, <3>1 DEF History
    <3> QED
      BY <3>1, <3>2 DEF Allowed
  <2>5. ASSUME UpdaterStep, History, upd'.pc # "idle"
        PROVE  SiteInv'
    <3>1. upd.pc # "idle" /\ left \subseteq left'
      BY <2>5 DEF UpdaterStep, Snapshot, NoSnapshot, Download, Stop, Replace, After, Pip,
         KeepSite, Gates, Restart, Health, Smoke, Fails, Exit, ClearApp, Untar, RePip,
         RollbackFails, Rerun, Recheck, History
    <3>2. Allowed \subseteq Allowed'
      BY <3>1 DEF Allowed
    <3>3. upd'.site \in {upd.site, site}
      <4>1. CASE Snapshot \/ NoSnapshot \/ (\E r \in Release : Download(r)) \/ Stop
        BY <4>1 DEF Snapshot, NoSnapshot, Download, Stop, Updater
      <4>2. CASE Replace \/ Pip \/ KeepSite \/ Gates \/ Restart \/ Health \/ Fails
        BY <4>2 DEF Replace, Pip, KeepSite, Gates, Restart, Health, Fails, Updater
      <4>3. CASE Smoke \/ Exit \/ Recheck
        BY <2>5, <4>3 DEF Smoke, Exit, Recheck, NoUpdate, Updater
      <4>4. CASE ClearApp \/ Untar \/ RePip \/ RollbackFails \/ Rerun
        BY <4>4 DEF ClearApp, Untar, RePip, RollbackFails, Rerun, Updater
      <4> QED
        BY <2>5, <4>1, <4>2, <4>3, <4>4 DEF UpdaterStep
    <3>4. site' \in Allowed
      <4>1. CASE KeepSite
        BY <3>1, <4>1 DEF KeepSite, Allowed
      <4>2. CASE Untar
        BY <3>1, <4>2 DEF Untar
      <4>3. CASE site' = site
        BY <3>1, <4>3
      <4> QED
        BY <2>5, <4>1, <4>2, <4>3 DEF UpdaterStep, Snapshot, NoSnapshot, Download, Stop,
           Replace, Pip, Gates, Restart, Health, Smoke, Fails, Exit, ClearApp, RePip,
           RollbackFails, Rerun, Recheck, panelVars
    <3> QED
      BY <2>5, <3>1, <3>2, <3>3, <3>4
  <2> QED
    BY <2>1, <2>2, <2>3, <2>4, <2>5 DEF Next, Crash, NoUpdate
<1>3. SiteInv => SiteKept
  BY DEF SiteInv, SiteKept, Allowed
<1> QED
  BY <1>1, <1>2, <1>3, TypeCorrect, PTL DEF Spec

-----------------------------------------------------------------------------
(* A request that meets nobody.  Between its steps nothing edits the file or  *)
(* the setting, so what it has read, written and tested is still there when   *)
(* it ends; the text it has read may be an emptied file.                      *)

\* What is in the file, and in nginx, at each point of such a request.
OnItsWay(t) ==
    LET q == op[t] IN
    /\ q.pc \in {"write", "reload", "certbot"} => site = q.original
    /\ q.pc = "validate" => site = Renamed(q.original, q.domain)
    /\ q.pc \in {"write", "fill", "validate"} => q.original # None
    /\ q.pc = "record" /\ q.original # Blank => site.name = q.domain
    /\ q.pc = "record" => live = site

AloneInv ==
    /\ crashes \in Nat /\ faults \in Nat
    /\ alone # {} => upd.pc = "idle"
    /\ \A t \in alone : InFlight \subseteq {t} /\ OnItsWay(t)

\* How such a request is answered.
AnswerTrue(t) ==
    op[t].pc # "idle" /\ op'[t].pc = "idle" =>
        /\ op[t].pc = "record" /\ op[t].original # Blank /\ faults' = faults =>
              panelDomain' = op[t].domain /\ site'.name = op[t].domain /\ live' = site'
        /\ op[t].pc = "reload" =>
              /\ site' = op[t].original /\ panelDomain' = panelDomain
              /\ faults' = faults /\ Accepted(site') => live' = site'

\* What the steps of a request have in common: no other thread moves.
LEMMA OneThreadMoves ==
    ASSUME TypeOK, NEW t \in Thread, Begins(t) \/ RequestStep(t)
    PROVE  \A u \in Thread \ {t} : op'[u] = op[u]
<1>1. \E q : op' = [op EXCEPT ![t] = q]
  <2>1. CASE Begins(t)
    BY <2>1 DEF Begins, BeginApply, BeginCertificate
  <2>2. CASE WriteFails(t) \/ ReloadOriginal(t) \/ Record(t) \/ RecordFails(t) \/ CertbotFails(t)
               \/ CertbotTimesOut(t)
    BY <2>2 DEF WriteFails, ReloadOriginal, Record, RecordFails, CertbotFails, CertbotTimesOut, Ends
  <2>3. CASE Empty(t) \/ WriteSite(t) \/ Validate(t) \/ ValidateFails(t) \/ Undo(t) \/ Certbot(t)
    BY <2>3 DEF Empty, WriteSite, Validate, ValidateFails, Undo, Certbot, Goes
  <2>. QED
    BY <2>1, <2>2, <2>3 DEF RequestStep, ApplyStep, CertificateStep
<1>. QED
  BY <1>1 DEF TypeOK

\* The next step of a request that finds the file as the last one has left it.
LEMMA StepOnItsWay ==
    ASSUME TypeOK, faults \in Nat, NEW t \in Thread, op[t].pc # "idle" => OnItsWay(t),
           Begins(t) \/ RequestStep(t)
    PROVE  OnItsWay(t)' /\ AnswerTrue(t)
<1>0. op[t] \in Op /\ op[t].original \in Text \union {None} /\ op \in [Thread -> Op]
  BY DEF TypeOK, Op
<1>1. ASSUME NEW d \in Domain, BeginApply(t, d) \/ BeginCertificate(t, d)
      PROVE  OnItsWay(t)' /\ AnswerTrue(t)
  BY <1>0, <1>1 DEF BeginApply, BeginCertificate, OnItsWay, AnswerTrue
<1>2. CASE Empty(t) \/ WriteSite(t)
  BY <1>0, <1>2 DEF Empty, WriteSite, Goes, OnItsWay, AnswerTrue, Op
<1>3. CASE Validate(t)
  <2>1. site = Renamed(op[t].original, op[t].domain) /\ op[t].original \in Text
    BY <1>0, <1>3 DEF Validate, OnItsWay
  <2>2. op[t].original # Blank => site.name = op[t].domain
    BY <2>1 DEF Renamed, Text, Site
  <2>. QED
    BY <1>0, <1>3, <2>2 DEF Validate, Goes, OnItsWay, AnswerTrue, Op
<1>4. CASE ValidateFails(t) \/ Undo(t)
  BY <1>0, <1>4 DEF ValidateFails, Undo, Goes, OnItsWay, AnswerTrue, Op
<1>5. CASE ReloadOriginal(t)
  BY <1>0, <1>5 DEF ReloadOriginal, Fault, Ends, Idle, OnItsWay, AnswerTrue
<1>6. CASE Record(t) \/ RecordFails(t)
  BY <1>0, <1>6 DEF Record, RecordFails, Fault, Ends, Idle, OnItsWay, AnswerTrue
<1>7. CASE WriteFails(t) \/ CertbotFails(t)
  BY <1>0, <1>7 DEF WriteFails, CertbotFails, Ends, Idle, OnItsWay, AnswerTrue
<1>8. CASE CertbotTimesOut(t)
  BY <1>0, <1>8 DEF CertbotTimesOut, CertbotKilled, CanInstall, Ends, Idle, OnItsWay, AnswerTrue
<1>9. CASE Certbot(t)
  <2>1. op[t].pc = "certbot" /\ site'.name = op[t].domain /\ live' = site'
    BY <1>0, <1>9, CertifiedType DEF Certbot, CanInstall
  <2>2. op'[t] = [op[t] EXCEPT !.pc = "record"]
    BY <1>0, <1>9 DEF Certbot, Goes
  <2>. QED
    BY <1>0, <2>1, <2>2 DEF OnItsWay, AnswerTrue, Op
<1>. QED
  BY <1>1, <1>2, <1>3, <1>4, <1>5, <1>6, <1>7, <1>8, <1>9
     DEF Begins, RequestStep, ApplyStep, CertificateStep

\* A panel that dies answers nobody: a request that was putting the old text back has
\* put it back.
LEMMA DeathAnswersNobody ==
    ASSUME TypeOK, faults \in Nat, NEW t \in Thread, InFlight \subseteq {t}, OnItsWay(t), PanelDies
    PROVE  AnswerTrue(t)
<1>1. faults' # faults /\ panelDomain' = panelDomain
  BY DEF PanelDies, Fault
<1>2. op[t].pc = "reload" => site' = site
  <2>1. \A u \in Thread : CertbotKilled(u) => u = t /\ op[u].pc = "certbot"
    BY DEF CertbotKilled, CanInstall, InFlight
  <2>. QED
    BY <2>1 DEF PanelDies
<1>. QED
  BY <1>1, <1>2 DEF OnItsWay, AnswerTrue

\* The counters are numbers.
LEMMA CountersKept ==
    ASSUME crashes \in Nat, faults \in Nat, [Next]_vars
    PROVE  crashes' \in Nat /\ faults' \in Nat
<1>1. CASE UNCHANGED vars
  BY <1>1 DEF vars, panelVars, updVars
<1>2. CASE UpdaterStep
  <2>1. CASE Snapshot \/ NoSnapshot \/ (\E r \in Release : Download(r)) \/ Stop
               \/ Replace \/ Pip \/ KeepSite \/ Gates \/ Restart \/ Health
    BY <2>1 DEF Snapshot, NoSnapshot, Download, Stop, Replace, Pip, KeepSite, Gates,
       Restart, Health, panelVars
  <2>2. CASE Smoke \/ Fails \/ Exit \/ ClearApp \/ Untar \/ RePip \/ RollbackFails
               \/ Rerun \/ Recheck
    BY <2>2 DEF Smoke, Fails, Exit, ClearApp, Untar, RePip, RollbackFails, Rerun,
       Recheck, Fault, panelVars
  <2>. QED
    BY <1>2, <2>1, <2>2 DEF UpdaterStep
<1>3. CASE Start \/ Crash
  BY <1>3 DEF Start, Crash, panelVars
<1>4. CASE PanelStep
  <2>1. faults' = faults \/ faults' = faults + 1
    BY <1>4 DEF PanelStep, PanelNext, ApplyStep, CertificateStep, BeginApply, BeginCertificate,
       Empty, WriteSite, WriteFails, Validate, ValidateFails, Undo, ReloadOriginal, Record,
       RecordFails, Certbot, CertbotFails, CertbotTimesOut, PanelDies, Fault
  <2>. QED
    BY <1>4, <2>1 DEF PanelStep, updVars
<1>. QED
  BY <1>1, <1>2, <1>3, <1>4 DEF Next

\* Only a request's own step keeps it alone, or the death of the panel ends it: an
\* update, a power loss and the arrival of another request end that.
LEMMA AloneKept ==
    ASSUME TypeOK, AloneInv, [Next]_vars
    PROVE  AloneInv' /\ \A t \in alone \intersect alone' : AnswerTrue(t)
<1>0. crashes' \in Nat /\ faults' \in Nat
  BY CountersKept DEF AloneInv
<1>1. CASE UNCHANGED vars
  <2>1. UNCHANGED <<site, live, op, panelDomain, upd, alone, crashes, faults>>
    BY <1>1 DEF vars, panelVars, updVars, history
  <2>. QED
    BY <2>1 DEF AloneInv, OnItsWay, InFlight, AnswerTrue
<1>2. CASE Next
  <2>0. History /\ upd \in Updater
    BY <1>2 DEF Next, TypeOK
  <2>2. CASE alone' = {}
    BY <1>0, <2>2 DEF AloneInv
  <2>3. CASE alone' # {}
    <3>1. /\ upd.pc = "idle" /\ upd'.pc = "idle" /\ crashes' = crashes
          /\ ~\E t, u \in Thread : t # u /\ op'[t].pc # "idle" /\ op'[u].pc # "idle"
          /\ alone' = IF InFlight = {} THEN {t \in Thread : op'[t].pc # "idle"} ELSE alone
      BY <2>0, <2>3 DEF History
    <3>2. PanelNext /\ UNCHANGED updVars
      <4>1. ~Crash
        BY <3>1 DEF AloneInv, Crash
      <4>2. ~Start
        BY <2>0, <3>1 DEF Start, Moves, Updater
      <4>3. ~UpdaterStep
        BY <3>1 DEF UpdaterStep, Snapshot, NoSnapshot, Download, Stop, Replace, After, Pip,
           KeepSite, Gates, Restart, Health, Smoke, Fails, Exit, ClearApp, Untar, RePip,
           RollbackFails, Rerun, Recheck, Rollback
      <4>. QED
        BY <1>2, <4>1, <4>2, <4>3 DEF Next, PanelStep
    <3>4. alone \subseteq Thread /\ alone' \subseteq Thread
      BY <2>0 DEF TypeOK, History
    <3>5. ASSUME NEW t \in alone'
          PROVE  /\ InFlight' \subseteq {t} /\ OnItsWay(t)'
                 /\ t \in alone => AnswerTrue(t)
      <4>1. CASE PanelDies
        <5>1. \A u \in Thread : op'[u] = Idle
          BY <4>1 DEF PanelDies
        <5>2. InFlight' = {} /\ OnItsWay(t)'
          BY <3>4, <5>1 DEF Idle, InFlight, OnItsWay
        <5>3. t \in alone => AnswerTrue(t)
          BY <3>4, <4>1, DeathAnswersNobody DEF AloneInv
        <5>. QED
          BY <5>2, <5>3
      <4>2. ASSUME NEW u \in Thread, Begins(u) \/ RequestStep(u)
            PROVE  /\ InFlight' \subseteq {t} /\ OnItsWay(t)'
                   /\ t \in alone => AnswerTrue(t)
        <5>0. \A w \in Thread \ {u} : op'[w] = op[w]
          BY <4>2, OneThreadMoves
        <5>1. CASE InFlight = {}
          <6>1. op[t].pc = "idle" /\ op'[t].pc # "idle"
            BY <3>1, <3>4, <5>1 DEF InFlight
          <6>2. t = u
            BY <3>4, <5>0, <6>1
          <6>3. OnItsWay(t)' /\ AnswerTrue(t)
            BY <4>2, <6>1, <6>2, StepOnItsWay DEF AloneInv
          <6>. QED
            BY <3>1, <3>4, <6>1, <6>3 DEF InFlight
        <5>2. CASE InFlight # {}
          <6>1. t \in alone /\ InFlight = {t} /\ OnItsWay(t) /\ op[t].pc # "idle"
            BY <3>1, <5>2 DEF AloneInv, InFlight
          <6>2. t = u
            <7>1. SUFFICES ASSUME t # u PROVE FALSE
              OBVIOUS
            <7>2. op[u].pc = "idle" /\ op'[t].pc # "idle"
              BY <3>4, <5>0, <6>1, <7>1 DEF InFlight
            <7>3. PICK d \in Domain : BeginApply(u, d) \/ BeginCertificate(u, d)
              BY <4>2, <7>2 DEF Begins, RequestStep, ApplyStep, CertificateStep, Empty, WriteSite,
                 WriteFails, Validate, ValidateFails, Undo, ReloadOriginal, Record, RecordFails,
                 Certbot, CertbotFails, CertbotTimesOut, CertbotKilled, CanInstall
            <7>4. op'[u].pc # "idle"
              BY <7>3 DEF BeginApply, BeginCertificate, TypeOK
            <7>. QED
              BY <3>1, <3>4, <7>1, <7>2, <7>4
          <6>3. OnItsWay(t)' /\ AnswerTrue(t)
            BY <4>2, <6>1, <6>2, StepOnItsWay DEF AloneInv
          <6>4. InFlight' \subseteq {t}
            BY <5>0, <6>1, <6>2 DEF InFlight
          <6>. QED
            BY <6>3, <6>4
        <5>. QED
          BY <5>1, <5>2
      <4>. QED
        BY <3>2, <4>1, <4>2 DEF PanelNext, Begins, RequestStep
    <3>. QED
      BY <1>0, <3>1, <3>5 DEF AloneInv
  <2>. QED
    BY <2>2, <2>3
<1>. QED
  BY <1>1, <1>2

\* "server_name apply with syntax validation and rollback" (CHANGELOG.md): what a
\* request that meets no other and no update is answered is true of the file, of nginx
\* and of the setting, whatever killed or failing requests have left before it.
THEOREM AnswersTrueCorrect == Spec => AnswersTrue
<1>1. Init => AloneInv
  BY DEF Init, PanelInit, UpdInit, AloneInv
<1>2. TypeOK /\ AloneInv /\ [Next]_vars => AloneInv'
  BY AloneKept
<1>3. TypeOK /\ AloneInv /\ [Next]_vars =>
        [\A t \in alone \intersect alone' :
            op[t].pc # "idle" /\ op'[t].pc = "idle" =>
                /\ op[t].pc = "record" /\ op[t].original # Blank /\ faults' = faults =>
                      panelDomain' = op[t].domain /\ site'.name = op[t].domain /\ live' = site'
                /\ op[t].pc = "reload" =>
                      /\ site' = op[t].original /\ panelDomain' = panelDomain
                      /\ faults' = faults /\ Accepted(site') => live' = site']_vars
  BY AloneKept DEF AnswerTrue
<1>. QED
  BY <1>1, <1>2, <1>3, TypeCorrect, PTL DEF Spec, AnswersTrue
=============================================================================
