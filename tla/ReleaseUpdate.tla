--------------------------- MODULE ReleaseUpdate ----------------------------
(* The updater of the panel, scripts/update.sh, with its exit trap, on a host *)
(* whose panel runs and edits its nginx site (PanelSite) until the updater    *)
(* stops it.  The script runs under set -e: a command that fails ends it, and *)
(* the trap rolls back if the rollback has been armed; the trap itself runs   *)
(* under set +e.  A power loss ends the script without the trap, and systemd  *)
(* starts what is on the disk.                                                *)
EXTENDS PanelSite

CONSTANTS Release,       \* the releases
          Broken,        \* those whose backend never answers the health check
          Unit,          \* unit files, some of which an old installation may lack
          Torn,          \* a part that is half written
          MaxUpdates, MaxCrashes

ASSUME ReleaseAssumption ==
    /\ Broken \subseteq Release
    /\ None \notin Release /\ Torn \notin Release /\ Torn # None
    /\ Unit \intersect {"app", "requirements", "version", "tools", "venv"} = {}
    /\ MaxUpdates \in Nat /\ MaxCrashes \in Nat

VARIABLES disk,          \* the release of each installed part
          backend,       \* the release the running panel has loaded
          upd,           \* the updater
          outcome,       \* what the last update has printed
          harm,          \* history: files may have been left half replaced
          left,          \* history: what the site held when the update began and since
          alone,         \* history: a request that overlaps no other and no update
          updates, crashes

updVars == <<disk, backend, upd, outcome, harm, updates, crashes>>
history == <<left, alone>>
vars == <<panelVars, updVars, history>>

Core == {"app", "requirements", "version"}
Saved == Core \union Unit                     \* what the rollback point may hold
Part == Saved \union {"tools", "venv"}
Content == Release \union {None, Torn}

\* Where the updater is: the part of the script it runs next.
Step == {"idle", "snapshot", "download", "stop", "remove", "copy", "files", "pip",
         "units", "keep", "tools", "gates", "restart", "health", "smoke", "exit",
         "clear", "untar", "repip", "rerun", "recheck"}
Rollback == {"clear", "untar", "repip", "rerun", "recheck"}

Updater == [pc : Step, target : Release \union {None}, armed : BOOLEAN,
            saved : [Part -> Content], site : Text \union {None}]

-----------------------------------------------------------------------------
\* The parts a step writes, and what it writes: the rollback extracts what the
\* rollback point holds, which is what there was.
Written ==
    CASE upd.pc \in {"remove", "copy", "clear"} -> {"app"}
      [] upd.pc = "files" -> {"requirements", "version"}
      [] upd.pc = "units" -> Unit
      [] upd.pc = "tools" -> {"tools"}
      [] upd.pc \in {"pip", "repip"} -> {"venv"}
      [] upd.pc = "untar" -> {p \in Saved : upd.saved[p] # None}
      [] OTHER -> {}

Puts(p) ==
    CASE upd.pc \in {"remove", "clear"} -> None
      [] upd.pc = "untar" -> upd.saved[p]
      [] upd.pc \in {"pip", "repip"} -> disk["requirements"]
      [] OTHER -> upd.target

Put(done) == [p \in Part |-> IF p \in done THEN Puts(p) ELSE disk[p]]

\* The order in which the parts of one step are written.
Before(p) ==
    CASE p = "requirements" -> {"app"}
      [] p = "version" -> {"app", "requirements"}
      [] p \in Unit -> Core
      [] OTHER -> {}

Ready(p, done) == Before(p) \intersect Written \subseteq done

\* The parts a stopped step has written, in that order, and the part, if any, on
\* which it has stopped.
Stopped == {st \in [done : SUBSET Written, torn : {{}} \union {{p} : p \in Written}] :
               \A p \in st.done \union st.torn : Ready(p, st.done)}

Halfway == {[p \in Part |-> IF p \in st.torn THEN Torn ELSE Put(st.done)[p]] : st \in Stopped}

\* Mutant of Boots: whatever is on the disk starts.
BootsTorn(d) == {d["app"]}

\* What a start of the panel gives: it needs a whole application, and libraries
\* of another release may or may not do.
Boots(d) ==
    CASE d["app"] \notin Release \ Broken -> {None}
      [] d["app"] \in Release \ Broken /\ d["venv"] = d["app"] -> {d["app"]}
      [] OTHER -> {d["app"], None}

\* No updater is running.
NoUpdate == [pc |-> "idle", target |-> None, armed |-> FALSE,
             saved |-> [p \in Part |-> None], site |-> None]

UpdInit ==
    /\ \E r \in Release \ Broken :
        /\ \E present \in SUBSET Unit :
            disk = [p \in Part |-> IF p \in Unit \ present THEN None ELSE r]
        /\ backend = r
    /\ upd = NoUpdate
    /\ outcome = "none" /\ harm = FALSE
    /\ updates = 0 /\ crashes = 0

Moves(pc) == upd' = [upd EXCEPT !.pc = pc]

\* systemctl stop ends the requests the panel is serving; those it waits for
\* have ended before, and certbot undoes what it has begun when it is terminated.
Kills == op' = [t \in Thread |-> Idle]

-----------------------------------------------------------------------------
(* Before the rollback is armed: the data backup and the rollback point, then *)
(* the download.  A failure only ends the script.                            *)

Start ==
    /\ upd.pc = "idle" /\ updates < MaxUpdates
    /\ Moves("snapshot")
    /\ updates' = updates + 1 /\ outcome' = "none"
    /\ UNCHANGED <<disk, backend, harm, crashes, panelVars>>

\* tar fails on a missing member; a unit or a site that is missing is not named.
Snapshot ==
    /\ upd.pc = "snapshot"
    /\ \A p \in Core : disk[p] # None
    /\ upd' = [upd EXCEPT !.pc = "download", !.saved = disk, !.site = site]
    /\ UNCHANGED <<disk, backend, outcome, harm, updates, crashes, panelVars>>

NoSnapshot ==
    /\ upd.pc = "snapshot"
    /\ \E p \in Core : disk[p] = None
    /\ Moves("exit")
    /\ UNCHANGED <<disk, backend, outcome, harm, updates, crashes, panelVars>>

Download(r) ==
    /\ upd.pc = "download"
    /\ upd' = [upd EXCEPT !.pc = "stop", !.target = r]
    /\ UNCHANGED <<disk, backend, outcome, harm, updates, crashes, panelVars>>

\* Mutant of Stop: the rollback is not armed before the panel is stopped.
StopUnarmed ==
    /\ upd.pc = "stop"
    /\ Moves("remove")
    /\ backend' = None
    /\ Kills
    /\ UNCHANGED <<disk, outcome, harm, updates, crashes, site, live, panelDomain, requests, faults>>

\* ROLLBACK_ARMED=1, and systemctl stop.
Stop ==
    /\ upd.pc = "stop"
    /\ upd' = [upd EXCEPT !.pc = "remove", !.armed = TRUE]
    /\ backend' = None
    /\ Kills
    /\ UNCHANGED <<disk, outcome, harm, updates, crashes, site, live, panelDomain, requests, faults>>

-----------------------------------------------------------------------------
(* The replacement.                                                          *)

After == [remove |-> "copy", copy |-> "files", files |-> "pip", units |-> "keep", tools |-> "gates"]

\* rm and cp of the application, install of the files, the units and the tools.
Replace ==
    /\ upd.pc \in DOMAIN After
    /\ disk' = Put(Written)
    /\ Moves(After[upd.pc])
    /\ UNCHANGED <<backend, outcome, harm, updates, crashes, panelVars>>

Pip ==
    /\ upd.pc = "pip" /\ disk["requirements"] \in Release
    /\ disk' = Put(Written)
    /\ Moves("units")
    /\ UNCHANGED <<backend, outcome, harm, updates, crashes, panelVars>>

\* Mutant of KeepSite: the template is installed whatever is there.
KeepSiteNot ==
    /\ upd.pc = "keep"
    /\ site' = Template
    /\ Moves("tools")
    /\ UNCHANGED <<disk, backend, outcome, harm, updates, crashes, live, panelDomain, op, requests, faults>>

\* An nginx site that is there is preserved.
KeepSite ==
    /\ upd.pc = "keep"
    /\ site' = IF site = None THEN Template ELSE site
    /\ Moves("tools")
    /\ UNCHANGED <<disk, backend, outcome, harm, updates, crashes, live, panelDomain, op, requests, faults>>

\* The Xray and OpenVPN gates pass or the engine was down before, and nginx -t.
Gates ==
    /\ upd.pc = "gates"
    /\ Moves(IF Accepted(site) THEN "restart" ELSE "exit")
    /\ UNCHANGED <<disk, backend, outcome, harm, updates, crashes, panelVars>>

Restart ==
    /\ upd.pc = "restart"
    /\ backend' \in Boots(disk)
    /\ live' = IF Accepted(site) THEN site ELSE live
    /\ Moves("health")
    /\ UNCHANGED <<disk, outcome, harm, updates, crashes, site, panelDomain, op, requests, faults>>

\* Mutant of Health: the polls end and nobody looks at their result.
HealthIgnored ==
    /\ upd.pc = "health"
    /\ Moves("smoke")
    /\ UNCHANGED <<disk, backend, outcome, harm, updates, crashes, panelVars>>

\* Twenty polls of the health check.
Health ==
    /\ upd.pc = "health"
    /\ Moves(IF backend # None THEN "smoke" ELSE "exit")
    /\ UNCHANGED <<disk, backend, outcome, harm, updates, crashes, panelVars>>

\* The smoke gate tests nginx too; then ROLLBACK_ARMED=0.
Smoke ==
    /\ upd.pc = "smoke"
    /\ IF Accepted(site)
       THEN /\ upd' = NoUpdate
            /\ outcome' = "updated" /\ harm' = FALSE
       ELSE Moves("exit") /\ UNCHANGED <<outcome, harm>>
    /\ UNCHANGED <<disk, backend, updates, crashes, panelVars>>

\* A command fails, or an engine that was up fails its gate.  The rollback is armed
\* before the panel is stopped.
Fails ==
    /\ upd.pc \in Step \ ({"idle", "exit"} \union Rollback)
    /\ Fault
    /\ disk' \in Halfway
    /\ upd' = [upd EXCEPT !.pc = "exit", !.armed = upd.armed \/ upd.pc = "stop"]
    /\ UNCHANGED <<backend, outcome, harm, updates, crashes, site, live, panelDomain, op, requests>>

-----------------------------------------------------------------------------
(* The exit trap.                                                            *)

Exit ==
    /\ upd.pc = "exit"
    /\ IF upd.armed
       THEN /\ Moves("clear") /\ backend' = None /\ Kills /\ UNCHANGED outcome
       ELSE /\ upd' = NoUpdate /\ outcome' = "failed" /\ UNCHANGED <<backend, op>>
    /\ UNCHANGED <<disk, harm, updates, crashes, site, live, panelDomain, requests, faults>>

ClearApp ==
    /\ upd.pc = "clear"
    /\ disk' = Put(Written)
    /\ Moves("untar")
    /\ UNCHANGED <<backend, outcome, harm, updates, crashes, panelVars>>

Untar ==
    /\ upd.pc = "untar"
    /\ disk' = Put(Written)
    /\ site' = IF upd.site = None THEN site ELSE upd.site
    /\ Moves("repip")
    /\ UNCHANGED <<backend, outcome, harm, updates, crashes, live, panelDomain, op, requests, faults>>

RePip ==
    /\ upd.pc = "repip"
    /\ disk' = IF disk["requirements"] \in Release THEN Put(Written) ELSE disk
    /\ Moves("rerun")
    /\ UNCHANGED <<backend, outcome, harm, updates, crashes, panelVars>>

\* set +e: the rollback goes on after a command of its own that fails.
RollbackFails ==
    /\ upd.pc \in {"clear", "untar", "repip"}
    /\ Fault
    /\ disk' \in Halfway
    /\ Moves(CASE upd.pc = "clear" -> "untar" [] upd.pc = "untar" -> "repip"
               [] upd.pc = "repip" -> "rerun")
    /\ harm' = TRUE
    /\ UNCHANGED <<backend, outcome, updates, crashes, site, live, panelDomain, op, requests>>

\* Mutant of Rerun: the rollback restores the files and does not start the panel.
RerunNot ==
    /\ upd.pc = "rerun"
    /\ live' = IF Accepted(site) THEN site ELSE live
    /\ Moves("recheck")
    /\ UNCHANGED <<disk, backend, outcome, harm, updates, crashes, site, panelDomain, op, requests, faults>>

Rerun ==
    /\ upd.pc = "rerun"
    /\ backend' \in Boots(disk)
    /\ live' = IF Accepted(site) THEN site ELSE live
    /\ Moves("recheck")
    /\ UNCHANGED <<disk, outcome, harm, updates, crashes, site, panelDomain, op, requests, faults>>

Recheck ==
    /\ upd.pc = "recheck"
    /\ outcome' = IF backend # None THEN "restored" ELSE "unhealthy"
    /\ upd' = NoUpdate
    /\ UNCHANGED <<disk, backend, harm, updates, crashes, panelVars>>

-----------------------------------------------------------------------------
(* A power loss: no trap, and the host starts again with what is on the disk. *)
Crash ==
    /\ crashes < MaxCrashes /\ crashes' = crashes + 1
    /\ disk' \in Halfway
    /\ upd' = NoUpdate
    /\ harm' = (harm \/ upd.armed)
    /\ backend' \in Boots(disk')
    /\ site' \in {site} \union {s \in {Blank} : \E t \in Thread : CanInstall(t)}
                       \union {Certified(t) : t \in {u \in Thread : CanInstall(u)}}
    /\ live' = IF Accepted(site') THEN site' ELSE None
    /\ outcome' = "none"
    /\ Kills
    /\ UNCHANGED <<updates, panelDomain, requests, faults>>

UpdaterStep ==
    \/ Snapshot \/ NoSnapshot \/ (\E r \in Release : Download(r)) \/ Stop
    \/ Replace \/ Pip \/ KeepSite \/ Gates \/ Restart \/ Health \/ Smoke \/ Fails
    \/ Exit \/ ClearApp \/ Untar \/ RePip \/ RollbackFails \/ Rerun \/ Recheck

\* Requests reach the panel while it runs.
PanelStep == backend # None /\ PanelNext /\ UNCHANGED updVars

History ==
    /\ left' = IF upd'.pc = "idle" THEN {}
               ELSE IF upd.pc = "idle" THEN {site}
               ELSE IF UNCHANGED updVars THEN left \union {site'} ELSE left
    /\ alone' = IF \/ upd.pc # "idle" \/ upd'.pc # "idle" \/ crashes' # crashes
                   \/ \E t, u \in Thread : t # u /\ op'[t].pc # "idle" /\ op'[u].pc # "idle"
                THEN {}
                ELSE IF InFlight = {} THEN {t \in Thread : op'[t].pc # "idle"} ELSE alone

Init == PanelInit /\ UpdInit /\ left = {} /\ alone = {}

Next == (Start \/ UpdaterStep \/ Crash \/ PanelStep) /\ History

Spec == Init /\ [][Next]_vars

\* An updater that has begun is run to its end.
FairSpec == Spec /\ WF_vars(UpdaterStep /\ History)

-----------------------------------------------------------------------------
TypeOK ==
    /\ site \in Text \union {None} /\ live \in Text \union {None}
    /\ panelDomain \in Name
    /\ op \in [Thread -> Op]
    /\ disk \in [Part -> Content] /\ backend \in Release \union {None}
    /\ upd \in Updater
    /\ outcome \in {"none", "updated", "restored", "unhealthy", "failed"}
    /\ harm \in BOOLEAN
    /\ alone \subseteq Thread

\* What the promise is about; while files are being replaced, what counts as
\* installed is what the rollback would bring back.
Kept == Saved \union {"venv"}
Installed == [p \in Kept |-> IF upd.armed THEN upd.saved[p] ELSE disk[p]]

\* What the updater promises, README.md: it "automatically restores the previous
\* runtime when the new backend fails its health check", and CHANGELOG.md: "any
\* failed update, command failure after the rollback point" does.  See AtomicRelease.
Promise == INSTANCE AtomicRelease WITH
    Piece <- Kept,
    installed <- Installed,
    busy <- upd.pc # "idle",
    harmed <- harm
KeepsPromise == Promise!Spec

\* The verdicts are true: after "Update complete" and after "Rollback successful"
\* the panel runs, and runs the release that is installed.
VerdictTrue ==
    upd.pc = "idle" /\ outcome \in {"updated", "restored"}
        => backend = disk["app"] /\ backend \in Release \ Broken

\* "Preserving active Makia Nginx/Certbot configuration": whatever fails in an
\* update, the site holds nothing the panel has not left in it since the update
\* began; only a site that was missing is given the template.
SiteKept ==
    upd.pc # "idle" => site \in left \union {s \in {Template} : None \in left}

\* "server_name apply with syntax validation and rollback" (CHANGELOG.md): what a
\* request for a domain that meets no other and no update is answered is true,
\* whatever killed or failing requests have left before it.  After a success the
\* file, nginx and the setting have the domain; after a refusal the file has its
\* text and the setting its value, and nginx serves that text if it loads it.  A
\* request that dies, or that fails at a write or at the database, is answered
\* neither and may leave the three apart; an emptied file is never renamed.
AnswersTrue ==
    [][\A t \in alone \intersect alone' :
        op[t].pc # "idle" /\ op'[t].pc = "idle" =>
            /\ op[t].pc = "record" /\ op[t].original # Blank /\ faults' = faults =>
                  panelDomain' = op[t].domain /\ site'.name = op[t].domain /\ live' = site'
            /\ op[t].pc = "reload" =>
                  /\ site' = op[t].original /\ panelDomain' = panelDomain
                  /\ faults' = faults /\ Accepted(site') => live' = site']_vars

\* An update that no power loss ends leaves the panel running in the end, unless
\* its rollback has met a failure too.
ServesAgain ==
    upd.pc # "idle" ~> upd.pc = "idle" /\ (backend # None \/ harm)
=============================================================================
