------------------------- MODULE PortableMigration --------------------------
(* The migration of a panel to another host.  On the source the panel builds  *)
(* a bundle (system_ops.portable_migration_files) part by part while it goes  *)
(* on serving requests; on the destination an operator runs                   *)
(* scripts/restore-portable.py, which stops the services, replaces the data,  *)
(* the system users and the directories of the engines one after another, and *)
(* starts the services again.  A restore that fails, or that a power loss     *)
(* interrupts, is run again from the beginning.                               *)
EXTENDS Naturals, FiniteSets

CONSTANTS Account,       \* SSH accounts: a row in the database and a system user
          Client,        \* Xray clients: a row in the database and an entry in a file
          Tree,          \* directories of the engines besides that of Xray
          None,          \* no item
          MaxRequests, MaxFaults, MaxCrashes

ASSUME MigrationAssumption ==
    /\ Account \intersect Client = {} /\ None \notin Account \union Client
    /\ "xray" \notin Tree /\ "site" \notin Tree
    /\ MaxRequests \in Nat /\ MaxFaults \in Nat /\ MaxCrashes \in Nat

VARIABLES
    rows,        \* source: the items that have a row
    secret,      \* source: the credential of the item with the host or Xray, 0 if none
    req,         \* source: the request being served
    has,         \* source: the directories and the site there are
    exp,         \* source: where the export is
    bundle,      \* what the export has collected
    steady,      \* history: the items that were whole when the export began and that no
                 \* request has touched since
    data,        \* destination: the data directory
    user,        \* destination: the system user of each account
    tree,        \* destination: the directories of the engines, and the site
    serving,     \* destination: the services of the panel run
    res,         \* destination: where the restore is
    verdict,     \* destination: what the last restore has said
    harm,        \* history: a power loss, or a stop that failed
    requests, faults, crashes

source == <<rows, secret, req, has, steady, requests>>
export == <<exp, bundle>>
destination == <<data, user, tree, serving, res, verdict, harm, crashes>>
vars == <<source, export, destination, faults>>

Item == Account \union Client
Secret == 0 .. (MaxRequests + 1)
Component == Tree \union {"xray", "site"}

Request == [pc : {"idle", "row"}, kind : {"none", "create", "delete", "password"},
            item : Item \union {None}]
NoRequest == [pc |-> "idle", kind |-> "none", item |-> None]

Bundle == [names : SUBSET Account, rows : SUBSET Item, users : [Account -> Secret],
           entries : [Client -> Secret], parts : SUBSET Component]
EmptyBundle == [names |-> {}, rows |-> {}, users |-> [a \in Account |-> 0],
                entries |-> [c \in Client |-> 0], parts |-> {}]

Restore == [pc : {"idle", "stop", "engines", "data", "users", "trees", "site", "start", "check"},
            todo : SUBSET (Account \union Component)]

\* A directory of the destination: its own, half there, gone, or the bundle's.
Place == {"own", "torn", "gone", "restored"}

Init ==
    /\ rows \in SUBSET Item
    /\ secret = [i \in Item |-> IF i \in rows THEN 1 ELSE 0]
    /\ req = NoRequest
    /\ \E present \in SUBSET Tree : has = present \union {"xray", "site"}
    /\ exp = "idle" /\ bundle = EmptyBundle /\ steady = {}
    /\ data = "own"
    /\ user \in [Account -> {"gone", "own"}]
    /\ \E engines \in SUBSET (Tree \union {"xray"}) :
          tree = [t \in Component |-> IF t \in engines \union {"site"} THEN "own" ELSE "gone"]
    /\ serving = TRUE
    /\ res = [pc |-> "idle", todo |-> {}] /\ verdict = "none" /\ harm = FALSE
    /\ requests = 0 /\ faults = 0 /\ crashes = 0

-----------------------------------------------------------------------------
(* The source: requests.  The host, or Xray, comes first and the row second.  *)

Fault == faults < MaxFaults /\ faults' = faults + 1
Touches(i) == steady' = steady \ {i}

\* The system user, or the entry in the file of Xray, is made.
BeginCreate(i) ==
    /\ req.pc = "idle" /\ requests < MaxRequests /\ secret[i] = 0
    /\ req' = [pc |-> "row", kind |-> "create", item |-> i]
    /\ secret' = [secret EXCEPT ![i] = 1 + requests]
    /\ requests' = requests + 1
    /\ Touches(i)
    /\ UNCHANGED <<rows, has>>

\* The system user, or the entry, is removed.
BeginDelete(i) ==
    /\ req.pc = "idle" /\ requests < MaxRequests /\ secret[i] # 0
    /\ req' = [pc |-> "row", kind |-> "delete", item |-> i]
    /\ secret' = [secret EXCEPT ![i] = 0]
    /\ requests' = requests + 1
    /\ Touches(i)
    /\ UNCHANGED <<rows, has>>

\* An edit with a password.
BeginPassword(a) ==
    /\ req.pc = "idle" /\ requests < MaxRequests /\ secret[a] # 0
    /\ req' = [pc |-> "row", kind |-> "password", item |-> a]
    /\ secret' = [secret EXCEPT ![a] = 2 + requests]
    /\ requests' = requests + 1
    /\ Touches(a)
    /\ UNCHANGED <<rows, has>>

\* The row is inserted, deleted or written again.
WriteRow ==
    /\ req.pc = "row"
    /\ rows' = IF req.kind = "delete" THEN rows \ {req.item} ELSE rows \union {req.item}
    /\ req' = NoRequest
    /\ UNCHANGED <<secret, has, steady, requests>>

\* The database refuses, or the panel is killed: the row stays as it is.
RowFails ==
    /\ req.pc = "row" /\ req.item \in Account
    /\ Fault
    /\ req' = NoRequest
    /\ UNCHANGED <<rows, secret, has, steady, requests>>

RequestStep ==
    /\ exp # "done"                                    \* bound: the source is left alone then
    /\ \/ \E i \in Item : BeginCreate(i) \/ BeginDelete(i)
       \/ \E a \in Account : BeginPassword(a)
       \/ WriteRow
    /\ UNCHANGED <<export, destination, faults>>

RequestFails ==
    /\ exp # "done" /\ RowFails
    /\ UNCHANGED <<export, destination>>

-----------------------------------------------------------------------------
(* The source: the export.                                                   *)

\* The names of the accounts, before anything else is read.
ReadNames ==
    /\ exp = "idle"
    /\ bundle' = [EmptyBundle EXCEPT !.names = rows \intersect Account]
    /\ steady' = {i \in Item \ {req.item} : i \in rows <=> secret[i] # 0}
    /\ exp' = "data"
    /\ UNCHANGED <<rows, secret, req, has, requests, destination, faults>>

\* The data directory, with a copy of the database made by SQLite.
ReadData ==
    /\ exp = "data"
    /\ bundle' = [bundle EXCEPT !.rows = rows]
    /\ exp' = "users"
    /\ UNCHANGED <<source, destination, faults>>

\* passwd and shadow of the accounts named before that still have a system user.
ReadUsers ==
    /\ exp = "users"
    /\ bundle' = [bundle EXCEPT !.users = [a \in Account |-> IF a \in bundle.names THEN secret[a] ELSE 0]]
    /\ exp' = "trees"
    /\ UNCHANGED <<source, destination, faults>>

\* The directories there are, the configuration of Xray among them, and the site.
ReadTrees ==
    /\ exp = "trees"
    /\ bundle' = [bundle EXCEPT !.entries = [c \in Client |-> secret[c]], !.parts = has]
    /\ exp' = "done"
    /\ UNCHANGED <<source, destination, faults>>

Export == (ReadNames \/ ReadData \/ ReadUsers \/ ReadTrees)

-----------------------------------------------------------------------------
(* The destination: the restore, step by step.                               *)

Goes(pc) == res' = [res EXCEPT !.pc = pc]
Works(pc, todo) == res' = [pc |-> pc, todo |-> todo]

Users == {a \in Account : bundle.users[a] # 0}

\* Mutant of Trees: the site goes through the loop of the directories.
TreesAll == bundle.parts
Trees == bundle.parts \ {"site"}

\* The bundle is complete and of the version that is installed; an operator runs
\* the restore until it has passed.
Begin ==
    /\ exp = "done" /\ res.pc = "idle" /\ verdict # "pass"
    /\ Works("stop", {})
    /\ UNCHANGED <<source, export, data, user, tree, serving, verdict, harm, faults, crashes>>

\* Mutant of Stop: the panel is left running.
StopNot ==
    /\ res.pc = "stop"
    /\ harm' = FALSE
    /\ Goes("engines")
    /\ UNCHANGED <<source, export, data, user, tree, serving, verdict, faults, crashes>>

Stop ==
    /\ res.pc = "stop"
    /\ serving' = FALSE /\ harm' = FALSE
    /\ Goes("engines")
    /\ UNCHANGED <<source, export, data, user, tree, verdict, faults, crashes>>

\* The stops are not checked: what does not stop goes on serving.
StopFails ==
    /\ res.pc = "stop" /\ Fault
    /\ harm' = TRUE
    /\ Goes("engines")
    /\ UNCHANGED <<source, export, data, user, tree, serving, verdict, crashes>>

\* Engines of the bundle that are missing are installed, with a directory of their own.
InstallEngines ==
    /\ res.pc = "engines"
    /\ \E new \in SUBSET {t \in Trees : tree[t] = "gone"} :
          tree' = [t \in Component |-> IF t \in new THEN "own" ELSE tree[t]]
    /\ Goes("data")
    /\ UNCHANGED <<source, export, data, user, serving, verdict, harm, faults, crashes>>

\* What is there is removed, and the bundle's copied into its place.
RemoveData ==
    /\ res.pc = "data" /\ data # "gone"
    /\ data' = "gone" /\ UNCHANGED res
    /\ UNCHANGED <<source, export, user, tree, serving, verdict, harm, faults, crashes>>

CopyData ==
    /\ res.pc = "data" /\ data = "gone"
    /\ data' = "restored" /\ Works("users", Users)
    /\ UNCHANGED <<source, export, user, tree, serving, verdict, harm, faults, crashes>>

Current == CHOOSE x \in res.todo : TRUE

\* useradd, for a user that is not there.
AddUser ==
    /\ res.pc = "users" /\ res.todo # {}
    /\ user[Current] = "gone"
    /\ user' = [user EXCEPT ![Current] = "torn"] /\ UNCHANGED res
    /\ UNCHANGED <<source, export, data, tree, serving, verdict, harm, faults, crashes>>

\* Mutant of SetHash: only the users that were missing get the hash of the bundle.
SetHashNew ==
    /\ res.pc = "users" /\ res.todo # {}
    /\ user[Current] # "gone"
    /\ user' = [user EXCEPT ![Current] = IF @ = "torn" THEN "restored" ELSE @]
    /\ Works("users", res.todo \ {Current})
    /\ UNCHANGED <<source, export, data, tree, serving, verdict, harm, faults, crashes>>

\* usermod -p with the hash of the bundle, and the expiry date.
SetHash ==
    /\ res.pc = "users" /\ res.todo # {}
    /\ user[Current] # "gone"
    /\ user' = [user EXCEPT ![Current] = "restored"]
    /\ Works("users", res.todo \ {Current})
    /\ UNCHANGED <<source, export, data, tree, serving, verdict, harm, faults, crashes>>

UsersDone ==
    /\ res.pc = "users" /\ res.todo = {}
    /\ Works("trees", Trees)
    /\ UNCHANGED <<source, export, data, user, tree, serving, verdict, harm, faults, crashes>>

\* Mutant of RemoveTree: what an interrupted copy has left is not removed.
RemoveTreeOwn ==
    /\ res.pc = "trees" /\ res.todo # {}
    /\ tree[Current] = "own"
    /\ tree' = [tree EXCEPT ![Current] = "gone"] /\ UNCHANGED res
    /\ UNCHANGED <<source, export, data, user, serving, verdict, harm, faults, crashes>>

RemoveTree ==
    /\ res.pc = "trees" /\ res.todo # {}
    /\ tree[Current] # "gone"
    /\ tree' = [tree EXCEPT ![Current] = "gone"] /\ UNCHANGED res
    /\ UNCHANGED <<source, export, data, user, serving, verdict, harm, faults, crashes>>

CopyTree ==
    /\ res.pc = "trees" /\ res.todo # {}
    /\ tree[Current] = "gone"
    /\ tree' = [tree EXCEPT ![Current] = "restored"]
    /\ Works("trees", res.todo \ {Current})
    /\ UNCHANGED <<source, export, data, user, serving, verdict, harm, faults, crashes>>

TreesDone ==
    /\ res.pc = "trees" /\ res.todo = {}
    /\ Works("site", {})
    /\ UNCHANGED <<source, export, data, user, tree, serving, verdict, harm, faults, crashes>>

\* The site is written and linked, and the file of Xray handed to its user.
WriteSite ==
    /\ res.pc = "site"
    /\ tree' = [tree EXCEPT !["site"] = IF "site" \in bundle.parts THEN "restored" ELSE tree["site"]]
    /\ Goes("start")
    /\ UNCHANGED <<source, export, data, user, serving, verdict, harm, faults, crashes>>

\* Every service is started, nginx last.
StartStack ==
    /\ res.pc = "start"
    /\ serving' = TRUE
    /\ Goes("check")
    /\ UNCHANGED <<source, export, data, user, tree, verdict, harm, faults, crashes>>

\* Health check, test of the Xray configuration, WireGuard interface.
Validate ==
    /\ res.pc = "check"
    /\ verdict' = "pass" /\ Works("idle", {})
    /\ UNCHANGED <<source, export, data, user, tree, serving, harm, faults, crashes>>

\* What a command that stops on its way leaves of what it writes.
Half ==
    /\ data' \in {data} \union (IF res.pc = "data" THEN {"torn"} ELSE {})
    /\ tree' \in {tree} \union
          (IF res.pc = "trees" /\ res.todo # {} THEN {[tree EXCEPT ![Current] = "torn"]}
           ELSE IF res.pc = "site" /\ "site" \in bundle.parts THEN {[tree EXCEPT !["site"] = "torn"]} ELSE {})

\* An exception ends the restore; the services stay as they are.  nginx is tested
\* when the others have been started.
Dies ==
    /\ res.pc \notin {"idle", "stop"} /\ Fault
    /\ Half
    /\ serving' = (serving \/ res.pc = "start")
    /\ verdict' = "failed" /\ Works("idle", {})
    /\ UNCHANGED <<source, export, user, harm, crashes>>

\* A power loss: the services are enabled, and start with what is there; the panel
\* makes a new database where there is none.
Crash ==
    /\ res.pc # "idle"
    /\ crashes < MaxCrashes /\ crashes' = crashes + 1
    /\ \E d \in {data} \union (IF res.pc = "data" THEN {"torn"} ELSE {}) :
          data' = IF d = "gone" THEN "own" ELSE d
    /\ tree' \in {tree} \union
          (IF res.pc = "trees" /\ res.todo # {} THEN {[tree EXCEPT ![Current] = "torn"]} ELSE {})
    /\ serving' = TRUE /\ harm' = TRUE
    /\ Works("idle", {})
    /\ UNCHANGED <<source, export, user, verdict, faults>>

RestoreStep ==
    \/ Stop \/ StopFails \/ InstallEngines \/ RemoveData \/ CopyData
    \/ AddUser \/ SetHash \/ UsersDone \/ RemoveTree \/ CopyTree \/ TreesDone
    \/ WriteSite \/ StartStack \/ Validate

Next == RequestStep \/ RequestFails \/ Export \/ Begin \/ RestoreStep \/ Dies \/ Crash

Spec == Init /\ [][Next]_vars

\* The operator repeats a restore that has not passed, and a restore that runs goes on.
FairSpec == Spec /\ WF_vars(Begin) /\ WF_vars(RestoreStep)

-----------------------------------------------------------------------------
TypeOK ==
    /\ rows \subseteq Item /\ secret \in [Item -> Secret] /\ req \in Request
    /\ has \subseteq Component /\ exp \in {"idle", "data", "users", "trees", "done"}
    /\ bundle \in Bundle /\ steady \subseteq Item
    /\ data \in Place /\ user \in [Account -> Place] /\ tree \in [Component -> Place]
    /\ serving \in BOOLEAN /\ res \in Restore
    /\ res.todo \subseteq CASE res.pc = "users" -> Users [] res.pc = "trees" -> Trees \ {"site"}
                             [] OTHER -> {}
    /\ verdict \in {"none", "failed", "pass"} /\ harm \in BOOLEAN

\* The credential an item has on the destination, 0 if none.
Restored(i) ==
    IF i \in Account THEN (IF user[i] = "restored" THEN bundle.users[i] ELSE 0)
                     ELSE (IF tree["xray"] = "restored" THEN bundle.entries[i] ELSE 0)

\* "Existing client credentials remain valid after migration" (CHANGELOG.md): once
\* the restore has passed, every item that no request touched while the bundle was
\* built has its row and its credential, if it had them, and neither if not,
\* whatever failures and power losses came before.
Migrates ==
    verdict = "pass" =>
        /\ data = "restored"
        /\ \A i \in steady : Restored(i) = secret[i] /\ (i \in bundle.rows <=> secret[i] # 0)
        /\ \A t \in bundle.parts : tree[t] = "restored"

Untouched == data = "own" /\ \A t \in Component : tree[t] \in {"own", "gone"}
Complete == data = "restored" /\ \A t \in bundle.parts : tree[t] = "restored"

\* The panel and its workers never run on a host that is part the old one and part
\* the new one, except after a power loss or a failed stop and until the next restore.
ServesWhole == serving /\ ~harm => Untouched \/ Complete

\* A restore that is repeated passes in the end: every step can be taken again over
\* what an earlier run has left.
RestoreEnds == exp = "done" ~> verdict = "pass"
=============================================================================
