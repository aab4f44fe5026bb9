---------------------- MODULE PortableMigrationProofs ----------------------
(* The invariants of the migration, for any accounts, clients, engines and    *)
(* numbers of requests, failures and power losses.                            *)
EXTENDS PortableMigration, TLAPS

USE DEF Item, Component, Place

-----------------------------------------------------------------------------
(* The inductive invariant.                                                   *)

\* The counter of requests bounds the credentials that have been handed out, a request
\* that has a row to write is about an item, and the restore never starts before the bundle is complete.
Bounds ==
    /\ requests \in 0 .. MaxRequests
    /\ req.pc = "row" => req.item \in Item
    /\ "xray" \in has
    /\ exp # "done" => res.pc = "idle" /\ verdict = "none" /\ serving /\ ~harm
    /\ exp # "done" => data = "own" /\ \A t \in Component : tree[t] \in {"own", "gone"}

\* What the export has read so far agrees with the source on every steady item.
ExportAgrees ==
    /\ \A i \in steady : req.item # i /\ (i \in rows <=> secret[i] # 0)
    /\ exp # "idle" => \A a \in steady \intersect Account : a \in bundle.names <=> a \in rows
    /\ exp \in {"users", "trees", "done"} => \A i \in steady : i \in bundle.rows <=> i \in rows
    /\ exp \in {"trees", "done"} => \A a \in steady \intersect Account : bundle.users[a] = secret[a]
    /\ exp = "done" => "xray" \in bundle.parts
    /\ exp = "done" => \A c \in steady \intersect Client : bundle.entries[c] = secret[c]

UsersRestored == \A a \in Users : user[a] = "restored"
TreesRestored == \A t \in Trees : tree[t] = "restored"
SiteRestored == "site" \in bundle.parts => tree["site"] = "restored"

\* What the restore has behind it is in place.
RestoreAgrees ==
    /\ res.pc \in {"users", "trees", "site", "start", "check"} => data = "restored"
    /\ res.pc = "users" => \A a \in Users \ res.todo : user[a] = "restored"
    /\ res.pc \in {"trees", "site", "start", "check"} => UsersRestored
    /\ res.pc = "trees" => \A t \in Trees \ res.todo : tree[t] = "restored"
    /\ res.pc \in {"site", "start", "check"} => TreesRestored
    /\ res.pc \in {"start", "check"} => SiteRestored
    /\ verdict = "pass" =>
          res.pc = "idle" /\ data = "restored" /\ UsersRestored /\ TreesRestored /\ SiteRestored

\* The panel runs on its old host or its new one, or the restore is about to say so.
ServesAgrees ==
    serving /\ ~harm => \/ res.pc \in {"idle", "stop"} /\ (Untouched \/ Complete)
                        \/ res.pc \in {"start", "check"}

MigrationInv == TypeOK /\ Bounds /\ ExportAgrees /\ RestoreAgrees /\ ServesAgrees

-----------------------------------------------------------------------------
\* The item that is worked on is one of those that are left.
LEMMA CurrentIsLeft == res.todo # {} => Current \in res.todo
  BY DEF Current

\* The initial states satisfy the invariant.
LEMMA InitInv == Init => MigrationInv
  <1> SUFFICES ASSUME Init PROVE MigrationInv
    OBVIOUS
  <1> USE MigrationAssumption
  <1>1. secret \in [Item -> Secret]
    BY DEF Init, Secret
  <1>2. req \in Request /\ bundle \in Bundle /\ res \in Restore
    BY DEF Init, NoRequest, Request, EmptyBundle, Bundle, Secret, Restore
  <1>3. user \in [Account -> Place] /\ tree \in [Component -> Place] /\ has \subseteq Component
    BY DEF Init
  <1>4. TypeOK
    BY <1>1, <1>2, <1>3 DEF Init, TypeOK
  <1>5. Bounds /\ ExportAgrees /\ RestoreAgrees /\ ServesAgrees
    BY DEF Init, Bounds, ExportAgrees, RestoreAgrees, ServesAgrees, Untouched, EmptyBundle, NoRequest
  <1> QED
    BY <1>4, <1>5 DEF MigrationInv

-----------------------------------------------------------------------------
(* The source.                                                                *)

\* Requests preserve the invariant: they take what they touch out of steady.
LEMMA RequestInv == MigrationInv /\ RequestStep => MigrationInv'
  <1> SUFFICES ASSUME MigrationInv, RequestStep PROVE MigrationInv'
    OBVIOUS
  <1> USE MigrationAssumption
  <1>u. UNCHANGED <<export, destination, faults>> /\ exp # "done" /\ UNCHANGED has
    BY DEF RequestStep, BeginCreate, BeginDelete, BeginPassword, WriteRow
  <1>1. RestoreAgrees' /\ ServesAgrees'
    BY <1>u DEF MigrationInv, RestoreAgrees, ServesAgrees, UsersRestored, TreesRestored, SiteRestored,
       Untouched, Complete, Users, Trees, export, destination
  <1>2. ASSUME NEW i \in Item, BeginCreate(i) \/ BeginDelete(i)
        PROVE TypeOK' /\ Bounds' /\ ExportAgrees'
    <2>1. secret' \in [Item -> Secret] /\ req' \in Request /\ req'.item = i
          /\ requests' \in 0 .. MaxRequests /\ rows' = rows /\ steady' = steady \ {i}
          /\ \A j \in Item \ {i} : secret'[j] = secret[j]
      BY <1>2 DEF BeginCreate, BeginDelete, Touches, MigrationInv, TypeOK, Bounds, Request, Secret
    <2>2. TypeOK'
      BY <1>u, <2>1 DEF MigrationInv, TypeOK, Users, Trees, export, destination
    <2>3. Bounds'
      BY <1>u, <2>1 DEF MigrationInv, Bounds, export, destination
    <2>4. ExportAgrees'
      BY <1>u, <2>1 DEF MigrationInv, TypeOK, ExportAgrees, export, destination
    <2> QED
      BY <2>2, <2>3, <2>4
  <1>3. ASSUME NEW a \in Account, BeginPassword(a)
        PROVE TypeOK' /\ Bounds' /\ ExportAgrees'
    <2>1. secret' \in [Item -> Secret] /\ req' \in Request /\ req'.item = a
          /\ requests' \in 0 .. MaxRequests /\ rows' = rows /\ steady' = steady \ {a}
          /\ \A j \in Item \ {a} : secret'[j] = secret[j]
      BY <1>3 DEF BeginPassword, Touches, MigrationInv, TypeOK, Bounds, Request, Secret
    <2>2. TypeOK'
      BY <1>u, <2>1 DEF MigrationInv, TypeOK, Users, Trees, export, destination
    <2>3. Bounds'
      BY <1>u, <2>1 DEF MigrationInv, Bounds, export, destination
    <2>4. ExportAgrees'
      BY <1>u, <2>1 DEF MigrationInv, TypeOK, ExportAgrees, export, destination
    <2> QED
      BY <2>2, <2>3, <2>4
  <1>4. CASE WriteRow
    <2>1. TypeOK'
      BY <1>u, <1>4 DEF WriteRow, NoRequest, MigrationInv, TypeOK, Bounds, Request, Users, Trees, export, destination
    <2>2. Bounds' /\ ExportAgrees'
      BY <1>u, <1>4 DEF WriteRow, NoRequest, MigrationInv, TypeOK, Bounds, ExportAgrees, export, destination
    <2> QED
      BY <1>1, <2>1, <2>2 DEF MigrationInv
  <1> QED
    BY <1>1, <1>2, <1>3, <1>4 DEF RequestStep, MigrationInv

\* A row that is not written leaves the item out of steady, where its request put it.
LEMMA RequestFailsInv == MigrationInv /\ RequestFails => MigrationInv'
  <1> SUFFICES ASSUME MigrationInv, RequestFails PROVE MigrationInv'
    OBVIOUS
  <1> USE MigrationAssumption
  <1>1. TypeOK'
    BY DEF RequestFails, RowFails, NoRequest, Fault, MigrationInv, TypeOK, Request, Users, Trees, export, destination
  <1>2. Bounds' /\ ExportAgrees'
    BY DEF RequestFails, RowFails, NoRequest, Fault, MigrationInv, TypeOK, Bounds, ExportAgrees, export, destination
  <1>3. RestoreAgrees' /\ ServesAgrees'
    BY DEF RequestFails, RowFails, MigrationInv, RestoreAgrees, ServesAgrees, UsersRestored, TreesRestored,
       SiteRestored, Untouched, Complete, Users, Trees, export, destination
  <1> QED
    BY <1>1, <1>2, <1>3 DEF MigrationInv

\* Each part of the export agrees with the source when it is read, and with the
\* parts read before on what no request has touched since.
LEMMA ExportInv == MigrationInv /\ Export => MigrationInv'
  <1> SUFFICES ASSUME MigrationInv, Export PROVE MigrationInv'
    OBVIOUS
  <1> USE MigrationAssumption
  <1>u. UNCHANGED <<destination, faults, rows, secret, req, has, requests>> /\ exp # "done"
    BY DEF Export, ReadNames, ReadData, ReadUsers, ReadTrees, source
  <1>1. /\ res.pc = "idle" /\ verdict = "none" /\ res.todo = {} /\ data = "own"
        /\ \A t \in Component : tree[t] \in {"own", "gone"}
    BY <1>u DEF MigrationInv, Bounds, TypeOK
  <1>2. Bounds' /\ RestoreAgrees' /\ ServesAgrees'
    BY <1>u, <1>1 DEF MigrationInv, Bounds, RestoreAgrees, ServesAgrees, Untouched, destination
  <1>3. CASE ReadNames
    BY <1>u, <1>1, <1>2, <1>3 DEF ReadNames, MigrationInv, TypeOK, ExportAgrees, Bundle, EmptyBundle, Secret, destination
  <1>4. CASE ReadData
    BY <1>u, <1>1, <1>2, <1>4 DEF ReadData, source, MigrationInv, TypeOK, ExportAgrees, Bundle, destination
  <1>5. CASE ReadUsers
    <2>1. bundle' = [bundle EXCEPT !.users = bundle'.users]
          /\ bundle'.users = [a \in Account |-> IF a \in bundle.names THEN secret[a] ELSE 0]
      BY <1>5 DEF ReadUsers, MigrationInv, TypeOK, Bundle
    <2>2. TypeOK'
      BY <1>u, <1>1, <1>5, <2>1 DEF ReadUsers, source, MigrationInv, TypeOK, Bundle, Secret, destination
    <2>3. ExportAgrees'
      BY <1>u, <1>5, <2>1 DEF ReadUsers, source, MigrationInv, TypeOK, ExportAgrees, Bundle
    <2> QED
      BY <1>2, <2>2, <2>3 DEF MigrationInv
  <1>6. CASE ReadTrees
    <2>1. /\ bundle'.entries = [c \in Client |-> secret[c]] /\ bundle'.parts = has
          /\ bundle'.names = bundle.names /\ bundle'.rows = bundle.rows /\ bundle'.users = bundle.users
          /\ bundle' \in Bundle
      BY <1>6 DEF ReadTrees, MigrationInv, TypeOK, Bundle, Secret
    <2>2. TypeOK'
      BY <1>u, <1>1, <1>6, <2>1 DEF ReadTrees, source, MigrationInv, TypeOK, destination
    <2>3. ExportAgrees'
      BY <1>u, <1>6, <2>1 DEF ReadTrees, source, MigrationInv, TypeOK, ExportAgrees, Bounds
    <2> QED
      BY <1>2, <2>2, <2>3 DEF MigrationInv
  <1> QED
    BY <1>3, <1>4, <1>5, <1>6 DEF Export

-----------------------------------------------------------------------------
(* The destination.  The source and the bundle are left alone.                *)

\* What a step of the restore leaves alone keeps its part of the invariant.
LEMMA SourceKept ==
  ASSUME MigrationInv, UNCHANGED <<source, export>>, exp = "done"
  PROVE Bounds' /\ ExportAgrees' /\ Users' = Users /\ Trees' = Trees
  BY DEF MigrationInv, Bounds, ExportAgrees, Users, Trees, source, export

\* The steps up to the data preserve the invariant.
LEMMA EarlyInv ==
  MigrationInv /\ (Begin \/ Stop \/ StopFails \/ InstallEngines \/ RemoveData \/ CopyData) => MigrationInv'
  <1> SUFFICES ASSUME MigrationInv,
                      Begin \/ Stop \/ StopFails \/ InstallEngines \/ RemoveData \/ CopyData
               PROVE MigrationInv'
    OBVIOUS
  <1> USE MigrationAssumption
  <1>1. UNCHANGED <<source, export>> /\ exp = "done"
    BY DEF Begin, Stop, StopFails, InstallEngines, RemoveData, CopyData, MigrationInv, Bounds
  <1>2. Bounds' /\ ExportAgrees' /\ Users' = Users /\ Trees' = Trees
    BY <1>1, SourceKept
  <1>3. Users \subseteq Account /\ Trees \subseteq Component
    BY <1>1 DEF Users, Trees, MigrationInv, TypeOK, Bundle
  <1>4. CASE Begin \/ Stop \/ StopFails
    <2>1. UNCHANGED <<data, user, tree>> /\ res'.pc \in {"stop", "engines"} /\ res' \in Restore
          /\ res'.todo = {} /\ verdict' = verdict /\ verdict # "pass"
      BY <1>4 DEF Begin, Stop, StopFails, Works, Goes, MigrationInv, TypeOK, Restore, RestoreAgrees
    <2>2. TypeOK'
      BY <1>1, <1>4, <2>1 DEF Begin, Stop, StopFails, MigrationInv, TypeOK, source, export
    <2>3. RestoreAgrees'
      BY <2>1 DEF RestoreAgrees
    <2>4. Untouched' = Untouched /\ Complete' = Complete
      BY <1>1, <2>1 DEF Untouched, Complete, export
    <2>5. ServesAgrees'
      <3>1. CASE Begin
        <4>1. serving' = serving /\ harm' = harm /\ res.pc = "idle" /\ res'.pc = "stop"
          BY <3>1 DEF Begin, Works
        <4> QED
          BY <4>1, <2>4 DEF MigrationInv, ServesAgrees
      <3>2. CASE Stop \/ StopFails
        BY <3>2 DEF Stop, StopFails, ServesAgrees
      <3> QED
        BY <1>4, <3>1, <3>2
    <2> QED
      BY <1>2, <2>2, <2>3, <2>5 DEF MigrationInv
  <1>5. CASE InstallEngines
    <2>1. tree' \in [Component -> Place]
      BY <1>5 DEF InstallEngines, MigrationInv, TypeOK
    <2> QED
      BY <1>1, <1>2, <1>5, <2>1 DEF InstallEngines, Goes, MigrationInv, TypeOK, Restore,
         RestoreAgrees, ServesAgrees, source, export
  <1>6. CASE RemoveData \/ CopyData
    BY <1>1, <1>2, <1>3, <1>6 DEF RemoveData, CopyData, Works, MigrationInv, TypeOK, Restore,
       RestoreAgrees, ServesAgrees, source, export
  <1> QED
    BY <1>4, <1>5, <1>6

\* The users are restored one after another.
LEMMA UsersInv == MigrationInv /\ (AddUser \/ SetHash \/ UsersDone) => MigrationInv'
  <1> SUFFICES ASSUME MigrationInv, AddUser \/ SetHash \/ UsersDone PROVE MigrationInv'
    OBVIOUS
  <1> USE MigrationAssumption
  <1>1. UNCHANGED <<source, export>> /\ exp = "done" /\ res.pc = "users"
    BY DEF AddUser, SetHash, UsersDone, MigrationInv, Bounds
  <1>2. Bounds' /\ ExportAgrees' /\ Users' = Users /\ Trees' = Trees
    BY <1>1, SourceKept
  <1>3. Users \subseteq Account /\ Trees \subseteq Component /\ res.todo \subseteq Users
    BY <1>1 DEF Users, Trees, MigrationInv, TypeOK, Bundle
  <1>4. CASE AddUser
    BY <1>1, <1>2, <1>3, <1>4, CurrentIsLeft DEF AddUser, MigrationInv, TypeOK, RestoreAgrees, ServesAgrees,
       source, export
  <1>5. CASE SetHash
    BY <1>1, <1>2, <1>3, <1>5, CurrentIsLeft DEF SetHash, Works, MigrationInv, TypeOK, Restore,
       RestoreAgrees, ServesAgrees, source, export
  <1>6. CASE UsersDone
    BY <1>1, <1>2, <1>3, <1>6 DEF UsersDone, Works, MigrationInv, TypeOK, Restore,
       RestoreAgrees, ServesAgrees, UsersRestored, Trees, source, export
  <1> QED
    BY <1>4, <1>5, <1>6

\* The directories are restored one after another, and then the site.
LEMMA TreesInv == MigrationInv /\ (RemoveTree \/ CopyTree \/ TreesDone \/ WriteSite) => MigrationInv'
  <1> SUFFICES ASSUME MigrationInv, RemoveTree \/ CopyTree \/ TreesDone \/ WriteSite PROVE MigrationInv'
    OBVIOUS
  <1> USE MigrationAssumption
  <1>1. UNCHANGED <<source, export>> /\ exp = "done" /\ res.pc \in {"trees", "site"}
    BY DEF RemoveTree, CopyTree, TreesDone, WriteSite, MigrationInv, Bounds
  <1>2. Bounds' /\ ExportAgrees' /\ Users' = Users /\ Trees' = Trees
    BY <1>1, SourceKept
  <1>3. Trees \subseteq Component \ {"site"} /\ (res.pc = "trees" => res.todo \subseteq Trees)
    BY <1>1 DEF Trees, MigrationInv, TypeOK, Bundle
  <1>4. CASE RemoveTree \/ CopyTree
    BY <1>1, <1>2, <1>3, <1>4, CurrentIsLeft DEF RemoveTree, CopyTree, Works, MigrationInv, TypeOK, Restore,
       RestoreAgrees, ServesAgrees, UsersRestored, source, export
  <1>5. CASE TreesDone
    BY <1>1, <1>2, <1>3, <1>5 DEF TreesDone, Works, MigrationInv, TypeOK, Restore,
       RestoreAgrees, ServesAgrees, UsersRestored, TreesRestored, source, export
  <1>6. CASE WriteSite
    BY <1>1, <1>2, <1>3, <1>6 DEF WriteSite, Goes, MigrationInv, TypeOK, Restore,
       RestoreAgrees, ServesAgrees, UsersRestored, TreesRestored, SiteRestored, source, export
  <1> QED
    BY <1>4, <1>5, <1>6

\* The end of the restore, reached with everything in place.
LEMMA EndInv == MigrationInv /\ (StartStack \/ Validate) => MigrationInv'
  <1> SUFFICES ASSUME MigrationInv, StartStack \/ Validate PROVE MigrationInv'
    OBVIOUS
  <1> USE MigrationAssumption
  <1>1. UNCHANGED <<source, export>> /\ exp = "done" /\ res.pc \in {"start", "check"}
    BY DEF StartStack, Validate, MigrationInv, Bounds
  <1>2. Bounds' /\ ExportAgrees' /\ Users' = Users /\ Trees' = Trees
    BY <1>1, SourceKept
  <1>3. Complete
    BY <1>1 DEF MigrationInv, RestoreAgrees, TreesRestored, SiteRestored, Complete, Trees
  <1>4. UNCHANGED <<data, user, tree>> /\ res' \in Restore /\ res'.todo = {}
        /\ verdict' \in {"none", "failed", "pass"}
    BY <1>1 DEF StartStack, Validate, Works, Goes, MigrationInv, TypeOK, Restore
  <1>5. TypeOK'
    BY <1>1, <1>4 DEF StartStack, Validate, MigrationInv, TypeOK, source, export
  <1>6. data = "restored" /\ UsersRestored /\ TreesRestored /\ SiteRestored
    BY <1>1 DEF MigrationInv, RestoreAgrees
  <1>7. data' = "restored" /\ UsersRestored' /\ TreesRestored' /\ SiteRestored' /\ Complete'
    BY <1>1, <1>2, <1>3, <1>4, <1>6 DEF UsersRestored, TreesRestored, SiteRestored, Complete, export
  <1>8. RestoreAgrees' /\ ServesAgrees'
    BY <1>7 DEF StartStack, Validate, Works, Goes, MigrationInv, TypeOK, Restore, RestoreAgrees, ServesAgrees
  <1> QED
    BY <1>2, <1>5, <1>8 DEF MigrationInv

\* A restore that ends early has not passed, and leaves the panel stopped unless
\* everything is in place.
LEMMA EndsEarlyInv == MigrationInv /\ (Dies \/ Crash) => MigrationInv'
  <1> SUFFICES ASSUME MigrationInv, Dies \/ Crash PROVE MigrationInv'
    OBVIOUS
  <1> USE MigrationAssumption
  <1>1. UNCHANGED <<source, export>> /\ exp = "done" /\ res.pc # "idle"
    BY DEF Dies, Crash, MigrationInv, Bounds
  <1>2. Bounds' /\ ExportAgrees' /\ Users' = Users /\ Trees' = Trees
    BY <1>1, SourceKept
  <1>3. Trees \subseteq Component /\ (res.pc = "trees" => res.todo \subseteq Trees)
    BY <1>1 DEF Trees, MigrationInv, TypeOK, Bundle
  <1>4. res.pc \in {"start", "check"} => Complete
    BY <1>1 DEF MigrationInv, RestoreAgrees, TreesRestored, SiteRestored, Complete, Trees
  <1>5. data' \in Place /\ tree' \in [Component -> Place]
    BY <1>3, CurrentIsLeft DEF Dies, Half, Crash, MigrationInv, TypeOK
  <1>6. verdict' # "pass" /\ verdict' \in {"none", "failed"}
    BY <1>1 DEF Dies, Crash, MigrationInv, TypeOK, RestoreAgrees
  <1>7. CASE Dies
    <2>1. res.pc \in {"start", "check"} => data' = data /\ tree' = tree
      BY <1>7 DEF Dies, Half
    <2> QED
      BY <1>1, <1>2, <1>4, <1>5, <1>6, <1>7, <2>1 DEF Dies, Works, MigrationInv, TypeOK, Restore,
         RestoreAgrees, ServesAgrees, Complete, source, export
  <1>8. CASE Crash
    BY <1>1, <1>2, <1>5, <1>6, <1>8 DEF Crash, Works, MigrationInv, TypeOK, Restore,
       RestoreAgrees, ServesAgrees, source, export
  <1> QED
    BY <1>7, <1>8

\* Every step preserves the invariant.
LEMMA NextInv == MigrationInv /\ [Next]_vars => MigrationInv'
  <1> SUFFICES ASSUME MigrationInv, [Next]_vars PROVE MigrationInv'
    OBVIOUS
  <1>1. CASE UNCHANGED vars
    BY <1>1 DEF vars, source, export, destination, MigrationInv, TypeOK, Bounds, ExportAgrees, RestoreAgrees,
       ServesAgrees, UsersRestored, TreesRestored, SiteRestored, Untouched, Complete, Users, Trees
  <1>2. CASE Next
    BY <1>2, RequestInv, RequestFailsInv, ExportInv, EarlyInv, UsersInv, TreesInv, EndInv, EndsEarlyInv
       DEF Next, RestoreStep
  <1> QED
    BY <1>1, <1>2

-----------------------------------------------------------------------------
\* The invariant holds in every state.
LEMMA InvCorrect == Spec => []MigrationInv
  BY InitInv, NextInv, PTL DEF Spec

\* Every variable has its type, and the restore works only on what the bundle holds.
THEOREM TypeCorrect == Spec => []TypeOK
  <1>1. MigrationInv => TypeOK
    BY DEF MigrationInv
  <1> QED
    BY InvCorrect, <1>1, PTL

\* A restore that passes has migrated every item that no request touched during the
\* export, whatever failed or lost power before (scripts/restore-portable.py).
THEOREM MigratesCorrect == Spec => []Migrates
  <1>1. MigrationInv => Migrates
    <2> SUFFICES ASSUME MigrationInv, verdict = "pass"
                 PROVE /\ data = "restored"
                       /\ \A i \in steady : Restored(i) = secret[i] /\ (i \in bundle.rows <=> secret[i] # 0)
                       /\ \A t \in bundle.parts : tree[t] = "restored"
      BY DEF Migrates
    <2> USE MigrationAssumption
    <2>1. exp = "done" /\ data = "restored" /\ UsersRestored /\ TreesRestored /\ SiteRestored
      BY DEF MigrationInv, Bounds, RestoreAgrees
    <2>2. \A t \in bundle.parts : tree[t] = "restored"
      BY <2>1 DEF TreesRestored, SiteRestored, Trees
    <2>3. ASSUME NEW i \in steady PROVE Restored(i) = secret[i] /\ (i \in bundle.rows <=> secret[i] # 0)
      <3>1. i \in bundle.rows <=> secret[i] # 0
        BY <2>1, <2>3 DEF MigrationInv, ExportAgrees
      <3>2. CASE i \in Account
        BY <2>1, <2>3, <3>2 DEF MigrationInv, ExportAgrees, UsersRestored, Users, Restored
      <3>3. CASE i \in Client
        BY <2>1, <2>2, <2>3, <3>3 DEF MigrationInv, ExportAgrees, Restored
      <3> QED
        BY <2>3, <3>1, <3>2, <3>3 DEF MigrationInv, TypeOK
    <2> QED
      BY <2>1, <2>2, <2>3
  <1> QED
    BY InvCorrect, <1>1, PTL

\* The panel is never started on a host that is part old and part new
\* (scripts/restore-portable.py), power losses and failed stops aside.
THEOREM ServesWholeCorrect == Spec => []ServesWhole
  <1>1. MigrationInv => ServesWhole
    BY DEF MigrationInv, ServesAgrees, ServesWhole, RestoreAgrees, Complete, TreesRestored, SiteRestored, Trees
  <1> QED
    BY InvCorrect, <1>1, PTL
=============================================================================
