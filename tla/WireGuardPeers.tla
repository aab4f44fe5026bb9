--------------------------- MODULE WireGuardPeers ---------------------------
(***************************************************************************)
(* WireGuard peers: the configuration file wg0.conf, the routes of the     *)
(* running interface and the access artifacts, three records of the same   *)
(* peers that create_wireguard_peer, remove_wireguard_peer                 *)
(* (app/protocol_ops.py) and their handlers (app/main.py) change one after *)
(* the other, each request in a thread of its own, without a lock.         *)
(*                                                                         *)
(* The server has been bootstrapped.  Keys are numbered in the order in    *)
(* which they are generated, addresses in the order of network.hosts()     *)
(* without the server's own.  A rewrite empties the file first and then     *)
(* fills it, in two steps; the text is short enough for a single write().   *)
(***************************************************************************)
EXTENDS Naturals, SequencesExt

CONSTANTS
    Name,         \* names an administrator gives to peers
    Thread,       \* request threads
    Unnamed,      \* the label of a peer without a comment line
    Pool,         \* client addresses of the network
    MaxKeys,      \* bound: key pairs ever generated
    MaxRequests,  \* bound: requests
    MaxFaults     \* bound: crashes and failed commands

ASSUME WireGuardConstants ==
    /\ Unnamed \notin Name
    /\ Pool \in Nat \ {0} /\ MaxKeys \in Nat
    /\ MaxRequests \in Nat /\ MaxFaults \in Nat

VARIABLES
    file,       \* wg0.conf
    route,      \* cryptokey routing of the interface: a key for an address, or 0
    artifacts,  \* the public key of each name's access artifact, or 0
    proc,       \* what each thread is doing
    lastKey,    \* keys generated so far
    madeFor,    \* history: the name a key was generated for
    status,     \* history: what the administrator has been told about a key
    requests, faults

vars == <<file, route, artifacts, proc, lastKey, madeFor, status, requests, faults>>

history == <<madeFor, status>>
bounds == <<requests, faults>>

Key == 1..MaxKeys
Addr == 1..Pool
Label == Name \union {Unnamed}

-----------------------------------------------------------------------------
Peer == [key : Key, ip : Addr]

\* The [Peer] blocks in order, and between them the comment that names the next
\* one: labels[i] is the last comment line before block i, the last label what
\* follows the last block.  server: the [Interface] section is there.
File == [peers : Seq(Peer), labels : Seq(Label), server : BOOLEAN]

EmptyFile == [peers |-> <<>>, labels |-> <<Unnamed>>, server |-> TRUE]

\* Not even the server's own section.
NoText == [peers |-> <<>>, labels |-> <<Unnamed>>, server |-> FALSE]

PC == {"idle", "choose", "set", "append", "save",
       "list", "unset", "read", "truncate", "write", "forget"}

\* alone: no other request and no restart of the interface has met this one.
Proc == [pc : PC, op : {"none", "create", "revoke"}, name : Label,
         key : Key \union {0}, ip : Addr \union {0}, doc : File, alone : BOOLEAN]

Idle == [pc |-> "idle", op |-> "none", name |-> Unnamed, key |-> 0, ip |-> 0,
         doc |-> EmptyFile, alone |-> TRUE]

\* exposed: somebody has gone by the file while a removal had it empty.
Status == {"none", "given", "exposed", "leaving", "revoked", "raced"}

WellFormed(f) ==
    /\ f \in File
    /\ Len(f.labels) = Len(f.peers) + 1

\* The file, and every copy of it that a removal holds, stays a sequence of blocks
\* with the comments between them; an address has at most one key on the interface.
TypeOK ==
    /\ WellFormed(file)
    /\ route \in [Addr -> Key \union {0}]
    /\ artifacts \in [Name -> Key \union {0}]
    /\ proc \in [Thread -> Proc]
    /\ \A t \in Thread : WellFormed(proc[t].doc)
    /\ lastKey \in 0..MaxKeys
    /\ madeFor \in [Key -> Label]
    /\ status \in [Key -> Status]
    /\ requests \in Nat
    /\ faults \in Nat

Init ==
    /\ file = EmptyFile
    /\ route = [a \in Addr |-> 0]
    /\ artifacts = [n \in Name |-> 0]
    /\ proc = [t \in Thread |-> Idle]
    /\ lastKey = 0
    /\ madeFor = [k \in Key |-> Unnamed]
    /\ status = [k \in Key |-> "none"]
    /\ requests = 0
    /\ faults = 0

-----------------------------------------------------------------------------
(* The file.                                                               *)

Position(f, k) == {i \in DOMAIN f.peers : f.peers[i].key = k}

UsedIn(f) == {f.peers[i].ip : i \in DOMAIN f.peers}

\* _wg_used_ips and the search for the first host that is not used.
Free(f) == Addr \ UsedIn(f)

\* Mutant of FirstFree: the pool is taken to be filled from the front.
FirstFreeByCount(f) == Len(f.peers) + 1

FirstFree(f) == CHOOSE a \in Free(f) : \A b \in Free(f) : a <= b

\* Mutant of Appended: the file is opened for writing, not for appending.
AppendedAlone(f, n, k, a) ==
    [f EXCEPT !.peers = <<[key |-> k, ip |-> a]>>, !.labels = <<n, Unnamed>>]

\* The comment with the name, and the block.
Appended(f, n, k, a) ==
    [peers |-> Append(f.peers, [key |-> k, ip |-> a]),
     labels |-> Append([f.labels EXCEPT ![Len(f.labels)] = n], Unnamed),
     server |-> f.server]

\* Mutant of Without: the block goes, the comments stay.
WithoutBlock(f, k) ==
    IF Position(f, k) = {} THEN f
    ELSE LET i == CHOOSE j \in Position(f, k) : TRUE
         IN  [f EXCEPT !.peers = RemoveAt(@, i)]

\* Mutant of Without: only the comment goes.
WithoutName(f, k) ==
    IF Position(f, k) = {} THEN f
    ELSE LET i == CHOOSE j \in Position(f, k) : TRUE
         IN  [f EXCEPT !.labels[i] = Unnamed]

\* The block that is removed reaches to the next "[": it takes the comment after
\* it along, and the comment before it stays.
Without(f, k) ==
    IF Position(f, k) = {} THEN f
    ELSE LET i == CHOOSE j \in Position(f, k) : TRUE
         IN  [f EXCEPT !.peers = RemoveAt(@, i), !.labels = RemoveAt(@, i + 1)]

\* list_wireguard_peers, and the key of the first peer with a name.
Named(f, n) == {i \in DOMAIN f.peers : f.labels[i] = n}

KeyOf(f, n) ==
    f.peers[CHOOSE i \in Named(f, n) : \A j \in Named(f, n) : i <= j].key

-----------------------------------------------------------------------------
(* The interface.                                                          *)

\* wg set <interface> peer <key> allowed-ips <ip>: an address has one peer.
Routed(k, a) ==
    [b \in Addr |-> IF b = a THEN k ELSE IF route[b] = k THEN 0 ELSE route[b]]

\* wg set <interface> peer <key> remove.
Unrouted(k) == [a \in Addr |-> IF route[a] = k THEN 0 ELSE route[a]]

\* wg-quick reads the file: the last peer with an address has it.
Loaded(f) ==
    [a \in Addr |->
        LET with == {i \in DOMAIN f.peers : f.peers[i].ip = a}
        IN  IF with = {} THEN 0
            ELSE f.peers[CHOOSE i \in with : \A j \in with : j <= i].key]

-----------------------------------------------------------------------------
Fault == faults < MaxFaults /\ faults' = faults + 1

Goto(t, pc) == proc' = [proc EXCEPT ![t].pc = pc]

Done(t) == proc' = [proc EXCEPT ![t] = Idle]

UnderWay == {t \in Thread : proc[t].pc # "idle"}

\* Every request that is under way is not alone any more.
Disturbed ==
    [t \in Thread |-> IF t \in UnderWay THEN [proc[t] EXCEPT !.alone = FALSE]
                                        ELSE proc[t]]

Begin(t, p) ==
    /\ t \notin UnderWay
    /\ requests < MaxRequests
    /\ requests' = requests + 1
    /\ proc' = [Disturbed EXCEPT ![t] = [p EXCEPT !.alone = UnderWay = {}]]

\* What is remembered of a key when a request about it has been answered.
Told(t, what) ==
    status' = [status EXCEPT ![proc[t].key] = IF proc[t].alone THEN what ELSE "raced"]

\* Removals that have emptied the file and not filled it yet.
Writers == {t \in Thread : proc[t].pc = "write"}

\* What is remembered of all keys when somebody goes by the file as it is, or when
\* it stays as it is.
Seen == [k \in Key |-> IF Writers # {} /\ status[k] = "given" THEN "exposed" ELSE status[k]]

-----------------------------------------------------------------------------
(* create_wireguard_peer and its handler.                                  *)

\* The file is read: without the server's section the request fails.
BeginCreate(t, n) ==
    /\ file.server
    /\ Begin(t, [Idle EXCEPT !.pc = "choose", !.op = "create", !.name = n])
    /\ UNCHANGED <<file, route, artifacts, lastKey, history, faults>>

\* The file is read again for the addresses in use; a key pair is generated.
ChooseAddress(t) ==
    /\ proc[t].pc = "choose"
    /\ IF Free(file) = {} THEN Done(t) /\ UNCHANGED <<lastKey, madeFor>>
       ELSE /\ lastKey < MaxKeys
            /\ proc' = [proc EXCEPT ![t].pc = "set", ![t].key = lastKey + 1,
                                    ![t].ip = FirstFree(file)]
            /\ lastKey' = lastKey + 1
            /\ madeFor' = [madeFor EXCEPT ![lastKey + 1] = proc[t].name]
    /\ status' = Seen
    /\ UNCHANGED <<file, route, artifacts, bounds>>

SetPeer(t) ==
    /\ proc[t].pc = "set"
    /\ \/ /\ route' = Routed(proc[t].key, proc[t].ip)
          /\ Goto(t, "append")
          /\ UNCHANGED faults
       \/ /\ Fault
          /\ Done(t)
          /\ UNCHANGED route
    /\ UNCHANGED <<file, artifacts, lastKey, history, requests>>

AppendPeer(t) ==
    /\ proc[t].pc = "append"
    /\ file' = Appended(file, proc[t].name, proc[t].key, proc[t].ip)
    /\ Goto(t, "save")
    /\ UNCHANGED <<route, artifacts, lastKey, history, bounds>>

\* artifact_save, an upsert by name; the answer carries the configuration.
SaveArtifact(t) ==
    /\ proc[t].pc = "save"
    /\ artifacts' = [artifacts EXCEPT ![proc[t].name] = proc[t].key]
    /\ Told(t, "given")
    /\ Done(t)
    /\ UNCHANGED <<file, route, lastKey, madeFor, bounds>>

-----------------------------------------------------------------------------
(* access_revoke and remove_wireguard_peer.                                *)

\* The key comes from the artifact, if there is one ...
BeginRevoke(t, n) ==
    /\ LET k == artifacts[n]
       IN  Begin(t, [Idle EXCEPT !.pc = IF k = 0 THEN "list" ELSE "unset",
                                 !.op = "revoke", !.name = n, !.key = k])
    /\ UNCHANGED <<file, route, artifacts, lastKey, history, faults>>

\* ... or else from the names in the file; no such name is a 404.
ListPeers(t) ==
    /\ proc[t].pc = "list"
    /\ IF Named(file, proc[t].name) = {} THEN Done(t)
       ELSE proc' = [proc EXCEPT ![t].pc = "unset",
                                 ![t].key = KeyOf(file, proc[t].name)]
    /\ UNCHANGED <<file, route, artifacts, lastKey, history, bounds>>

UnsetPeer(t) ==
    /\ proc[t].pc = "unset"
    /\ \/ /\ route' = Unrouted(proc[t].key)
          /\ status' = [status EXCEPT ![proc[t].key] = "leaving"]
          /\ Goto(t, "read")
          /\ UNCHANGED faults
       \/ /\ Fault
          /\ Done(t)
          /\ UNCHANGED <<route, status>>
    /\ UNCHANGED <<file, artifacts, lastKey, madeFor, requests>>

ReadFile(t) ==
    /\ proc[t].pc = "read"
    /\ proc' = [proc EXCEPT ![t].pc = "truncate", ![t].doc = file]
    /\ status' = Seen
    /\ UNCHANGED <<file, route, artifacts, lastKey, madeFor, bounds>>

\* write_text opens the file, which empties it ...
Truncate(t) ==
    /\ proc[t].pc = "truncate"
    /\ file' = NoText
    /\ Goto(t, "write")
    /\ UNCHANGED <<route, artifacts, lastKey, history, bounds>>

\* ... and writes from its beginning, over what others have put there since.
Rewrite(t) ==
    /\ proc[t].pc = "write"
    /\ file' = Without(proc[t].doc, proc[t].key)
    /\ Goto(t, "forget")
    /\ UNCHANGED <<route, artifacts, lastKey, history, bounds>>

\* No space is left on the disk.
RewriteFails(t) ==
    /\ proc[t].pc = "write"
    /\ Fault
    /\ Done(t)
    /\ status' = Seen
    /\ UNCHANGED <<file, route, artifacts, lastKey, madeFor, requests>>

\* delete_access_artifact_by_key: by name.
ForgetArtifact(t) ==
    /\ proc[t].pc = "forget"
    /\ artifacts' = [artifacts EXCEPT ![proc[t].name] = 0]
    /\ Told(t, "revoked")
    /\ Done(t)
    /\ UNCHANGED <<file, route, lastKey, madeFor, bounds>>

-----------------------------------------------------------------------------
\* The service is restarted from the panel, or the server boots.
RestartInterface ==
    /\ route' = Loaded(file)
    /\ proc' = Disturbed
    /\ status' = Seen
    /\ UNCHANGED <<file, artifacts, lastKey, madeFor, bounds>>

\* The web process dies with every request in it.
WebDies ==
    /\ UnderWay # {}
    /\ Fault
    /\ proc' = [t \in Thread |-> Idle]
    /\ status' = Seen
    /\ UNCHANGED <<file, route, artifacts, lastKey, madeFor, requests>>

CreateStep(t) == ChooseAddress(t) \/ SetPeer(t) \/ AppendPeer(t) \/ SaveArtifact(t)

RevokeStep(t) ==
    \/ ListPeers(t) \/ UnsetPeer(t) \/ ReadFile(t)
    \/ Truncate(t) \/ Rewrite(t) \/ RewriteFails(t) \/ ForgetArtifact(t)

Next ==
    \/ \E t \in Thread, n \in Name : BeginCreate(t, n) \/ BeginRevoke(t, n)
    \/ \E t \in Thread : CreateStep(t) \/ RevokeStep(t)
    \/ RestartInterface
    \/ WebDies

Spec == Init /\ [][Next]_vars

-----------------------------------------------------------------------------
Keys(f) == {f.peers[i].key : i \in DOMAIN f.peers}

Given(k) == status[k] = "given"

\* A peer whose creation met no other request and has been answered has its
\* address to itself in the file, whatever came before: crashes between the
\* interface and the file, removals, races between other requests.  It does until
\* somebody goes by the file while a removal has it empty: a creation that reads
\* the addresses then chooses one that is given.
AddressesUnique ==
    \A i, j \in DOMAIN file.peers :
        Given(file.peers[i].key) /\ file.peers[i].ip = file.peers[j].ip => i = j

\* Such a peer is served, and stays so over restarts of the interface, until a
\* request removes that very key: it is in the file, or in the text that a
\* removal is about to fill it with.  No other request and no crash takes it away,
\* but for those that meet the file while it is empty: a crash there, a write that
\* fails, a restart, a removal or a creation that reads it.
GivenIsServed ==
    \A k \in Key : Given(k) =>
        \E f \in {file} \union {proc[t].doc : t \in Writers} :
            \E i \in Position(f, k) : route[f.peers[i].ip] = k

\* A revocation that met no other request and has been answered is final:
\* neither a restart nor a later rewrite of the file brings the peer back.
RevokedStays ==
    \A k \in Key : status[k] = "revoked" =>
        Position(file, k) = {} /\ \A a \in Addr : route[a] # k

\* "Remove a Makia comment immediately before a removed peer"
\* (app/protocol_ops.py:629): the comments go on naming the peers they were
\* written for, so a revocation, which falls back on them, acts on a peer that was
\* created under the name it was asked for.
RevokesWhatItNames ==
    \A t \in Thread : LET p == proc[t]
                      IN  p.op = "revoke" /\ p.key # 0 => madeFor[p.key] = p.name
=============================================================================
