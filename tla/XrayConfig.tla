------------------------------ MODULE XrayConfig ------------------------------
(***************************************************************************)
(* The Xray configuration: the seven operations of app/protocol_ops.py     *)
(* that read config.json, edit what they have read, back the file up, test *)
(* a candidate, replace the file, hand it to the service's user, test it   *)
(* as that user, restart Xray, and undo it all from the backup when a step *)
(* fails.  Request threads and the traffic collector run them without a    *)
(* lock.                                                                   *)
(*                                                                         *)
(* A configuration says of each inbound whether it is there and whether    *)
(* its client is.  Reading the file, copying it, and replacing it are      *)
(* whole; only a copy that dies or fails may leave a truncated file.       *)
(***************************************************************************)
EXTENDS Naturals

CONSTANTS
    Inbound,      \* inbounds, each with a port and a client of its own
    Tunnel,       \* those of create_xray_tunnel
    Rejected,     \* inbounds with which "xray run -test" fails
    Unstartable,  \* inbounds with which the test passes and Xray exits
    Expert,       \* configurations that are applied in the JSON editor
    Thread,       \* request threads, and the collector
    None,         \* no file, no backup, no running Xray
    Torn,         \* what a copy leaves that was not finished
    MaxRequests,  \* bound: operations begun
    MaxFaults     \* bound: crashes and failed commands

State == {"absent", "off", "on"}
Conf == [Inbound -> State]

ASSUME XrayConstants ==
    /\ Tunnel \subseteq Inbound
    /\ Rejected \subseteq Inbound /\ Unstartable \subseteq Inbound
    /\ Expert \subseteq Conf
    /\ None \notin Conf \union {Torn} \union Inbound /\ Torn \notin Conf
    /\ MaxRequests \in Nat /\ MaxFaults \in Nat

VARIABLES
    file,      \* config.json, and whether the service's user may read it
    running,   \* what Xray has loaded
    proc,      \* the operation each thread is in
    told,      \* history: what a request has been told of an inbound, if it was alone
    requests, faults

vars == <<file, running, proc, told, requests, faults>>

-----------------------------------------------------------------------------
Content == Conf \union {None, Torn}

Op == {"create", "remove", "disable", "enable", "repair", "apply"}

PC == {"idle", "backup", "replace", "own", "verify", "restart", "finish",
       "restore", "rerun"}

\* conf: the candidate.  backup: the content of the operation's backup file.
\* alone: no other operation has met this one.
Proc == [pc : PC, op : Op \union {"none"}, i : Inbound \union {None},
         conf : Conf \union {None}, backup : Content, alone : BOOLEAN]

Idle == [pc |-> "idle", op |-> "none", i |-> None, conf |-> None,
         backup |-> None, alone |-> TRUE]

\* live: Xray has been restarted since.
Word == [state : State \union {"nothing"}, live : BOOLEAN]

Nothing == [state |-> "nothing", live |-> FALSE]

\* The file, Xray, every candidate and every backup are whole configurations, or
\* are none, or are torn: no edit leaves a configuration without an inbound's state.
TypeOK ==
    /\ file \in [conf : Content, owned : BOOLEAN]
    /\ running \in Conf \union {None}
    /\ proc \in [Thread -> Proc]
    /\ told \in [Inbound -> Word]
    /\ requests \in Nat
    /\ faults \in Nat

Empty == [i \in Inbound |-> "absent"]

\* Before the first operation: no configuration, or one without inbounds.
Init ==
    /\ \/ file = [conf |-> None, owned |-> FALSE] /\ running = None
       \/ file = [conf |-> Empty, owned |-> TRUE] /\ running = Empty
    /\ proc = [t \in Thread |-> Idle]
    /\ told = [i \in Inbound |-> Nothing]
    /\ requests = 0
    /\ faults = 0

-----------------------------------------------------------------------------
(* Xray.                                                                   *)

Has(c, S) == \E i \in S : c[i] # "absent"

\* xray run -test.
Accepted(c) == c \in Conf /\ ~Has(c, Rejected)

\* What a start of the service loads.
Loaded(f) ==
    IF Accepted(f.conf) /\ f.owned /\ ~Has(f.conf, Unstartable) THEN f.conf ELSE None

\* _port_in_use: Xray itself may still listen for an inbound that has left the file.
Listening(i) == running # None /\ running[i] # "absent"

-----------------------------------------------------------------------------
(* The edits.                                                              *)

\* What an operation goes on from; only creations can do without a file.
\* Mutant of Base: a creation starts from the default configuration.
BaseDefault(op) == IF op = "create" THEN Empty ELSE file.conf

Base(op) == IF op = "create" /\ file.conf = None THEN Empty ELSE file.conf

\* ProtocolErrors before anything is written.
Refused(op, i) ==
    LET c == Base(op)
    IN  \/ c \notin Conf
        \/ op = "create" /\ (c[i] # "absent" \/ Listening(i))
        \/ op \in {"remove", "enable"} /\ c[i] = "absent"

\* Answers without a transaction: the client is not there, or there already.
Needless(op, i) ==
    \/ op = "disable" /\ file.conf[i] # "on"
    \/ op = "enable" /\ file.conf[i] = "on"

\* Mutant of Edited: a removal puts null in the inbound's place.
EditedNull(op, i) ==
    [Base(op) EXCEPT ![i] = IF op = "remove" THEN None ELSE "on"]

Edited(op, i) ==
    CASE op \in {"create", "enable"} -> [Base(op) EXCEPT ![i] = "on"]
      [] op = "disable"              -> [Base(op) EXCEPT ![i] = "off"]
      [] op = "remove"               -> [Base(op) EXCEPT ![i] = "absent"]
      [] OTHER                       -> Base(op)

\* A backup is named for the kind of its operation and the second.
Kind(p) == IF p.op = "create" /\ p.i \in Tunnel THEN "tunnel" ELSE p.op

-----------------------------------------------------------------------------
Fault == faults < MaxFaults /\ faults' = faults + 1

Goto(t, pc) == proc' = [proc EXCEPT ![t].pc = pc]

Done(t) == proc' = [proc EXCEPT ![t] = Idle]

UnderWay == {t \in Thread : proc[t].pc # "idle"}

\* The inbounds an operation is about.
About(p) == IF p.op = "apply" THEN Inbound ELSE {p.i} \ {None}

\* What is remembered when an operation has been answered: the states of c.
Tell(p, c, live) ==
    told' = [i \in Inbound |->
                IF p.alone /\ i \in About(p)
                THEN [state |-> c[i], live |-> live] ELSE told[i]]

\* A new operation leaves nobody alone, and what was told of its inbounds is over.
Begin(t, p) ==
    /\ t \notin UnderWay
    /\ requests < MaxRequests
    /\ requests' = requests + 1
    /\ proc' = [u \in Thread |->
                  IF u = t THEN [p EXCEPT !.alone = UnderWay = {}]
                  ELSE IF u \in UnderWay THEN [proc[u] EXCEPT !.alone = FALSE]
                  ELSE proc[u]]
    /\ told' = [i \in Inbound |-> IF i \in About(p) THEN Nothing ELSE told[i]]

-----------------------------------------------------------------------------
(* The operations.                                                         *)

\* The file is read and edited.
BeginEdit(t, op, i) ==
    /\ ~Refused(op, i) /\ ~Needless(op, i)
    /\ Begin(t, [Idle EXCEPT !.pc = "backup", !.op = op, !.i = i,
                             !.conf = Edited(op, i)])
    /\ UNCHANGED <<file, running, faults>>

\* A success without a transaction: nothing is written, nothing is restarted.
AnswerNeedless(t, op, i) ==
    /\ t \notin UnderWay
    /\ requests < MaxRequests
    /\ ~Refused(op, i) /\ Needless(op, i)
    /\ requests' = requests + 1
    /\ told' = IF UnderWay = {} THEN [told EXCEPT ![i].state = file.conf[i]] ELSE told
    /\ UNCHANGED <<file, running, proc, faults>>

\* apply_xray_config takes the whole configuration from the editor.
BeginApply(t, c) ==
    /\ Begin(t, [Idle EXCEPT !.pc = "backup", !.op = "apply", !.conf = c])
    /\ UNCHANGED <<file, running, faults>>

\* Operations of one kind that are backed up in the same second share a backup
\* file, and the last copy is what it holds.
SameName(t) ==
    {u \in Thread \ {t} : /\ proc[u].pc \notin {"idle", "backup"}
                          /\ Kind(proc[u]) = Kind(proc[t])}

\* Thread t goes on as p, and those in same find c in the backup they share.
Copy(t, p, same, c) ==
    proc' = [u \in Thread |->
               IF u = t THEN p
               ELSE IF u \in same THEN [proc[u] EXCEPT !.backup = c] ELSE proc[u]]

\* Without a file there is nothing to copy.  A copy that fails, or that its thread
\* dies in, may have been begun; so may one that is followed by a failure to write
\* the candidate.
BackUp(t) ==
    /\ proc[t].pc = "backup"
    /\ \E same \in SUBSET SameName(t) :
          \/ /\ Copy(t, [proc[t] EXCEPT !.pc = "replace", !.backup = file.conf],
                     same, file.conf)
             /\ UNCHANGED faults
          \/ /\ Fault
             /\ \E c \in {file.conf, Torn} :
                   (file.conf = None => c = None) /\ Copy(t, Idle, same, c)
    /\ UNCHANGED <<file, running, told, requests>>

\* Mutant of Tested: the candidate is not tested.
TestedNot(c) == c \in Conf

Tested(c) == Accepted(c)

\* The candidate is tested and takes the file's place, as root's.
Replace(t) ==
    /\ proc[t].pc = "replace"
    /\ \/ /\ Tested(proc[t].conf)
          /\ file' = [conf |-> proc[t].conf, owned |-> FALSE]
          /\ Goto(t, "own")
          /\ UNCHANGED faults
       \/ /\ IF Tested(proc[t].conf) THEN Fault ELSE UNCHANGED faults
          /\ Goto(t, "restore")
          /\ UNCHANGED file
    /\ UNCHANGED <<running, told, requests>>

\* _xray_secure_runtime_file.
Own(t) ==
    /\ proc[t].pc = "own"
    /\ \/ /\ file' = [file EXCEPT !.owned = TRUE]
          /\ Goto(t, "verify")
          /\ UNCHANGED faults
       \/ /\ Fault
          /\ Goto(t, "restore")
          /\ UNCHANGED file
    /\ UNCHANGED <<running, told, requests>>

\* The test as the service's user, of whatever the file is by now.
Verify(t) ==
    /\ proc[t].pc = "verify"
    /\ LET ok == file.owned /\ Accepted(file.conf)
       IN  \/ ok /\ Goto(t, "restart") /\ UNCHANGED faults
           \/ ~ok /\ Goto(t, "restore") /\ UNCHANGED faults
           \/ ok /\ Fault /\ Goto(t, "restore")
    /\ UNCHANGED <<file, running, told, requests>>

\* systemctl restart and is-active: Xray may exit before or after it is looked
\* at, and the command may fail before or after it has done its work.
Restart(t) ==
    /\ proc[t].pc = "restart"
    /\ \/ /\ running' = Loaded(file)
          /\ Goto(t, "finish")
          /\ UNCHANGED faults
       \/ /\ running' = Loaded(file) /\ running' = None
          /\ Goto(t, "restore")
          /\ UNCHANGED faults
       \/ /\ Fault
          /\ running' \in {running, Loaded(file)}
          /\ Goto(t, "restore")
    /\ UNCHANGED <<file, told, requests>>

\* The firewall is opened for what may be new, inside the same try.
OpensFirewall(p) == Kind(p) \in {"create", "apply"}

Finish(t) ==
    /\ proc[t].pc = "finish"
    /\ \/ /\ Tell(proc[t], proc[t].conf, TRUE)
          /\ Done(t)
          /\ UNCHANGED faults
       \/ /\ OpensFirewall(proc[t])
          /\ Fault
          /\ Goto(t, "restore")
          /\ UNCHANGED told
    /\ UNCHANGED <<file, running, requests>>

\* The backup is copied over the file, if there is one.  The copy keeps the
\* file's owner, and only apply_xray_config leaves it at that.
Restore(t) ==
    /\ proc[t].pc = "restore"
    /\ LET owned == file.owned \/ proc[t].op # "apply"
       IN  \/ /\ proc[t].backup = None
              /\ Done(t)
              /\ UNCHANGED <<file, faults>>
           \/ /\ proc[t].backup # None
              /\ file' = [conf |-> proc[t].backup, owned |-> owned]
              /\ Goto(t, "rerun")
              /\ UNCHANGED faults
           \/ /\ proc[t].backup # None
              /\ Fault
              /\ \E c \in {file.conf, Torn, proc[t].backup} : file' = [file EXCEPT !.conf = c]
              /\ Done(t)
    /\ UNCHANGED <<running, told, requests>>

\* Mutant of AfterRollback: Xray goes on with what it has.
AfterRollbackNot(f) == running

AfterRollback(f) == Loaded(f)

\* The last restart; an error is answered, and what was there before is back.
Rerun(t) ==
    /\ proc[t].pc = "rerun"
    /\ \/ /\ running' = AfterRollback(file)
          /\ IF proc[t].backup \in Conf THEN Tell(proc[t], proc[t].backup, TRUE)
                                       ELSE UNCHANGED told
          /\ UNCHANGED faults
       \/ /\ Fault
          /\ running' \in {running, Loaded(file)}
          /\ UNCHANGED told
    /\ Done(t)
    /\ UNCHANGED <<file, requests>>

-----------------------------------------------------------------------------
\* A boot, Restart=on-failure, a certificate renewal, a service action.
XrayRestarts ==
    /\ running' = Loaded(file)
    /\ UNCHANGED <<file, proc, told, requests, faults>>

\* The panel dies with its requests, or the collector does; a copy that was
\* under way may have truncated the file.
Dies(T) ==
    /\ T # {} /\ T \subseteq UnderWay
    /\ Fault
    /\ proc' = [t \in Thread |-> IF t \in T THEN Idle ELSE proc[t]]
    /\ \/ UNCHANGED file
       \/ /\ \E t \in T : proc[t].pc = "restore" /\ proc[t].backup # None
          /\ file' = [file EXCEPT !.conf = Torn]
    /\ UNCHANGED <<running, told, requests>>

Step(t) ==
    \/ BackUp(t) \/ Replace(t) \/ Own(t) \/ Verify(t) \/ Restart(t) \/ Finish(t)
    \/ Restore(t) \/ Rerun(t)

Edit(t) ==
    \/ \E i \in Inbound : BeginEdit(t, "create", i) \/ BeginEdit(t, "remove", i)
    \/ \E i \in Inbound \ Tunnel, op \in {"disable", "enable"} :
          BeginEdit(t, op, i) \/ AnswerNeedless(t, op, i)
    \/ BeginEdit(t, "repair", None)
    \/ \E c \in Expert : BeginApply(t, c)

Next ==
    \/ \E t \in Thread : Edit(t) \/ Step(t)
    \/ XrayRestarts
    \/ \E T \in SUBSET Thread : Dies(T)

Spec == Init /\ [][Next]_vars

-----------------------------------------------------------------------------
\* "Test-before-apply, backup, restart validation and rollback" (CHANGELOG
\* 0.8.0): whatever operations, rollbacks and crashes meet, the file and Xray
\* hold nothing but configurations that have passed the test, and a file that is
\* cut short goes back to a copy that was.
OnlyTested ==
    /\ file.conf \in Conf => Accepted(file.conf)
    /\ running # None => Accepted(running)
    /\ file.conf = Torn => faults > 0

\* "Automatic rollback on failed apply" (README): what an operation that met no
\* other has been told holds until an operation about that inbound, be it a
\* success or an error after a rollback: no race between later operations on other
\* inbounds, no rollback of theirs and no crash undoes it, in the file or in Xray.
Kept ==
    \A i \in Inbound :
        LET w == told[i]
        IN  w # Nothing =>
              /\ file.conf # Torn => file.conf \in Conf /\ file.conf[i] = w.state
              /\ w.live /\ running # None => running[i] = w.state

\* Without a crash or a failed command, Xray serves exactly what the file says
\* once nobody is changing it, whatever has raced, and its user owns the file.
Synced ==
    faults = 0 /\ UnderWay = {} =>
        /\ running = Loaded(file)
        /\ file.conf # None => file.owned
=============================================================================
