---------------------------- MODULE TrafficMeter ----------------------------
(* What metering promises of usage.  A unit that is carried for a client is   *)
(* counted once; it waits in Xray, is collected in the name of one account,   *)
(* and is billed to that account or to nobody.  On its way it may be lost,    *)
(* and an administrator may clear what is billed; it never comes back, is     *)
(* never billed twice, and never to a later account of the same name.         *)
EXTENDS Integers

CONSTANT Client

VARIABLES carried,     \* units carried for each name
          waiting,     \* units counted and not collected
          held,        \* the collection under way, if any
          account,     \* the account each name has; 0 is none
          opened,      \* accounts ever opened
          billed       \* usage of the account

vars == <<carried, waiting, held, account, opened, billed>>

Init ==
    /\ carried = [c \in Client |-> 0]
    /\ waiting = [c \in Client |-> 0]
    /\ account = [c \in Client |-> 0]
    /\ billed = [c \in Client |-> 0]
    /\ held = {} /\ opened = 0

Carry(c) ==
    /\ carried' = [carried EXCEPT ![c] = @ + 1]
    /\ waiting' = [waiting EXCEPT ![c] = @ + 1]
    /\ UNCHANGED <<held, account, opened, billed>>

\* All that waits, for an account that the name has or once had.
Collect(c) ==
    /\ held = {}
    /\ \E a \in 1..opened :
          held' = {[client |-> c, account |-> a, units |-> waiting[c]]}
    /\ waiting' = [waiting EXCEPT ![c] = 0]
    /\ UNCHANGED <<carried, account, opened, billed>>

Bill ==
    /\ \E h \in held :
          billed' = [billed EXCEPT ![h.client] =
                        IF account[h.client] = h.account THEN @ + h.units ELSE @]
    /\ held' = {}
    /\ UNCHANGED <<carried, waiting, account, opened>>

Lose ==
    /\ \E gone \in SUBSET Client :
          waiting' = [c \in Client |-> IF c \in gone THEN 0 ELSE waiting[c]]
    /\ UNCHANGED <<carried, held, account, opened, billed>>

Drop ==
    /\ held' = {}
    /\ UNCHANGED <<carried, waiting, account, opened, billed>>

Open(c) ==
    /\ account[c] = 0
    /\ opened' = opened + 1
    /\ account' = [account EXCEPT ![c] = opened + 1]
    /\ billed' = [billed EXCEPT ![c] = 0]
    /\ UNCHANGED <<carried, waiting, held>>

Clear(c) ==
    /\ billed' = [billed EXCEPT ![c] = 0]
    /\ account' \in {account, [account EXCEPT ![c] = 0]}
    /\ UNCHANGED <<carried, waiting, held, opened>>

Next ==
    \/ \E c \in Client : Carry(c) \/ Collect(c) \/ Open(c) \/ Clear(c)
    \/ Bill \/ Lose \/ Drop

Spec == Init /\ [][Next]_vars
=============================================================================
