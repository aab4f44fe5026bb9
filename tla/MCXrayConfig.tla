---------------------------- MODULE MCXrayConfig ----------------------------
(* Two threads; an inbound and a tunnel that work, one that the test refuses *)
(* and one with which Xray does not stay up.                                 *)
EXTENDS XrayConfig, TLC

CONSTANTS inb, tun, bad, dead, t1, t2

MCThread == {t1, t2}
XraySymmetry == Permutations(MCThread)

MCInbound == {inb, tun, bad, dead}

\* The editor: one configuration that works, and one that does not start.
MCExpert ==
    {[i \in MCInbound |-> IF i = inb THEN "off" ELSE "absent"],
     [i \in MCInbound |-> IF i \in {inb, dead} THEN "on" ELSE "absent"]}
=============================================================================
