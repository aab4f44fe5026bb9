-------------------------- MODULE MCWireGuardPeers --------------------------
(* Two names, two request threads; keys and addresses for three peers.     *)
EXTENDS WireGuardPeers

CONSTANTS n1, n2, t1, t2

MCName == {n1, n2}
MCThread == {t1, t2}
WireGuardSymmetry == Permutations(MCName) \union Permutations(MCThread)
=============================================================================
