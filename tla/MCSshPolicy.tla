----------------------------- MODULE MCSshPolicy -----------------------------
(* A single and a family account.                                            *)
EXTENDS SshPolicy, TLC

CONSTANTS u1, u2, t1, t2, a1, a2

MCUser == {u1, u2}
MCThread == {t1, t2}
MCAddress == {a1, a2}
SshSymmetry == Permutations(MCUser) \union Permutations(MCThread) \union Permutations(MCAddress)

\* One session and an end; two sessions from one address and no end.
Single == [expire |-> 1, limit |-> 1, devices |-> 1]
Family == [expire |-> 0, limit |-> 2, devices |-> 1]
MCPlan == {Single, Family}
MCSingle == {Single}

\* An edit that suspends, one without a date, one that clears it with a new password.
MCUpdate == {[plan |-> Single, enabled |-> FALSE, clear |-> FALSE, password |-> FALSE],
             [plan |-> Family, enabled |-> TRUE, clear |-> FALSE, password |-> FALSE],
             [plan |-> Family, enabled |-> TRUE, clear |-> TRUE, password |-> TRUE]}
MCSuspend == {u \in MCUpdate : ~u.enabled}
=============================================================================
