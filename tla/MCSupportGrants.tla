-------------------------- MODULE MCSupportGrants --------------------------
(* Two request threads and two grants; the throttle blocks after two       *)
(* failures.  Grants live one or two clock units; a cookie at least one.   *)
EXTENDS SupportGrants, TLC

CONSTANTS t1, t2

MCThreads == {t1, t2}
MCLifetimes == {1, 2}
ThreadSymmetry == Permutations(MCThreads)
=============================================================================
