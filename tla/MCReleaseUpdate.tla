-------------------------- MODULE MCReleaseUpdate ---------------------------
(* Three releases, one of which does not start, and a domain nginx refuses.  *)
EXTENDS ReleaseUpdate

CONSTANTS t1, d1, long, r1, r2, r3

MCDomain == {d1, long}
MCRelease == {r1, r2, r3}
MCUnit == {"traffic"}

\* The two releases that start differ in nothing else: r1 is the installed one.  An
\* old installation lacks the unit and the site, a new one has both.
MCInit ==
    /\ Init
    /\ disk["app"] = r1
    /\ site = None <=> disk["traffic"] = None
MCSpec == MCInit /\ [][Next]_vars /\ WF_vars(UpdaterStep /\ History)
=============================================================================
