--------------------------- MODULE MCLicenseLease ---------------------------
EXTENDS LicenseLease

CONSTANTS l1, l2

MCLic == {l1, l2}
MCOffline == {[lic |-> l1, rev |-> 1, issued |-> 1, expires |-> 0, online |-> FALSE]}
MCTerms == {2}
MCLongTerms == {3}
=============================================================================
