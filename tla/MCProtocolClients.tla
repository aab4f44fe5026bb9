------------------------- MODULE MCProtocolClients -------------------------
EXTENDS ProtocolClients

MCPlans == {[quota |-> 2, term |-> 1, reset |-> 1]}
MCEdits == {[NoEdit EXCEPT !.enabled = "on"], [NoEdit EXCEPT !.enabled = "off"],
            [NoEdit EXCEPT !.quota = 1, !.term = 2, !.reset = 2]}
=============================================================================
