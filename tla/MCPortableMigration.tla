------------------------ MODULE MCPortableMigration ------------------------
(* An SSH account, an Xray client and an engine besides Xray.                 *)
EXTENDS PortableMigration

CONSTANTS u1, c1

MCAccount == {u1}
MCClient == {c1}
MCTree == {"wireguard"}
=============================================================================
