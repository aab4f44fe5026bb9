--------------------------- MODULE AtomicRelease ----------------------------
(* What the updater promises of the installed files: an update leaves all of *)
(* one new release, or everything that was there as it was.  Only harm takes *)
(* the promise away: a power loss while files are being replaced, or a       *)
(* rollback one of whose own commands fails; the next update that succeeds   *)
(* gives it back.  A file the old installation did not have is not promised  *)
(* to go away again.                                                         *)
CONSTANTS Release, Piece, Content, None

VARIABLES installed,     \* what each piece of the installation holds
          busy,          \* an update is running
          harmed

vars == <<installed, busy, harmed>>

Init ==
    /\ \E r \in Release : installed \in [Piece -> {r, None}]
    /\ busy = FALSE /\ harmed = FALSE

Begin == ~busy /\ busy' = TRUE /\ UNCHANGED <<installed, harmed>>

Harm == busy /\ harmed' = TRUE /\ UNCHANGED <<installed, busy>>

Succeed ==
    /\ busy /\ busy' = FALSE
    /\ \E r \in Release : installed' = [p \in Piece |-> r]
    /\ harmed' = FALSE

Fail ==
    /\ busy /\ busy' = FALSE
    /\ ~harmed /\ UNCHANGED harmed
    /\ installed' \in [Piece -> Content]
    /\ \A p \in Piece : installed[p] # None => installed'[p] = installed[p]

\* After harm, or by the harm itself.
Wreck ==
    /\ busy /\ busy' = FALSE
    /\ harmed' = TRUE
    /\ installed' \in [Piece -> Content]

Next == Begin \/ Harm \/ Succeed \/ Fail \/ Wreck

Spec == Init /\ [][Next]_vars
=============================================================================
