----------------------------- MODULE RateLimit -----------------------------
(***************************************************************************)
(* The rows of the login_rate_limits table and the three functions of      *)
(* app/db.py that read and write one row.  /login and /support/login use   *)
(* them with different keys and different failure limits.  Timestamps are  *)
(* in the clock unit of the module that extends this one.                  *)
(***************************************************************************)
EXTENDS Naturals

RateRow == [failures : Nat, started : Nat, blocked : Nat]

\* Both "there is no row for this key" and the record login_rate_state answers
\* in that case: failures is at least 1 in every row that exists.
NoRate == [failures |-> 0, started |-> 0, blocked |-> 0]

Larger(m, n) == IF m >= n THEN m ELSE n

\* A row outlives its window unless it blocks: the row is deleted by the read.
StaleRate(r, now, window) == r.blocked <= now /\ now - r.started > window

\* login_rate_state: the row the read leaves in the table, and the answer.
RateAfterRead(r, now, window) ==
    IF StaleRate(r, now, window) THEN NoRate ELSE r

IsBlocked(r, now) == r.blocked > now

\* record_login_failure: the row written for the row r it has read.
RateAfterFailure(r, now, max, window, block) ==
    LET fresh    == r = NoRate \/ now - r.started > window
        failures == IF fresh THEN 1 ELSE r.failures + 1
        kept     == IF fresh THEN 0 ELSE r.blocked
    IN  [failures |-> failures,
         started  |-> IF fresh THEN now ELSE r.started,
         blocked  |-> IF failures >= max THEN Larger(kept, now + block)
                                         ELSE kept]
=============================================================================
