------------------------------ MODULE MCBackfill ------------------------------
(* Small instances of Backfill for TLC.                                     *)
EXTENDS Backfill

\* Three articles, two of them of one length; and a wiki with a single one.
TwoWikis == <<[p \in Page |-> IF p = 1 THEN 1 ELSE IF p = 2 THEN 0 ELSE 1],
              [p \in Page |-> IF p = 1 THEN 0 ELSE Absent]>>
=============================================================================
