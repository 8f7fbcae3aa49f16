------------------------------ MODULE MCStanding ------------------------------
(* Small instances of Standing for TLC.                                     *)
EXTENDS Standing

\* A block that withholds a name until it ends.
OneBlock == {[length |-> 2, left |-> 2, spares |-> FALSE]}
\* The same, and one too short for that.
TwoBlocks == OneBlock \cup {[length |-> 1, left |-> 1, spares |-> FALSE]}
=============================================================================
