------------------------------- MODULE MCOptOut -------------------------------
(* A small instance of OptOut for TLC.                                      *)
EXTENDS OptOut

CONSTANTS p1, p2, t1, c1
=============================================================================
