---------------------------- MODULE MCAttribution ----------------------------
(* Small instances of Attribution for TLC.                                  *)
EXTENDS Attribution

Holds(tokens, history) ==
    [tokens |-> [a \in Author |-> IF a \in 1..Len(tokens) THEN tokens[a]
                                  ELSE IF a = 0 THEN 30 ELSE 0],
     history |-> history]

\* Three accounts are equal at the edge of the pool, which has room for two.
Tied == Holds(<<40, 40, 30, 30, 60, 30>>, <<<<1>>>>)

\* The pool has room for two equal accounts, if no anonymous author takes up a place.
Crowded == Holds(<<40, 40, 30, 30, 60, 25>>, <<<<1>>>>)

\* Nobody clears the gates: the history decides; its last batch may be past the budget.
Slight == Holds(<<5, 15, 0, 10, 60, 0>>, <<<<2, 0, 5>>, <<3, 2, 1>>, <<4, 1>>>>)

\* The budget is spent exactly when one batch is left.
Long == Holds(<<0, 0, 0, 0, 0, 60>>, <<<<1, 1, 2>>, <<2, 3, 0, 4>>, <<3, 3>>>>)

SomePages == {Tied, Crowded, Slight, Long}
=============================================================================
