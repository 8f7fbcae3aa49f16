------------------------------ MODULE MCPrewarm ------------------------------
(* Small instances of Prewarm for TLC.                                      *)
EXTENDS Prewarm

\* Title 1 and title 2, a redirect, lead to one article; 3 to none; 4 to a portal.
Leads == [t \in Title |-> IF t = 2 THEN 1 ELSE IF t = 3 THEN NoPage ELSE t]

\* Each day of the first wiki has an article of its own.
Lists == [w \in Wiki |-> [d \in Day |->
            IF w # 1 THEN {2, 5} ELSE IF d = 1 THEN {1, 2, 3} ELSE IF d = 2 THEN {4, 5} ELSE IF d = 3 THEN {6} ELSE {}]]
=============================================================================
