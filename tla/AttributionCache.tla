--------------------------- MODULE AttributionCache ---------------------------
(***************************************************************************)
(* What the attribution service promises a reader about one page, without  *)
(* the queue, the workers, the revisions or the rows of the result table:  *)
(* the page has no answer yet, or its newest answer has a certain age.     *)
(* Computing makes the answer new and time makes it older.  Retention may  *)
(* set it back, but only to the newest answer it did not select, which is  *)
(* no older than the page's answer was when retention began; it never      *)
(* leaves a page that has an answer without one.                           *)
(***************************************************************************)
EXTENDS Integers

CONSTANTS Page, AgeCap      \* ages saturate at AgeCap

VARIABLES
    age,        \* of each page's newest answer; Unknown without one
    kept,       \* of the newest one the running retention leaves the page
    cleaning    \* has retention selected answers it has not deleted yet?

cacheVars == <<age, kept, cleaning>>

Unknown == -1

CacheInit ==
    /\ age = [p \in Page |-> Unknown] /\ kept = age
    /\ cleaning = FALSE

\* An answer arrives.  Retention may have selected the one it replaces, and
\* then takes the new one away as well.
Answered(p) ==
    /\ age' = [age EXCEPT ![p] = 0]
    /\ \/ kept' = [kept EXCEPT ![p] = 0]
       \/ cleaning /\ kept[p] # Unknown /\ UNCHANGED kept
    /\ UNCHANGED cleaning

RetentionBegins == ~cleaning /\ cleaning' = TRUE /\ UNCHANGED <<age, kept>>

RetentionEnds == cleaning /\ age' = kept /\ cleaning' = FALSE /\ UNCHANGED kept

Older(a) == IF a = Unknown \/ a = AgeCap THEN a ELSE a + 1

TimePasses ==
    /\ ~cleaning
    /\ age' = [p \in Page |-> Older(age[p])]
    /\ kept' = [p \in Page |-> Older(kept[p])]
    /\ UNCHANGED cleaning

CacheNext == \/ \E p \in Page : Answered(p)
             \/ RetentionBegins \/ RetentionEnds
             \/ TimePasses

CacheSpec == CacheInit /\ [][CacheNext]_cacheVars
=============================================================================
