----------------------------- MODULE MCWorkQueue -----------------------------
(* Small instances of WorkQueue for TLC.                                    *)
EXTENDS WorkQueue, TLC

CONSTANTS pA, w1, w2, c1, c2, frwiki

OneWiki == [p \in Page |-> frwiki]

\* Every revision is an article.
Articles == [j \in Job |-> "article"]
\* A redirect that becomes an article that is moved out of the main namespace.
Moved == [j \in Job |-> <<"redirect", "article", "elsewhere">>[RevisionOf(j)]]

Symmetry == Permutations(Worker) \cup Permutations(Client)
=============================================================================
