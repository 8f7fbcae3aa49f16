-------------------------- MODULE AttributionProofs --------------------------
(***************************************************************************)
(* Theorems about Attribution, for any accounts, pages, thresholds, pool   *)
(* and cache sizes, and any histories of flags, failures and restarts.     *)
(***************************************************************************)
EXTENDS Attribution, SequenceTheorems, FiniteSetTheorems, WellFoundedInduction, TLAPS

\* While a rung is being prepared nobody is named, so whoever is named is judged
\* by the counts that stand.
NoneYet == phase \in {"idle", "wikiwho", "users", "history"} => names = <<>>
NoneLeft == phase = "history" => left = {}

\* The loop is about accounts that were counted.
Counted == left \subseteq Present(counts)

\* What the cache calls clean was no bot when it was asked, and who is no bot now
\* counts among those who were none.
CleanOnce == cache.clean \subseteq everClean /\ Editor \ bots \subseteq everClean

Shapes == /\ names \in Seq(Editor) /\ pool \subseteq Editor
          /\ cache = [bot |-> cache.bot, clean |-> cache.clean]

Nameable(a) == /\ a \in Answered \ Barred /\ a \in everClean
               /\ counts[a] > 0 /\ Clears(metric, counts[a], total)

NamesInv == Shapes /\ NoneYet /\ NoneLeft /\ Counted /\ CleanOnce /\ \A a \in Named : Nameable(a)

LEMMA NobodyNamed == names = <<>> => Named = {}
BY DEF Named

LEMMA PoolsRegistered ==
    ASSUME NEW c, NEW P \in Pools(c)
    PROVE  P \subseteq Editor
BY DEF Pools, FirstOf, Present, Author

-----------------------------------------------------------------------------
(* The steps.                                                              *)

LEMMA InitNames == Init => NamesInv
BY NobodyNamed DEF Init, NamesInv, Shapes, NoneYet, NoneLeft, Counted, CleanOnce, NoCache

\* The end of an attempt, however it comes.
LEMMA EndNames ==
    ASSUME NamesInv, End, UNCHANGED <<cache, world>> \/ Restart
    PROVE  NamesInv'
<1>1. names' = <<>> /\ left' = {} /\ pool' = {}
  BY DEF End
<1>2. CleanOnce' /\ cache' = [bot |-> cache'.bot, clean |-> cache'.clean]
  BY DEF NamesInv, Shapes, CleanOnce, world, Restart, NoCache
<1>3. Shapes' /\ NoneYet' /\ NoneLeft' /\ Counted'
  BY <1>1, <1>2 DEF Shapes, NoneYet, NoneLeft, Counted
<1>4. Named' = {}
  BY <1>1 DEF Named
<1>. QED  BY <1>2, <1>3, <1>4 DEF NamesInv

\* A rung that begins or is read on, with nobody named.
LEMMA ReadingNames ==
    ASSUME NamesInv, names = <<>>, UNCHANGED <<names, cache, world>>, pool' \subseteq Editor,
           left' \subseteq Present(counts'), phase' = "history" => left' = {}
    PROVE  NamesInv'
<1>1. Named' = {}
  BY DEF Named
<1>. QED  BY <1>1 DEF NamesInv, Shapes, NoneYet, NoneLeft, Counted, CleanOnce, world, Present

LEMMA RungNames ==
    ASSUME NamesInv, WikiWhoAnswers \/ WikiWhoRefuses \/ FallThrough \/ ReadHistory \/ HistoryGone
    PROVE  NamesInv'
<1>1. names = <<>> /\ UNCHANGED <<names, cache, world>>
  BY DEF NamesInv, NoneYet, WikiWhoAnswers, WikiWhoRefuses, FallThrough, Descend, ReadHistory,
         HistoryGone
<1>2. CASE WikiWhoAnswers
  BY <1>1, <1>2, PoolsRegistered, ReadingNames DEF WikiWhoAnswers, Rank
<1>3. CASE WikiWhoRefuses \/ FallThrough
  BY <1>1, <1>3, ReadingNames DEF WikiWhoRefuses, FallThrough, Descend
<1>4. CASE ReadHistory \/ HistoryGone
  <2>1. left = {} /\ pool \subseteq Editor
    BY <1>4 DEF NamesInv, NoneLeft, Shapes, ReadHistory, HistoryGone
  <2>2. CASE ReadHistory
    BY <1>1, <2>1, <2>2, PoolsRegistered, ReadingNames DEF ReadHistory, Rank, Unranked
  <2>3. CASE HistoryGone
    BY <1>1, <2>1, <2>3, PoolsRegistered, ReadingNames DEF HistoryGone, Rank, Unranked
  <2>. QED  BY <1>4, <2>2, <2>3
<1>. QED  BY <1>2, <1>3, <1>4

\* A step after which the same accounts are named by the same counts.
LEMMA SameNames ==
    ASSUME NamesInv, UNCHANGED <<names, metric, counts, total, left, pool, cache>>,
           everClean \subseteq everClean', Editor \ bots' \subseteq everClean',
           phase' \in {"idle", "wikiwho", "users", "history"} => phase' = phase \/ names = <<>>,
           phase' = "history" => phase = "history"
    PROVE  NamesInv'
<1>1. Named' = Named /\ \A a \in Named : Nameable(a)'
  BY DEF NamesInv, Named, Nameable
<1>. QED  BY <1>1 DEF NamesInv, Shapes, NoneYet, NoneLeft, Counted, CleanOnce, Present

LEMMA CallNames ==
    ASSUME NamesInv,
           \/ Begin \/ ResolveUsers \/ Settle
           \/ \E n \in 0..MaxCount : CountEditors(n) \/ CountBots(n)
           \/ \E a \in Flaggable : Flag(a)
           \/ Delete \/ UNCHANGED vars
    PROVE  NamesInv'
<1>1. Begin => names = <<>>
  BY DEF NamesInv, NoneYet, Begin
<1>2. CASE Begin \/ ResolveUsers \/ Settle \/ Delete \/ UNCHANGED vars
  BY <1>1, <1>2, SameNames
     DEF Begin, ResolveUsers, Settle, Delete, vars, job, world, NamesInv, CleanOnce
<1>3. CASE \E n \in 0..MaxCount : CountEditors(n) \/ CountBots(n)
  BY <1>3, SameNames DEF CountEditors, CountBots, world, NamesInv, CleanOnce
<1>4. CASE \E a \in Flaggable : Flag(a)
  BY <1>4, SameNames DEF Flag, job, NamesInv, CleanOnce
<1>. QED  BY <1>2, <1>3, <1>4

\* The loop names an account, or passes it over.
LEMMA JudgeNames ==
    ASSUME NamesInv, NEW a \in Author, NEW clean \in BOOLEAN, Looking(a), Judge(a, clean),
           cache'.clean \subseteq everClean, cache' = [bot |-> cache'.bot, clean |-> cache'.clean],
           clean => Contends(a) /\ a \in everClean
    PROVE  NamesInv'
<1>1. /\ left' \subseteq left /\ phase' = "rank" /\ a \in left
      /\ UNCHANGED <<metric, counts, total, pool, bots, everClean>>
  BY DEF Looking, Judge, world
<1>2. clean => a \in Editor /\ Nameable(a)
  <2>1. clean => a \in pool /\ pool \subseteq Editor /\ counts[a] > 0
    BY <1>1 DEF NamesInv, Shapes, Counted, Present, Contends
  <2>. QED  BY <2>1 DEF Nameable, Contends, Presentable
<1>3. names' \in Seq(Editor) /\ \A b \in Named' : b \in Named \/ (clean /\ b = a)
  <2>1. CASE clean
    <3>1. names' = Append(names, a) /\ names \in Seq(Editor) /\ a \in Editor
      BY <1>2, <2>1 DEF Judge, NamesInv, Shapes
    <3>2. /\ Append(names, a) \in Seq(Editor) /\ Len(Append(names, a)) = Len(names) + 1
          /\ \A i \in 1..Len(names) + 1 :
                Append(names, a)[i] = IF i <= Len(names) THEN names[i] ELSE a
      BY <3>1, AppendProperties
    <3>3. Len(names) \in Nat
      BY <3>1
    <3>. QED  BY <2>1, <3>1, <3>2, <3>3 DEF Named
  <2>2. CASE ~clean
    BY <2>2 DEF Judge, NamesInv, Shapes, Named
  <2>. QED  BY <2>1, <2>2
<1>4. \A b \in Named' : Nameable(b)'
  BY <1>1, <1>2, <1>3 DEF NamesInv, Nameable
<1>. QED  BY <1>1, <1>3, <1>4 DEF NamesInv, Shapes, NoneYet, NoneLeft, Counted, CleanOnce, Present

LEMMA LoopNames ==
    ASSUME NamesInv, NEW a \in Author, PassOver(a) \/ Recall(a) \/ AskCentralAuth(a)
    PROVE  NamesInv'
<1>1. CASE PassOver(a)
  BY <1>1, JudgeNames DEF PassOver, NamesInv, CleanOnce, Shapes
<1>2. CASE Recall(a)
  <2>1. CASE a \in cache.clean
    <3>1. Judge(a, TRUE)
      BY <1>2, <2>1 DEF Recall, Judge
    <3>. QED  BY <1>2, <2>1, <3>1, JudgeNames DEF Recall, NamesInv, CleanOnce, Shapes
  <2>2. CASE a \notin cache.clean
    <3>1. Judge(a, FALSE)
      BY <1>2, <2>2 DEF Recall, Judge
    <3>. QED  BY <1>2, <3>1, JudgeNames DEF Recall, NamesInv, CleanOnce, Shapes
  <2>. QED  BY <2>1, <2>2
<1>3. CASE AskCentralAuth(a)
  <2>. DEFINE kept == IF Cardinality(Cached) >= CacheSize THEN NoCache ELSE cache
  <2>1. a \in Editor /\ (a \notin bots => a \in everClean)
    BY <1>3 DEF AskCentralAuth, Contends, NamesInv, Shapes, CleanOnce
  <2>2. kept = [bot |-> kept.bot, clean |-> kept.clean] /\ kept.clean \subseteq everClean
    BY DEF NoCache, NamesInv, Shapes, CleanOnce
  <2>3. cache' = IF a \in bots THEN [kept EXCEPT !.bot = @ \cup {a}]
                 ELSE [kept EXCEPT !.clean = @ \cup {a}]
    BY <1>3 DEF AskCentralAuth
  <2>. HIDE DEF kept
  <2>4. cache' = [bot |-> cache'.bot, clean |-> cache'.clean] /\ cache'.clean \subseteq everClean
    BY <2>1, <2>2, <2>3
  <2>. QED  BY <1>3, <2>1, <2>4, JudgeNames DEF AskCentralAuth
<1>. QED  BY <1>1, <1>2, <1>3

LEMMA NamesInductive == NamesInv /\ [Next]_vars => NamesInv'
<1>. SUFFICES ASSUME NamesInv, [Next]_vars PROVE NamesInv'
  OBVIOUS
<1>1. CASE Save \/ Fail \/ Restart
  BY <1>1, EndNames DEF Save, Fail, Restart
<1>2. CASE WikiWhoAnswers \/ WikiWhoRefuses \/ FallThrough \/ ReadHistory \/ HistoryGone
  BY <1>2, RungNames
<1>3. CASE \E a \in Author : PassOver(a) \/ Recall(a) \/ AskCentralAuth(a)
  BY <1>3, LoopNames
<1>4. CASE \/ Begin \/ ResolveUsers \/ Settle
           \/ \E n \in 0..MaxCount : CountEditors(n) \/ CountBots(n)
           \/ \E a \in Flaggable : Flag(a)
           \/ Delete \/ UNCHANGED vars
  BY <1>4, CallNames
<1>. QED  BY <1>1, <1>2, <1>3, <1>4 DEF Next

\* Through whichever rung, with whatever the cache remembers and however often
\* the worker fails or restarts: an account is named only if MediaWiki knows it
\* and does not bar it, it clears the gates of its rung, and it was in no global
\* bot group at some moment since the worker started.
THEOREM OnlyNameable == Spec => []OnlyNameableNamed
<1>1. NamesInv => OnlyNameableNamed
  BY DEF NamesInv, Nameable, OnlyNameableNamed
<1>. QED  BY <1>1, InitNames, NamesInductive, PTL DEF Spec

-----------------------------------------------------------------------------
(* Sums and sets of revisions.                                             *)

LEMMA Facts ==
    /\ Editor \subseteq Nat \ {0} /\ IsFiniteSet(Editor)
    /\ IsFiniteSet(Author) /\ Author \subseteq Nat /\ 0 \in Author /\ Editor \subseteq Author
    /\ \A p \in Pages : /\ p.tokens \in [Author -> Nat] /\ p.history \in Seq(Seq(Author))
                        /\ Len(p.history) \in Nat \ {0}
    /\ Answered \subseteq Editor /\ Flaggable \subseteq Editor
    /\ PoolSize \in Nat /\ MaxRevisions \in Nat /\ CacheSize \in Nat \ {0} /\ MaxCount \in Nat
<1>1. Editor \subseteq Nat \ {0} /\ IsFiniteSet(Editor)
  BY AttributionAssumption
<1>2. IsFiniteSet(Author) /\ Author \subseteq Nat /\ 0 \in Author /\ Editor \subseteq Author
  BY <1>1, FS_AddElement DEF Author
<1>3. ASSUME NEW p \in Pages
      PROVE  /\ p.tokens \in [Author -> Nat] /\ p.history \in Seq(Seq(Author))
             /\ Len(p.history) \in Nat \ {0}
  <2>1. p \in PageFacts /\ Len(p.history) > 0
    BY AttributionAssumption
  <2>2. p.history \in Seq(Seq(Author)) /\ p.tokens \in [Author -> Nat]
    BY <2>1 DEF PageFacts
  <2>3. Len(p.history) \in Nat
    BY <2>2
  <2>. QED  BY <2>1, <2>2, <2>3
<1>. QED  BY <1>1, <1>2, <1>3, AttributionAssumption

\* A nonempty set of naturals has a least element.
LEMMA LeastElement ==
    ASSUME NEW T, T \subseteq Nat, T # {}
    PROVE  \E x \in T : \A y \in T : x <= y
<1>1. \E R : IsWellFoundedOn(R, Nat) /\ \A x, y \in Nat : y < x => <<y, x>> \in R
  <2>1. \A x, y \in Nat : y < x => <<y, x>> \in OpToRel(<, Nat)
    BY DEF OpToRel
  <2>. QED  BY <2>1, NatLessThanWellFounded
<1>2. PICK R : IsWellFoundedOn(R, Nat) /\ \A x, y \in Nat : y < x => <<y, x>> \in R
  BY <1>1
<1>3. PICK x \in T : \A y \in T : ~ (<<y, x>> \in R)
  BY <1>2, WFMin
<1>4. ASSUME NEW y \in T PROVE x <= y
  <2>1. ~ (<<y, x>> \in R)
    BY <1>3
  <2>2. x \in Nat /\ y \in Nat
    OBVIOUS
  <2>3. y < x => <<y, x>> \in R
    BY <1>2, <2>2
  <2>. QED  BY <2>1, <2>2, <2>3
<1>. QED  BY <1>4

AnyOf(s) == CHOOSE x \in s : TRUE

\* What a sum over s is made of, given the sums over smaller sets.
Plus(f, g, s) == IF s = {} THEN 0 ELSE f[AnyOf(s)] + g[s \ {AnyOf(s)}]

SumsOver(f, g, D) == g = [s \in SUBSET D |-> Plus(f, g, s)]

LEMMA AnySmaller ==
    ASSUME NEW s, IsFiniteSet(s), s # {}
    PROVE  /\ AnyOf(s) \in s /\ IsFiniteSet(s \ {AnyOf(s)})
           /\ Cardinality(s \ {AnyOf(s)}) = Cardinality(s) - 1 /\ Cardinality(s) \in Nat \ {0}
<1>1. AnyOf(s) \in s
  BY DEF AnyOf
<1>2. Cardinality(s) \in Nat /\ Cardinality(s) # 0
  BY FS_CardinalityType, FS_EmptySet
<1>3. PICK x : x = AnyOf(s)
  OBVIOUS
<1>4. IsFiniteSet(s \ {x}) /\ Cardinality(s \ {x}) = Cardinality(s) - 1
  BY <1>1, <1>3, FS_RemoveElement
<1>. QED  BY <1>1, <1>2, <1>3, <1>4

LEMMA SumUnfolds ==
    ASSUME NEW f
    PROVE  SumFunction(f) = (CHOOSE g : SumsOver(f, g, DOMAIN f))[DOMAIN f]
BY DEF SumFunction, SumFunctionOnSet, FoldFunctionOnSet, MapThenFoldSet, SumsOver, Plus, AnyOf

\* There are such sums: a least number of elements for which there were none would
\* have some, those over fewer elements extended by one.
LEMMA SumsExist ==
    ASSUME NEW D, IsFiniteSet(D), NEW f \in [D -> Nat]
    PROVE  \E g \in [SUBSET D -> Nat] : SumsOver(f, g, D)
<1>. DEFINE Upto(n, g) == \A s \in SUBSET D : Cardinality(s) <= n => g[s] = Plus(f, g, s)
<1>. DEFINE Without == {n \in Nat : ~ \E g \in [SUBSET D -> Nat] : Upto(n, g)}
<1>1. \A s \in SUBSET D : IsFiniteSet(s) /\ Cardinality(s) \in Nat /\ Cardinality(s) <= Cardinality(D)
  BY FS_Subset, FS_CardinalityType
<1>2. Without = {}
  <2>1. SUFFICES ASSUME Without # {} PROVE FALSE
    OBVIOUS
  <2>2. PICK n \in Without : \A k \in Without : n <= k
    <3>1. Without \subseteq Nat
      OBVIOUS
    <3>. HIDE DEF Without
    <3>. QED  BY <2>1, <3>1, LeastElement
  <2>3. n \in Nat /\ ~ \E g \in [SUBSET D -> Nat] : Upto(n, g)
    OBVIOUS
  <2>4. CASE n = 0
    <3>. DEFINE g == [s \in SUBSET D |-> 0]
    <3>1. \A s \in SUBSET D : Cardinality(s) <= 0 => s = {}
      BY <1>1, FS_EmptySet
    <3>2. Upto(n, g)
      BY <2>4, <3>1 DEF Plus
    <3>. QED  BY <2>3, <3>2
  <2>5. CASE n # 0
    <3>1. n - 1 \in Nat /\ ~ (n <= n - 1)
      BY <2>3, <2>5
    <3>2. n - 1 \notin Without
      <4>. HIDE DEF Without
      <4>. QED  BY <2>2, <3>1
    <3>3. PICK g \in [SUBSET D -> Nat] : Upto(n - 1, g)
      BY <3>1, <3>2
    <3>4. ASSUME NEW s \in SUBSET D, s # {}
          PROVE  /\ AnyOf(s) \in D /\ s \ {AnyOf(s)} \in SUBSET D
                 /\ Cardinality(s \ {AnyOf(s)}) = Cardinality(s) - 1
      BY <1>1, <3>4, AnySmaller
    <3>5. ASSUME NEW s \in SUBSET D PROVE Plus(f, g, s) \in Nat
      <4>1. CASE s = {}
        BY <4>1 DEF Plus
      <4>2. CASE s # {}
        <5>1. f[AnyOf(s)] \in Nat /\ g[s \ {AnyOf(s)}] \in Nat
          BY <3>4, <4>2
        <5>. QED  BY <4>2, <5>1 DEF Plus
      <4>. QED  BY <4>1, <4>2
    <3>. DEFINE h == [s \in SUBSET D |-> IF Cardinality(s) <= n - 1 THEN g[s] ELSE Plus(f, g, s)]
    <3>6. h \in [SUBSET D -> Nat]
      BY <3>5
    <3>7. ASSUME NEW s \in SUBSET D, Cardinality(s) <= n PROVE h[s] = Plus(f, h, s)
      <4>1. h[s] = Plus(f, g, s)
        BY <3>3
      <4>2. s # {} => h[s \ {AnyOf(s)}] = g[s \ {AnyOf(s)}]
        <5>1. s # {} => Cardinality(s \ {AnyOf(s)}) <= n - 1
          BY <1>1, <2>3, <3>4, <3>7
        <5>. QED  BY <3>4, <5>1
      <4>. QED  BY <4>1, <4>2 DEF Plus
    <3>. QED  BY <2>3, <3>6, <3>7
  <2>. QED  BY <2>4, <2>5
<1>3. Cardinality(D) \in Nat
  BY FS_CardinalityType
<1>4. PICK g \in [SUBSET D -> Nat] : Upto(Cardinality(D), g)
  BY <1>2, <1>3
<1>5. SumsOver(f, g, D)
  BY <1>1, <1>4 DEF SumsOver
<1>. QED  BY <1>5

\* Numbers add up to a number.
LEMMA SumIsNumber ==
    ASSUME NEW D, IsFiniteSet(D), NEW f \in [D -> Nat]
    PROVE  SumFunction(f) \in Nat
<1>1. PICK g : g = CHOOSE h : SumsOver(f, h, D)
  OBVIOUS
<1>2. SumsOver(f, g, D)
  BY <1>1, SumsExist
<1>3. \A s \in SUBSET D : g[s] = Plus(f, g, s)
  BY <1>2 DEF SumsOver
<1>4. \A s \in SUBSET D : IsFiniteSet(s) /\ Cardinality(s) \in Nat
  BY FS_Subset, FS_CardinalityType
<1>. DEFINE Odd == {s \in SUBSET D : g[s] \notin Nat}
<1>5. Odd = {}
  <2>. DEFINE Sizes == {Cardinality(s) : s \in Odd}
  <2>1. SUFFICES ASSUME Odd # {} PROVE FALSE
    OBVIOUS
  <2>2. Sizes \subseteq Nat /\ Sizes # {}
    BY <1>4, <2>1
  <2>3. PICK n \in Sizes : \A k \in Sizes : n <= k
    <3>. HIDE DEF Sizes
    <3>. QED  BY <2>2, LeastElement
  <2>4. PICK s \in Odd : Cardinality(s) = n
    BY <2>3
  <2>5. s # {}
    <3>1. g[s] = Plus(f, g, s) /\ g[s] \notin Nat
      BY <1>3
    <3>. QED  BY <3>1 DEF Plus
  <2>6. /\ AnyOf(s) \in D /\ s \ {AnyOf(s)} \in SUBSET D
        /\ Cardinality(s \ {AnyOf(s)}) = n - 1 /\ n \in Nat
    BY <1>4, <2>4, <2>5, AnySmaller
  <2>7. s \ {AnyOf(s)} \notin Odd
    BY <2>3, <2>6
  <2>8. g[s \ {AnyOf(s)}] \in Nat /\ f[AnyOf(s)] \in Nat
    BY <2>6, <2>7
  <2>9. g[s] = f[AnyOf(s)] + g[s \ {AnyOf(s)}]
    BY <1>3, <2>5 DEF Plus
  <2>. QED  BY <2>8, <2>9
<1>6. DOMAIN f = D /\ g[D] \in Nat
  BY <1>5
<1>. QED  BY <1>1, <1>6, SumUnfolds

LEMMA UpTo ==
    ASSUME NEW n \in Nat
    PROVE  IsFiniteSet(1..n) /\ Cardinality(1..n) = n
<1>1. 1 \in Int /\ n \in Int
  OBVIOUS
<1>2. IsFiniteSet(1..n) /\ Cardinality(1..n) = IF 1 > n THEN 0 ELSE n - 1 + 1
  BY <1>1, FS_Interval
<1>. QED  BY <1>2

LEMMA PlaceOf ==
    ASSUME NEW p, NEW n, NEW r
    PROVE  r \in Revisions(p, n) <=> \E b \in 1..n : \E i \in 1..Len(p.history[b]) : r = <<b, i>>
BY DEF Revisions

LEMMA RevisionsFinite ==
    ASSUME NEW p \in Pages, NEW n \in 0..Len(p.history)
    PROVE  /\ IsFiniteSet(Revisions(p, n)) /\ Cardinality(Revisions(p, n)) \in Nat
           /\ \A a : IsFiniteSet(By(p, n, a)) /\ Cardinality(By(p, n, a)) \in Nat
<1>1. \A b \in 1..n : p.history[b] \in Seq(Author) /\ Len(p.history[b]) \in Nat
  <2>1. p.history \in Seq(Seq(Author)) /\ Len(p.history) \in Nat
    BY Facts
  <2>2. ASSUME NEW b \in 1..n PROVE p.history[b] \in Seq(Author) /\ Len(p.history[b]) \in Nat
    <3>1. b \in 1..Len(p.history)
      BY <2>1, <2>2
    <3>2. p.history[b] \in Seq(Author)
      BY <2>1, <3>1
    <3>. QED  BY <3>2
  <2>. QED  BY <2>2
<1>. DEFINE Batch(b) == {b} \X (1..Len(p.history[b]))
            All == {Batch(b) : b \in 1..n}
<1>2. \A b \in 1..n : IsFiniteSet(Batch(b))
  <2>1. ASSUME NEW b \in 1..n PROVE IsFiniteSet(Batch(b))
    <3>1. IsFiniteSet(1..Len(p.history[b])) /\ IsFiniteSet({b})
      BY <1>1, <2>1, UpTo, FS_Singleton
    <3>. QED  BY <3>1, FS_Product
  <2>. QED  BY <2>1
<1>3. IsFiniteSet(All)
  <2>. DEFINE f == [b \in 1..n |-> Batch(b)]
  <2>1. f \in Surjection(1..n, All)
    BY DEF Surjection
  <2>2. IsFiniteSet(1..n)
    BY FS_Interval, Facts
  <2>. HIDE DEF f, All
  <2>. QED  BY <2>1, <2>2, FS_Surjection
<1>4. IsFiniteSet(UNION All)
  <2>1. \A T \in All : IsFiniteSet(T)
    BY <1>2
  <2>. HIDE DEF All
  <2>. QED  BY <1>3, <2>1, FS_UNION
<1>5. IsFiniteSet(Revisions(p, n))
  BY <1>4 DEF Revisions
<1>6. \A a : By(p, n, a) \in SUBSET Revisions(p, n)
  BY DEF By
<1>. QED  BY <1>5, <1>6, FS_Subset, FS_CardinalityType

\* One batch more adds its revisions, whose number is its length, and those of an
\* account among them.
LEMMA OneBatchMore ==
    ASSUME NEW p \in Pages, NEW n \in Nat, n < Len(p.history)
    PROVE  /\ Cardinality(Revisions(p, n + 1))
                = Cardinality(Revisions(p, n)) + Len(p.history[n + 1])
           /\ \A a : Cardinality(By(p, n + 1, a))
                = Cardinality(By(p, n, a))
                  + Cardinality({i \in 1..Len(p.history[n + 1]) : p.history[n + 1][i] = a})
           /\ Len(p.history[n + 1]) \in Nat
<1>. DEFINE h == p.history[n + 1]
<1>1. p.history \in Seq(Seq(Author)) /\ Len(p.history) \in Nat /\ n + 1 \in 1..Len(p.history)
  BY Facts
<1>2. h \in Seq(Author) /\ Len(h) \in Nat
  BY <1>1
<1>3. \A b \in 1..n + 1 : b \in 1..n \/ b = n + 1
  OBVIOUS
<1>4. n + 1 \notin 1..n /\ n + 1 \in 1..n + 1 /\ \A b \in 1..n : b \in 1..n + 1
  OBVIOUS
<1>5. ASSUME NEW I \in SUBSET (1..Len(h))
      PROVE  /\ IsFiniteSet({n + 1} \X I) /\ Cardinality({n + 1} \X I) = Cardinality(I)
             /\ Revisions(p, n) \cap ({n + 1} \X I) = {}
  <2>1. IsFiniteSet(I) /\ Cardinality(I) \in Nat
    <3>1. IsFiniteSet(1..Len(h))
      BY <1>2, UpTo
    <3>. QED  BY <3>1, FS_Subset, FS_CardinalityType
  <2>2. IsFiniteSet({n + 1}) /\ Cardinality({n + 1}) = 1
    BY FS_Singleton
  <2>3. IsFiniteSet({n + 1} \X I) /\ Cardinality({n + 1} \X I) = 1 * Cardinality(I)
    BY <2>1, <2>2, FS_Product
  <2>4. \A r \in Revisions(p, n) : r \notin {n + 1} \X I
    BY <1>4, PlaceOf
  <2>. QED  BY <2>1, <2>3, <2>4
<1>6. n \in 0..Len(p.history)
  BY <1>1
<1>7. IsFiniteSet(Revisions(p, n)) /\ \A a : IsFiniteSet(By(p, n, a))
  BY <1>6, RevisionsFinite
<1>8. Revisions(p, n + 1) = Revisions(p, n) \cup ({n + 1} \X (1..Len(h)))
  <2>1. ASSUME NEW r \in Revisions(p, n + 1)
        PROVE  r \in Revisions(p, n) \cup ({n + 1} \X (1..Len(h)))
    <3>1. PICK b \in 1..n + 1 : \E i \in 1..Len(p.history[b]) : r = <<b, i>>
      BY PlaceOf
    <3>2. CASE b \in 1..n
      BY <3>1, <3>2, PlaceOf
    <3>3. CASE b = n + 1
      BY <3>1, <3>3
    <3>. QED  BY <1>3, <3>2, <3>3
  <2>2. ASSUME NEW r \in Revisions(p, n) PROVE r \in Revisions(p, n + 1)
    <3>1. PICK b \in 1..n : \E i \in 1..Len(p.history[b]) : r = <<b, i>>
      BY PlaceOf
    <3>. QED  BY <1>4, <3>1, PlaceOf
  <2>3. ASSUME NEW r \in {n + 1} \X (1..Len(h)) PROVE r \in Revisions(p, n + 1)
    <3>1. PICK i \in 1..Len(h) : r = <<n + 1, i>>
      OBVIOUS
    <3>. QED  BY <1>4, <3>1, PlaceOf
  <2>. QED  BY <2>1, <2>2, <2>3
<1>9. Cardinality(Revisions(p, n + 1)) = Cardinality(Revisions(p, n)) + Len(h)
  <2>1. 1..Len(h) \in SUBSET (1..Len(h)) /\ Cardinality(1..Len(h)) = Len(h)
    BY <1>2, UpTo
  <2>2. PICK T : T = {n + 1} \X (1..Len(h))
    OBVIOUS
  <2>3. IsFiniteSet(T) /\ Cardinality(T) = Len(h) /\ Revisions(p, n) \cap T = {}
    BY <1>5, <2>1, <2>2
  <2>4. PICK R : R = Revisions(p, n)
    OBVIOUS
  <2>5. IsFiniteSet(R) /\ Cardinality(R) \in Nat /\ R \cap T = {}
    BY <1>7, <2>3, <2>4, FS_CardinalityType
  <2>6. Cardinality(R \cup T) = Cardinality(R) + Cardinality(T) - Cardinality({})
    BY <2>3, <2>5, FS_Union
  <2>7. Cardinality(R \cup T) = Cardinality(R) + Cardinality(T)
    <3>1. Cardinality(T) \in Nat /\ Cardinality({}) = 0
      BY <1>2, <2>3, FS_EmptySet
    <3>. QED  BY <2>5, <2>6, <3>1
  <2>. QED  BY <1>8, <2>2, <2>3, <2>4, <2>7
<1>10. ASSUME NEW a
       PROVE  Cardinality(By(p, n + 1, a))
                = Cardinality(By(p, n, a)) + Cardinality({i \in 1..Len(h) : h[i] = a})
  <2>. DEFINE I == {i \in 1..Len(h) : h[i] = a}
  <2>1. By(p, n + 1, a) = By(p, n, a) \cup ({n + 1} \X I)
    <3>1. By(p, n + 1, a) = By(p, n, a) \cup {r \in {n + 1} \X (1..Len(h)) :
                                                     p.history[r[1]][r[2]] = a}
      BY <1>8 DEF By
    <3>2. {r \in {n + 1} \X (1..Len(h)) : p.history[r[1]][r[2]] = a} = {n + 1} \X I
      OBVIOUS
    <3>. QED  BY <3>1, <3>2
  <2>2. PICK T : T = {n + 1} \X I
    OBVIOUS
  <2>3. IsFiniteSet(T) /\ Cardinality(T) = Cardinality(I) /\ Revisions(p, n) \cap T = {}
    BY <1>5, <2>2
  <2>4. By(p, n, a) \cap T = {}
    BY <2>3 DEF By
  <2>5. Cardinality(By(p, n, a)) \in Nat /\ Cardinality(T) \in Nat
    BY <1>7, <2>3, FS_CardinalityType
  <2>6. PICK R : R = By(p, n, a)
    OBVIOUS
  <2>7. Cardinality(R \cup T) = Cardinality(R) + Cardinality(T) - Cardinality({})
    BY <1>7, <2>3, <2>4, <2>6, FS_Union
  <2>8. Cardinality(R \cup T) = Cardinality(R) + Cardinality(T)
    <3>1. Cardinality({}) = 0
      BY FS_EmptySet
    <3>. QED  BY <2>5, <2>6, <2>7, <3>1
  <2>. QED  BY <2>1, <2>2, <2>3, <2>6, <2>8
<1>. QED  BY <1>2, <1>9, <1>10

LEMMA NoBatchYet ==
    ASSUME NEW p
    PROVE  Revisions(p, 0) = {} /\ \A a : By(p, 0, a) = {}
BY PlaceOf DEF By

\* Fewer batches hold fewer revisions.
LEMMA FewerRevisions ==
    ASSUME NEW p \in Pages, NEW n \in 0..Len(p.history), NEW m \in 0..Len(p.history), m <= n
    PROVE  Cardinality(Revisions(p, m)) <= Cardinality(Revisions(p, n))
<1>1. Revisions(p, m) \in SUBSET Revisions(p, n)
  <2>1. \A b \in 1..m : b \in 1..n
    BY Facts
  <2>. QED  BY <2>1, PlaceOf
<1>. QED  BY <1>1, RevisionsFinite, FS_Subset

-----------------------------------------------------------------------------
(* Pools.                                                                  *)

\* Whoever is within the pool however its ties fall is in it.
LEMMA PoolHolds ==
    ASSUME NEW c \in [Author -> Nat], NEW P \in Pools(c), NEW a \in Editor, c[a] > 0,
           Cardinality({b \in Editor : c[b] >= c[a]}) <= PoolSize
    PROVE  a \in P
<1>. DEFINE All == {b \in Editor : c[b] >= c[a]}
<1>1. SUFFICES ASSUME a \notin P PROVE FALSE
  OBVIOUS
<1>2. a \in Present(c) \ {0} /\ Present(c) \ {0} \subseteq Editor
  BY Facts DEF Present, Author
<1>3. P \subseteq Editor /\ Cardinality(P) = PoolSize /\ \A b \in P : c[b] >= c[a]
  BY <1>1, <1>2 DEF Pools, FirstOf
<1>4. P \cup {a} \in SUBSET All
  BY <1>3, Facts
<1>5. IsFiniteSet(All) /\ IsFiniteSet(P)
  BY <1>3, Facts, FS_Subset
<1>. HIDE DEF All
<1>6. Cardinality(P \cup {a}) = PoolSize + 1
  BY <1>1, <1>3, <1>5, FS_AddElement
<1>7. Cardinality(P \cup {a}) <= Cardinality(All) /\ Cardinality(All) \in Nat
  BY <1>4, <1>5, FS_Subset, FS_CardinalityType
<1>. QED  BY <1>6, <1>7, Facts DEF All

-----------------------------------------------------------------------------
(* The second induction: what a rung counts, and how far its loop has got. *)

Ranking == phase \in {"users", "rank"}
Closed == phase \in {"editors", "bots", "save"}

\* What the first n batches say is what is counted.
CountedTo(n) == counts = Edits(page, n) /\ total = Cardinality(Revisions(page, n))

\* Before a rung has counts, and while the history is read.
RungsApart ==
    /\ phase \in {"idle", "wikiwho"} => /\ metric = "tokens" /\ countable = 0 /\ names = <<>>
                                        /\ pool = {} /\ left = {}
    /\ metric = "tokens" => batch = 0 /\ phase # "history"
    /\ phase = "history" => /\ batch < Batches /\ CountedTo(batch)
                            /\ names = <<>> /\ pool = {} /\ left = {}

\* The counts a ranking goes by are the rung's evidence, unless a deletion cut
\* the walk short, and then the attempt comes to no decision.
CountsStand ==
    /\ metric = "tokens" => counts = page.tokens /\ total = TokenTotal(page)
    /\ metric = "edits" /\ (~gone \/ Decided) => CountedTo(Batches)

\* The loop has been past the largest counts, and has named whom it may.
LoopHeld ==
    /\ pool \in Pools(counts) /\ left \subseteq Present(counts)
    /\ \A a \in left, b \in Present(counts) \ left : counts[a] <= counts[b]
    /\ \A b \in Present(counts) \ left : Contends(b) => b \in Named \cup everBot
    /\ Named \subseteq Present(counts) \ left

LoopOver == LoopHeld /\ CountsStand /\ (left = {} \/ Len(names) = Shown)

\* The history was not ranked: it is past the budget, or the page is gone.
Unread ==
    /\ metric = "edits" /\ names = <<>>
    /\ ~gone \/ Decided => ~WithinBudget

Judged ==
    /\ Ranking => LoopHeld /\ CountsStand /\ (phase = "users" => names = <<>>)
    /\ Closed => (LoopOver \/ Unread) /\ (names # <<>> \/ metric = "edits")
    /\ cache.bot \subseteq everBot /\ bots \subseteq everBot

\* Whoever rung 1 passed over did not deserve to be named by it.
PassedOver == metric = "edits" /\ countable # 0 => \A a \in Editor : ~Deserves("tokens", a)

LadderInv == TypeOK /\ RungsApart /\ Judged /\ PassedOver

\* An account that deserves a name has one, or its turn is still to come.
LEMMA Deserving ==
    ASSUME TypeOK, LoopHeld, counts = Evidence(metric),
           metric = "tokens" => total = TokenTotal(page),
           NEW a \in Editor, Deserves(metric, a)
    PROVE  a \in left \/ a \in Named
<1>1. /\ counts[a] > 0 /\ Cardinality({b \in Editor : counts[b] >= counts[a]}) <= PoolSize
      /\ a \in Answered \ Barred /\ a \notin everBot /\ Clears(metric, counts[a], TokenTotal(page))
  BY DEF Deserves
<1>2. a \in pool
  <2>1. counts \in [Author -> Nat] /\ pool \in Pools(counts)
    BY DEF TypeOK, LoopHeld
  <2>. QED  BY <1>1, <2>1, PoolHolds
<1>3. Contends(a)
  BY <1>1, <1>2 DEF Contends, Presentable, Clears
<1>4. a \in Present(counts)
  BY <1>1, Facts DEF Present
<1>. QED  BY <1>1, <1>3, <1>4 DEF LoopHeld

LEMMA NobodyFinal ==
    ASSUME TypeOK, LoopHeld, CountsStand, metric = "tokens" \/ Decided, names = <<>>,
           left = {} \/ Len(names) = Shown
    PROVE  \A a \in Editor : ~Deserves(metric, a)
<1>1. left = {} /\ Named = {}
  BY NobodyNamed DEF Shown
<1>2. counts = Evidence(metric) /\ (metric = "tokens" => total = TokenTotal(page))
  BY DEF CountsStand, CountedTo, Evidence, TypeOK, Metrics
<1>. QED  BY <1>1, <1>2, Deserving

\* Nobody comes to deserve more while an attempt is about the same page.
LEMMA DesertShrinks ==
    ASSUME page' = page, everBot \subseteq everBot', NEW m, NEW a, Deserves(m, a)'
    PROVE  Deserves(m, a)
BY DEF Deserves, Evidence, Edits, Revisions, By, Clears, TokenTotal, Batches

LEMMA PassedOverStays ==
    ASSUME PassedOver, UNCHANGED <<page, metric, countable>>, everBot \subseteq everBot'
    PROVE  PassedOver'
<1>. SUFFICES ASSUME metric = "edits", countable # 0, NEW a \in Editor
              PROVE  ~Deserves("tokens", a)'
  BY DEF PassedOver
<1>1. ~Deserves("tokens", a)
  BY DEF PassedOver
<1>. QED  BY <1>1, DesertShrinks

-----------------------------------------------------------------------------
(* Its steps.                                                              *)

LEMMA StartLadder ==
    ASSUME Init
    PROVE  LadderInv
<1>1. /\ phase = "idle" /\ page \in Pages /\ gone = FALSE /\ metric = "tokens" /\ countable = 0
      /\ counts = Nobody /\ total = 0 /\ pool = {} /\ left = {} /\ batch = 0 /\ names = <<>>
      /\ people = 0 /\ cache = NoCache /\ flags = 0
      /\ bots \subseteq Flaggable /\ everBot = bots /\ everClean = Editor \ bots
  BY DEF Init
<1>2. Cardinality(Cached) <= CacheSize
  BY <1>1, FS_EmptySet, Facts DEF Cached, NoCache
<1>3. cache \in [bot : SUBSET Editor, clean : SUBSET Editor] /\ counts \in [Author -> Nat]
      /\ names \in Seq(Editor) /\ Len(names) = 0
  BY <1>1 DEF NoCache, Nobody
<1>4. TypeOK
  <2>0. gone \in BOOLEAN
    BY DEF Init
  <2>1. /\ phase \in Phases /\ metric \in Metrics /\ people \in Nat
        /\ {countable, total, batch, flags} \subseteq Nat /\ phase # "save"
    <3>1. /\ phase = "idle" /\ metric = "tokens" /\ people = 0
          /\ countable = 0 /\ total = 0 /\ batch = 0 /\ flags = 0
      BY <1>1
    <3>. QED  BY <3>1 DEF Phases, Metrics
  <2>2. pool \subseteq Editor /\ left \subseteq Author /\ Len(names) <= Shown
    BY <1>1, <1>3 DEF Shown
  <2>3. bots \subseteq Editor /\ everBot \subseteq Editor /\ everClean \subseteq Editor
    BY <1>1, Facts
  <2>. QED  BY <1>1, <1>2, <1>3, <2>0, <2>1, <2>2, <2>3 DEF TypeOK
<1>. QED  BY <1>1, <1>4 DEF LadderInv, RungsApart, Judged, PassedOver, Ranking, Closed, NoCache

\* An attempt that ends leaves nothing behind but what the worker remembers.
LEMMA EndLadder ==
    ASSUME LadderInv, End, UNCHANGED <<cache, world>> \/ Restart
    PROVE  LadderInv'
<1>1. /\ phase' = "idle" /\ metric' = "tokens" /\ countable' = 0 /\ counts' = Nobody
      /\ total' = 0 /\ pool' = {} /\ left' = {} /\ batch' = 0 /\ names' = <<>> /\ people' = 0
      /\ page' = page /\ gone' = gone
  BY DEF End
<1>2. TypeOK
  BY DEF LadderInv
<1>3. /\ cache' \in [bot : SUBSET Editor, clean : SUBSET Editor]
      /\ Cardinality(Cached') <= CacheSize /\ cache'.bot \subseteq everBot' /\ bots' \subseteq everBot'
      /\ bots' \subseteq Editor /\ everBot' \subseteq Editor /\ everClean' \subseteq Editor
      /\ flags' \in Nat
  <2>1. CASE UNCHANGED <<cache, world>>
    BY <1>2, <2>1 DEF TypeOK, Cached, world, LadderInv, Judged
  <2>2. CASE Restart
    <3>1. cache' = NoCache /\ bots' = bots /\ flags' = flags /\ everBot' = bots
          /\ everClean' = Editor \ bots
      BY <2>2 DEF Restart
    <3>2. Cardinality(Cached') <= CacheSize
      BY <3>1, FS_EmptySet, Facts DEF Cached, NoCache
    <3>. QED  BY <1>2, <3>1, <3>2 DEF TypeOK, NoCache
  <2>. QED  BY <2>1, <2>2
<1>4. counts' \in [Author -> Nat] /\ names' \in Seq(Editor) /\ Len(names') = 0
  BY <1>1 DEF Nobody
<1>5. TypeOK'
  BY <1>1, <1>2, <1>3, <1>4 DEF TypeOK, Phases, Metrics, Shown
<1>. QED  BY <1>1, <1>3, <1>5 DEF LadderInv, RungsApart, Judged, PassedOver, Ranking, Closed

\* A step that leaves the counts, the names and the page alone, and at most passes
\* on what the rung has come to.
LEMMA CallLadder ==
    ASSUME LadderInv, TypeOK',
           UNCHANGED <<page, metric, countable, counts, total, pool, left, batch, names, cache>>,
           everBot \subseteq everBot', bots' \subseteq everBot',
           ~gone' \/ Decided' => ~gone \/ Decided,
           \/ phase' = phase
           \/ phase = "users" /\ phase' = "rank"
           \/ Ranked /\ (names # <<>> \/ metric = "edits") /\ phase' = "editors"
           \/ phase \in {"editors", "bots"} /\ phase' \in {"bots", "save"}
    PROVE  LadderInv'
<1>1. LoopHeld => LoopHeld'
  BY DEF LoopHeld, Pools, FirstOf, Present, Contends, Presentable, Clears, Named
<1>2. CountsStand => CountsStand'
  BY DEF CountsStand, CountedTo, Edits, Revisions, By, TokenTotal, Batches
<1>3. Unread => Unread'
  BY DEF Unread, WithinBudget, Revisions, Batches
<1>4. RungsApart'
  <2>1. phase' \in {"idle", "wikiwho", "history"} => phase' = phase
    BY DEF Ranked
  <2>2. CountedTo(batch) => CountedTo(batch)'
    BY DEF CountedTo, Edits, Revisions, By, Batches
  <2>3. Batches' = Batches
    BY DEF Batches
  <2>. QED  BY <2>1, <2>2, <2>3 DEF LadderInv, RungsApart
<1>5. Judged'
  <2>1. Ranking' => Ranking /\ (phase' = "users" => phase = "users")
    BY DEF Ranking, Ranked
  <2>2. Closed' => \/ Closed
                   \/ Ranking /\ (left = {} \/ Len(names) = Shown)
                      /\ (names # <<>> \/ metric = "edits")
    BY DEF Ranking, Ranked, Closed
  <2>3. Ranking => LoopHeld /\ CountsStand /\ (phase = "users" => names = <<>>)
    BY DEF LadderInv, Judged
  <2>4. Closed => (LoopOver \/ Unread) /\ (names # <<>> \/ metric = "edits")
    BY DEF LadderInv, Judged
  <2>5. LoopHeld /\ CountsStand /\ (left = {} \/ Len(names) = Shown) => LoopOver'
    BY <1>1, <1>2 DEF LoopOver
  <2>6. Ranking' => LoopHeld' /\ CountsStand' /\ (phase' = "users" => names' = <<>>)
    BY <1>1, <1>2, <2>1, <2>3
  <2>7. Closed' => (LoopOver' \/ Unread') /\ (names' # <<>> \/ metric' = "edits")
    BY <1>3, <2>2, <2>3, <2>4, <2>5 DEF LoopOver
  <2>8. cache'.bot \subseteq everBot'
    BY DEF LadderInv, Judged
  <2>. QED  BY <2>6, <2>7, <2>8 DEF Judged
<1>6. PassedOver'
  BY PassedOverStays DEF LadderInv
<1>. QED  BY <1>4, <1>5, <1>6 DEF LadderInv

\* A ranking begins, with everybody still to come.
LEMMA RankLadder ==
    ASSUME LadderInv, TypeOK', Rank(counts'), CountsStand', PassedOver',
           names' = <<>>, metric' = "tokens" => batch' = 0,
           UNCHANGED <<cache, world>>
    PROVE  LadderInv'
<1>1. phase' = "users" /\ pool' \in Pools(counts') /\ left' = Present(counts')
  BY DEF Rank
<1>2. Named' = {}
  BY DEF Named
<1>3. LoopHeld'
  <2>1. Present(counts)' = left'
    BY <1>1 DEF Present
  <2>2. Pools(counts)' = Pools(counts')
    BY DEF Pools, FirstOf, Present
  <2>. QED  BY <1>1, <1>2, <2>1, <2>2 DEF LoopHeld
<1>4. RungsApart'
  BY <1>1 DEF RungsApart
<1>5. cache'.bot \subseteq everBot' /\ bots' \subseteq everBot'
  BY DEF LadderInv, Judged, world
<1>6. Judged'
  BY <1>1, <1>3, <1>5 DEF Judged, Ranking, Closed
<1>. QED  BY <1>4, <1>6 DEF LadderInv

LEMMA PoolTyped ==
    ASSUME NEW c, Rank(c)
    PROVE  phase' = "users" /\ pool' \subseteq Editor /\ left' \subseteq Author
BY PoolsRegistered DEF Rank, Present

LEMMA WikiWhoLadder ==
    ASSUME LadderInv, WikiWhoAnswers
    PROVE  LadderInv'
<1>1. /\ TypeOK /\ metric = "tokens" /\ names = <<>> /\ batch = 0 /\ page \in Pages
      /\ UNCHANGED <<page, gone, metric, batch, names, people, cache, world>>
      /\ counts' = page.tokens /\ countable' = TokenTotal(page) /\ total' = countable'
      /\ Rank(counts')
  BY DEF LadderInv, RungsApart, TypeOK, WikiWhoAnswers
<1>2. counts' \in [Author -> Nat]
  BY <1>1, Facts
<1>3. TokenTotal(page) \in Nat
  BY <1>1, Facts, SumIsNumber DEF TokenTotal
<1>4. phase' = "users" /\ pool' \subseteq Editor /\ left' \subseteq Author
  BY <1>1, PoolTyped
<1>5. /\ names' = <<>> /\ names' \in Seq(Editor) /\ Len(names') <= Shown
      /\ Cardinality(Cached') <= CacheSize
  BY <1>1 DEF TypeOK, Cached
<1>6. TypeOK'
  <2>1. {countable', total', batch', flags'} \subseteq Nat /\ phase' \in Phases
    BY <1>1, <1>3, <1>4 DEF TypeOK, world, Phases
  <2>. QED  BY <1>1, <1>2, <1>4, <1>5, <2>1 DEF TypeOK, world
<1>7. CountsStand'
  BY <1>1 DEF CountsStand, TokenTotal
<1>8. PassedOver'
  BY <1>1 DEF PassedOver
<1>. QED  BY <1>1, <1>5, <1>6, <1>7, <1>8, RankLadder

\* The history is read from its first batch.
LEMMA DescendLadder ==
    ASSUME LadderInv, Descend, batch = 0, names = <<>>, PassedOver'
    PROVE  LadderInv'
<1>1. /\ TypeOK /\ page \in Pages
      /\ phase' = "history" /\ metric' = "edits" /\ counts' = Nobody /\ total' = 0
      /\ pool' = {} /\ left' = {} /\ batch' = 0 /\ names' = <<>>
      /\ UNCHANGED <<page, gone, countable, batch, names, people, cache, world>>
  BY DEF LadderInv, TypeOK, Descend
<1>2. TypeOK'
  <2>1. counts' \in [Author -> Nat]
    BY <1>1 DEF Nobody
  <2>2. {countable', total', batch', flags'} \subseteq Nat /\ phase' \in Phases
        /\ metric' \in Metrics /\ phase' # "save"
    BY <1>1 DEF TypeOK, world, Phases, Metrics
  <2>3. Cardinality(Cached') <= CacheSize
    BY <1>1 DEF TypeOK, Cached
  <2>4. names' \in Seq(Editor) /\ Len(names') <= Shown
    BY <1>1 DEF TypeOK
  <2>. QED  BY <1>1, <2>1, <2>2, <2>3, <2>4 DEF TypeOK, world
<1>3. CountedTo(0)'
  <2>1. Revisions(page', 0) = {} /\ \A a : By(page', 0, a) = {}
    BY NoBatchYet
  <2>2. Edits(page', 0) = Nobody
    BY <2>1, FS_EmptySet DEF Edits, Nobody
  <2>. QED  BY <1>1, <2>1, <2>2, FS_EmptySet DEF CountedTo
<1>4. batch' < Batches'
  BY <1>1, Facts DEF Batches
<1>5. RungsApart'
  BY <1>1, <1>3, <1>4 DEF RungsApart
<1>6. Judged'
  BY <1>1 DEF LadderInv, Judged, Ranking, Closed, world
<1>. QED  BY <1>2, <1>5, <1>6 DEF LadderInv

LEMMA LowerRung ==
    ASSUME LadderInv, WikiWhoRefuses \/ FallThrough
    PROVE  LadderInv'
<1>1. TypeOK /\ Descend /\ metric = "tokens" /\ batch = 0 /\ names = <<>>
  BY DEF LadderInv, RungsApart, WikiWhoRefuses, FallThrough
<1>2. UNCHANGED <<page, countable, everBot>>
  BY <1>1 DEF Descend, world
<1>3. PassedOver'
  <2>1. CASE WikiWhoRefuses
    <3>1. countable' = 0
      BY <1>2, <2>1 DEF WikiWhoRefuses, LadderInv, RungsApart
    <3>. QED  BY <3>1 DEF PassedOver
  <2>2. CASE FallThrough
    <3>1. LoopHeld /\ CountsStand /\ (left = {} \/ Len(names) = Shown)
      BY <2>2 DEF FallThrough, Ranked, LadderInv, Judged, Ranking
    <3>2. \A a \in Editor : ~Deserves("tokens", a)
      BY <1>1, <3>1, NobodyFinal
    <3>3. \A a \in Editor : ~Deserves("tokens", a)'
      BY <1>2, <3>2, DesertShrinks
    <3>. QED  BY <3>3 DEF PassedOver
  <2>. QED  BY <2>1, <2>2
<1>. QED  BY <1>1, <1>3, DescendLadder

\* One more batch of the history: the rest of it is read on, ranked or given up.
LEMMA HistoryLadder ==
    ASSUME LadderInv, ReadHistory
    PROVE  LadderInv'
<1>1. /\ TypeOK /\ page \in Pages /\ phase = "history" /\ ~gone
      /\ batch \in Nat /\ batch < Batches /\ CountedTo(batch)
      /\ metric = "edits" /\ names = <<>> /\ pool = {} /\ left = {}
      /\ UNCHANGED <<page, gone, metric, countable, names, people, cache, world>>
      /\ batch' = batch + 1 /\ counts' = Tally(counts, page.history[batch + 1])
      /\ total' = total + Len(page.history[batch + 1])
  BY DEF LadderInv, RungsApart, TypeOK, ReadHistory, Metrics
<1>2. Batches \in Nat /\ batch' \in 0..Batches /\ Batches - 1 \in 0..Batches /\ Batches' = Batches
  BY <1>1, Facts DEF Batches
<1>3. /\ Cardinality(Revisions(page, batch + 1))
            = Cardinality(Revisions(page, batch)) + Len(page.history[batch + 1])
      /\ \A a : Cardinality(By(page, batch + 1, a))
            = Cardinality(By(page, batch, a))
              + Cardinality({i \in 1..Len(page.history[batch + 1]) : page.history[batch + 1][i] = a})
      /\ Len(page.history[batch + 1]) \in Nat
  BY <1>1, OneBatchMore DEF Batches
<1>4. CountedTo(batch)'
  <2>1. counts = Edits(page, batch) /\ total = Cardinality(Revisions(page, batch))
    BY <1>1 DEF CountedTo
  <2>2. counts' = Edits(page, batch + 1)
    BY <1>1, <1>3, <2>1 DEF Tally, Edits
  <2>3. Edits(page, batch + 1) = Edits(page', batch')
    BY <1>1
  <2>. QED  BY <1>1, <1>3, <2>1, <2>2, <2>3 DEF CountedTo
<1>5. counts' \in [Author -> Nat]
  <2>1. batch + 1 \in 0..Len(page.history)
    BY <1>1, <1>2 DEF Batches
  <2>2. \A a : Cardinality(By(page, batch + 1, a)) \in Nat
    BY <1>1, <2>1, RevisionsFinite
  <2>3. counts' = Edits(page, batch + 1)
    BY <1>1, <1>4 DEF CountedTo
  <2>. QED  BY <2>2, <2>3 DEF Edits
<1>6. /\ names' \in Seq(Editor) /\ Len(names') <= Shown /\ Cardinality(Cached') <= CacheSize
      /\ {countable', total', batch', flags'} \subseteq Nat
  BY <1>1, <1>3 DEF TypeOK, Cached, world
<1>7. phase' \in Phases \ {"save"} /\ pool' \subseteq Editor /\ left' \subseteq Author => TypeOK'
  BY <1>1, <1>5, <1>6 DEF TypeOK, world
<1>8. PassedOver'
  BY <1>1, PassedOverStays DEF LadderInv, world
<1>9. CASE batch' = Batches /\ Rank(counts')
  <2>1. TypeOK'
    BY <1>7, <1>9, PoolTyped DEF Phases
  <2>2. CountsStand'
    BY <1>1, <1>2, <1>4, <1>9 DEF CountsStand
  <2>. QED  BY <1>1, <1>8, <1>9, <2>1, <2>2, RankLadder
<1>10. CASE batch' < Batches /\ UNCHANGED <<phase, pool, left>>
  <2>1. TypeOK'
    BY <1>1, <1>7, <1>10 DEF Phases
  <2>2. RungsApart'
    BY <1>1, <1>2, <1>4, <1>10 DEF RungsApart
  <2>3. Judged'
    BY <1>1, <1>10 DEF LadderInv, Judged, Ranking, Closed, world
  <2>. QED  BY <1>8, <2>1, <2>2, <2>3 DEF LadderInv
<1>11. CASE batch' < Batches /\ total' >= MaxRevisions /\ Unranked
  <2>1. phase' = "editors" /\ pool' = {} /\ left' = {}
    BY <1>1, <1>11 DEF Unranked
  <2>2. TypeOK'
    BY <1>7, <2>1 DEF Phases
  <2>3. ~WithinBudget'
    <3>1. batch' <= Batches - 1
      BY <1>1, <1>2, <1>11
    <3>2. Cardinality(Revisions(page, batch')) <= Cardinality(Revisions(page, Batches - 1))
      BY <1>1, <1>2, <3>1, FewerRevisions DEF Batches
    <3>3. total' = Cardinality(Revisions(page, batch'))
      BY <1>1, <1>4 DEF CountedTo
    <3>4. Cardinality(Revisions(page, Batches - 1)) \in Nat /\ total' \in Nat
      BY <1>1, <1>2, <1>6, RevisionsFinite DEF Batches
    <3>5. ~ (Cardinality(Revisions(page, Batches - 1)) < MaxRevisions)
      BY <1>11, <3>2, <3>3, <3>4, Facts
    <3>. QED  BY <1>1, <1>2, <3>5 DEF WithinBudget, Revisions
  <2>4. RungsApart'
    BY <1>1, <2>1 DEF RungsApart
  <2>5. Judged'
    BY <1>1, <2>1, <2>3 DEF LadderInv, Judged, Ranking, Closed, Unread, world
  <2>. QED  BY <1>8, <2>2, <2>4, <2>5 DEF LadderInv
<1>12. \/ batch' = Batches /\ Rank(counts')
       \/ batch' < Batches /\ UNCHANGED <<phase, pool, left>>
       \/ batch' < Batches /\ total' >= MaxRevisions /\ Unranked
  BY DEF ReadHistory, Batches
<1>. QED  BY <1>9, <1>10, <1>11, <1>12

\* The page is gone: whatever is ranked then, nothing comes of it.
LEMMA GoneLadder ==
    ASSUME LadderInv, HistoryGone
    PROVE  LadderInv'
<1>1. /\ TypeOK /\ phase = "history" /\ gone /\ metric = "edits" /\ names = <<>>
      /\ pool = {} /\ left = {}
      /\ UNCHANGED <<page, gone, metric, countable, counts, total, batch, names, people,
                     cache, world>>
  BY DEF LadderInv, RungsApart, TypeOK, HistoryGone, Metrics
<1>2. names' \in Seq(Editor) /\ Len(names') <= Shown /\ Cardinality(Cached') <= CacheSize
  BY <1>1 DEF TypeOK, Cached
<1>3. phase' \in Phases \ {"save"} /\ pool' \subseteq Editor /\ left' \subseteq Author => TypeOK'
  BY <1>1, <1>2 DEF TypeOK, world
<1>4. PassedOver'
  BY <1>1, PassedOverStays DEF LadderInv, world
<1>5. CASE Unranked
  <2>1. phase' = "editors" /\ pool' = {} /\ left' = {}
    BY <1>1, <1>5 DEF Unranked
  <2>2. TypeOK'
    BY <1>3, <2>1 DEF Phases
  <2>3. RungsApart' /\ Judged'
    BY <1>1, <2>1 DEF LadderInv, RungsApart, Judged, Ranking, Closed, Unread, Decided, world
  <2>. QED  BY <1>4, <2>2, <2>3 DEF LadderInv
<1>6. CASE Rank(counts)
  <2>1. Rank(counts')
    BY <1>1, <1>6 DEF Rank, Pools, FirstOf, Present
  <2>2. TypeOK'
    BY <1>3, <2>1, PoolTyped DEF Phases
  <2>3. CountsStand'
    BY <1>1, <2>1 DEF CountsStand, Rank, Decided
  <2>. QED  BY <1>1, <1>4, <2>1, <2>2, <2>3, RankLadder
<1>. QED  BY <1>5, <1>6 DEF HistoryGone

-----------------------------------------------------------------------------
(* Its loop.                                                               *)

\* The loop decides about one account more.
LEMMA JudgeLadder ==
    ASSUME LadderInv, NEW a \in Author, NEW clean \in BOOLEAN, Looking(a), Judge(a, clean),
           clean => Contends(a), Contends(a) => clean \/ a \in everBot,
           cache' \in [bot : SUBSET Editor, clean : SUBSET Editor],
           Cardinality(Cached') <= CacheSize, cache'.bot \subseteq everBot
    PROVE  LadderInv'
<1>1. /\ TypeOK /\ phase = "rank" /\ Len(names) < Shown /\ a \in left
      /\ \A b \in left : counts[b] <= counts[a]
      /\ LoopHeld /\ CountsStand
      /\ UNCHANGED <<phase, page, gone, metric, countable, counts, total, pool, batch,
                     people, world>>
      /\ left' = left \ {a} /\ names' = IF clean THEN Append(names, a) ELSE names
  BY DEF LadderInv, Judged, Ranking, Looking, Judge
<1>2. clean => a \in Editor
  BY <1>1 DEF TypeOK, Contends
<1>3. names \in Seq(Editor) /\ Len(names) \in Nat
  BY <1>1 DEF TypeOK
<1>4. /\ names' \in Seq(Editor) /\ Len(names') <= Shown
      /\ Named' = IF clean THEN Named \cup {a} ELSE Named
  <2>1. CASE clean
    <3>1. names' = Append(names, a)
      BY <1>1, <2>1
    <3>2. /\ Append(names, a) \in Seq(Editor) /\ Len(Append(names, a)) = Len(names) + 1
          /\ \A i \in 1..Len(names) + 1 :
                Append(names, a)[i] = IF i <= Len(names) THEN names[i] ELSE a
      BY <1>2, <1>3, <2>1, AppendProperties
    <3>3. \A b : b \in Named' <=> b \in Named \/ b = a
      <4>1. ASSUME NEW b \in Named' PROVE b \in Named \/ b = a
        <5>1. PICK i \in 1..Len(names) + 1 : b = Append(names, a)[i]
          BY <3>1, <3>2 DEF Named
        <5>2. i <= Len(names) => i \in 1..Len(names) /\ b = names[i]
          BY <1>3, <3>2, <5>1
        <5>. QED  BY <3>2, <5>1, <5>2 DEF Named
      <4>2. ASSUME NEW b \in Named PROVE b \in Named'
        <5>1. PICK i \in 1..Len(names) : b = names[i]
          BY DEF Named
        <5>2. i \in 1..Len(names) + 1 /\ i <= Len(names)
          BY <1>3
        <5>. QED  BY <3>1, <3>2, <5>1, <5>2 DEF Named
      <4>3. a \in Named'
        <5>1. Len(names) + 1 \in 1..Len(names) + 1 /\ ~ (Len(names) + 1 <= Len(names))
          BY <1>3
        <5>. QED  BY <3>1, <3>2, <5>1 DEF Named
      <4>. QED  BY <4>1, <4>2, <4>3
    <3>. QED  BY <1>1, <1>3, <2>1, <3>1, <3>2, <3>3 DEF Shown
  <2>2. CASE ~clean
    BY <1>1, <1>3, <2>2 DEF Named, Shown
  <2>. QED  BY <2>1, <2>2
<1>5. TypeOK'
  BY <1>1, <1>4 DEF TypeOK, world
<1>6. LoopHeld'
  <2>1. /\ pool \in Pools(counts) /\ left \subseteq Present(counts)
        /\ \A x \in left, b \in Present(counts) \ left : counts[x] <= counts[b]
        /\ \A b \in Present(counts) \ left : Contends(b) => b \in Named \cup everBot
        /\ Named \subseteq Present(counts) \ left
    BY <1>1 DEF LoopHeld
  <2>2. Present(counts)' = Present(counts) /\ Pools(counts)' = Pools(counts)
    BY <1>1 DEF Present, Pools, FirstOf
  <2>3. \A b : Contends(b)' <=> Contends(b)
    BY <1>1 DEF Contends, Presentable, Clears
  <2>4. Named \subseteq Named' /\ Named' \subseteq Named \cup {a} /\ (clean => a \in Named')
    BY <1>4
  <2>5. pool' \in Pools(counts)' /\ left' \subseteq Present(counts)'
    BY <1>1, <2>1, <2>2
  <2>6. \A x \in left', b \in Present(counts)' \ left' : counts'[x] <= counts'[b]
    <3>1. ASSUME NEW x \in left', NEW b \in Present(counts)' \ left' PROVE counts[x] <= counts[b]
      <4>1. x \in left /\ (b \in Present(counts) \ left \/ b = a)
        BY <1>1, <2>2
      <4>. QED  BY <1>1, <2>1, <4>1
    <3>. QED  BY <1>1, <3>1
  <2>7. \A b \in Present(counts)' \ left' : Contends(b)' => b \in Named' \cup everBot'
    <3>1. ASSUME NEW b \in Present(counts)' \ left', Contends(b) PROVE b \in Named' \cup everBot
      <4>1. b \in Present(counts) \ left \/ b = a
        BY <1>1, <2>2
      <4>. QED  BY <2>1, <2>4, <3>1, <4>1
    <3>. QED  BY <1>1, <2>3, <3>1 DEF world
  <2>8. Named' \subseteq Present(counts)' \ left'
    BY <1>1, <2>1, <2>2, <2>4
  <2>. QED  BY <2>5, <2>6, <2>7, <2>8 DEF LoopHeld
<1>7. CountsStand'
  BY <1>1 DEF CountsStand, CountedTo, Edits, Revisions, By, TokenTotal, Batches, Decided
<1>8. RungsApart'
  BY <1>1 DEF LadderInv, RungsApart
<1>9. Judged'
  BY <1>1, <1>6, <1>7 DEF LadderInv, Judged, Ranking, Closed, world
<1>10. PassedOver'
  BY <1>1, PassedOverStays DEF LadderInv, world
<1>. QED  BY <1>5, <1>8, <1>9, <1>10 DEF LadderInv

LEMMA AskLadder ==
    ASSUME LadderInv, NEW a \in Author, AskCentralAuth(a)
    PROVE  LadderInv'
<1>. DEFINE kept == IF Cardinality(Cached) >= CacheSize THEN NoCache ELSE cache
            known == kept.bot \cup kept.clean
<1>1. TypeOK /\ Looking(a) /\ Contends(a) /\ a \in Editor
  BY DEF LadderInv, AskCentralAuth, Contends, TypeOK
<1>2. /\ kept \in [bot : SUBSET Editor, clean : SUBSET Editor] /\ kept.bot \subseteq everBot
      /\ IsFiniteSet(known) /\ Cardinality(known) \in Nat /\ Cardinality(known) < CacheSize
  <2>1. cache \in [bot : SUBSET Editor, clean : SUBSET Editor] /\ cache.bot \subseteq everBot
    BY <1>1 DEF TypeOK, LadderInv, Judged
  <2>2. kept \in [bot : SUBSET Editor, clean : SUBSET Editor] /\ kept.bot \subseteq everBot
    BY <2>1 DEF NoCache
  <2>3. known \in SUBSET Editor
    BY <2>2
  <2>4. IsFiniteSet(known) /\ Cardinality(known) \in Nat
    <3>. HIDE DEF known
    <3>. QED  BY <2>3, Facts, FS_Subset, FS_CardinalityType
  <2>5. CASE Cardinality(Cached) >= CacheSize
    <3>1. known = {}
      BY <2>5 DEF NoCache
    <3>. HIDE DEF known
    <3>. QED  BY <2>2, <2>4, <3>1, FS_EmptySet, Facts
  <2>6. CASE ~ (Cardinality(Cached) >= CacheSize)
    <3>1. known = Cached
      BY <2>6 DEF Cached
    <3>. HIDE DEF known
    <3>2. Cardinality(known) < CacheSize
      BY <2>4, <2>6, <3>1, Facts
    <3>. QED  BY <2>2, <2>4, <3>2
  <2>. QED  BY <2>5, <2>6
<1>3. cache' = IF a \in bots THEN [kept EXCEPT !.bot = @ \cup {a}]
               ELSE [kept EXCEPT !.clean = @ \cup {a}]
  BY DEF AskCentralAuth
<1>4. bots \subseteq everBot
  BY DEF LadderInv, Judged
<1>5. Cached' = known \cup {a}
  <2>. HIDE DEF kept
  <2>. QED  BY <1>2, <1>3 DEF Cached
<1>6. /\ cache' \in [bot : SUBSET Editor, clean : SUBSET Editor]
      /\ cache'.bot \subseteq everBot
  <2>. HIDE DEF kept
  <2>. QED  BY <1>1, <1>2, <1>3, <1>4
<1>7. Cardinality(Cached') <= CacheSize
  <2>1. Cardinality(known \cup {a}) <= Cardinality(known) + 1
    <3>. HIDE DEF known
    <3>. QED  BY <1>2, FS_AddElement
  <2>. HIDE DEF known
  <2>2. Cardinality(known \cup {a}) \in Nat
    BY <1>2, FS_AddElement, FS_CardinalityType
  <2>. QED  BY <1>2, <1>5, <2>1, <2>2, Facts
<1>. HIDE DEF kept, known
<1>8. CASE a \in bots
  <2>1. Judge(a, FALSE)
    BY <1>8 DEF AskCentralAuth, Judge
  <2>. QED  BY <1>1, <1>4, <1>6, <1>7, <1>8, <2>1, JudgeLadder
<1>9. CASE a \notin bots
  <2>1. Judge(a, TRUE)
    BY <1>9 DEF AskCentralAuth, Judge
  <2>. QED  BY <1>1, <1>6, <1>7, <2>1, JudgeLadder
<1>. QED  BY <1>8, <1>9

LEMMA LoopLadder ==
    ASSUME LadderInv, NEW a \in Author, PassOver(a) \/ Recall(a) \/ AskCentralAuth(a)
    PROVE  LadderInv'
<1>1. CASE PassOver(a) \/ Recall(a)
  <2>1. /\ cache' = cache /\ cache \in [bot : SUBSET Editor, clean : SUBSET Editor]
        /\ Cardinality(Cached') <= CacheSize /\ cache.bot \subseteq everBot
    BY <1>1 DEF LadderInv, TypeOK, Judged, PassOver, Recall, Cached
  <2>2. CASE PassOver(a)
    BY <2>1, <2>2, JudgeLadder DEF PassOver
  <2>3. CASE Recall(a) /\ a \in cache.clean
    <3>1. Looking(a) /\ Contends(a) /\ Judge(a, TRUE)
      BY <2>3 DEF Recall, Judge
    <3>. QED  BY <2>1, <3>1, JudgeLadder
  <2>4. CASE Recall(a) /\ a \notin cache.clean
    <3>1. Looking(a) /\ Contends(a) /\ Judge(a, FALSE) /\ a \in everBot
      BY <2>1, <2>4 DEF Recall, Judge, Cached
    <3>. QED  BY <2>1, <3>1, JudgeLadder
  <2>. QED  BY <1>1, <2>2, <2>3, <2>4
<1>2. CASE AskCentralAuth(a)
  BY <1>2, AskLadder
<1>. QED  BY <1>1, <1>2

-----------------------------------------------------------------------------
(* The calls, and the world.                                               *)

LEMMA BeginLadder ==
    ASSUME LadderInv, Begin
    PROVE  LadderInv'
<1>1. /\ TypeOK /\ metric = "tokens" /\ batch = 0
      /\ phase' = "wikiwho" /\ page' \in Pages /\ gone' = FALSE /\ UNCHANGED <<job, cache, world>>
      /\ countable = 0 /\ names = <<>> /\ pool = {} /\ left = {}
  BY DEF LadderInv, RungsApart, Begin
<1>2. UNCHANGED <<metric, countable, counts, total, pool, left, batch, names, people, cache,
                  bots, flags, everBot, everClean>>
  BY <1>1 DEF job, world
<1>3. TypeOK'
  <2>1. gone' \in BOOLEAN /\ phase' \in Phases /\ phase' # "save"
    BY <1>1 DEF Phases
  <2>2. Cardinality(Cached') <= CacheSize
    BY <1>1, <1>2 DEF TypeOK, Cached
  <2>. QED  BY <1>1, <1>2, <2>1, <2>2 DEF TypeOK
<1>. QED  BY <1>1, <1>2, <1>3 DEF LadderInv, RungsApart, Judged, PassedOver, Ranking, Closed

LEMMA QuietLadder ==
    ASSUME LadderInv,
           \/ ResolveUsers \/ Settle \/ (\E n \in 0..MaxCount : CountEditors(n) \/ CountBots(n))
           \/ (\E a \in Flaggable : Flag(a)) \/ Delete \/ UNCHANGED vars
    PROVE  LadderInv'
<1>1. TypeOK /\ bots \subseteq everBot
  BY DEF LadderInv, Judged
<1>2. /\ UNCHANGED <<page, metric, countable, counts, total, pool, left, batch, names, cache>>
      /\ everBot \subseteq everBot' /\ bots' \subseteq everBot'
  BY <1>1 DEF ResolveUsers, Settle, CountEditors, CountBots, Flag, Delete, vars, job, world
<1>3. ~gone' \/ Decided' => ~gone \/ Decided
  BY DEF ResolveUsers, Settle, CountEditors, CountBots, Flag, Delete, vars, Decided, Ranked
<1>4. \/ phase' = phase
      \/ phase = "users" /\ phase' = "rank"
      \/ Ranked /\ (names # <<>> \/ metric = "edits") /\ phase' = "editors"
      \/ phase \in {"editors", "bots"} /\ phase' \in {"bots", "save"}
  BY DEF ResolveUsers, Settle, CountEditors, CountBots, Flag, Delete, vars
<1>5. TypeOK'
  <2>1. Cardinality(Cached') <= CacheSize
    BY <1>1, <1>2 DEF TypeOK, Cached
  <2>2. phase' \in Phases
    BY <1>1, <1>4 DEF TypeOK, Phases
  <2>3. gone' \in BOOLEAN
    BY <1>1 DEF TypeOK, ResolveUsers, Settle, CountEditors, CountBots, Flag, Delete, vars
  <2>4. people' \in Nat /\ (phase' = "save" => people' >= Len(names'))
    <3>1. people \in Nat /\ (phase = "save" => people >= Len(names)) /\ Len(names) \in Nat
      BY <1>1 DEF TypeOK
    <3>2. ASSUME NEW n \in 0..MaxCount, CountEditors(n)
          PROVE  people' \in Nat /\ phase' # "save"
      BY <3>2, Facts DEF CountEditors
    <3>3. ASSUME NEW n \in 0..MaxCount, CountBots(n)
          PROVE  people' \in Nat /\ people' >= Len(names)
      <4>1. n \in Int /\ people' = IF people - n > Len(names) THEN people - n ELSE Len(names)
        BY <3>3, Facts DEF CountBots, Distinct
      <4>. QED  BY <3>1, <4>1
    <3>4. CASE ~ \E n \in 0..MaxCount : CountEditors(n) \/ CountBots(n)
      <4>1. people' = people /\ (phase' = "save" => phase = "save")
        BY <3>4 DEF ResolveUsers, Settle, Flag, Delete, vars, job, Ranked
      <4>. QED  BY <1>2, <3>1, <4>1
    <3>. QED  BY <1>2, <3>2, <3>3, <3>4
  <2>5. /\ bots' \subseteq Editor /\ everBot' \subseteq Editor /\ everClean' \subseteq Editor
        /\ flags' \in Nat
    <3>1. CASE \E a \in Flaggable : Flag(a)
      BY <1>1, <3>1, Facts DEF TypeOK, Flag
    <3>2. CASE UNCHANGED world
      BY <1>1, <3>2 DEF TypeOK, world
    <3>. QED  BY <3>1, <3>2 DEF ResolveUsers, Settle, CountEditors, CountBots, Delete, vars
  <2>. QED  BY <1>1, <1>2, <2>1, <2>2, <2>3, <2>4, <2>5 DEF TypeOK
<1>. QED  BY <1>2, <1>3, <1>4, <1>5, CallLadder

LEMMA LadderAlways == Spec => []LadderInv
<1>1. Init => LadderInv
  BY StartLadder
<1>2. LadderInv /\ [Next]_vars => LadderInv'
  <2>. SUFFICES ASSUME LadderInv, [Next]_vars PROVE LadderInv'
    OBVIOUS
  <2>1. CASE Save \/ Fail \/ Restart
    BY <2>1, EndLadder DEF Save, Fail, Restart
  <2>2. CASE WikiWhoAnswers \/ WikiWhoRefuses \/ FallThrough \/ ReadHistory \/ HistoryGone
    BY <2>2, WikiWhoLadder, LowerRung, HistoryLadder, GoneLadder
  <2>3. CASE \E a \in Author : PassOver(a) \/ Recall(a) \/ AskCentralAuth(a)
    BY <2>3, LoopLadder
  <2>4. CASE Begin
    BY <2>4, BeginLadder
  <2>5. CASE \/ ResolveUsers \/ Settle \/ (\E n \in 0..MaxCount : CountEditors(n) \/ CountBots(n))
             \/ (\E a \in Flaggable : Flag(a)) \/ Delete \/ UNCHANGED vars
    BY <2>5, QuietLadder
  <2>. QED  BY <2>1, <2>2, <2>3, <2>4, <2>5 DEF Next
<1>. QED  BY <1>1, <1>2, PTL DEF Spec

-----------------------------------------------------------------------------
(* What follows.                                                           *)

\* For any accounts, pages and thresholds the worker's counts stay numbers -- the
\* sum over a page's tokens included --, its cache of global bots stays within its
\* size, and the count stored with the names is at least their number.
THEOREM AttributionTyped == Spec => []TypeOK
<1>1. LadderInv => TypeOK
  BY DEF LadderInv
<1>. QED  BY <1>1, LadderAlways, PTL

\* Asking about accounts in the order of their counts, stopping at three names and
\* remembering who is a bot costs nobody a place: among those within the pool nobody
\* who may be named is left out for a smaller count, or while a place is free.
THEOREM PlacesKept == Spec => []NobodyOvertaken
<1>1. LadderInv => NobodyOvertaken
  <2>. SUFFICES ASSUME LadderInv, Decided, names # <<>>, NEW a \in Editor \ Named,
                       Deserves(metric, a)
                PROVE  Len(names) = Shown /\ \A b \in Named : counts[b] >= counts[a]
    BY DEF NobodyOvertaken
  <2>1. TypeOK /\ LoopOver
    BY DEF LadderInv, Judged, Closed, Decided, Unread
  <2>2. counts = Evidence(metric) /\ (metric = "tokens" => total = TokenTotal(page))
    BY <2>1 DEF LoopOver, CountsStand, CountedTo, Evidence, TypeOK, Metrics
  <2>3. a \in left
    BY <2>1, <2>2, Deserving DEF LoopOver
  <2>4. Len(names) = Shown
    BY <2>1, <2>3 DEF LoopOver
  <2>5. \A b \in Named : counts[a] <= counts[b]
    BY <2>1, <2>3 DEF LoopOver, LoopHeld
  <2>6. ASSUME NEW b \in Named PROVE counts[b] >= counts[a]
    <3>1. b \in Author /\ a \in Author
      BY <2>1, Facts DEF LoopOver, LoopHeld, Present
    <3>2. counts[a] \in Nat /\ counts[b] \in Nat
      BY <2>1, <3>1 DEF TypeOK
    <3>. QED  BY <2>5, <3>2
  <2>. QED  BY <2>4, <2>6
<1>. QED  BY <1>1, LadderAlways, PTL

\* The rungs are tried in order and none gives up early: edits are resorted to only
\* when nobody deserved to be named by the text, and nobody is named only when
\* neither rung has anybody or the history is past the budget.
THEOREM RungsInOrder == Spec => []LadderDescends
<1>1. LadderInv => LadderDescends
  <2>. SUFFICES ASSUME LadderInv, Decided PROVE LadderDescends
    BY DEF LadderDescends
  <2>1. TypeOK /\ (LoopOver \/ Unread) /\ (names # <<>> \/ metric = "edits")
    BY DEF LadderInv, Judged, Closed, Decided
  <2>2. metric = "edits" /\ countable > 0 => \A a \in Editor : ~Deserves("tokens", a)
    <3>1. countable > 0 => countable # 0
      BY <2>1 DEF TypeOK
    <3>. QED  BY <3>1 DEF LadderInv, PassedOver
  <2>3. ASSUME names = <<>>, WithinBudget PROVE \A a \in Editor : ~Deserves("edits", a)
    <3>1. metric = "edits" /\ LoopOver
      BY <2>1, <2>3 DEF Unread
    <3>. QED  BY <2>1, <2>3, <3>1, NobodyFinal DEF LoopOver
  <2>. QED  BY <2>1, <2>2, <2>3 DEF LadderDescends
<1>. QED  BY <1>1, LadderAlways, PTL

\* Whoever is named for edits is ranked by the whole history, however long, in
\* however many batches it came, and whenever the page was deleted.
THEOREM HistoryWhole == Spec => []WholeHistoryRanked
<1>1. LadderInv => WholeHistoryRanked
  <2>. SUFFICES ASSUME LadderInv, Decided, metric = "edits", names # <<>>
                PROVE  CountedTo(Batches)
    BY DEF WholeHistoryRanked, CountedTo
  <2>1. LoopOver
    BY DEF LadderInv, Judged, Closed, Decided, Unread
  <2>. QED  BY <2>1 DEF LoopOver, CountsStand
<1>. QED  BY <1>1, LadderAlways, PTL
=============================================================================
