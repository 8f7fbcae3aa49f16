---------------------------- MODULE PrewarmProofs ----------------------------
(***************************************************************************)
(* Theorems about Prewarm, for any wikis, pageview lists, numbers of days, *)
(* batches and failures.                                                   *)
(***************************************************************************)
EXTENDS Prewarm, FiniteSetTheorems, WellFoundedInduction, TLAPS

-----------------------------------------------------------------------------
(* Constants, and the wiki at hand.                                        *)

LEMMA Constants ==
    /\ LastWiki \in Nat /\ MaxDay \in Nat \ {0} /\ MaxFailures \in Nat
    /\ TargetDays \in Nat \ {0} /\ LookbackDays \in Nat \ {0} /\ TargetDays <= LookbackDays
    /\ Capable \subseteq Wiki /\ Pinned \subseteq Wiki /\ Article \subseteq Page
    /\ Wiki \subseteq Nat /\ Day \subseteq Nat /\ 1 \in Day /\ NoPage \notin Page
    /\ PageOf \in [Title -> Page \cup {NoPage}]
    /\ Top \in [Wiki -> [Day -> SUBSET Title]]
BY PrewarmAssumption DEF Wiki, Day, NoPage

LEMMA DaysFinite ==
    ASSUME NEW D, D \subseteq Day
    PROVE  IsFiniteSet(D) /\ Cardinality(D) \in Nat
<1>1. IsFiniteSet(Day)
  BY FS_Interval, Constants DEF Day
<1>. QED  BY <1>1, FS_Subset, FS_CardinalityType

\* A nonempty set of naturals has a least element.
LEMMA LeastElement ==
    ASSUME NEW T, T \subseteq Nat, T # {}
    PROVE  \E x \in T : \A y \in T : x <= y
<1>1. \E R : IsWellFoundedOn(R, Nat) /\ \A x, y \in Nat : y < x => <<y, x>> \in R
  <2>1. \A x, y \in Nat : y < x => <<y, x>> \in OpToRel(<, Nat)
    BY DEF OpToRel
  <2>. QED  BY <2>1, NatLessThanWellFounded
<1>2. PICK R : IsWellFoundedOn(R, Nat) /\ \A x, y \in Nat : y < x => <<y, x>> \in R
  BY <1>1
<1>3. PICK x \in T : \A y \in T : ~ (<<y, x>> \in R)
  BY <1>2, WFMin
<1>4. ASSUME NEW y \in T PROVE x <= y
  <2>1. ~ (<<y, x>> \in R)
    BY <1>3
  <2>2. x \in Nat /\ y \in Nat
    OBVIOUS
  <2>3. y < x => <<y, x>> \in R
    BY <1>2, <2>2
  <2>. QED  BY <2>1, <2>2, <2>3
<1>. QED  BY <1>4

\* A run in progress has a wiki at hand.
LEMMA HereIsLeft ==
    ASSUME TypeOK, run.phase # "none"
    PROVE  Here \in run.left /\ Here \in Wiki
<1>1. run.left \subseteq Wiki /\ run.left # {}
  BY DEF TypeOK, Run
<1>2. \E w \in run.left : \A v \in run.left : w <= v
  BY <1>1, Constants, LeastElement
<1>. QED  BY <1>1, <1>2 DEF Here

-----------------------------------------------------------------------------
(* The induction.                                                          *)

\* A wiki whose turn is over has what its last days made popular.
Served(w) ==
    \E D \in SUBSET published[w] : Freshest(D, base[w]) /\ handed[w] = Popular(w, D)

Busy == run.phase \in {"days", "titles", "queue"}

\* The wikis that came are those that left the list, and the one at hand.
TurnsHeld ==
    run.phase # "none" =>
        /\ ~cut /\ run.left \subseteq targets
        /\ came = (targets \ run.left) \cup (IF Busy THEN {Here} ELSE {})
        /\ \A w \in (targets \ run.left) \ hurt : Served(w)
        /\ \A w \in run.left : w # Here \/ run.phase # "queue" => handed[w] = {}

\* How far back the walk over the days of the wiki at hand has got.
WalkHeld ==
    Busy =>
        /\ run.loaded \subseteq published[Here] /\ base[Here] \subseteq published[Here]
        /\ \A d \in run.loaded : run.ref - run.back <= d
        /\ \A d \in base[Here] \ run.loaded : d < run.ref - run.back
        /\ \A d \in base[Here] : run.ref - LookbackDays <= d /\ d < run.ref
        /\ IF run.phase = "days"
           THEN run.back < LookbackDays /\ Cardinality(run.loaded) < TargetDays
           ELSE run.back = LookbackDays \/ Cardinality(run.loaded) = TargetDays

Listed(w, D) == UNION {Top[w][d] : d \in D}
Led(S) == {PageOf[t] : t \in S} \ {NoPage}

\* What became of the titles of those days.
PagesHeld ==
    /\ run.phase = "wiki" => /\ run.back = 0 /\ run.loaded = {} /\ run.titles = {}
                             /\ run.pages = {}
    /\ run.phase = "days" => run.titles = Listed(Here, run.loaded) /\ run.pages = {}
    /\ run.phase = "titles" => run.pages \cup Led(run.titles) = Led(Listed(Here, run.loaded))
    /\ run.phase = "queue" => handed[Here] \cup run.pages = Popular(Here, run.loaded)

PrewarmInv == TypeOK /\ TurnsHeld /\ WalkHeld /\ PagesHeld /\ EachWikiOnItsOwn

\* A walk that asked for no day can load none later than it.
LEMMA Freshness ==
    ASSUME NEW D, D \subseteq Day, NEW have, have \subseteq Day, NEW from \in Int,
           Cardinality(D) <= TargetDays,
           \A d \in D : from <= d,
           \A d \in have \ D : d < from,
           have \subseteq D \/ Cardinality(D) = TargetDays
    PROVE  Freshest(D, have)
<1>1. ASSUME NEW d \in have \ D PROVE Cardinality({l \in D : l > d}) = TargetDays
  <2>1. \A l \in D : l > d
    BY <1>1, Constants
  <2>2. {l \in D : l > d} = D
    BY <2>1
  <2>. QED  BY <1>1, <2>2
<1>. QED  BY <1>1 DEF Freshest

LEMMA NoRunType == NoRun \in Run /\ NoRun.phase = "none" /\ NoRun.loaded = {}
BY Constants DEF NoRun, Run, Phases

LEMMA NextRunType ==
    ASSUME NEW left \in SUBSET Wiki, NEW next, next = [NoRun EXCEPT !.phase = "wiki", !.left = left]
    PROVE  /\ next \in Run /\ next.phase = "wiki" /\ next.left = left /\ next.loaded = {}
           /\ next.back = 0 /\ next.titles = {} /\ next.pages = {}
<1>1. NoRun.back = 0 /\ NoRun.titles = {} /\ NoRun.pages = {}
  BY DEF NoRun
<1>. QED  BY <1>1, NoRunType DEF Run, Phases

LEMMA NoDays == Cardinality({}) = 0 /\ IsFiniteSet({})
BY FS_EmptySet

\* Between two wikis: whoever is served stays served, and nobody that is to come
\* has been handed anything.
LEMMA NextWikiHolds ==
    ASSUME PrewarmInv, Busy, NextWiki,
           NEW h, h = Here, h \in hurt' \/ Served(h),
           hurt \subseteq hurt', hurt' \subseteq targets, failures' \in 0..MaxFailures,
           UNCHANGED <<today, published, active, targets, cut, came, base, handed>>
    PROVE  PrewarmInv'
<1>1. /\ h \in run.left /\ h \in Wiki /\ TypeOK /\ run.phase # "none" /\ run.left \subseteq Wiki
  BY HereIsLeft DEF PrewarmInv, Busy, TypeOK, Run
<1>2. /\ ~cut /\ run.left \subseteq targets /\ came = (targets \ run.left) \cup {h}
      /\ \A w \in (targets \ run.left) \ hurt : Served(w)
      /\ \A w \in run.left \ {h} : handed[w] = {}
  BY <1>1 DEF PrewarmInv, TurnsHeld
<1>3. \A w : Served(w) => Served(w)'
  BY DEF Served, Freshest, Popular
<1>4. CASE run.left = {h}
  <2>1. run' = NoRun
    BY <1>4 DEF NextWiki
  <2>2. TypeOK'
    BY <1>1, <2>1, NoRunType, NoDays, Constants DEF TypeOK
  <2>3. came = targets
    BY <1>2, <1>4
  <2>4. \A w \in targets \ hurt' : Served(w)'
    BY <1>2, <1>3, <1>4
  <2>5. EachWikiOnItsOwn'
    BY <2>3, <2>4 DEF EachWikiOnItsOwn, Served
  <2>. QED  BY <2>1, <2>2, <2>5, NoRunType DEF PrewarmInv, TurnsHeld, WalkHeld, PagesHeld, Busy
<1>5. CASE run.left # {h}
  <2>1. run' = [NoRun EXCEPT !.phase = "wiki", !.left = run.left \ {h}]
    BY <1>5 DEF NextWiki
  <2>2. /\ run' \in Run /\ run'.phase = "wiki" /\ run'.left = run.left \ {h} /\ run'.loaded = {}
        /\ run'.back = 0 /\ run'.titles = {} /\ run'.pages = {}
    BY <1>1, <2>1, NextRunType
  <2>3. run'.left # {}
    BY <1>1, <1>5, <2>2
  <2>4. TypeOK'
    BY <1>1, <2>2, <2>3, NoDays, Constants DEF TypeOK
  <2>5. ~Busy'
    BY <2>2 DEF Busy
  <2>6. TurnsHeld'
    <3>1. came' = targets' \ run'.left
      BY <1>1, <1>2, <2>2
    <3>2. \A w \in (targets \ run'.left) \ hurt' : Served(w)'
      BY <1>2, <1>3, <2>2
    <3>3. \A w \in run'.left : handed'[w] = {}
      BY <1>2, <2>2
    <3>. QED  BY <1>2, <2>2, <2>5, <3>1, <3>2, <3>3 DEF TurnsHeld
  <2>. QED  BY <2>2, <2>4, <2>5, <2>6 DEF PrewarmInv, WalkHeld, PagesHeld, EachWikiOnItsOwn
<1>. QED  BY <1>4, <1>5

LEMMA BeginHolds ==
    ASSUME PrewarmInv, Begin
    PROVE  PrewarmInv'
<1>1. Covered \in SUBSET Wiki /\ Covered # {}
  BY Constants DEF Covered, Begin
<1>2. /\ run' \in Run /\ run'.phase = "wiki" /\ run'.left = Covered /\ run'.loaded = {}
      /\ run'.back = 0 /\ run'.titles = {} /\ run'.pages = {}
  BY <1>1, NextRunType DEF Begin
<1>3. /\ targets' = Covered /\ hurt' = {} /\ cut' = FALSE /\ came' = {}
      /\ base' = [w \in Wiki |-> {}] /\ handed' = [w \in Wiki |-> {}]
      /\ UNCHANGED <<today, published, active, failures>>
  BY DEF Begin, Nothing, world
<1>4. TypeOK'
  <2>1. Cardinality(run'.loaded) <= TargetDays
    BY <1>2, NoDays, Constants
  <2>2. base' \in [Wiki -> SUBSET Day] /\ handed' \in [Wiki -> SUBSET Page]
    BY <1>3
  <2>. QED  BY <1>1, <1>2, <1>3, <2>1, <2>2 DEF PrewarmInv, TypeOK
<1>5. ~Busy'
  BY <1>2 DEF Busy
<1>6. TurnsHeld'
  BY <1>1, <1>2, <1>3, <1>5 DEF TurnsHeld
<1>. QED  BY <1>2, <1>4, <1>5, <1>6 DEF PrewarmInv, WalkHeld, PagesHeld, EachWikiOnItsOwn

LEMMA TurnHolds ==
    ASSUME PrewarmInv, Turn
    PROVE  PrewarmInv'
<1>1. TypeOK /\ run.phase = "wiki" /\ run \in Run
  BY DEF PrewarmInv, Turn, TypeOK
<1>2. PICK h : h = Here
  OBVIOUS
<1>3. h \in run.left /\ h \in Wiki
  BY <1>1, <1>2, HereIsLeft
<1>4. /\ run' = [run EXCEPT !.phase = "days", !.ref = today]
      /\ came' = came \cup {h} /\ base' = [base EXCEPT ![h] = published[h] \cap Window]
      /\ UNCHANGED <<today, published, active, targets, hurt, cut, handed, failures>>
  BY <1>2 DEF Turn, world
<1>5. /\ run' \in Run /\ run'.phase = "days" /\ run'.ref = today /\ run'.left = run.left
      /\ run'.back = run.back /\ run'.loaded = run.loaded /\ run'.titles = run.titles
      /\ run'.pages = run.pages
  BY <1>1, <1>4 DEF Run, Phases, TypeOK
<1>6. Here' = h
  BY <1>2, <1>5 DEF Here
<1>7. Cardinality(run.loaded) = 0 /\ run.back = 0 /\ run.loaded = {} /\ run.titles = {}
      /\ run.pages = {}
  BY <1>1, NoDays DEF PrewarmInv, PagesHeld
<1>8. TurnsHeld'
  <2>1. ~Busy /\ run.phase # "none"
    BY <1>1 DEF Busy
  <2>2. /\ ~cut /\ run.left \subseteq targets /\ came = targets \ run.left
        /\ \A w \in (targets \ run.left) \ hurt : Served(w)
        /\ \A w \in run.left : handed[w] = {}
    BY <1>1, <2>1 DEF PrewarmInv, TurnsHeld
  <2>3. \A w \in (targets \ run.left) \ hurt : Served(w)'
    <3>1. \A w \in targets \ run.left : w \in Wiki /\ w # h
      BY <1>1, <1>3 DEF TypeOK
    <3>2. \A w \in targets \ run.left : base'[w] = base[w]
      BY <1>1, <1>4, <3>1 DEF TypeOK
    <3>3. ASSUME NEW w \in (targets \ run.left) \ hurt PROVE Served(w)'
      <4>1. Served(w) /\ base'[w] = base[w]
        BY <2>2, <3>2
      <4>2. handed'[w] = handed[w] /\ published'[w] = published[w]
        BY <1>4
      <4>. QED  BY <4>1, <4>2 DEF Served, Freshest, Popular
    <3>. QED  BY <3>3
  <2>4. Busy'
    BY <1>5 DEF Busy
  <2>5. came' = (targets \ run'.left) \cup {h} /\ run'.left \subseteq targets' /\ ~cut'
    BY <1>4, <1>5, <2>2
  <2>6. \A w \in (targets' \ run'.left) \ hurt' : Served(w)'
    BY <1>4, <1>5, <2>3
  <2>7. \A w \in run'.left : handed'[w] = {}
    BY <1>4, <1>5, <2>2
  <2>. QED  BY <1>4, <1>6, <2>4, <2>5, <2>6, <2>7 DEF TurnsHeld
<1>9. base'[h] = published[h] \cap Window
  BY <1>1, <1>3, <1>4 DEF TypeOK
<1>10. WalkHeld'
  <2>1. 0 < LookbackDays /\ 0 < TargetDays /\ today \in Nat
    BY <1>1, Constants DEF TypeOK
  <2>0. base'[h] \subseteq published'[h]
    BY <1>4, <1>9
  <2>2. \A d \in base'[h] : d \in Day /\ d < today /\ d >= today - LookbackDays
    BY <1>9 DEF Window
  <2>3. \A d \in Day : d \in Nat
    BY Constants
  <2>4. \A d \in base'[h] : today - LookbackDays <= d /\ d < today /\ d < today - 0
    BY <2>1, <2>2, <2>3, Constants
  <2>5. run'.loaded = {} /\ run'.back = 0 /\ Cardinality(run'.loaded) = 0
    BY <1>5, <1>7
  <2>. QED  BY <1>5, <1>6, <2>0, <2>1, <2>4, <2>5 DEF WalkHeld
<1>11. PagesHeld'
  <2>1. Listed(h, {}) = {}
    BY DEF Listed
  <2>. QED  BY <1>5, <1>6, <1>7, <2>1 DEF PagesHeld, Listed
<1>12. TypeOK'
  <2>1. base' \in [Wiki -> SUBSET Day]
    <3>1. Window \subseteq Day
      BY DEF Window
    <3>. QED  BY <1>1, <1>3, <1>4, <3>1 DEF TypeOK
  <2>2. h \in targets
    BY <1>1, <1>3 DEF PrewarmInv, TurnsHeld
  <2>. QED  BY <1>1, <1>4, <1>5, <2>1, <2>2 DEF TypeOK
<1>. QED  BY <1>5, <1>8, <1>10, <1>11, <1>12 DEF PrewarmInv, EachWikiOnItsOwn

LEMMA LedTypes ==
    /\ \A S : S \subseteq Title => Led(S) \subseteq Page
    /\ \A S, T : Led(S \cup T) = Led(S) \cup Led(T)
    /\ Led({}) = {}
    /\ \A w, D : w \in Wiki /\ D \subseteq Day => Listed(w, D) \subseteq Title
    /\ \A w, D : Popular(w, D) = Led(Listed(w, D)) \cap Article
<1>1. ASSUME NEW S, S \subseteq Title PROVE Led(S) \subseteq Page
  BY <1>1, Constants DEF Led
<1>2. ASSUME NEW w, NEW D PROVE Popular(w, D) = Led(Listed(w, D)) \cap Article
  BY Constants DEF Popular, Led, Listed
<1>3. ASSUME NEW w \in Wiki, NEW D, D \subseteq Day PROVE Listed(w, D) \subseteq Title
  BY <1>3, Constants DEF Listed
<1>4. ASSUME NEW S, NEW T PROVE Led(S \cup T) = Led(S) \cup Led(T)
  BY DEF Led
<1>5. Led({}) = {}
  BY DEF Led
<1>. QED  BY <1>1, <1>2, <1>3, <1>4, <1>5

\* One more day is asked for.
LEMMA AskDayHolds ==
    ASSUME PrewarmInv, AskDay
    PROVE  PrewarmInv'
<1>1. TypeOK /\ run.phase = "days" /\ run \in Run /\ Busy
  BY DEF PrewarmInv, AskDay, TypeOK, Busy
<1>2. PICK h : h = Here
  OBVIOUS
<1>3. h \in run.left /\ h \in Wiki
  BY <1>1, <1>2, HereIsLeft
<1>. DEFINE back == run.back + 1
            d == run.ref - back
            loaded == run.loaded \cup ({d} \cap published[h])
            titles == run.titles \cup (IF d \in published[h] THEN Top[h][d] ELSE {})
            walked == Enough(loaded, back) \/ back = LookbackDays
<1>4. /\ IF walked /\ loaded = {}
         THEN NextWiki
         ELSE run' = [run EXCEPT !.back = back, !.loaded = loaded, !.titles = titles,
                                 !.phase = IF walked THEN "titles" ELSE "days"]
      /\ UNCHANGED <<today, published, active, targets, hurt, cut, came, base, handed, failures>>
  BY <1>2 DEF AskDay, world, history
<1>5. /\ run.ref \in Nat /\ run.back \in Nat /\ run.back < LookbackDays
      /\ back \in 0..LookbackDays /\ back \in Nat /\ d \in Int
      /\ run.loaded \subseteq published[h] /\ published[h] \subseteq Day
      /\ base[h] \subseteq published[h]
      /\ Cardinality(run.loaded) < TargetDays
      /\ \A l \in run.loaded : run.ref - run.back <= l
      /\ \A l \in base[h] \ run.loaded : l < run.ref - run.back
      /\ \A l \in base[h] : run.ref - LookbackDays <= l /\ l < run.ref
      /\ run.titles = Listed(h, run.loaded) /\ run.pages = {} /\ handed[h] = {}
  <2>1. run.ref \in Nat /\ run.back \in 0..LookbackDays
    BY <1>1, Constants DEF Run
  <2>2. run.back < LookbackDays
    BY <1>1 DEF PrewarmInv, WalkHeld
  <2>3. back \in 0..LookbackDays /\ back \in Nat /\ d \in Int
    BY <2>1, <2>2, Constants
  <2>4. published[h] \subseteq Day
    BY <1>1, <1>3 DEF TypeOK
  <2>5. handed[h] = {}
    BY <1>1, <1>2, <1>3 DEF PrewarmInv, TurnsHeld
  <2>. HIDE DEF back, d
  <2>. QED  BY <1>1, <1>2, <2>1, <2>2, <2>3, <2>4, <2>5 DEF PrewarmInv, WalkHeld, PagesHeld
<1>6. /\ loaded \subseteq published[h] /\ loaded \subseteq Day
      /\ Cardinality(loaded) \in Nat /\ Cardinality(loaded) <= TargetDays
  <2>1. loaded \subseteq published[h] /\ loaded \subseteq Day
    BY <1>5
  <2>2. CASE d \notin published[h]
    <3>1. loaded = run.loaded
      BY <2>2
    <3>. HIDE DEF loaded
    <3>. QED  BY <1>5, <2>1, <3>1, DaysFinite, Constants
  <2>3. CASE d \in published[h]
    <3>1. loaded = run.loaded \cup {d}
      BY <2>3
    <3>2. IsFiniteSet(run.loaded) /\ Cardinality(run.loaded) \in Nat
      BY <1>5, DaysFinite
    <3>3. d \notin run.loaded
      BY <1>5
    <3>. HIDE DEF loaded, d
    <3>4. Cardinality(loaded) = Cardinality(run.loaded) + 1
      BY <3>1, <3>2, <3>3, FS_AddElement
    <3>. QED  BY <1>5, <2>1, <3>2, <3>4, Constants
  <2>. QED  BY <2>2, <2>3
<1>7. /\ \A l \in loaded : run.ref - back <= l
      /\ \A l \in base[h] \ loaded : l < run.ref - back
  <2>1. \A l \in loaded : l \in Nat /\ (l \in run.loaded \/ l = d)
    BY <1>6, Constants
  <2>2. \A l \in base[h] : l \in published[h] /\ l \in Nat
    BY <1>5, Constants
  <2>3. ASSUME NEW l \in loaded PROVE run.ref - back <= l
    <3>1. l = d \/ run.ref - run.back <= l
      BY <1>5, <2>1
    <3>. QED  BY <1>5, <2>1, <3>1
  <2>4. ASSUME NEW l \in base[h] \ loaded PROVE l < run.ref - back
    <3>1. l < run.ref - run.back /\ l # d /\ l \in Nat
      BY <1>5, <2>2
    <3>. QED  BY <1>5, <3>1
  <2>. QED  BY <2>3, <2>4
<1>8. CASE walked /\ loaded = {}
  <2>1. back = LookbackDays
    BY <1>6, <1>8, NoDays, Constants DEF Enough
  <2>2. base[h] = {}
    <3>1. \A l \in base[h] : l \in Nat /\ l < run.ref - back /\ run.ref - LookbackDays <= l
      BY <1>5, <1>7, <1>8, Constants
    <3>. QED  BY <1>5, <2>1, <3>1, Constants
  <2>3. Freshest({}, base[h])
    BY <2>2, NoDays, Constants DEF Freshest
  <2>4. Popular(h, {}) = {}
    BY DEF Popular
  <2>5. Served(h)
    BY <1>5, <2>3, <2>4 DEF Served
  <2>6. NextWiki
    BY <1>4, <1>8
  <2>7. hurt \subseteq targets /\ failures \in 0..MaxFailures
    BY <1>1 DEF TypeOK
  <2>. HIDE DEF back, d, loaded, titles, walked
  <2>. QED  BY <1>1, <1>2, <1>4, <2>5, <2>6, <2>7, NextWikiHolds
<1>9. CASE ~(walked /\ loaded = {})
  <2>1. PICK phase : phase = IF walked THEN "titles" ELSE "days"
    OBVIOUS
  <2>2. run' = [run EXCEPT !.back = back, !.loaded = loaded, !.titles = titles, !.phase = phase]
    BY <1>4, <1>9, <2>1
  <2>3. titles = Listed(h, loaded)
    BY <1>5 DEF Listed
  <2>4. titles \subseteq Title
    BY <1>3, <1>6, <2>3, LedTypes
  <2>5. walked <=> Cardinality(loaded) = TargetDays \/ back = LookbackDays
    BY DEF Enough
  <2>6. phase \in {"titles", "days"} /\ (phase = "titles" <=> walked)
    BY <2>1
  <2>. HIDE DEF back, d, loaded, titles, walked
  <2>7. /\ run' \in Run /\ run'.phase = phase /\ run'.left = run.left /\ run'.ref = run.ref
        /\ run'.back = back /\ run'.loaded = loaded /\ run'.titles = titles
        /\ run'.pages = run.pages
    BY <1>1, <1>5, <1>6, <2>2, <2>4, <2>6 DEF Run, Phases
  <2>8. Here' = h /\ Busy'
    BY <1>2, <2>6, <2>7 DEF Here, Busy
  <2>9. TypeOK'
    BY <1>1, <1>4, <1>6, <2>6, <2>7 DEF TypeOK
  <2>10. TurnsHeld'
    <3>1. \A w : Served(w) => Served(w)'
      BY <1>4 DEF Served, Freshest, Popular
    <3>2. /\ ~cut /\ run.left \subseteq targets /\ came = (targets \ run.left) \cup {h}
          /\ \A w \in (targets \ run.left) \ hurt : Served(w)
          /\ \A w \in run.left : handed[w] = {}
      BY <1>1, <1>2 DEF PrewarmInv, TurnsHeld
    <3>3. /\ ~cut' /\ run'.left \subseteq targets' /\ came' = (targets' \ run'.left) \cup {h}
          /\ \A w \in (targets' \ run'.left) \ hurt' : Served(w)'
          /\ \A w \in run'.left : handed'[w] = {}
      BY <1>4, <2>7, <3>1, <3>2
    <3>. QED  BY <2>8, <3>3 DEF TurnsHeld
  <2>11. WalkHeld'
    <3>1. phase = "days" => back < LookbackDays /\ Cardinality(loaded) < TargetDays
      BY <1>5, <1>6, <2>5, <2>6, Constants
    <3>2. phase # "days" => back = LookbackDays \/ Cardinality(loaded) = TargetDays
      BY <2>5, <2>6
    <3>3. published'[h] = published[h] /\ base'[h] = base[h]
      BY <1>4
    <3>. QED  BY <1>5, <1>6, <1>7, <2>7, <2>8, <3>1, <3>2, <3>3 DEF WalkHeld
  <2>12. PagesHeld'
    <3>1. run'.titles = Listed(h, run'.loaded) /\ run'.pages = {}
      BY <1>5, <2>3, <2>7
    <3>2. run'.pages \cup Led(run'.titles) = Led(Listed(h, run'.loaded))
      BY <3>1
    <3>3. run'.phase \in {"titles", "days"}
      BY <2>6, <2>7
    <3>. QED  BY <2>8, <3>1, <3>2, <3>3 DEF PagesHeld, Listed
  <2>13. EachWikiOnItsOwn'
    BY <2>6, <2>7 DEF EachWikiOnItsOwn
  <2>. QED  BY <2>9, <2>10, <2>11, <2>12, <2>13 DEF PrewarmInv
<1>. QED  BY <1>8, <1>9

\* A step at the wiki at hand that leaves the days it has loaded alone.
LEMMA SameWikiHolds ==
    ASSUME PrewarmInv, Busy, TypeOK', NEW h, h = Here,
           run'.phase \in {"titles", "queue"}, run.phase # "days",
           run'.left = run.left, run'.ref = run.ref, run'.back = run.back,
           run'.loaded = run.loaded, PagesHeld',
           UNCHANGED <<today, published, active, targets, hurt, cut, came, base, failures>>,
           \A w \in Wiki \ {h} : handed'[w] = handed[w],
           run'.phase # "queue" => handed'[h] = {}
    PROVE  PrewarmInv'
<1>1. /\ TypeOK /\ run.phase # "none" /\ h \in run.left /\ run.left \subseteq Wiki
      /\ targets \subseteq Wiki
  BY HereIsLeft DEF PrewarmInv, Busy, TypeOK, Run
<1>2. Here' = h /\ Busy'
  BY DEF Here, Busy
<1>3. TurnsHeld'
  <2>1. \A w \in Wiki \ {h} : Served(w) => Served(w)'
    BY DEF Served, Freshest, Popular
  <2>2. /\ ~cut /\ run.left \subseteq targets /\ came = (targets \ run.left) \cup {h}
        /\ \A w \in (targets \ run.left) \ hurt : Served(w)
        /\ \A w \in run.left \ {h} : handed[w] = {}
    BY <1>1 DEF PrewarmInv, TurnsHeld
  <2>3. /\ ~cut' /\ run'.left \subseteq targets' /\ came' = (targets' \ run'.left) \cup {h}
        /\ \A w \in (targets' \ run'.left) \ hurt' : Served(w)'
        /\ \A w \in run'.left \ {h} : handed'[w] = {}
    BY <1>1, <2>1, <2>2
  <2>. QED  BY <1>2, <2>3 DEF TurnsHeld
<1>4. WalkHeld'
  BY <1>2 DEF PrewarmInv, WalkHeld
<1>5. EachWikiOnItsOwn'
  BY DEF EachWikiOnItsOwn
<1>. QED  BY <1>3, <1>4, <1>5 DEF PrewarmInv

LEMMA ResolveHolds ==
    ASSUME PrewarmInv, Resolve \/ Resolved
    PROVE  PrewarmInv'
<1>1. /\ TypeOK /\ run.phase = "titles" /\ run \in Run /\ Busy
      /\ UNCHANGED <<today, published, active, targets, hurt, cut, came, base, handed, failures>>
  BY DEF PrewarmInv, Resolve, Resolved, TypeOK, Busy, world, history
<1>2. PICK h : h = Here
  OBVIOUS
<1>3. h \in run.left /\ h \in Wiki /\ handed[h] = {} /\ run.loaded \subseteq Day
      /\ run.titles \subseteq Title /\ run.pages \subseteq Page
      /\ run.pages \cup Led(run.titles) = Led(Listed(h, run.loaded))
  BY <1>1, <1>2, HereIsLeft DEF PrewarmInv, TurnsHeld, PagesHeld, Run
<1>4. CASE Resolve
  <2>1. PICK B \in FirstTitles :
          run' = [run EXCEPT !.titles = @ \ B,
                             !.pages = @ \cup ({PageOf[t] : t \in B} \ {NoPage})]
    BY <1>4 DEF Resolve
  <2>2. B \subseteq run.titles /\ Led(B) \subseteq Page
    BY <1>3, <2>1, LedTypes DEF FirstTitles
  <2>3. run' = [run EXCEPT !.titles = run.titles \ B, !.pages = run.pages \cup Led(B)]
    BY <2>1 DEF Led
  <2>4. /\ run' \in Run /\ run'.phase = "titles" /\ run'.left = run.left /\ run'.ref = run.ref
        /\ run'.back = run.back /\ run'.loaded = run.loaded /\ run'.titles = run.titles \ B
        /\ run'.pages = run.pages \cup Led(B)
    BY <1>1, <1>3, <2>2, <2>3 DEF Run
  <2>5. (run.titles \ B) \cup B = run.titles
    BY <2>2
  <2>6. Led(run.titles \ B) \cup Led(B) = Led(run.titles)
    BY <2>5, LedTypes
  <2>7. run'.pages \cup Led(run'.titles) = Led(Listed(h, run'.loaded))
    BY <1>3, <2>4, <2>6
  <2>8. Here' = h
    BY <1>2, <2>4 DEF Here
  <2>9. PagesHeld'
    BY <2>4, <2>7, <2>8 DEF PagesHeld, Led, Listed
  <2>10. TypeOK'
    BY <1>1, <2>4 DEF TypeOK
  <2>. QED  BY <1>1, <1>2, <1>3, <2>4, <2>9, <2>10, SameWikiHolds
<1>5. CASE Resolved
  <2>1. /\ run' \in Run /\ run'.phase = "queue" /\ run'.left = run.left /\ run'.ref = run.ref
        /\ run'.back = run.back /\ run'.loaded = run.loaded
        /\ run'.pages = run.pages \cap Article /\ run.titles = {}
    BY <1>1, <1>3, <1>5, Constants DEF Run, Phases, Resolved
  <2>2. run.pages = Led(Listed(h, run.loaded))
    BY <1>3, <2>1, LedTypes
  <2>3. handed'[h] \cup run'.pages = Popular(h, run'.loaded)
    BY <1>1, <1>3, <2>1, <2>2, LedTypes
  <2>4. Here' = h
    BY <1>2, <2>1 DEF Here
  <2>5. PagesHeld'
    BY <2>1, <2>3, <2>4 DEF PagesHeld, Popular
  <2>6. TypeOK'
    BY <1>1, <2>1 DEF TypeOK
  <2>. QED  BY <1>1, <1>2, <1>3, <2>1, <2>5, <2>6, SameWikiHolds
<1>. QED  BY <1>4, <1>5

LEMMA HandHolds ==
    ASSUME PrewarmInv, NEW p \in Page, Hand(p)
    PROVE  PrewarmInv'
<1>1. /\ TypeOK /\ run.phase = "queue" /\ run \in Run /\ Busy /\ p \in run.pages
      /\ UNCHANGED <<today, published, active, targets, hurt, cut, came, base, failures>>
  BY DEF PrewarmInv, Hand, TypeOK, Busy, world
<1>2. PICK h : h = Here
  OBVIOUS
<1>3. h \in run.left /\ h \in Wiki /\ handed[h] \cup run.pages = Popular(h, run.loaded)
  BY <1>1, <1>2, HereIsLeft DEF PrewarmInv, PagesHeld
<1>4. /\ run' = [run EXCEPT !.pages = run.pages \ {p}]
      /\ handed' = [handed EXCEPT ![h] = handed[h] \cup {p}]
  BY <1>2 DEF Hand
<1>5. /\ run' \in Run /\ run'.phase = "queue" /\ run'.left = run.left /\ run'.ref = run.ref
      /\ run'.back = run.back /\ run'.loaded = run.loaded /\ run'.pages = run.pages \ {p}
  BY <1>1, <1>4 DEF Run
<1>6. handed'[h] = handed[h] \cup {p} /\ \A w \in Wiki \ {h} : handed'[w] = handed[w]
  BY <1>1, <1>3, <1>4 DEF TypeOK
<1>7. handed'[h] \cup run'.pages = Popular(h, run'.loaded)
  BY <1>1, <1>3, <1>5, <1>6
<1>8. Here' = h
  BY <1>2, <1>5 DEF Here
<1>9. PagesHeld'
  BY <1>5, <1>7, <1>8 DEF PagesHeld, Popular
<1>10. TypeOK'
  BY <1>1, <1>3, <1>4, <1>5 DEF TypeOK
<1>. QED  BY <1>1, <1>2, <1>5, <1>6, <1>9, <1>10, SameWikiHolds

LEMMA FinishHolds ==
    ASSUME PrewarmInv, Finish
    PROVE  PrewarmInv'
<1>1. /\ TypeOK /\ run.phase = "queue" /\ run \in Run /\ Busy /\ run.pages = {} /\ NextWiki
      /\ UNCHANGED <<today, published, active, targets, hurt, cut, came, base, handed, failures>>
  BY DEF PrewarmInv, Finish, TypeOK, Busy, world, history
<1>2. PICK h : h = Here
  OBVIOUS
<1>3. h \in Wiki /\ base[h] \subseteq Day
  BY <1>1, <1>2, HereIsLeft DEF TypeOK
<1>4. /\ run.ref \in Nat /\ run.back \in 0..LookbackDays /\ run.loaded \subseteq Day
      /\ Cardinality(run.loaded) <= TargetDays
  BY <1>1, Constants DEF Run, TypeOK
<1>5. /\ run.loaded \subseteq published[h]
      /\ \A d \in run.loaded : run.ref - run.back <= d
      /\ \A d \in base[h] \ run.loaded : d < run.ref - run.back
      /\ \A d \in base[h] : run.ref - LookbackDays <= d
      /\ run.back = LookbackDays \/ Cardinality(run.loaded) = TargetDays
      /\ handed[h] = Popular(h, run.loaded)
  BY <1>1, <1>2 DEF PrewarmInv, WalkHeld, PagesHeld
<1>6. base[h] \subseteq run.loaded \/ Cardinality(run.loaded) = TargetDays
  <2>1. CASE run.back = LookbackDays
    <3>1. ASSUME NEW d \in base[h] \ run.loaded PROVE FALSE
      <4>1. d \in Nat /\ LookbackDays \in Nat /\ d < run.ref - run.back
            /\ run.ref - LookbackDays <= d
        BY <1>3, <1>5, <3>1, Constants
      <4>. QED  BY <1>4, <2>1, <4>1
    <3>. QED  BY <3>1
  <2>. QED  BY <1>5, <2>1
<1>7. run.ref - run.back \in Int
  BY <1>4, Constants
<1>8. Freshest(run.loaded, base[h])
  BY <1>3, <1>4, <1>5, <1>6, <1>7, Freshness
<1>9. Served(h)
  BY <1>5, <1>8 DEF Served
<1>10. hurt \subseteq targets /\ failures \in 0..MaxFailures
  BY <1>1 DEF TypeOK
<1>. QED  BY <1>1, <1>2, <1>9, <1>10, NextWikiHolds

\* Upstreams that fail cost the wiki at hand its turn, and nobody else.
LEMMA UnavailableHolds ==
    ASSUME PrewarmInv, Unavailable
    PROVE  PrewarmInv'
<1>1. /\ TypeOK /\ Busy /\ NextWiki /\ run.phase # "none" /\ failures < MaxFailures
      /\ hurt' = hurt \cup {Here} /\ failures' = failures + 1
      /\ UNCHANGED <<today, published, active, targets, cut, came, base, handed>>
  BY DEF PrewarmInv, Unavailable, Isolated, Busy, world
<1>2. Here \in targets /\ hurt \subseteq targets
  BY <1>1, HereIsLeft DEF PrewarmInv, TurnsHeld, TypeOK
<1>3. failures' \in 0..MaxFailures
  BY <1>1, Constants DEF TypeOK
<1>. QED  BY <1>1, <1>2, <1>3, NextWikiHolds

LEMMA DieHolds ==
    ASSUME PrewarmInv, Die
    PROVE  PrewarmInv'
<1>1. /\ TypeOK /\ run' = NoRun /\ cut' = TRUE /\ failures' = failures + 1
      /\ failures < MaxFailures
      /\ UNCHANGED <<today, published, active, targets, hurt, came, base, handed>>
  BY DEF PrewarmInv, Die, world
<1>2. TypeOK'
  BY <1>1, NoRunType, NoDays, Constants DEF TypeOK
<1>. QED  BY <1>1, <1>2, NoRunType DEF PrewarmInv, TurnsHeld, WalkHeld, PagesHeld, Busy,
                                       EachWikiOnItsOwn

\* Days pass, lists are published and workers enrol wikis: what a run holds stays so.
LEMMA WorldHolds ==
    ASSUME PrewarmInv,
           \/ Midnight \/ UNCHANGED vars
           \/ \E w \in Wiki : Discover(w) \/ \E d \in Day : Publish(w, d)
    PROVE  PrewarmInv'
<1>1. UNCHANGED <<run, targets, hurt, cut, came, base, handed, failures>>
  BY DEF Midnight, Discover, Publish, vars, history
<1>2. /\ published' \in [Wiki -> SUBSET Day] /\ \A w \in Wiki : published[w] \subseteq published'[w]
      /\ today' \in Day /\ active' \subseteq Wiki
  <2>1. TypeOK /\ Day = 1..MaxDay /\ MaxDay \in Nat
    BY Constants DEF PrewarmInv, Day
  <2>. QED  BY <2>1 DEF Midnight, Discover, Publish, vars, world, TypeOK
<1>3. TypeOK'
  BY <1>1, <1>2 DEF PrewarmInv, TypeOK
<1>4. Here' = Here /\ (Busy' <=> Busy) /\ targets \subseteq Wiki
  BY <1>1 DEF Here, Busy, PrewarmInv, TypeOK
<1>5. \A w \in Wiki : Served(w) => Served(w)'
  BY <1>1, <1>2 DEF Served, Freshest, Popular
<1>6. TurnsHeld'
  BY <1>1, <1>4, <1>5 DEF PrewarmInv, TurnsHeld
<1>7. WalkHeld'
  <2>1. Busy => Here \in Wiki
    BY HereIsLeft DEF PrewarmInv, Busy
  <2>. QED  BY <1>1, <1>2, <1>4, <2>1 DEF PrewarmInv, WalkHeld
<1>8. PagesHeld'
  BY <1>1, <1>4 DEF PrewarmInv, PagesHeld, Listed, Led, Popular
<1>9. EachWikiOnItsOwn'
  BY <1>1, <1>4, <1>5 DEF PrewarmInv, EachWikiOnItsOwn, Served
<1>. QED  BY <1>3, <1>6, <1>7, <1>8, <1>9 DEF PrewarmInv

LEMMA PrewarmStarts ==
    ASSUME Init
    PROVE  PrewarmInv
<1>1. /\ run = NoRun /\ targets = {} /\ came = {} /\ hurt = {}
  BY DEF Init
<1>2. TypeOK
  <2>1. today \in Day /\ active \subseteq Wiki /\ failures \in 0..MaxFailures /\ cut \in BOOLEAN
    <3>1. 0 \in 0..MaxFailures
      BY Constants
    <3>2. cut \in BOOLEAN
      BY DEF Init
    <3>. QED  BY <3>1, <3>2, Constants DEF Init
  <2>2. /\ published \in [Wiki -> SUBSET Day] /\ base \in [Wiki -> SUBSET Day]
        /\ handed \in [Wiki -> SUBSET Page]
    BY DEF Init, Nothing
  <2>3. Cardinality(run.loaded) <= TargetDays
    BY <1>1, NoRunType, NoDays, Constants
  <2>. QED  BY <1>1, <2>1, <2>2, <2>3, NoRunType DEF TypeOK
<1>. QED  BY <1>1, <1>2, NoRunType DEF PrewarmInv, TurnsHeld, WalkHeld, PagesHeld, Busy,
                                       EachWikiOnItsOwn

LEMMA PrewarmAlways == Spec => []PrewarmInv
<1>1. Init => PrewarmInv
  BY PrewarmStarts
<1>2. PrewarmInv /\ [Next]_vars => PrewarmInv'
  <2>. SUFFICES ASSUME PrewarmInv, [Next]_vars PROVE PrewarmInv'
    OBVIOUS
  <2>. QED  BY BeginHolds, TurnHolds, AskDayHolds, ResolveHolds, HandHolds, FinishHolds,
               UnavailableHolds, DieHolds, WorldHolds DEF Next, Go
<1>. QED  BY <1>1, <1>2, PTL DEF Spec

\* However many wikis, days and titles there are and wherever a run fails or dies, a run
\* in progress is at one of its wikis and never loads more days than it wants.
THEOREM PrewarmTyped == Spec => []TypeOK
<1>1. PrewarmInv => TypeOK
  BY DEF PrewarmInv
<1>. QED  BY <1>1, PrewarmAlways, PTL

\* "One unavailable wiki must not cancel prewarming for the others" (prewarm.py): after
\* a run that reached its end every wiki has had its turn, and every one whose upstreams
\* answered was handed exactly the popular articles of the freshest days it could load,
\* wherever failures, late publications and midnight fell.
THEOREM WikisServed == Spec => []EachWikiOnItsOwn
<1>1. PrewarmInv => EachWikiOnItsOwn
  BY DEF PrewarmInv
<1>. QED  BY <1>1, PrewarmAlways, PTL
=============================================================================
