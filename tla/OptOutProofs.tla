---------------------------- MODULE OptOutProofs ----------------------------
(***************************************************************************)
(* Theorems about OptOut, for every wiki, list, limit and cache lifetime.  *)
(***************************************************************************)
EXTENDS OptOut, FiniteSetTheorems, TLAPS

-----------------------------------------------------------------------------
(* Types.                                                                  *)

LEMMA AgeCapType ==
    /\ AgeCap \in Nat \ {0} /\ MaxAge \in Nat \ {0} /\ Revalidate \in Nat /\ MaxChanges \in Nat
    /\ AgeCap = 2 * MaxAge + Revalidate
BY OptOutAssumption DEF AgeCap

LEMMA EntryTypes ==
    /\ Empty \in Entries
    /\ \A pages : Stored(Policy(pages)) \in Entries
    /\ \A entry \in Entries : entry.answer \in Answers \cup {"none"} /\ Older(entry) \in Entries
<1>1. Empty \in Entries
  BY AgeCapType DEF Empty, Entries
<1>2. ASSUME NEW pages PROVE Stored(Policy(pages)) \in Entries
  BY AgeCapType DEF Stored, Policy, Entries, Answers
<1>3. ASSUME NEW entry \in Entries
      PROVE  entry.answer \in Answers \cup {"none"} /\ Older(entry) \in Entries
  BY AgeCapType DEF Older, Entries
<1>. QED  BY <1>1, <1>2, <1>3

Clocks == [{"change", "load"} -> Ticks]

LEMMA ClockTypes ==
    /\ NewClock \in Clocks
    /\ \A c \in Clocks : [c EXCEPT !.load = IF @ = Unseen THEN 0 ELSE @] \in Clocks
    /\ \A c \in Clocks : [k \in DOMAIN c |-> Later(c[k])] \in Clocks
<1>0. Unseen \in Ticks /\ 0 \in Ticks
  BY AgeCapType DEF Unseen, Ticks
<1>1. NewClock \in Clocks
  BY <1>0 DEF NewClock, Clocks
<1>2. ASSUME NEW c \in Clocks
      PROVE  [c EXCEPT !.load = IF @ = Unseen THEN 0 ELSE @] \in Clocks
  BY <1>0 DEF Clocks
<1>3. ASSUME NEW c \in Clocks PROVE [k \in DOMAIN c |-> Later(c[k])] \in Clocks
  BY AgeCapType DEF Later, Clocks, Ticks, Unseen
<1>. QED  BY <1>1, <1>2, <1>3

Runs == [phase : {"idle", "classify", "members"}, targets : SUBSET Target,
         entries : SUBSET Page, todo : SUBSET Category]

LEMMA NoRunType == NoRun \in Runs
BY DEF NoRun, Runs

LEMMA InitType == Init => TypeOK
BY AgeCapType, NoRunType, EntryTypes, ClockTypes DEF Init, TypeOK, Runs, Clocks

\* What an editor does.
LEMMA WikiType ==
    ASSUME TypeOK,
           \/ \E t \in Target : EditList(t)
           \/ \E t \in Title : Retitle(t)
           \/ \E c \in Category : Recategorise(c)
    PROVE  TypeOK'
<1>1. ASSUME NEW t \in Target, EditList(t) PROVE TypeOK'
  BY <1>1, AgeCapType DEF EditList, Change, Count, TypeOK, reader
<1>2. ASSUME NEW t \in Title, Retitle(t) PROVE TypeOK'
  BY <1>2, AgeCapType DEF Retitle, Change, Count, TypeOK, reader, Target
<1>3. ASSUME NEW c \in Category, Recategorise(c) PROVE TypeOK'
  BY <1>3, AgeCapType DEF Recategorise, Change, Count, TypeOK, reader, Target
<1>. QED  BY <1>1, <1>2, <1>3

\* What the job does: it collects pages only.
LEMMA JobType ==
    ASSUME TypeOK,
           \/ Begin \/ Classify \/ Replace \/ Abort
           \/ \E c \in Category : ReadCategory(c)
    PROVE  TypeOK'
<1>0. run \in Runs
  BY DEF TypeOK, Runs
<1>1. CASE Begin
  <2>1. run' \in Runs
    BY <1>1, NoRunType DEF Begin, TypeOK, NoRun, Runs
  <2>. QED  BY <1>1, <2>1 DEF Begin, TypeOK, Runs, wiki, reader
<1>2. CASE Classify
  <2>1. Existing({resolves[t] : t \in run.targets \cap Title}) \in SUBSET Page
    BY DEF Existing, TypeOK
  <2>2. run.targets \cap Category \in SUBSET Category
    OBVIOUS
  <2>3. run' \in Runs
    BY <1>0, <1>2, <2>1, <2>2 DEF Classify, Runs
  <2>. QED  BY <1>2, <2>3 DEF Classify, TypeOK, Runs, wiki, reader
<1>3. ASSUME NEW c \in Category, ReadCategory(c) PROVE TypeOK'
  <2>1. PICK S \in SUBSET members[c] :
             run' = [run EXCEPT !.entries = @ \cup S, !.todo = @ \ {c}]
    BY <1>3 DEF ReadCategory
  <2>2. S \in SUBSET Page
    BY <2>1 DEF TypeOK
  <2>3. run' \in Runs
    BY <1>0, <2>1, <2>2 DEF Runs
  <2>. QED  BY <1>3, <2>3 DEF ReadCategory, TypeOK, Runs, wiki, reader
<1>4. CASE Replace
  <2>1. table' \in SUBSET Page
    BY <1>0, <1>4 DEF Replace, Written, Runs
  <2>2. clock' \in Clocks
    BY <1>4, ClockTypes DEF Replace, TypeOK, Clocks
  <2>. QED  BY <1>4, <2>1, <2>2, NoRunType DEF Replace, TypeOK, Runs, Clocks, wiki, reader
<1>5. CASE Abort
  BY <1>5, NoRunType, AgeCapType DEF Abort, Interrupted, Count, TypeOK, Runs, wiki, reader
<1>. QED  BY <1>1, <1>2, <1>3, <1>4, <1>5

\* An answer shown is one that the API gives, and so is what the browser keeps of it.
LEMMA ShownType ==
    ASSUME TypeOK, NEW answer \in Answers \cup {"none"}, ShowAndKeep(answer),
           Answered \/ UNCHANGED <<http, clock>>
    PROVE  TypeOK'
<1>1. session' \in Entries
  BY AgeCapType DEF ShowAndKeep, Stored, Entries
<1>2. http' \in Entries
  BY EntryTypes DEF Answered, TypeOK
<1>3. clock' \in Clocks
  BY ClockTypes DEF Answered, TypeOK, Clocks
<1>4. shown' = answer /\ UNCHANGED <<wiki, table, run, moved, changes>>
  BY DEF ShowAndKeep, Show
<1>. QED  BY <1>1, <1>2, <1>3, <1>4 DEF TypeOK, Clocks, wiki

\* What the reader and time do.
LEMMA ReaderType ==
    ASSUME TypeOK, ViewCached \/ ViewFresh \/ ViewStale \/ ViewAsked \/ CloseTab \/ Tick
    PROVE  TypeOK'
<1>0. http \in Entries /\ session \in Entries /\ clock \in Clocks
  BY DEF TypeOK, Clocks
<1>1. CASE ViewCached
  <2>1. session.answer \in Answers \cup {"none"}
    BY <1>0, EntryTypes
  <2>. QED  BY <1>1, <2>1 DEF ViewCached, Show, TypeOK, Clocks, wiki
<1>2. CASE ViewFresh \/ ViewStale
  <2>1. http.answer \in Answers \cup {"none"}
    BY <1>0, EntryTypes
  <2>. QED  BY <1>2, <2>1, ShownType DEF ViewFresh, ViewStale
<1>3. CASE ViewAsked
  <2>1. Policy(table) \in Answers \cup {"none"}
    BY DEF Policy, Answers
  <2>. QED  BY <1>3, <2>1, ShownType DEF ViewAsked
<1>4. CASE CloseTab
  BY <1>4, EntryTypes DEF CloseTab, TypeOK, wiki
<1>5. CASE Tick
  <2>1. http' \in Entries /\ session' \in Entries
    BY <1>0, <1>5, EntryTypes DEF Tick
  <2>2. clock' \in Clocks
    BY <1>0, <1>5, ClockTypes DEF Tick
  <2>. QED  BY <1>5, <2>1, <2>2 DEF Tick, TypeOK, Clocks, wiki
<1>. QED  BY <1>1, <1>2, <1>3, <1>4, <1>5

LEMMA NextType == TypeOK /\ [Next]_vars => TypeOK'
<1>. SUFFICES ASSUME TypeOK, [Next]_vars PROVE TypeOK'
  OBVIOUS
<1>1. CASE UNCHANGED vars
  BY <1>1 DEF vars, wiki, reader, TypeOK
<1>. QED  BY <1>1, WikiType, JobType, ReaderType DEF Next

\* Whatever the list names, the table holds pages and the caches hold answers.
THEOREM OptOutTyped == Spec => []TypeOK
BY InitType, NextType, PTL DEF Spec

-----------------------------------------------------------------------------
(* Opt-outs survive a run.                                                 *)

\* The targets of the run in progress that nobody touched since it began.
Still == (run.targets \cap listed) \ moved

\* What an untouched title leads to is among the entries, and so are the members
\* of an untouched category within the limit unless it is still to be read.
Collected ==
    run.phase = "members" =>
        /\ \A t \in Still \cap Title : resolves[t] \in Page => resolves[t] \in run.entries
        /\ \A c \in Still \cap Category :
              c \in run.todo \/ (Cardinality(members[c]) <= Limit => members[c] \subseteq run.entries)

\* category_members returns the whole of a category that is within the limit.
LEMMA WholeCategory ==
    ASSUME TypeOK, NEW c \in Category, NEW S \in SUBSET members[c],
           Cardinality(S) = Least(Cardinality(members[c]), Limit),
           Cardinality(members[c]) <= Limit
    PROVE  S = members[c]
<1>1. members[c] \in SUBSET Page
  BY DEF TypeOK
<1>2. IsFiniteSet(members[c])
  BY <1>1, FS_Subset, OptOutAssumption
<1>3. Cardinality(members[c]) \in Nat /\ Limit \in Nat
  BY <1>2, FS_CardinalityType, OptOutAssumption
<1>4. Cardinality(S) = Cardinality(members[c])
  BY <1>3 DEF Least
<1>. QED  BY <1>2, <1>4, FS_Subset

\* The steps of anybody but the job: what they touch is still no longer.
LEMMA WikiCollected ==
    ASSUME TypeOK, Collected,
           \/ \E t \in Target : EditList(t)
           \/ \E t \in Title : Retitle(t)
           \/ \E c \in Category : Recategorise(c)
    PROVE  Collected'
<1>1. ASSUME NEW t \in Target, EditList(t) PROVE Collected'
  <2>1. Still' \subseteq Still
    BY <1>1 DEF EditList, Change, Still
  <2>. QED  BY <1>1, <2>1 DEF EditList, Collected
<1>2. ASSUME NEW t \in Title, Retitle(t) PROVE Collected'
  <2>1. Still' = Still \ {t} /\ UNCHANGED <<run, members>>
    BY <1>2 DEF Retitle, Change, Still
  <2>2. \A u \in Title \ {t} : resolves'[u] = resolves[u]
    BY <1>2 DEF Retitle, TypeOK
  <2>. QED  BY <2>1, <2>2 DEF Collected
<1>3. ASSUME NEW c \in Category, Recategorise(c) PROVE Collected'
  <2>1. Still' = Still \ {c} /\ UNCHANGED <<run, resolves>>
    BY <1>3 DEF Recategorise, Change, Still
  <2>2. \A d \in Category \ {c} : members'[d] = members[d]
    BY <1>3 DEF Recategorise, TypeOK
  <2>. QED  BY <2>1, <2>2 DEF Collected
<1>. QED  BY <1>1, <1>2, <1>3

LEMMA JobCollected ==
    ASSUME TypeOK, Collected,
           \/ Begin \/ Classify \/ Replace \/ Abort
           \/ \E c \in Category : ReadCategory(c)
    PROVE  Collected'
<1>0. run \in Runs
  BY DEF TypeOK, Runs
<1>1. CASE Begin
  <2>1. run'.phase = "classify"
    BY <1>1 DEF Begin, NoRun
  <2>. QED  BY <2>1 DEF Collected
<1>2. CASE Classify
  <2>1. /\ run'.targets = run.targets
        /\ run'.todo = run.targets \cap Category
        /\ run'.entries = {resolves[t] : t \in run.targets \cap Title} \ {Nothing}
    BY <1>0, <1>2 DEF Classify, Existing, Runs
  <2>2. UNCHANGED <<listed, resolves, members, moved>>
    BY <1>2 DEF Classify, wiki
  <2>3. Still' \subseteq run.targets
    BY <2>1 DEF Still
  <2>4. Nothing \notin Page
    BY OptOutAssumption
  <2>5. ASSUME NEW t \in (Still \cap Title)', resolves'[t] \in Page
        PROVE  resolves'[t] \in run'.entries
    BY <2>1, <2>2, <2>3, <2>4, <2>5
  <2>6. ASSUME NEW c \in (Still \cap Category)'
        PROVE  c \in run'.todo
    BY <2>1, <2>3
  <2>. QED  BY <2>5, <2>6 DEF Collected
<1>3. ASSUME NEW c \in Category, ReadCategory(c) PROVE Collected'
  <2>1. PICK S \in SUBSET members[c] :
             /\ Cardinality(S) = Least(Cardinality(members[c]), Limit)
             /\ run' = [run EXCEPT !.entries = @ \cup S, !.todo = @ \ {c}]
    BY <1>3 DEF ReadCategory
  <2>2. /\ run.phase = "members" /\ run'.targets = run.targets
        /\ run'.entries = run.entries \cup S /\ run'.todo = run.todo \ {c}
    BY <1>0, <1>3, <2>1 DEF ReadCategory, Runs
  <2>3. UNCHANGED <<listed, resolves, members, moved>>
    BY <1>3 DEF ReadCategory, wiki
  <2>4. Still' = Still
    BY <2>2, <2>3 DEF Still
  <2>5. Cardinality(members[c]) <= Limit => S = members[c]
    BY <2>1, WholeCategory
  <2>6. ASSUME NEW t \in Still' \cap Title, resolves'[t] \in Page
        PROVE  resolves'[t] \in run'.entries
    BY <2>2, <2>3, <2>4, <2>6 DEF Collected
  <2>7. ASSUME NEW d \in Still' \cap Category
        PROVE  \/ d \in run'.todo
               \/ Cardinality(members'[d]) <= Limit => members'[d] \subseteq run'.entries
    <3>1. CASE d = c
      BY <2>2, <2>3, <2>5, <3>1
    <3>2. CASE d # c
      BY <2>2, <2>3, <2>4, <3>2 DEF Collected
    <3>. QED  BY <3>1, <3>2
  <2>. QED  BY <2>6, <2>7 DEF Collected
<1>4. CASE Replace \/ Abort
  <2>1. run'.phase = "idle"
    BY <1>4 DEF Replace, Abort, Interrupted, NoRun
  <2>. QED  BY <2>1 DEF Collected
<1>. QED  BY <1>1, <1>2, <1>3, <1>4

LEMMA CollectedStep == TypeOK /\ Collected /\ [Next]_vars => Collected'
<1>. SUFFICES ASSUME TypeOK, Collected, [Next]_vars PROVE Collected'
  OBVIOUS
<1>1. CASE \/ ViewCached \/ ViewFresh \/ ViewStale \/ ViewAsked
           \/ CloseTab \/ Tick \/ UNCHANGED vars
  <2>1. UNCHANGED <<listed, resolves, members, run, moved>>
    BY <1>1 DEF ViewCached, ViewFresh, ViewStale, ViewAsked, ShowAndKeep, CloseTab, Tick, Show,
                vars, wiki
  <2>. QED  BY <2>1 DEF Collected, Still
<1>. QED  BY <1>1, WikiCollected, JobCollected DEF Next

\* Only the replacement takes a page out of the table, and by then the run has
\* read whatever covers it.
LEMMA CoveredStay ==
    ASSUME TypeOK, Collected, [Next]_vars,
           NEW p \in table, CoveredBy(p, Still)
    PROVE  p \in table'
<1>1. CASE Replace
  <2>1. run.phase = "members" /\ run.todo = {} /\ table' = run.entries /\ p \in Page
    BY <1>1 DEF Replace, Written, TypeOK
  <2>2. CASE \E t \in Still \cap Title : resolves[t] = p
    BY <2>1, <2>2 DEF Collected
  <2>3. CASE \E c \in Still \cap Category : p \in members[c] /\ Cardinality(members[c]) <= Limit
    BY <2>1, <2>3 DEF Collected
  <2>. QED  BY <2>1, <2>2, <2>3 DEF CoveredBy
<1>2. CASE ~Replace
  <2>1. table' = table
    BY <1>2 DEF Next, EditList, Retitle, Recategorise, Begin, Classify, ReadCategory, Abort,
                ViewCached, ViewFresh, ViewStale, ViewAsked, ShowAndKeep, CloseTab, Tick, Show, vars
  <2>. QED  BY <2>1
<1>. QED  BY <1>1, <1>2

\* "A network failure must not read as 'everybody withdrew their opt-out'"
\* (sync_wiki): however many entries and members a list has, whichever request of a
\* run fails and whatever is edited meanwhile, no step withdraws a page that an entry
\* covers throughout the run.
THEOREM OptOutsKept == Spec => OptOutsSurvive
<1>1. Init => Collected
  BY DEF Init, Collected, NoRun
<1>2. TypeOK /\ Collected /\ [Next]_vars
        => [\A p \in table : CoveredBy(p, (run.targets \cap listed) \ moved) => p \in table']_vars
  BY CoveredStay DEF Still
<1>. QED  BY <1>1, <1>2, InitType, NextType, CollectedStep, PTL DEF Spec, OptOutsSurvive

-----------------------------------------------------------------------------
(* A change reaches the reader.                                            *)

Now == Policy(table)

\* What the HTTP cache holds of an answer since changed is as old as the change.
HttpDated == http # Empty /\ http.answer # Now => http.age >= clock.change

\* What the session holds of it was put there while the HTTP cache could still reuse
\* it, or before the change.
SessionDated ==
    session # Empty /\ session.answer # Now =>
        session.age + MaxAge + Revalidate > clock.change

\* Once the API has given the changed answer, no other is in the HTTP cache, though one
\* may be left in the session; that one is as old as the API's answer.
LoadedDated ==
    clock.load # Unseen =>
        /\ http.answer = Now
        /\ session # Empty /\ session.answer # Now => session.age >= clock.load

ReachInv ==
    /\ clock.change # Unseen
    /\ HttpDated /\ SessionDated /\ LoadedDated /\ ReachesReader

\* A cached answer, as old as AgeCap at most.
LEMMA Ages ==
    ASSUME TypeOK
    PROVE  /\ http.age \in 0..AgeCap /\ session.age \in 0..AgeCap
           /\ clock.change \in Ticks /\ clock.load \in Ticks /\ clock \in Clocks
           /\ DOMAIN clock = {"change", "load"}
BY DEF TypeOK, Entries, Clocks

\* Time passes for both alike.
LEMMA OlderStaysOlder ==
    ASSUME NEW e \in Entries, e # Empty, NEW n \in 0..AgeCap, e.age >= n
    PROVE  /\ Older(e).age >= Later(n) /\ Older(e).answer = e.answer /\ Later(n) # Unseen
BY AgeCapType DEF Entries, Older, Later, Unseen

LEMMA OlderEmpty ==
    ASSUME NEW e \in Entries
    PROVE  Older(e).answer = e.answer /\ (e = Empty => Older(e) = Empty)
BY AgeCapType DEF Entries, Older

LEMMA PolicyAnswers == \A pages : Policy(pages) \in Answers /\ Policy(pages) # "none"
BY DEF Policy, Answers

LEMMA ReplaceReaches ==
    ASSUME TypeOK, ReachInv, Replace
    PROVE  ReachInv'
<1>1. UNCHANGED <<http, session, shown>>
  BY DEF Replace, reader
<1>2. CASE Now' = Now
  <2>1. clock' = clock
    BY <1>2 DEF Replace, Now
  <2>. QED
    BY <1>1, <1>2, <2>1 DEF ReachInv, HttpDated, SessionDated, LoadedDated, ReachesReader, Now
<1>3. CASE Now' # Now
  <2>1. clock'.change = 0 /\ clock'.load = Unseen
    BY <1>3 DEF Replace, Now, NewClock
  <2>2. http.age >= 0 /\ session.age + MaxAge + Revalidate > 0
    BY Ages, AgeCapType
  <2>3. ~ (Unseen > MaxAge) /\ ~ (0 >= 2 * MaxAge + Revalidate) /\ 0 # Unseen
    BY AgeCapType DEF Unseen
  <2>. QED
    BY <1>1, <2>1, <2>2, <2>3 DEF ReachInv, HttpDated, SessionDated, LoadedDated, ReachesReader
<1>. QED  BY <1>2, <1>3

\* Old enough for the bounds of ReachesReader.
LateEnough == clock.load > MaxAge \/ clock.change >= 2 * MaxAge + Revalidate

\* An answer since changed is no longer kept by then in the session, nor by HTTP.
LEMMA LateSession ==
    ASSUME TypeOK, ReachInv, InSession, LateEnough
    PROVE  session.answer = Now
<1>. SUFFICES ASSUME session.answer # Now PROVE FALSE
  OBVIOUS
<1>1. session # Empty /\ session.age <= MaxAge
  BY DEF InSession
<1>2. CASE clock.load > MaxAge
  <2>1. session.age >= clock.load
    BY <1>1, <1>2, AgeCapType DEF ReachInv, LoadedDated, Unseen
  <2>. QED  BY <1>1, <1>2, <2>1, Ages, AgeCapType DEF Ticks, Unseen
<1>3. CASE clock.change >= 2 * MaxAge + Revalidate
  <2>1. session.age + MaxAge + Revalidate > clock.change
    BY <1>1 DEF ReachInv, SessionDated
  <2>. QED  BY <1>1, <1>3, <2>1, Ages, AgeCapType DEF Ticks, Unseen
<1>. QED  BY <1>2, <1>3 DEF LateEnough

LEMMA LateHttp ==
    ASSUME TypeOK, ReachInv, Reusable, LateEnough
    PROVE  http.answer = Now
<1>. SUFFICES ASSUME http.answer # Now PROVE FALSE
  OBVIOUS
<1>1. http # Empty /\ http.age < MaxAge + Revalidate /\ http.age >= clock.change
  BY DEF Reusable, ReachInv, HttpDated
<1>2. clock.load = Unseen
  BY DEF ReachInv, LoadedDated
<1>3. clock.change >= 2 * MaxAge + Revalidate
  BY <1>2, AgeCapType DEF LateEnough, Unseen
<1>. QED  BY <1>1, <1>3, Ages, AgeCapType DEF Ticks, Unseen

LEMMA ViewCachedReaches ==
    ASSUME TypeOK, ReachInv, ViewCached
    PROVE  ReachInv'
<1>1. UNCHANGED <<http, session, clock, table>> /\ shown' = session.answer /\ InSession
  BY DEF ViewCached, Show
<1>2. LateEnough => session.answer = Now
  BY <1>1, LateSession
<1>. QED
  BY <1>1, <1>2 DEF ReachInv, HttpDated, SessionDated, LoadedDated, ReachesReader, LateEnough, Now

\* An answer that has changed since is shown only while HTTP may reuse it.
LEMMA ShownReaches ==
    ASSUME TypeOK, ReachInv, NEW answer, ShowAndKeep(answer),
           answer = Now \/ (answer = http.answer /\ Reusable),
           Answered \/ UNCHANGED <<http, clock>>
    PROVE  ReachInv'
<1>1. /\ shown' = answer /\ session'.answer = answer /\ session'.age = 0
      /\ table' = table /\ Now' = Now
  BY DEF ShowAndKeep, Show, Stored, Now
<1>2. clock'.change = clock.change
  BY Ages DEF Answered
<1>3. \/ UNCHANGED <<http, clock>>
      \/ /\ http'.answer = Now
         /\ clock'.load = IF clock.load = Unseen THEN 0 ELSE clock.load
  BY Ages DEF Answered, Stored, Now
<1>4. HttpDated'
  BY <1>1, <1>2, <1>3 DEF ReachInv, HttpDated
<1>5. answer # Now => clock.load = Unseen /\ clock.change < MaxAge + Revalidate
  <2>1. SUFFICES ASSUME answer # Now PROVE clock.load = Unseen /\ clock.change < MaxAge + Revalidate
    OBVIOUS
  <2>2. http # Empty /\ http.answer # Now /\ http.age < MaxAge + Revalidate
    BY <2>1 DEF Reusable
  <2>3. clock.load = Unseen
    BY <2>2 DEF ReachInv, LoadedDated
  <2>4. http.age >= clock.change
    BY <2>2 DEF ReachInv, HttpDated
  <2>. QED  BY <2>2, <2>3, <2>4, Ages, AgeCapType DEF Ticks, Unseen
<1>6. SessionDated'
  <2>1. clock.change < MaxAge + Revalidate => 0 + MaxAge + Revalidate > clock.change
    BY Ages, AgeCapType DEF Ticks, Unseen
  <2>. QED  BY <1>1, <1>2, <1>5, <2>1 DEF SessionDated
<1>7. LoadedDated'
  <2>1. clock'.load # Unseen => http'.answer = Now
    BY <1>3 DEF ReachInv, LoadedDated
  <2>2. answer # Now /\ clock'.load # Unseen => clock'.load = 0
    BY <1>3, <1>5
  <2>. QED  BY <1>1, <2>1, <2>2 DEF LoadedDated
<1>8. ReachesReader'
  <2>1. SUFFICES ASSUME answer # Now
                 PROVE  ~ (clock'.load > MaxAge) /\ ~ (clock'.change >= 2 * MaxAge + Revalidate)
    BY <1>1 DEF ReachesReader, Now
  <2>2. clock'.load \in {Unseen, 0}
    BY <1>3, <1>5, <2>1
  <2>3. clock'.change < MaxAge + Revalidate /\ clock'.change \in Ticks
    BY <1>2, <1>5, <2>1, Ages
  <2>. QED  BY <2>2, <2>3, AgeCapType DEF Ticks, Unseen
<1>. QED  BY <1>2, <1>4, <1>6, <1>7, <1>8 DEF ReachInv

LEMMA ViewReaches ==
    ASSUME TypeOK, ReachInv, ViewFresh \/ ViewStale \/ ViewAsked
    PROVE  ReachInv'
<1>1. CASE ViewFresh
  <2>1. Reusable
    BY <1>1, Ages, AgeCapType DEF ViewFresh, Fresh, Reusable
  <2>. QED  BY <1>1, <2>1, ShownReaches DEF ViewFresh
<1>2. CASE ViewStale
  BY <1>2, ShownReaches DEF ViewStale
<1>3. CASE ViewAsked
  BY <1>3, ShownReaches DEF ViewAsked, Now
<1>. QED  BY <1>1, <1>2, <1>3

LEMMA CloseTabReaches ==
    ASSUME TypeOK, ReachInv, CloseTab
    PROVE  ReachInv'
BY DEF CloseTab, ReachInv, HttpDated, SessionDated, LoadedDated, ReachesReader, Now

LEMMA TickReaches ==
    ASSUME TypeOK, ReachInv, Tick
    PROVE  ReachInv'
<1>1. /\ http' = Older(http) /\ session' = Older(session) /\ shown' = "none" /\ table' = table
      /\ clock'.change = Later(clock.change) /\ clock'.load = Later(clock.load)
  BY Ages DEF Tick, Show
<1>2. Now' = Now /\ http \in Entries /\ session \in Entries
  BY <1>1 DEF Now, TypeOK
<1>3. clock.change \in 0..AgeCap
  BY Ages DEF ReachInv, Ticks
<1>4. clock'.change # Unseen
  BY <1>1, <1>3, AgeCapType DEF Later, Unseen
<1>5. HttpDated'
  <2>1. CASE http = Empty
    BY <1>1, <1>2, <2>1, OlderEmpty DEF HttpDated
  <2>2. CASE http # Empty /\ http.answer # Now
    <3>1. http.age >= clock.change
      BY <2>2 DEF ReachInv, HttpDated
    <3>. QED  BY <1>1, <1>2, <1>3, <2>2, <3>1, OlderStaysOlder DEF HttpDated
  <2>3. CASE http.answer = Now
    BY <1>1, <1>2, <2>3, OlderEmpty DEF HttpDated
  <2>. QED  BY <2>1, <2>2, <2>3
<1>6. SessionDated'
  <2>1. SUFFICES ASSUME session' # Empty, session'.answer # Now
                 PROVE  session'.age + MaxAge + Revalidate > clock'.change
    BY <1>2 DEF SessionDated
  <2>2. session # Empty /\ session.answer # Now
    BY <1>1, <1>2, <2>1, OlderEmpty
  <2>3. session.age + MaxAge + Revalidate > clock.change
    BY <2>2 DEF ReachInv, SessionDated
  <2>4. session'.age = IF session.age = AgeCap THEN AgeCap ELSE session.age + 1
    BY <1>1, <1>2, <2>2 DEF Older, Entries
  <2>5. clock'.change = IF clock.change = AgeCap THEN AgeCap ELSE clock.change + 1
    BY <1>1, <1>3, AgeCapType DEF Later, Unseen
  <2>. QED  BY <1>3, <2>3, <2>4, <2>5, Ages, AgeCapType
<1>7. LoadedDated'
  <2>1. CASE clock.load = Unseen
    BY <1>1, <2>1 DEF LoadedDated, Later
  <2>2. CASE clock.load # Unseen
    <3>1. clock.load \in 0..AgeCap /\ http.answer = Now
      BY <2>2, Ages DEF ReachInv, LoadedDated, Ticks
    <3>2. http'.answer = Now
      BY <1>1, <1>2, <3>1, OlderEmpty
    <3>3. ASSUME session' # Empty, session'.answer # Now
          PROVE  session'.age >= clock'.load
      <4>1. session # Empty /\ session.answer # Now
        BY <1>1, <1>2, <3>3, OlderEmpty
      <4>2. session.age >= clock.load
        BY <2>2, <4>1 DEF ReachInv, LoadedDated
      <4>. QED  BY <1>1, <1>2, <3>1, <4>1, <4>2, OlderStaysOlder
    <3>. QED  BY <1>2, <3>2, <3>3 DEF LoadedDated
  <2>. QED  BY <2>1, <2>2
<1>. QED  BY <1>1, <1>4, <1>5, <1>6, <1>7 DEF ReachInv, ReachesReader

LEMMA ReachStep == TypeOK /\ ReachInv /\ [Next]_vars => ReachInv'
<1>. SUFFICES ASSUME TypeOK, ReachInv, [Next]_vars PROVE ReachInv'
  OBVIOUS
<1>1. CASE \/ \E t \in Target : EditList(t)
           \/ \E t \in Title : Retitle(t)
           \/ \E c \in Category : Recategorise(c) \/ ReadCategory(c)
           \/ Begin \/ Classify \/ Abort \/ UNCHANGED vars
  <2>1. UNCHANGED <<table, reader, clock>>
    BY <1>1 DEF EditList, Retitle, Recategorise, ReadCategory, Begin, Classify, Abort, vars
  <2>. QED
    BY <2>1 DEF reader, ReachInv, HttpDated, SessionDated, LoadedDated, ReachesReader, Now
<1>. QED  BY <1>1, ReplaceReaches, ViewCachedReaches, ViewReaches, CloseTabReaches,
             TickReaches DEF Next

\* However long the browser may reuse an answer and show it while it asks for another,
\* and whichever of those requests are lost, a page opted out, or opted in again,
\* reaches the reader: MaxAge after the API first gave the browser the changed answer,
\* and in any case when the change is 2 * MaxAge + Revalidate old, every view, from
\* either cache or from the API, shows the policy that the table holds.
THEOREM ChangesReach == Spec => []ReachesReader
<1>1. Init => ReachInv
  BY PolicyAnswers, AgeCapType
  DEF Init, ReachInv, HttpDated, SessionDated, LoadedDated, ReachesReader, NewClock, Unseen
<1>2. ReachInv => ReachesReader
  BY DEF ReachInv
<1>. QED  BY <1>1, <1>2, InitType, NextType, ReachStep, PTL DEF Spec
=============================================================================
