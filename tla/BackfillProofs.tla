---------------------------- MODULE BackfillProofs ----------------------------
(***************************************************************************)
(* Theorems about Backfill, for any wikis, page tables, batch sizes and    *)
(* numbers of runs, edits, restarts and failures.                          *)
(***************************************************************************)
EXTENDS Backfill, TLAPS

Counters == {edits, restarts, failures} \subseteq Nat
Lengths == length \in [Wiki -> [Page -> {Absent} \cup 0..MaxLength]] /\ replica \in BOOLEAN
Histories == /\ handed \in [Wiki -> [Mode -> [Page -> Nat]]]
             /\ still \in [Wiki -> [Mode -> SUBSET Page]]
Cursors == cursor \in [Wiki -> [Mode -> Cursor]]

\* A run in progress is at a wiki; between reading and storing a cursor it has at
\* least one batch left.  The second is what makes TypeOK inductive.
Placed(r) == /\ r \in Run
             /\ r.phase # "none" => r.wiki \in Wiki
             /\ r.phase \in {"fetch", "queue"} => r.left >= 1
Runs == run \in [Job -> Run] /\ \A j \in Job : Placed(run[j])

TypeInv == Lengths /\ Counters /\ Histories /\ Cursors /\ Runs

-----------------------------------------------------------------------------
(* Keys, cursors and runs.                                                 *)

LEMMA Constants ==
    /\ LastWiki \in Nat /\ MaxLength \in Nat /\ MaxFailures \in Nat
    /\ BatchSize \in Nat \ {0} /\ Batches \in Nat \ {0} /\ Page \subseteq Nat
    /\ Wiki \subseteq 1..(LastWiki + 1) /\ 1 \in 1..(LastWiki + 1)
    /\ Start \in Cursor /\ Complete \in Cursor
<1>1. {LastWiki, MaxLength, MaxFailures} \subseteq Nat /\ Page \subseteq Nat
  BY BackfillAssumption
<1>2. BatchSize \in Nat \ {0} /\ Batches \in Nat \ {0}
  BY BackfillAssumption
<1>3. Wiki \subseteq 1..(LastWiki + 1) /\ 1 \in 1..(LastWiki + 1)
  BY <1>1 DEF Wiki
<1>4. Start \in Cursor /\ Complete \in Cursor
  BY DEF Cursor
<1>. QED  BY <1>1, <1>2, <1>3, <1>4

LEMMA KeyTypes ==
    ASSUME Lengths, NEW w \in Wiki, NEW m \in Mode, NEW p \in Listed(w)
    PROVE  KeyOf(m, w, p) \in Key /\ KeyOf(m, w, p)[2] = p
<1>1. p \in Page /\ length[w][p] \in 0..MaxLength
  BY DEF Listed, Lengths
<1>. QED  BY <1>1, Constants DEF KeyOf, Key

LEMMA BarePlaced ==
    ASSUME NEW phase \in {"none", "wiki", "reset"}, NEW w \in 1..(LastWiki + 1), NEW m \in Mode,
           phase # "none" => w \in Wiki
    PROVE  Placed(Bare(phase, w, m))
BY Constants DEF Placed, Bare, Run, Phases

LEMMA ReachPlaced ==
    ASSUME NEW m \in Mode, NEW w \in 1..(LastWiki + 1)
    PROVE  Placed(Reach(m, w))
<1>1. "length" \in Mode
  BY DEF Mode
<1>2. w <= LastWiki => w \in Wiki
  BY Constants DEF Wiki
<1>. QED  BY <1>1, <1>2, BarePlaced, Constants DEF Reach, NoRun

\* What a step makes of a run.
LEMMA PlacedBy ==
    ASSUME NEW r \in Run, r.wiki \in Wiki, r.phase \in {"fetch", "queue"} => r.left >= 1
    PROVE  Placed(r)
BY DEF Placed

LEMMA CountedPlaced ==
    ASSUME NEW r \in Run, r.wiki \in Wiki, r.phase = "reset"
    PROVE  Placed([r EXCEPT !.left = 1])
<1>1. [r EXCEPT !.left = 1] \in Run
  BY Constants DEF Run, Phases
<1>. QED  BY <1>1, PlacedBy, Constants DEF Run

LEMMA NextWikiPlaced ==
    ASSUME NEW r \in Run, r.wiki \in Wiki, r.phase = "reset",
           NEW l \in 0..Batches, NEW w \in 1..(LastWiki + 1), w \in Wiki
    PROVE  Placed([r EXCEPT !.left = l, !.wiki = w])
<1>1. [r EXCEPT !.left = l, !.wiki = w] \in Run
  BY Constants DEF Run, Phases
<1>. QED  BY <1>1, PlacedBy, Constants DEF Run

LEMMA FetchPlaced ==
    ASSUME NEW r \in Run, r.wiki \in Wiki, NEW l \in 0..Batches, l >= 1, NEW c \in Cursor
    PROVE  Placed([r EXCEPT !.phase = "fetch", !.left = l, !.at = c])
<1>1. [r EXCEPT !.phase = "fetch", !.left = l, !.at = c] \in Run
  BY Constants DEF Run, Phases
<1>. QED  BY <1>1, PlacedBy, Constants DEF Run

LEMMA AgainPlaced ==
    ASSUME NEW r \in Run, r.wiki \in Wiki, NEW l \in 0..Batches, l >= 1,
           NEW c \in Cursor, NEW d \in Cursor
    PROVE  Placed([r EXCEPT !.phase = "fetch", !.left = l, !.at = c, !.next = d])
<1>1. [r EXCEPT !.phase = "fetch", !.left = l, !.at = c, !.next = d] \in Run
  BY Constants DEF Run, Phases
<1>. QED  BY <1>1, PlacedBy, Constants DEF Run

LEMMA QueuePlaced ==
    ASSUME NEW r \in Run, r.wiki \in Wiki, r.left >= 1, NEW B \in SUBSET Key, NEW c \in Cursor
    PROVE  Placed([r EXCEPT !.phase = "queue", !.rows = B, !.next = c])
<1>1. [r EXCEPT !.phase = "queue", !.rows = B, !.next = c] \in Run
  BY Constants DEF Run, Phases
<1>. QED  BY <1>1, PlacedBy, Constants DEF Run

LEMMA RowsPlaced ==
    ASSUME NEW r \in Run, r.wiki \in Wiki, r.left >= 1, NEW B \in SUBSET Key
    PROVE  Placed([r EXCEPT !.rows = B])
<1>1. [r EXCEPT !.rows = B] \in Run
  BY Constants DEF Run, Phases
<1>. QED  BY <1>1, PlacedBy, Constants DEF Run

LEMMA RunsStep ==
    ASSUME Runs, NEW j \in Job, NEW new, Placed(new), run' = [run EXCEPT ![j] = new]
    PROVE  Runs'
BY DEF Runs, Placed

-----------------------------------------------------------------------------
(* Types.                                                                  *)

LEMMA InitTypes == Init => TypeInv
<1>. SUFFICES ASSUME Init PROVE TypeInv
  OBVIOUS
<1>1. Runs
  BY BarePlaced, Constants DEF Init, Runs, Placed, NoRun, Mode
<1>2. Lengths /\ Counters /\ Histories /\ Cursors
  BY BackfillAssumption, Constants DEF Init, Lengths, Counters, Histories, Listed, Cursors
<1>. QED  BY <1>1, <1>2 DEF TypeInv

LEMMA RunAt ==
    ASSUME Runs, NEW j \in Job
    PROVE  /\ run[j] \in Run /\ run[j].mode \in Mode /\ run[j].at \in Cursor
           /\ run[j].next \in Cursor /\ run[j].rows \subseteq Key /\ run[j].left \in 0..Batches
           /\ run[j].phase # "none" => /\ run[j].wiki \in Wiki
                                       /\ run[j].wiki + 1 \in 1..(LastWiki + 1)
           /\ run[j].phase \in {"fetch", "queue"} => run[j].left >= 1
BY Constants DEF Runs, Placed, Run, Wiki

LEMMA BeginTypes ==
    ASSUME TypeInv, NEW j \in Job, Begin(j) \/ BeginRestart(j)
    PROVE  TypeInv'
<1>1. Source \in Mode /\ 1 \in Wiki
  BY Constants DEF Source, Mode, Wiki, Begin, BeginRestart
<1>2. Runs'
  BY <1>1, RunsStep, ReachPlaced, BarePlaced, Constants DEF Begin, BeginRestart, TypeInv
<1>3. Lengths' /\ Counters' /\ Histories' /\ Cursors'
  BY DEF TypeInv, Begin, BeginRestart, World, Lengths, Counters, Histories, Cursors
<1>. QED  BY <1>2, <1>3 DEF TypeInv

LEMMA ResetTypes ==
    ASSUME TypeInv, NEW j \in Job, Reset(j)
    PROVE  TypeInv'
<1>. DEFINE r == run[j]
            m == IF r.left = 0 THEN "title" ELSE "length"
<1>1. r \in Run /\ r.wiki \in Wiki /\ m \in Mode /\ r.mode \in Mode /\ r.phase = "reset"
  BY RunAt DEF TypeInv, Reset, Mode
<1>2. Placed([r EXCEPT !.left = 1])
  BY <1>1, CountedPlaced
<1>3. r.wiki < LastWiki => Placed([r EXCEPT !.left = 0, !.wiki = r.wiki + 1])
  <2>1. r.wiki < LastWiki => r.wiki + 1 \in 1..(LastWiki + 1) /\ r.wiki + 1 \in Wiki
    BY <1>1, Constants DEF Wiki
  <2>2. 0 \in 0..Batches
    BY Constants
  <2>. QED  BY <1>1, <2>1, <2>2, NextWikiPlaced
<1>4. Placed(Reach(r.mode, 1))
  BY <1>1, ReachPlaced, Constants
<1>5. Runs'
  BY <1>2, <1>3, <1>4, RunsStep DEF TypeInv, Reset
<1>6. Cursors'
  BY <1>1, Constants DEF TypeInv, Reset, Cursors
<1>7. Histories'
  <2>1. handed' = [handed EXCEPT ![r.wiki][m] = [p \in Page |-> 0]]
    BY DEF Reset
  <2>2. still' = [still EXCEPT ![r.wiki][m] = Listed(r.wiki)] /\ Listed(r.wiki) \subseteq Page
    BY DEF Reset, Listed
  <2>. QED  BY <1>1, <2>1, <2>2 DEF TypeInv, Histories
<1>8. Lengths' /\ Counters'
  BY DEF TypeInv, Reset, World, Lengths, Counters
<1>. QED  BY <1>5, <1>6, <1>7, <1>8 DEF TypeInv

LEMMA OpenTypes ==
    ASSUME TypeInv, NEW j \in Job, Open(j)
    PROVE  TypeInv'
<1>. DEFINE r == run[j]
            c == cursor[r.wiki][r.mode]
<1>1. /\ r \in Run /\ r.wiki \in Wiki /\ r.mode \in Mode /\ r.wiki + 1 \in 1..(LastWiki + 1)
      /\ c \in Cursor
  BY RunAt DEF TypeInv, Open, Cursors
<1>2. Placed([r EXCEPT !.phase = "fetch", !.left = Batches, !.at = c])
  <2>1. Batches \in 0..Batches /\ Batches >= 1
    BY Constants
  <2>. QED  BY <1>1, <2>1, FetchPlaced
<1>3. Placed(Reach(r.mode, r.wiki + 1))
  BY <1>1, ReachPlaced
<1>4. Runs'
  BY <1>2, <1>3, RunsStep DEF TypeInv, Open
<1>5. Lengths' /\ Counters' /\ Histories' /\ Cursors'
  BY DEF TypeInv, Open, World, Lengths, Counters, Histories, Cursors
<1>. QED  BY <1>4, <1>5 DEF TypeInv

\* What the three sources of a batch have in common.
LEMMA RemainingKeys ==
    ASSUME Lengths, NEW w \in Wiki, NEW m \in Mode, NEW c
    PROVE  Remaining(m, w, c) \subseteq Key
BY KeyTypes DEF Remaining

LEMMA GotTypes ==
    ASSUME TypeInv, NEW j \in Job, FetchByLength(j) \/ FetchByTitle(j)
    PROVE  TypeInv'
<1>. DEFINE r == run[j]
            S == Remaining(r.mode, r.wiki, r.at)
<1>1. /\ r \in Run /\ r.wiki \in Wiki /\ r.mode \in Mode /\ r.left >= 1 /\ S \subseteq Key
      /\ r.phase = "fetch"
  BY RunAt, RemainingKeys DEF TypeInv, FetchByLength, FetchByTitle
<1>2. PICK B \in SUBSET S, c \in {Complete} \cup S : Got(j, B, c)
  <2>1. CASE FetchByLength(j)
    <3>1. PICK B \in FirstOf("length", S) : \E c \in LengthCursors(B) : Got(j, B, c)
      BY <2>1 DEF FetchByLength
    <3>2. B \in SUBSET S /\ LengthCursors(B) \subseteq {Complete} \cup B
      BY <3>1 DEF FirstOf, LengthCursors
    <3>. QED  BY <3>1, <3>2
  <2>2. CASE FetchByTitle(j)
    <3>1. PICK B \in FirstOf("title", S) : \E c \in TitleCursors(B, S) : Got(j, B, c)
      BY <2>2 DEF FetchByTitle
    <3>2. B \in SUBSET S /\ TitleCursors(B, S) \subseteq {Complete} \cup S
      BY <3>1 DEF FirstOf, TitleCursors
    <3>. QED  BY <3>1, <3>2
  <2>. QED  BY <2>1, <2>2
<1>3. B \in SUBSET Key /\ c \in Cursor
  BY <1>1, <1>2, Constants DEF Cursor
<1>4. Placed([r EXCEPT !.phase = "queue", !.rows = B, !.next = c])
  BY <1>1, <1>3, QueuePlaced
<1>5. Runs'
  BY <1>2, <1>4, RunsStep DEF TypeInv, Got
<1>6. Lengths' /\ Counters' /\ Histories' /\ Cursors'
  BY <1>2 DEF TypeInv, Got, World, Lengths, Counters, Histories, Cursors
<1>. QED  BY <1>5, <1>6 DEF TypeInv

LEMMA HandTypes ==
    ASSUME TypeInv, NEW j \in Job, Hand(j)
    PROVE  TypeInv'
<1>. DEFINE r == run[j]
<1>1. /\ r \in Run /\ r.wiki \in Wiki /\ r.mode \in Mode /\ r.left >= 1 /\ r.rows \subseteq Key
  BY RunAt DEF TypeInv, Hand
<1>2. PICK k \in r.rows : /\ run' = [run EXCEPT ![j] = [r EXCEPT !.rows = @ \ {k}]]
                          /\ handed' = [handed EXCEPT ![r.wiki][r.mode][k[2]] = Count(@)]
  BY DEF Hand
<1>3. Placed([r EXCEPT !.rows = r.rows \ {k}])
  BY <1>1, RowsPlaced
<1>4. Runs'
  BY <1>2, <1>3, RunsStep DEF TypeInv
<1>5. \A n \in Nat : Count(n) \in Nat
  BY DEF Count
<1>6. k[2] \in Page
  BY <1>1, <1>2 DEF Key
<1>7. handed' \in [Wiki -> [Mode -> [Page -> Nat]]]
  <2>1. handed[r.wiki][r.mode] \in [Page -> Nat] /\ Count(handed[r.wiki][r.mode][k[2]]) \in Nat
    BY <1>1, <1>5, <1>6 DEF TypeInv, Histories
  <2>2. [handed[r.wiki][r.mode] EXCEPT ![k[2]] = Count(@)] \in [Page -> Nat]
    BY <1>6, <2>1
  <2>. QED  BY <1>1, <1>2, <2>2 DEF TypeInv, Histories
<1>8. Lengths' /\ Counters' /\ Histories' /\ Cursors'
  BY <1>7 DEF TypeInv, Hand, World, Lengths, Counters, Histories, Cursors
<1>. QED  BY <1>4, <1>8 DEF TypeInv

LEMMA StoreTypes ==
    ASSUME TypeInv, NEW j \in Job, Store(j)
    PROVE  TypeInv'
<1>. DEFINE r == run[j]
<1>1. /\ r \in Run /\ r.wiki \in Wiki /\ r.mode \in Mode /\ r.left >= 1 /\ r.left \in 0..Batches
      /\ r.wiki + 1 \in 1..(LastWiki + 1) /\ r.next \in Cursor
  BY RunAt DEF TypeInv, Store
<1>2. r.left # 1 =>
         Placed([r EXCEPT !.phase = "fetch", !.left = r.left - 1, !.at = r.next, !.next = Start])
  <2>1. r.left # 1 => r.left - 1 \in 0..Batches /\ r.left - 1 >= 1
    BY <1>1, Constants
  <2>. QED  BY <1>1, <2>1, AgainPlaced, Constants
<1>3. Placed(Reach(r.mode, r.wiki + 1))
  BY <1>1, ReachPlaced
<1>4. Runs'
  BY <1>2, <1>3, RunsStep DEF TypeInv, Store
<1>5. Cursors'
  BY <1>1 DEF TypeInv, Store, Stored, Cursors
<1>6. Lengths' /\ Counters' /\ Histories'
  BY DEF TypeInv, Store, World, Lengths, Counters, Histories
<1>. QED  BY <1>4, <1>5, <1>6 DEF TypeInv

LEMMA EndTypes ==
    ASSUME TypeInv, NEW j \in Job, ReplicaDown(j) \/ Die(j)
    PROVE  TypeInv'
<1>1. Placed(NoRun)
  BY BarePlaced, Constants DEF NoRun, Mode
<1>2. Runs'
  BY <1>1, RunsStep DEF TypeInv, ReplicaDown, Die
<1>3. Lengths' /\ Counters' /\ Histories' /\ Cursors'
  BY DEF TypeInv, ReplicaDown, Die, World, Lengths, Counters, Histories, Cursors
<1>. QED  BY <1>2, <1>3 DEF TypeInv

LEMMA WorldTypes ==
    ASSUME TypeInv,
           \/ \E w \in Wiki, p \in Page, l \in {Absent} \cup 0..MaxLength : Edit(w, p, l)
           \/ Configure
    PROVE  TypeInv'
<1>1. ASSUME NEW w \in Wiki, NEW p \in Page, NEW l \in {Absent} \cup 0..MaxLength, Edit(w, p, l)
      PROVE  TypeInv'
  <2>1. Lengths'
    BY <1>1 DEF TypeInv, Edit, Lengths
  <2>2. Histories'
    <3>. DEFINE rest == [m \in Mode |-> IF m = "length" \/ l = Absent
                                        THEN still[w][m] \ {p} ELSE still[w][m]]
    <3>1. rest \in [Mode -> SUBSET Page]
      BY DEF TypeInv, Histories
    <3>2. still' = [still EXCEPT ![w] = rest]
      BY <1>1 DEF Edit
    <3>. HIDE DEF rest
    <3>. QED  BY <1>1, <3>1, <3>2 DEF TypeInv, Histories, Edit
  <2>3. Counters' /\ Cursors' /\ Runs'
    BY <1>1 DEF TypeInv, Edit, Counters, Cursors, Runs, Placed
  <2>. QED  BY <2>1, <2>2, <2>3 DEF TypeInv
<1>2. CASE Configure
  BY <1>2 DEF Configure, TypeInv, Lengths, Counters, Histories, Cursors, Runs, Placed
<1>. QED  BY <1>1, <1>2

LEMMA TypesInductive == TypeInv /\ [Next]_vars => TypeInv'
<1>. SUFFICES ASSUME TypeInv, [Next]_vars PROVE TypeInv'
  OBVIOUS
<1>1. CASE Next
  BY <1>1, BeginTypes, ResetTypes, OpenTypes, GotTypes, HandTypes, StoreTypes, EndTypes,
     WorldTypes DEF Next, Go
<1>2. CASE UNCHANGED vars
  BY <1>2 DEF vars, TypeInv, Lengths, Counters, Histories, Cursors, Runs, Placed
<1>. QED  BY <1>1, <1>2

\* Whatever the wikis hold and however often a run dies or is restarted, every
\* table and every run of the backfill keeps its type, and a run in progress is
\* at one of the wikis.
THEOREM BackfillTyped == Spec => []TypeOK
<1>1. TypeInv => TypeOK
  BY DEF TypeInv, Lengths, Counters, Histories, Cursors, Runs, Placed, TypeOK
<1>. QED  BY <1>1, InitTypes, TypesInductive, PTL DEF Spec

-----------------------------------------------------------------------------
(* Nothing is skipped.                                                     *)

\* What a walk that stands at c has not handed over yet of what it passed is in R.
Owes(w, m, c, R) ==
    \A p \in still[w][m] : Passed(m, c, KeyOf(m, w, p)) => Met(w, m, p) \/ KeyOf(m, w, p) \in R

CursorsOwe == \A w \in Wiki, m \in Mode : Owes(w, m, cursor[w][m], {})

JobOwes(r) == /\ r.phase = "fetch" => Owes(r.wiki, r.mode, r.at, {})
              /\ r.phase = "queue" => Owes(r.wiki, r.mode, r.next, r.rows)
JobsOwe == \A j \in Job : JobOwes(run[j])

StillListed == \A w \in Wiki, m \in Mode : still[w][m] \subseteq Listed(w)

\* A run that empties the cursors is the only one.
ResetAlone == \A j, k \in Job : run[j].phase = "reset" /\ k # j => run[k].phase = "none"

SkipInv == CursorsOwe /\ JobsOwe /\ StillListed /\ ResetAlone

\* What stood still has its place, and what was met stays met.
Kept == \A w \in Wiki, m \in Mode :
            \A p \in still'[w][m] : /\ p \in still[w][m]
                                    /\ KeyOf(m, w, p)' = KeyOf(m, w, p)
                                    /\ Met(w, m, p) => Met(w, m, p)'

LEMMA OwesKept ==
    ASSUME Kept, NEW w \in Wiki, NEW m \in Mode, NEW c, NEW R, Owes(w, m, c, R)
    PROVE  Owes(w, m, c, R)'
BY DEF Kept, Owes

LEMMA SameKept ==
    ASSUME UNCHANGED <<length, handed, still>>
    PROVE  Kept
BY DEF Kept, KeyOf, Met

\* A step of one run, as the others see it.
LEMMA JobsStep ==
    ASSUME TypeInv, SkipInv, Kept, NEW j \in Job, NEW new,
           run' = [run EXCEPT ![j] = new],
           new.phase = "fetch" => Owes(new.wiki, new.mode, new.at, {})',
           new.phase = "queue" => Owes(new.wiki, new.mode, new.next, new.rows)',
           new.phase # "none" /\ run[j].phase = "none" =>
               \A k \in Others(j) : run[k].phase # "reset",
           new.phase = "reset" /\ run[j].phase # "reset" =>
               \A k \in Others(j) : run[k].phase = "none"
    PROVE  JobsOwe' /\ ResetAlone'
<1>1. run \in [Job -> Run] /\ run'[j] = new /\ \A k \in Job : k # j => run'[k] = run[k]
  BY DEF TypeInv, Runs
<1>2. ResetAlone'
  BY <1>1 DEF SkipInv, ResetAlone, Others
<1>3. ASSUME NEW k \in Job PROVE JobOwes(run[k])'
  <2>1. CASE k = j
    BY <1>1, <2>1 DEF JobOwes, Owes
  <2>2. CASE k # j
    <3>1. PICK r \in Run : r = run[k] /\ r = run'[k]
      BY <1>1, <2>2
    <3>2. JobOwes(r) /\ (r.phase # "none" => r.wiki \in Wiki /\ r.mode \in Mode)
      BY <3>1, RunAt DEF TypeInv, SkipInv, JobsOwe
    <3>3. r.phase = "fetch" => Owes(r.wiki, r.mode, r.at, {})'
      BY <3>2, OwesKept DEF JobOwes
    <3>4. r.phase = "queue" => Owes(r.wiki, r.mode, r.next, r.rows)'
      BY <3>2, OwesKept DEF JobOwes, Owes
    <3>. QED  BY <3>1, <3>3, <3>4 DEF JobOwes, Owes
  <2>. QED  BY <2>1, <2>2
<1>. QED  BY <1>2, <1>3 DEF JobsOwe

\* A step that only changes what one run holds.
LEMMA QuietStep ==
    ASSUME TypeInv, SkipInv, UNCHANGED <<length, cursor, handed, still>>,
           NEW j \in Job, NEW new, run' = [run EXCEPT ![j] = new], JobOwes(new),
           new.phase # "none" /\ run[j].phase = "none" =>
               \A k \in Others(j) : run[k].phase # "reset",
           new.phase = "reset" /\ run[j].phase # "reset" =>
               \A k \in Others(j) : run[k].phase = "none"
    PROVE  SkipInv'
<1>1. Kept
  BY SameKept
<1>2. \A w \in Wiki, m \in Mode : \A c, R : Owes(w, m, c, R) => Owes(w, m, c, R)'
  BY DEF Owes, Met, KeyOf
<1>3. CursorsOwe'
  BY <1>2 DEF SkipInv, CursorsOwe
<1>4. StillListed'
  BY DEF SkipInv, StillListed, Listed
<1>5. /\ new.phase = "fetch" => Owes(new.wiki, new.mode, new.at, {})'
      /\ new.phase = "queue" => Owes(new.wiki, new.mode, new.next, new.rows)'
  BY DEF JobOwes, Owes, Met, KeyOf
<1>6. JobsOwe' /\ ResetAlone'
  BY <1>1, <1>5, JobsStep
<1>. QED  BY <1>3, <1>4, <1>6 DEF SkipInv

\* A run without a batch owes nothing.
LEMMA BareOwesNothing ==
    ASSUME NEW phase \in {"none", "wiki", "reset"}, NEW w, NEW m
    PROVE  JobOwes(Bare(phase, w, m)) /\ Bare(phase, w, m).phase = phase
BY DEF JobOwes, Bare

LEMMA ReachOwesNothing ==
    ASSUME NEW m, NEW w
    PROVE  JobOwes(Reach(m, w)) /\ Reach(m, w).phase \in {"none", "wiki"}
BY BareOwesNothing DEF Reach, NoRun

\* Nobody restarts the walk while another run goes on.
RestartsAlone == ~OverlappingRestart \/ \A j, k \in Job : j = k

LEMMA BeginSkips ==
    ASSUME TypeInv, SkipInv, RestartsAlone, NEW j \in Job, Begin(j) \/ BeginRestart(j)
    PROVE  SkipInv'
<1>1. CASE Begin(j)
  <2>1. PICK new : new = Reach(Source, 1)
    OBVIOUS
  <2>2. JobOwes(new) /\ new.phase \in {"none", "wiki"}
    BY <2>1, ReachOwesNothing
  <2>3. \A k \in Others(j) : run[k].phase # "reset"
    BY <1>1 DEF Begin, RestartsAlone, Others
  <2>. QED  BY <1>1, <2>1, <2>2, <2>3, QuietStep DEF Begin, World
<1>2. CASE BeginRestart(j)
  <2>1. PICK new : new = Bare("reset", 1, Source)
    OBVIOUS
  <2>2. JobOwes(new) /\ new.phase = "reset"
    BY <2>1, BareOwesNothing
  <2>3. \A k \in Others(j) : run[k].phase = "none"
    BY <1>2 DEF BeginRestart, RestartsAlone, Others
  <2>. QED  BY <1>2, <2>1, <2>2, <2>3, QuietStep DEF BeginRestart, World
<1>. QED  BY <1>1, <1>2

LEMMA EndSkips ==
    ASSUME TypeInv, SkipInv, NEW j \in Job, ReplicaDown(j) \/ Die(j)
    PROVE  SkipInv'
<1>1. JobOwes(NoRun) /\ NoRun.phase = "none"
  BY BareOwesNothing DEF NoRun
<1>. QED  BY <1>1, QuietStep DEF ReplicaDown, Die, World

LEMMA OpenSkips ==
    ASSUME TypeInv, SkipInv, NEW j \in Job, Open(j)
    PROVE  SkipInv'
<1>1. PICK r \in Run : r = run[j]
  BY RunAt DEF TypeInv
<1>2. PICK c : c = cursor[r.wiki][r.mode]
  OBVIOUS
<1>3. r.wiki \in Wiki /\ r.mode \in Mode /\ r.phase = "wiki"
  BY <1>1, RunAt DEF TypeInv, Open
<1>4. Owes(r.wiki, r.mode, c, {})
  BY <1>2, <1>3 DEF SkipInv, CursorsOwe
<1>5. PICK new : new = IF c = Complete THEN Reach(r.mode, r.wiki + 1)
                       ELSE [r EXCEPT !.phase = "fetch", !.left = Batches, !.at = c]
  OBVIOUS
<1>6. JobOwes(new) /\ new.phase \in {"none", "wiki", "fetch"}
  <2>1. CASE c = Complete
    BY <1>5, <2>1, ReachOwesNothing
  <2>2. CASE c # Complete
    <3>1. new.phase = "fetch" /\ new.wiki = r.wiki /\ new.mode = r.mode /\ new.at = c
      BY <1>5, <2>2 DEF Run
    <3>. QED  BY <1>4, <3>1 DEF JobOwes
  <2>. QED  BY <2>1, <2>2
<1>7. run' = [run EXCEPT ![j] = new] /\ UNCHANGED <<length, cursor, handed, still>>
  BY <1>1, <1>2, <1>5 DEF Open, World
<1>. QED  BY <1>1, <1>3, <1>6, <1>7, QuietStep

\* A row left out of a batch is ahead of the cursor that the batch leaves.
LEMMA LengthAhead ==
    ASSUME NEW S \in SUBSET Key, NEW B \in FirstOf("length", S), NEW c \in LengthCursors(B),
           NEW k \in S \ B
    PROVE  Ahead("length", c, k)
<1>1. Cardinality(B) = BatchSize /\ \A b \in B : Before("length", b, k)
  BY DEF FirstOf
<1>2. c \in B
  BY <1>1, Constants DEF LengthCursors
<1>. QED  BY <1>1, <1>2 DEF Ahead, FirstOf

LEMMA TitleAhead ==
    ASSUME NEW S \in SUBSET Key, NEW B \in FirstOf("title", S), NEW c \in TitleCursors(B, S),
           NEW k \in S \ B
    PROVE  Ahead("title", c, k)
<1>1. c \in Key /\ (k = c \/ Before("title", c, k))
  BY DEF TitleCursors, FirstOf
<1>2. k[2] \in Nat /\ c[2] \in Nat
  BY <1>1, Constants DEF Key
<1>. QED  BY <1>1, <1>2 DEF Ahead, Before

LEMMA GotSkips ==
    ASSUME TypeInv, SkipInv, NEW j \in Job, FetchByLength(j) \/ FetchByTitle(j)
    PROVE  SkipInv'
<1>1. PICK r \in Run : r = run[j]
  BY RunAt DEF TypeInv
<1>2. PICK S : S = Remaining(r.mode, r.wiki, r.at)
  OBVIOUS
<1>3. /\ r.wiki \in Wiki /\ r.mode \in Mode /\ r.phase = "fetch"
      /\ Owes(r.wiki, r.mode, r.at, {}) /\ S \in SUBSET Key
  BY <1>1, <1>2, RunAt, RemainingKeys
     DEF TypeInv, FetchByLength, FetchByTitle, SkipInv, JobsOwe, JobOwes
<1>4. PICK B, c : Got(j, B, c) /\ \A k \in S \ B : Ahead(r.mode, c, k)
  <2>1. CASE FetchByLength(j)
    BY <1>1, <1>2, <1>3, <2>1, LengthAhead DEF FetchByLength
  <2>2. CASE FetchByTitle(j)
    BY <1>1, <1>2, <1>3, <2>2, TitleAhead DEF FetchByTitle
  <2>. QED  BY <2>1, <2>2
<1>5. Owes(r.wiki, r.mode, c, B)
  <2>. SUFFICES ASSUME NEW p \in still[r.wiki][r.mode],
                       Passed(r.mode, c, KeyOf(r.mode, r.wiki, p))
                PROVE  Met(r.wiki, r.mode, p) \/ KeyOf(r.mode, r.wiki, p) \in B
    BY DEF Owes
  <2>. DEFINE k == KeyOf(r.mode, r.wiki, p)
  <2>1. k \notin S \ B
    BY <1>4 DEF Passed
  <2>2. CASE k \in S
    BY <2>1, <2>2
  <2>3. CASE k \notin S
    <3>1. p \in Listed(r.wiki)
      BY <1>3 DEF SkipInv, StillListed
    <3>2. ~Ahead(r.mode, r.at, k)
      BY <1>2, <2>3, <3>1 DEF Remaining
    <3>3. Passed(r.mode, r.at, k)
      BY <3>2 DEF Passed, Ahead
    <3>. QED  BY <1>3, <3>3 DEF Owes
  <2>. QED  BY <2>2, <2>3
<1>6. PICK new : new = [r EXCEPT !.phase = "queue", !.rows = B, !.next = c]
  OBVIOUS
<1>7. new.phase = "queue" /\ new.wiki = r.wiki /\ new.mode = r.mode /\ new.rows = B /\ new.next = c
  BY <1>6 DEF Run
<1>8. JobOwes(new)
  BY <1>5, <1>7 DEF JobOwes
<1>9. run' = [run EXCEPT ![j] = new] /\ UNCHANGED <<length, cursor, handed, still>>
  BY <1>1, <1>4, <1>6 DEF Got, World
<1>. QED  BY <1>1, <1>3, <1>7, <1>8, <1>9, QuietStep

LEMMA HandSkips ==
    ASSUME TypeInv, SkipInv, NEW j \in Job, Hand(j)
    PROVE  SkipInv'
<1>1. PICK r \in Run : r = run[j]
  BY RunAt DEF TypeInv
<1>2. /\ r.wiki \in Wiki /\ r.mode \in Mode /\ r.phase = "queue" /\ r.rows \subseteq Key
      /\ Owes(r.wiki, r.mode, r.next, r.rows)
  BY <1>1, RunAt DEF TypeInv, Hand, SkipInv, JobsOwe, JobOwes
<1>3. PICK k \in r.rows : /\ run' = [run EXCEPT ![j] = [r EXCEPT !.rows = @ \ {k}]]
                          /\ handed' = [handed EXCEPT ![r.wiki][r.mode][k[2]] = Count(@)]
  BY <1>1 DEF Hand
<1>4. UNCHANGED <<length, cursor, still>> /\ k[2] \in Page
  BY <1>2, <1>3 DEF Hand, World, Key
<1>5. \A n \in Nat : Count(n) \in Nat /\ Count(n) > 0
  BY Constants DEF Count
<1>6. \A w \in Wiki, m \in Mode, p \in Page : Met(w, m, p) => Met(w, m, p)'
  BY <1>2, <1>3, <1>4, <1>5 DEF Met, TypeInv, Histories
<1>7. Met(r.wiki, r.mode, k[2])'
  BY <1>2, <1>3, <1>4, <1>5 DEF Met, TypeInv, Histories
<1>8. Kept
  BY <1>4, <1>6 DEF Kept, KeyOf, TypeInv, Histories
<1>9. PICK new : new = [r EXCEPT !.rows = @ \ {k}]
  OBVIOUS
<1>10. /\ new.phase = "queue" /\ new.wiki = r.wiki /\ new.mode = r.mode
       /\ new.rows = r.rows \ {k} /\ new.next = r.next
  BY <1>2, <1>9 DEF Run
<1>11. Owes(r.wiki, r.mode, r.next, r.rows \ {k})'
  <2>1. \A p \in still[r.wiki][r.mode] : KeyOf(r.mode, r.wiki, p)[2] = p /\ p \in Page
    BY <1>2, KeyTypes DEF TypeInv, Histories, SkipInv, StillListed
  <2>. QED  BY <1>2, <1>4, <1>6, <1>7, <2>1 DEF Owes, KeyOf
<1>12. JobsOwe' /\ ResetAlone'
  BY <1>1, <1>2, <1>3, <1>8, <1>9, <1>10, <1>11, JobsStep
<1>13. CursorsOwe'
  BY <1>4, <1>8, OwesKept DEF SkipInv, CursorsOwe
<1>14. StillListed'
  BY <1>4 DEF SkipInv, StillListed, Listed
<1>. QED  BY <1>12, <1>13, <1>14 DEF SkipInv

LEMMA StoreSkips ==
    ASSUME TypeInv, SkipInv, NEW j \in Job, Store(j)
    PROVE  SkipInv'
<1>1. PICK r \in Run : r = run[j]
  BY RunAt DEF TypeInv
<1>2. /\ r.wiki \in Wiki /\ r.mode \in Mode /\ r.phase = "queue" /\ r.rows = {}
      /\ Owes(r.wiki, r.mode, r.next, {})
  BY <1>1, RunAt DEF TypeInv, Store, SkipInv, JobsOwe, JobOwes
<1>3. UNCHANGED <<length, handed, still>> /\ Kept
  BY SameKept DEF Store, World
<1>4. cursor' = [cursor EXCEPT ![r.wiki][r.mode] = r.next]
  BY <1>1 DEF Store, Stored
<1>5. CursorsOwe'
  <2>. SUFFICES ASSUME NEW w \in Wiki, NEW m \in Mode PROVE Owes(w, m, cursor[w][m], {})'
    BY DEF CursorsOwe
  <2>1. PICK c : c = cursor'[w][m] /\ Owes(w, m, c, {})
    BY <1>2, <1>4 DEF SkipInv, CursorsOwe, TypeInv, Cursors
  <2>2. Owes(w, m, c, {})'
    BY <1>3, <2>1, OwesKept
  <2>. QED  BY <2>1, <2>2 DEF Owes
<1>6. PICK new : new = IF r.next = Complete \/ r.left = 1 THEN Reach(r.mode, r.wiki + 1)
                       ELSE [r EXCEPT !.phase = "fetch", !.left = @ - 1, !.at = r.next,
                                      !.next = Start]
  OBVIOUS
<1>7. JobOwes(new) /\ new.phase \in {"none", "wiki", "fetch"}
  <2>1. CASE r.next = Complete \/ r.left = 1
    BY <1>6, <2>1, ReachOwesNothing
  <2>2. CASE ~(r.next = Complete \/ r.left = 1)
    <3>1. new.phase = "fetch" /\ new.wiki = r.wiki /\ new.mode = r.mode /\ new.at = r.next
      BY <1>6, <2>2 DEF Run
    <3>. QED  BY <1>2, <3>1 DEF JobOwes
  <2>. QED  BY <2>1, <2>2
<1>8. new.phase = "fetch" => Owes(new.wiki, new.mode, new.at, {})'
  BY <1>3, <1>7 DEF JobOwes, Owes, Met, KeyOf
<1>9. run' = [run EXCEPT ![j] = new]
  BY <1>1, <1>6 DEF Store
<1>10. JobsOwe' /\ ResetAlone'
  BY <1>1, <1>2, <1>3, <1>7, <1>8, <1>9, JobsStep
<1>11. StillListed'
  BY <1>3 DEF SkipInv, StillListed, Listed
<1>. QED  BY <1>5, <1>10, <1>11 DEF SkipInv

LEMMA ResetSkips ==
    ASSUME TypeInv, SkipInv, NEW j \in Job, Reset(j)
    PROVE  SkipInv'
<1>1. PICK r \in Run : r = run[j]
  BY RunAt DEF TypeInv
<1>2. PICK m \in Mode : m = IF r.left = 0 THEN "title" ELSE "length"
  BY DEF Mode
<1>3. r.wiki \in Wiki /\ r.phase = "reset" /\ \A k \in Job : k # j => run[k].phase = "none"
  BY <1>1, RunAt DEF TypeInv, Reset, SkipInv, ResetAlone
<1>4. /\ cursor' = [cursor EXCEPT ![r.wiki][m] = Start]
      /\ handed' = [handed EXCEPT ![r.wiki][m] = [p \in Page |-> 0]]
      /\ still' = [still EXCEPT ![r.wiki][m] = Listed(r.wiki)]
      /\ UNCHANGED length
  BY <1>1, <1>2 DEF Reset, World
<1>5. CursorsOwe'
  <2>. SUFFICES ASSUME NEW w \in Wiki, NEW n \in Mode PROVE Owes(w, n, cursor[w][n], {})'
    BY DEF CursorsOwe
  <2>1. CASE w = r.wiki /\ n = m
    <3>1. cursor'[w][n] = Start
      BY <1>4, <2>1 DEF TypeInv, Cursors
    <3>. QED  BY <3>1 DEF Owes, Passed
  <2>2. CASE ~(w = r.wiki /\ n = m)
    <3>1. /\ cursor'[w][n] = cursor[w][n] /\ handed'[w][n] = handed[w][n]
          /\ still'[w][n] = still[w][n]
      BY <1>4, <2>2 DEF TypeInv, Cursors, Histories
    <3>2. Owes(w, n, cursor[w][n], {})
      BY DEF SkipInv, CursorsOwe
    <3>. QED  BY <1>4, <3>1, <3>2 DEF Owes, Met, KeyOf
  <2>. QED  BY <2>1, <2>2
<1>6. StillListed'
  <2>. SUFFICES ASSUME NEW w \in Wiki, NEW n \in Mode PROVE (still[w][n] \subseteq Listed(w))'
    BY DEF StillListed
  <2>1. still'[w][n] = still[w][n] \/ still'[w][n] = Listed(w)
    BY <1>4 DEF TypeInv, Histories
  <2>. QED  BY <1>4, <2>1 DEF SkipInv, StillListed, Listed
<1>7. PICK new : new = IF m = "title" THEN [r EXCEPT !.left = 1]
                       ELSE IF r.wiki < LastWiki THEN [r EXCEPT !.left = 0, !.wiki = @ + 1]
                       ELSE Reach(r.mode, 1)
  OBVIOUS
<1>8. JobOwes(new)' /\ new.phase \in {"none", "wiki", "reset"}
  <2>1. new.phase = "reset" \/ new = Reach(r.mode, 1)
    BY <1>3, <1>7 DEF Run
  <2>2. new.phase \in {"none", "wiki", "reset"}
    BY <2>1, ReachOwesNothing
  <2>. QED  BY <2>2 DEF JobOwes
<1>9. run' = [run EXCEPT ![j] = new]
  BY <1>1, <1>2, <1>7 DEF Reset
<1>10. run'[j] = new /\ \A k \in Job : k # j => run'[k] = run[k]
  BY <1>9 DEF TypeInv, Runs
<1>11. JobsOwe'
  BY <1>3, <1>8, <1>10 DEF JobsOwe, JobOwes
<1>12. ResetAlone'
  BY <1>3, <1>10 DEF ResetAlone
<1>. QED  BY <1>5, <1>6, <1>11, <1>12 DEF SkipInv

LEMMA EditSkips ==
    ASSUME TypeInv, SkipInv, NEW w \in Wiki, NEW p \in Page,
           NEW l \in {Absent} \cup 0..MaxLength, Edit(w, p, l)
    PROVE  SkipInv'
<1>1. /\ length' = [length EXCEPT ![w][p] = l] /\ UNCHANGED <<cursor, run, handed>>
      /\ still' = [still EXCEPT ![w] =
                     [m \in Mode |-> IF m = "length" \/ l = Absent
                                     THEN @[m] \ {p} ELSE @[m]]]
  BY DEF Edit
<1>2. ASSUME NEW v \in Wiki, NEW m \in Mode, NEW q \in still'[v][m]
      PROVE  /\ q \in still[v][m] /\ q \in Page /\ q \in Listed(v)
             /\ q \in Listed(v)' /\ KeyOf(m, v, q)' = KeyOf(m, v, q)
  <2>1. /\ q \in still[v][m] /\ q \in Page
        /\ v = w /\ q = p => m # "length" /\ l # Absent
    BY <1>1, <1>2 DEF TypeInv, Histories
  <2>2. q \in Listed(v)
    BY <2>1 DEF SkipInv, StillListed
  <2>3. ~(v = w /\ q = p) => length'[v][q] = length[v][q]
    BY <1>1, <2>1 DEF TypeInv, Lengths
  <2>4. v = w /\ q = p => length'[v][q] = l
    BY <1>1, <2>1 DEF TypeInv, Lengths
  <2>. QED  BY <2>1, <2>2, <2>3, <2>4 DEF Listed, KeyOf
<1>3. Kept
  BY <1>1, <1>2 DEF Kept, Met
<1>4. StillListed'
  BY <1>2 DEF StillListed
<1>5. CursorsOwe'
  BY <1>1, <1>3, OwesKept DEF SkipInv, CursorsOwe
<1>6. JobsOwe'
  <2>. SUFFICES ASSUME NEW j \in Job PROVE JobOwes(run[j])'
    BY DEF JobsOwe
  <2>1. PICK r \in Run : r = run[j] /\ r = run'[j]
    BY <1>1, RunAt DEF TypeInv
  <2>2. JobOwes(r) /\ (r.phase # "none" => r.wiki \in Wiki /\ r.mode \in Mode)
    BY <2>1, RunAt DEF TypeInv, SkipInv, JobsOwe
  <2>3. r.phase = "fetch" => Owes(r.wiki, r.mode, r.at, {})'
    BY <1>3, <2>2, OwesKept DEF JobOwes
  <2>4. r.phase = "queue" => Owes(r.wiki, r.mode, r.next, r.rows)'
    BY <1>3, <2>2, OwesKept DEF JobOwes
  <2>. QED  BY <2>1, <2>3, <2>4 DEF JobOwes, Owes
<1>7. ResetAlone'
  BY <1>1 DEF SkipInv, ResetAlone
<1>. QED  BY <1>4, <1>5, <1>6, <1>7 DEF SkipInv

LEMMA SameSkips ==
    ASSUME SkipInv, UNCHANGED <<length, cursor, run, handed, still>>
    PROVE  SkipInv'
BY DEF SkipInv, CursorsOwe, JobsOwe, JobOwes, StillListed, ResetAlone, Owes, Met, KeyOf, Listed

LEMMA InitSkips == Init => SkipInv
<1>. SUFFICES ASSUME Init PROVE SkipInv
  OBVIOUS
<1>1. CursorsOwe
  BY DEF Init, CursorsOwe, Owes, Passed
<1>2. JobsOwe /\ ResetAlone
  BY DEF Init, JobsOwe, JobOwes, ResetAlone, NoRun, Bare
<1>3. StillListed
  BY DEF Init, StillListed
<1>. QED  BY <1>1, <1>2, <1>3 DEF SkipInv

LEMMA SkipsInductive ==
    ASSUME RestartsAlone
    PROVE  TypeInv /\ SkipInv /\ [Next]_vars => SkipInv'
<1>. SUFFICES ASSUME TypeInv, SkipInv, [Next]_vars PROVE SkipInv'
  OBVIOUS
<1>1. CASE \E j \in Job : Begin(j) \/ BeginRestart(j) \/ Go(j) \/ Die(j)
  BY <1>1, BeginSkips, ResetSkips, OpenSkips, GotSkips, HandSkips, StoreSkips, EndSkips DEF Go
<1>2. CASE \E w \in Wiki, p \in Page, l \in {Absent} \cup 0..MaxLength : Edit(w, p, l)
  BY <1>2, EditSkips
<1>3. CASE Configure \/ UNCHANGED vars
  BY <1>3, SameSkips DEF Configure, vars
<1>. QED  BY <1>1, <1>2, <1>3 DEF Next

\* As long as no restart overlaps another run, whatever else overlaps, dies, is
\* edited or reconfigured: no cursor of the backfill gets past an article that
\* stood still and was not handed to the queue.
THEOREM NothingSkipped ==
    ASSUME RestartsAlone
    PROVE  Spec => []NoneSkipped
<1>1. TypeInv /\ SkipInv => NoneSkipped
  BY DEF SkipInv, CursorsOwe, Owes, NoneSkipped
<1>. QED  BY <1>1, InitTypes, TypesInductive, InitSkips, SkipsInductive, PTL DEF Spec

-----------------------------------------------------------------------------
(* Heaviest first, and seldom twice.                                       *)

\* The rows of a batch in memory lie behind the cursor it leaves, and what stood
\* still since has the place it was read at.
RowsHeld(r) ==
    r.phase = "queue" =>
        \A k \in r.rows :
            /\ Passed(r.mode, r.next, k)
            /\ k[2] \in still[r.wiki][r.mode] => KeyOf(r.mode, r.wiki, k[2]) = k

BatchesHeld == \A j \in Job : RowsHeld(run[j])

\* With one run: the cursor in memory is the one stored until a batch is queued.
AtStored == \A j \in Job : run[j].phase = "fetch" => run[j].at = cursor[run[j].wiki][run[j].mode]

Queueing(w, m) == \E j \in Job : run[j].phase = "queue" /\ run[j].wiki = w /\ run[j].mode = m

\* What is still to come was handed over once for every failure at most.
DueOnce ==
    \A w \in Wiki, m \in Mode : \A p \in still[w][m] :
        ~Queueing(w, m) /\ Ahead(m, cursor[w][m], KeyOf(m, w, p)) =>
            handed[w][m][p] <= failures

BatchDueOnce(r) ==
    r.phase = "queue" =>
        \A p \in still[r.wiki][r.mode] :
            KeyOf(r.mode, r.wiki, p) \in r.rows \/ Ahead(r.mode, r.next, KeyOf(r.mode, r.wiki, p)) =>
                handed[r.wiki][r.mode][p] <= failures

RepeatInv ==
    /\ AtStored /\ DueOnce /\ RepeatsOnlyAfterFailure
    /\ \A j \in Job : BatchDueOnce(run[j])

\* A place is a pair of numbers.
LEMMA KeyNumbers == \A k \in Key : k = <<k[1], k[2]>> /\ k[1] \in Nat /\ k[2] \in Nat
<1>. SUFFICES ASSUME NEW k \in Key
              PROVE  k = <<k[1], k[2]>> /\ k[1] \in Nat /\ k[2] \in Nat
  OBVIOUS
<1>1. PICK a \in {0} \cup 0..MaxLength, b \in Page : k = <<a, b>>
  BY DEF Key
<1>2. a \in Nat /\ b \in Nat
  BY Constants
<1>3. k[1] = a /\ k[2] = b
  BY <1>1
<1>. QED  BY <1>1, <1>2, <1>3

\* No mark is a place, and the marks differ.
LEMMA Marks == Start \notin Key /\ Complete \notin Key /\ Start # Complete
<1>1. \A a, b : <<a, b>> # Start /\ <<a, b>> # Complete
  BY DEF Start, Complete
<1>. QED  BY <1>1, KeyNumbers DEF Start, Complete

\* The places of a walk are ordered, strictly.
LEMMA Ordered ==
    ASSUME NEW m \in Mode, NEW a \in Key, NEW b \in Key, NEW c \in Key
    PROVE  /\ ~Before(m, a, a)
           /\ ~(Before(m, a, b) /\ Before(m, b, a))
           /\ Before(m, a, b) /\ Before(m, b, c) => Before(m, a, c)
BY KeyNumbers DEF Before

\* A batch and the cursor it leaves.
LEMMA BatchRead ==
    ASSUME TypeInv, NEW j \in Job, FetchByLength(j) \/ FetchByTitle(j)
    PROVE  \E B, c :
             /\ Got(j, B, c)
             /\ B \subseteq Remaining(run[j].mode, run[j].wiki, run[j].at)
             /\ c = Complete \/ c \in Remaining(run[j].mode, run[j].wiki, run[j].at)
             /\ \A k \in B : Passed(run[j].mode, c, k)
<1>. DEFINE m == run[j].mode
            S == Remaining(run[j].mode, run[j].wiki, run[j].at)
<1>1. run[j].phase = "fetch" /\ S \subseteq Key /\ m \in Mode
  BY RunAt, RemainingKeys DEF TypeInv, FetchByLength, FetchByTitle
<1>2. \A k : Passed(m, Complete, k)
  BY Marks DEF Passed, Ahead
<1>3. CASE FetchByLength(j)
  <2>1. m = "length"
    BY <1>3 DEF FetchByLength
  <2>2. PICK B, c : B \in FirstOf("length", S) /\ c \in LengthCursors(B) /\ Got(j, B, c)
    BY <1>3, <2>1 DEF FetchByLength
  <2>3. B \subseteq S
    BY <2>2 DEF FirstOf
  <2>4. CASE c = Complete
    BY <1>2, <2>2, <2>3, <2>4
  <2>5. CASE c # Complete
    <3>1. c \in B /\ \A a \in B \ {c} : Before("length", a, c)
      BY <2>2, <2>5 DEF LengthCursors
    <3>2. ASSUME NEW k \in B PROVE Passed("length", c, k)
      <4>1. c \in Key /\ k \in Key /\ "length" \in Mode
        BY <1>1, <2>3, <3>1 DEF Mode
      <4>2. k = c \/ Before("length", k, c)
        BY <3>1
      <4>3. ~Before("length", c, k)
        BY <4>1, <4>2, Ordered
      <4>. QED  BY <4>1, <4>3, Marks DEF Passed, Ahead
    <3>. QED  BY <2>1, <2>2, <2>3, <3>1, <3>2
  <2>. QED  BY <2>4, <2>5
<1>4. CASE FetchByTitle(j)
  <2>1. m = "title"
    BY <1>4 DEF FetchByTitle
  <2>2. PICK B, c : B \in FirstOf("title", S) /\ c \in TitleCursors(B, S) /\ Got(j, B, c)
    BY <1>4, <2>1 DEF FetchByTitle
  <2>3. B \subseteq S
    BY <2>2 DEF FirstOf
  <2>4. CASE c = Complete
    BY <1>2, <2>2, <2>3, <2>4
  <2>5. CASE c # Complete
    <3>1. c \in S \ B
      BY <2>2, <2>5 DEF TitleCursors
    <3>2. ASSUME NEW k \in B PROVE Passed("title", c, k)
      <4>1. Before("title", k, c)
        BY <2>2, <3>1 DEF FirstOf
      <4>2. c \in Key /\ c # Start
        BY <1>1, <3>1, Marks
      <4>. QED  BY <4>1, <4>2 DEF Passed, Ahead
    <3>. QED  BY <2>1, <2>2, <2>3, <3>1, <3>2
  <2>. QED  BY <2>4, <2>5
<1>. QED  BY <1>1, <1>3, <1>4

\* A step of one run, as the others' batches see it.
LEMMA BatchesStep ==
    ASSUME TypeInv, BatchesHeld, Kept, NEW j \in Job, NEW new,
           run' = [run EXCEPT ![j] = new], RowsHeld(new)'
    PROVE  BatchesHeld'
<1>1. run \in [Job -> Run] /\ run'[j] = new /\ \A k \in Job : k # j => run'[k] = run[k]
  BY DEF TypeInv, Runs
<1>2. ASSUME NEW i \in Job PROVE RowsHeld(run[i])'
  <2>1. CASE i = j
    BY <1>1, <2>1 DEF RowsHeld
  <2>2. CASE i # j
    <3>1. PICK r \in Run : r = run[i] /\ r = run'[i]
      BY <1>1, <2>2
    <3>2. RowsHeld(r) /\ (r.phase # "none" => r.wiki \in Wiki /\ r.mode \in Mode)
      BY <3>1, RunAt DEF TypeInv, BatchesHeld
    <3>3. ASSUME r.phase = "queue", NEW k \in r.rows, k[2] \in still'[r.wiki][r.mode]
          PROVE  KeyOf(r.mode, r.wiki, k[2])' = k
      <4>1. r.wiki \in Wiki /\ r.mode \in Mode
        BY <3>2, <3>3
      <4>2. k[2] \in still[r.wiki][r.mode] /\ KeyOf(r.mode, r.wiki, k[2])' = KeyOf(r.mode, r.wiki, k[2])
        BY <3>3, <4>1 DEF Kept
      <4>. QED  BY <3>2, <3>3, <4>2 DEF RowsHeld
    <3>4. RowsHeld(r)'
      BY <3>2, <3>3 DEF RowsHeld
    <3>. QED  BY <3>1, <3>4 DEF RowsHeld
  <2>. QED  BY <2>1, <2>2
<1>. QED  BY <1>2 DEF BatchesHeld

OrderInv == BatchesHeld /\ HeaviestFirst

LEMMA HeaviestSame ==
    ASSUME HeaviestFirst, UNCHANGED <<length, handed, still>>
    PROVE  HeaviestFirst'
BY DEF HeaviestFirst, Met

\* A step that hands nothing over.
LEMMA QuietOrder ==
    ASSUME TypeInv, OrderInv, UNCHANGED <<length, handed, still>>,
           NEW j \in Job, NEW new, run' = [run EXCEPT ![j] = new], RowsHeld(new)
    PROVE  OrderInv'
<1>1. Kept
  BY SameKept
<1>2. RowsHeld(new)'
  BY DEF RowsHeld, KeyOf
<1>. QED  BY <1>1, <1>2, BatchesStep, HeaviestSame DEF OrderInv

\* A run that is not queueing holds no rows.
LEMMA IdleHolds == ASSUME NEW new, new.phase # "queue" PROVE RowsHeld(new)
BY DEF RowsHeld

\* Only Open and Store make a run fetch a batch.
Resumes(j, new) ==
    new.phase = "fetch" =>
        \/ /\ Open(j)
           /\ new = [run[j] EXCEPT !.phase = "fetch", !.left = Batches,
                                   !.at = cursor[run[j].wiki][run[j].mode]]
        \/ /\ Store(j)
           /\ new = [run[j] EXCEPT !.phase = "fetch", !.left = @ - 1, !.at = run[j].next,
                                   !.next = Start]

\* What the step of a run makes of it when it does not hold a batch afterwards.
LEMMA LetGo ==
    ASSUME TypeInv, NEW j \in Job,
           \/ Begin(j) \/ BeginRestart(j) \/ Reset(j) \/ Open(j) \/ Store(j)
           \/ ReplicaDown(j) \/ Die(j)
    PROVE  \E new : run' = [run EXCEPT ![j] = new] /\ new.phase # "queue" /\ Resumes(j, new)
<1>1. \A m, w : Reach(m, w).phase \in {"none", "wiki"}
  BY ReachOwesNothing
<1>2. Bare("reset", 1, Source).phase = "reset" /\ NoRun.phase = "none"
  BY DEF Bare, NoRun
<1>3. run[j] \in Run
  BY RunAt DEF TypeInv
<1>4. CASE Begin(j)
  BY <1>1, <1>4 DEF Begin, Resumes
<1>5. CASE BeginRestart(j)
  BY <1>2, <1>5 DEF BeginRestart, Resumes
<1>6. CASE Reset(j)
  <2>1. [run[j] EXCEPT !.left = 1].phase = "reset"
    BY <1>3, <1>6 DEF Reset, Run
  <2>2. [run[j] EXCEPT !.left = 0, !.wiki = @ + 1].phase = "reset"
    BY <1>3, <1>6 DEF Reset, Run
  <2>. QED  BY <1>1, <1>6, <2>1, <2>2 DEF Reset, Resumes
<1>7. CASE Open(j)
  <2>1. [run[j] EXCEPT !.phase = "fetch", !.left = Batches,
                       !.at = cursor[run[j].wiki][run[j].mode]].phase = "fetch"
    BY <1>3 DEF Run
  <2>. QED  BY <1>1, <1>7, <2>1 DEF Open, Resumes
<1>8. CASE Store(j)
  <2>1. [run[j] EXCEPT !.phase = "fetch", !.left = @ - 1, !.at = run[j].next,
                       !.next = Start].phase = "fetch"
    BY <1>3 DEF Run
  <2>. QED  BY <1>1, <1>8, <2>1 DEF Store, Resumes
<1>9. CASE ReplicaDown(j) \/ Die(j)
  BY <1>2, <1>9 DEF ReplicaDown, Die, Resumes
<1>. QED  BY <1>4, <1>5, <1>6, <1>7, <1>8, <1>9

LEMMA LetGoOrder ==
    ASSUME TypeInv, OrderInv, NEW j \in Job,
           \/ Begin(j) \/ BeginRestart(j) \/ Open(j) \/ Store(j) \/ ReplicaDown(j) \/ Die(j)
    PROVE  OrderInv'
<1>1. PICK new : run' = [run EXCEPT ![j] = new] /\ new.phase # "queue"
  BY LetGo
<1>2. UNCHANGED <<length, handed, still>>
  BY DEF Begin, BeginRestart, Open, Store, ReplicaDown, Die, World
<1>. QED  BY <1>1, <1>2, IdleHolds, QuietOrder

LEMMA GotOrder ==
    ASSUME TypeInv, OrderInv, NEW j \in Job, FetchByLength(j) \/ FetchByTitle(j)
    PROVE  OrderInv'
<1>1. PICK r \in Run : r = run[j]
  BY RunAt DEF TypeInv
<1>2. r.wiki \in Wiki /\ r.mode \in Mode
  BY <1>1, RunAt DEF TypeInv, FetchByLength, FetchByTitle
<1>3. PICK B, c : /\ Got(j, B, c) /\ B \subseteq Remaining(r.mode, r.wiki, r.at)
                  /\ \A k \in B : Passed(r.mode, c, k)
  BY <1>1, BatchRead
<1>4. PICK new : new = [r EXCEPT !.phase = "queue", !.rows = B, !.next = c]
  OBVIOUS
<1>5. new.phase = "queue" /\ new.wiki = r.wiki /\ new.mode = r.mode /\ new.rows = B /\ new.next = c
  BY <1>4 DEF Run
<1>6. ASSUME NEW k \in B PROVE KeyOf(r.mode, r.wiki, k[2]) = k
  <2>1. PICK p \in Listed(r.wiki) : k = KeyOf(r.mode, r.wiki, p)
    BY <1>3, <1>6 DEF Remaining
  <2>. QED  BY <1>2, <2>1, KeyTypes DEF TypeInv
<1>7. RowsHeld(new)
  BY <1>3, <1>5, <1>6 DEF RowsHeld
<1>8. run' = [run EXCEPT ![j] = new] /\ UNCHANGED <<length, handed, still>>
  BY <1>1, <1>3, <1>4 DEF Got, World
<1>. QED  BY <1>7, <1>8, QuietOrder

LEMMA HandOrder ==
    ASSUME TypeInv, SkipInv, OrderInv, NEW j \in Job, Hand(j)
    PROVE  OrderInv'
<1>1. PICK r \in Run : r = run[j]
  BY RunAt DEF TypeInv
<1>2. /\ r.wiki \in Wiki /\ r.mode \in Mode /\ r.phase = "queue" /\ r.rows \subseteq Key
      /\ Owes(r.wiki, r.mode, r.next, r.rows) /\ RowsHeld(r) /\ r.next \in Cursor
  BY <1>1, RunAt DEF TypeInv, Hand, SkipInv, JobsOwe, JobOwes, OrderInv, BatchesHeld
<1>3. PICK k \in r.rows : /\ \A o \in r.rows \ {k} : Before(r.mode, k, o)
                          /\ run' = [run EXCEPT ![j] = [r EXCEPT !.rows = @ \ {k}]]
                          /\ handed' = [handed EXCEPT ![r.wiki][r.mode][k[2]] = Count(@)]
  BY <1>1 DEF Hand
<1>4. UNCHANGED <<length, cursor, still>> /\ k \in Key /\ k[2] \in Page
  BY <1>2, <1>3 DEF Hand, World, Key
<1>5. \A n \in Nat : Count(n) \in Nat /\ Count(n) > 0
  BY Constants DEF Count
<1>6. \A w \in Wiki, m \in Mode, p \in Page :
          /\ Met(w, m, p) => Met(w, m, p)'
          /\ Met(w, m, p)' => Met(w, m, p) \/ (w = r.wiki /\ m = r.mode /\ p = k[2])
  BY <1>2, <1>3, <1>4, <1>5 DEF Met, TypeInv, Histories
<1>7. Kept
  BY <1>4, <1>6 DEF Kept, KeyOf, TypeInv, Histories
<1>8. BatchesHeld'
  <2>1. PICK new : new = [r EXCEPT !.rows = @ \ {k}]
    OBVIOUS
  <2>2. /\ new.phase = "queue" /\ new.wiki = r.wiki /\ new.mode = r.mode
        /\ new.rows = r.rows \ {k} /\ new.next = r.next
    BY <1>2, <2>1 DEF Run
  <2>3. RowsHeld(new)'
    BY <1>2, <1>4, <2>2 DEF RowsHeld, KeyOf
  <2>. QED  BY <1>3, <1>7, <2>1, <2>3, BatchesStep DEF OrderInv
<1>9. HeaviestFirst'
  <2>. SUFFICES ASSUME NEW w \in Wiki, NEW p \in still[w]["length"], NEW q \in still[w]["length"],
                       Met(w, "length", p)', length[w][q] > length[w][p]
                PROVE  Met(w, "length", q)'
    BY <1>4 DEF HeaviestFirst
  <2>0. "length" \in Mode /\ p \in Page /\ q \in Page /\ p \in Listed(w) /\ q \in Listed(w)
    BY DEF Mode, TypeInv, Histories, SkipInv, StillListed
  <2>1. CASE Met(w, "length", p)
    <3>1. Met(w, "length", q)
      BY <2>1 DEF OrderInv, HeaviestFirst
    <3>. QED  BY <1>6, <2>0, <3>1
  <2>2. CASE w = r.wiki /\ "length" = r.mode /\ p = k[2]
    <3>. DEFINE kq == KeyOf("length", w, q)
    <3>1. KeyOf("length", w, p) = k /\ Passed("length", r.next, k)
      BY <1>2, <2>2 DEF RowsHeld
    <3>2. kq \in Key /\ kq[1] = length[w][q] /\ k[1] = length[w][p]
      BY <2>0, <3>1, KeyTypes DEF TypeInv, KeyOf
    <3>3. Before("length", kq, k)
      BY <3>2 DEF Before
    <3>4. Passed("length", r.next, kq)
      BY <1>4, <2>0, <3>1, <3>2, <3>3, Ordered DEF Passed, Ahead
    <3>5. Met(w, "length", q) \/ kq \in r.rows
      BY <1>2, <2>2, <3>4 DEF Owes
    <3>6. kq # k /\ ~Before("length", k, kq)
      BY <1>4, <2>0, <3>2, <3>3, Ordered
    <3>7. Met(w, "length", q)
      BY <1>3, <2>2, <3>5, <3>6
    <3>. QED  BY <1>6, <2>0, <3>7
  <2>. QED  BY <1>6, <2>0, <2>1, <2>2
<1>. QED  BY <1>8, <1>9 DEF OrderInv

\* A restart of a walk forgets what it met.
LEMMA ResetOrder ==
    ASSUME TypeInv, SkipInv, OrderInv, NEW j \in Job, Reset(j)
    PROVE  OrderInv'
<1>1. PICK r \in Run : r = run[j]
  BY RunAt DEF TypeInv
<1>2. PICK m \in Mode : m = IF r.left = 0 THEN "title" ELSE "length"
  BY DEF Mode
<1>3. r.wiki \in Wiki /\ \A k \in Job : k # j => run[k].phase = "none"
  BY <1>1, RunAt DEF TypeInv, Reset, SkipInv, ResetAlone
<1>4. /\ handed' = [handed EXCEPT ![r.wiki][m] = [p \in Page |-> 0]]
      /\ still' = [still EXCEPT ![r.wiki][m] = Listed(r.wiki)]
      /\ UNCHANGED length
  BY <1>1, <1>2 DEF Reset, World
<1>5. PICK new : run' = [run EXCEPT ![j] = new] /\ new.phase # "queue"
  BY LetGo
<1>6. run'[j] = new /\ \A k \in Job : k # j => run'[k] = run[k]
  BY <1>5 DEF TypeInv, Runs
<1>7. BatchesHeld'
  BY <1>3, <1>5, <1>6 DEF BatchesHeld, RowsHeld
<1>8. HeaviestFirst'
  <2>. SUFFICES ASSUME NEW w \in Wiki, NEW p \in still'[w]["length"], NEW q \in still'[w]["length"],
                       Met(w, "length", p)', length[w][q] > length[w][p]
                PROVE  Met(w, "length", q)'
    BY <1>4 DEF HeaviestFirst
  <2>0. "length" \in Mode
    BY DEF Mode
  <2>1. CASE w = r.wiki /\ m = "length"
    <3>1. handed'[w]["length"] = [x \in Page |-> 0] /\ still'[w]["length"] = Listed(w)
      BY <1>3, <1>4, <2>0, <2>1 DEF TypeInv, Histories
    <3>2. p \in Page
      BY <3>1 DEF Listed
    <3>. QED  BY <3>1, <3>2 DEF Met
  <2>2. CASE ~(w = r.wiki /\ m = "length")
    <3>1. handed'[w]["length"] = handed[w]["length"] /\ still'[w]["length"] = still[w]["length"]
      BY <1>3, <1>4, <2>0, <2>2 DEF TypeInv, Histories
    <3>. QED  BY <3>1 DEF Met, OrderInv, HeaviestFirst
  <2>. QED  BY <2>1, <2>2
<1>. QED  BY <1>7, <1>8 DEF OrderInv

\* What an edit leaves standing keeps its place.
LEMMA EditKeeps ==
    ASSUME TypeInv, SkipInv, NEW w \in Wiki, NEW p \in Page,
           NEW l \in {Absent} \cup 0..MaxLength, Edit(w, p, l),
           NEW v \in Wiki, NEW m \in Mode, NEW q \in still'[v][m]
    PROVE  /\ q \in still[v][m] /\ q \in Page /\ KeyOf(m, v, q)' = KeyOf(m, v, q)
           /\ m = "length" => length'[v][q] = length[v][q]
<1>1. /\ length' = [length EXCEPT ![w][p] = l]
      /\ still' = [still EXCEPT ![w] =
                     [n \in Mode |-> IF n = "length" \/ l = Absent
                                     THEN @[n] \ {p} ELSE @[n]]]
  BY DEF Edit
<1>2. /\ q \in still[v][m] /\ q \in Page
      /\ v = w /\ q = p => m # "length"
  BY <1>1 DEF TypeInv, Histories
<1>3. ~(v = w /\ q = p) => length'[v][q] = length[v][q]
  BY <1>1, <1>2 DEF TypeInv, Lengths
<1>. QED  BY <1>2, <1>3 DEF KeyOf

LEMMA EditOrder ==
    ASSUME TypeInv, SkipInv, OrderInv, NEW w \in Wiki, NEW p \in Page,
           NEW l \in {Absent} \cup 0..MaxLength, Edit(w, p, l)
    PROVE  OrderInv'
<1>1. UNCHANGED <<run, handed>>
  BY DEF Edit
<1>2. HeaviestFirst'
  <2>1. "length" \in Mode
    BY DEF Mode
  <2>. QED  BY <1>1, <2>1, EditKeeps DEF OrderInv, HeaviestFirst, Met
<1>3. BatchesHeld'
  <2>. SUFFICES ASSUME NEW j \in Job PROVE RowsHeld(run[j])'
    BY DEF BatchesHeld
  <2>1. PICK r \in Run : r = run[j] /\ r = run'[j]
    BY <1>1, RunAt DEF TypeInv
  <2>2. RowsHeld(r) /\ (r.phase # "none" => r.wiki \in Wiki /\ r.mode \in Mode)
    BY <2>1, RunAt DEF TypeInv, OrderInv, BatchesHeld
  <2>3. ASSUME r.phase = "queue", NEW k \in r.rows, k[2] \in still'[r.wiki][r.mode]
        PROVE  KeyOf(r.mode, r.wiki, k[2])' = k
    <3>1. r.wiki \in Wiki /\ r.mode \in Mode
      BY <2>2, <2>3
    <3>2. /\ k[2] \in still[r.wiki][r.mode]
          /\ KeyOf(r.mode, r.wiki, k[2])' = KeyOf(r.mode, r.wiki, k[2])
      BY <2>3, <3>1, EditKeeps
    <3>. QED  BY <2>2, <2>3, <3>2 DEF RowsHeld
  <2>4. RowsHeld(r)'
    BY <2>2, <2>3 DEF RowsHeld
  <2>. QED  BY <2>1, <2>4 DEF RowsHeld
<1>. QED  BY <1>2, <1>3 DEF OrderInv

LEMMA OrderInductive == TypeInv /\ SkipInv /\ OrderInv /\ [Next]_vars => OrderInv'
<1>. SUFFICES ASSUME TypeInv, SkipInv, OrderInv, [Next]_vars PROVE OrderInv'
  OBVIOUS
<1>1. CASE \E j \in Job : Begin(j) \/ BeginRestart(j) \/ Go(j) \/ Die(j)
  BY <1>1, LetGoOrder, GotOrder, HandOrder, ResetOrder DEF Go
<1>2. CASE \E w \in Wiki, p \in Page, l \in {Absent} \cup 0..MaxLength : Edit(w, p, l)
  BY <1>2, EditOrder
<1>3. CASE Configure \/ UNCHANGED vars
  <2>1. UNCHANGED <<length, handed, still, run>>
    BY <1>3 DEF Configure, vars
  <2>. QED  BY <2>1 DEF OrderInv, BatchesHeld, RowsHeld, KeyOf, HeaviestFirst, Met
<1>. QED  BY <1>1, <1>2, <1>3 DEF Next

\* "Heaviest first" (backfill.py): however many runs overlap, die or are reconfigured,
\* and whatever is edited around them, no walk by length hands an article that stood
\* still to the queue before a heavier one that stood still as well.
THEOREM HeaviestComeFirst ==
    ASSUME RestartsAlone
    PROVE  Spec => []HeaviestFirst
<1>1. ASSUME Init PROVE OrderInv
  <2>1. BatchesHeld
    BY <1>1 DEF Init, BatchesHeld, RowsHeld, NoRun, Bare
  <2>2. HeaviestFirst
    <3>1. "length" \in Mode
      BY DEF Mode
    <3>2. \A w \in Wiki : \A p \in Listed(w) : p \in Page
      BY DEF Listed
    <3>. QED  BY <1>1, <3>1, <3>2 DEF Init, HeaviestFirst, Met
  <2>. QED  BY <2>1, <2>2 DEF OrderInv
<1>2. OrderInv => HeaviestFirst
  BY DEF OrderInv
<1>. QED  BY <1>1, <1>2, InitTypes, TypesInductive, InitSkips, SkipsInductive,
             OrderInductive, PTL DEF Spec

\* One run at a time.
OneRun == \A j, k \in Job : j = k

\* A run that lets go of no batch leaves every walk where it stands.
LEMMA QuietRepeats ==
    ASSUME TypeInv, OneRun, RepeatInv,
           UNCHANGED <<length, cursor, handed, still, failures>>,
           NEW j \in Job, NEW new, run' = [run EXCEPT ![j] = new],
           run[j].phase # "queue", new.phase # "queue",
           new.phase = "fetch" => new.at = cursor[new.wiki][new.mode]
    PROVE  RepeatInv'
<1>1. run'[j] = new /\ \A k \in Job : k = j
  BY DEF TypeInv, Runs, OneRun
<1>2. \A w \in Wiki, m \in Mode : ~Queueing(w, m) /\ ~Queueing(w, m)'
  BY <1>1 DEF Queueing
<1>3. AtStored' /\ \A k \in Job : BatchDueOnce(run[k])'
  BY <1>1 DEF AtStored, BatchDueOnce
<1>4. DueOnce' /\ RepeatsOnlyAfterFailure'
  BY <1>2 DEF RepeatInv, DueOnce, RepeatsOnlyAfterFailure, KeyOf
<1>. QED  BY <1>3, <1>4 DEF RepeatInv

LEMMA IdleRepeats ==
    ASSUME TypeInv, OneRun, RepeatInv, NEW j \in Job,
           Begin(j) \/ BeginRestart(j) \/ Open(j) \/ ReplicaDown(j)
    PROVE  RepeatInv'
<1>1. PICK new : run' = [run EXCEPT ![j] = new] /\ new.phase # "queue" /\ Resumes(j, new)
  BY LetGo
<1>2. UNCHANGED <<length, cursor, handed, still, failures>> /\ run[j].phase # "queue"
  BY DEF Begin, BeginRestart, Open, ReplicaDown, World
<1>3. ~Store(j) /\ run[j] \in Run
  BY <1>2, RunAt DEF Store, TypeInv
<1>4. new.phase = "fetch" => new.at = cursor[new.wiki][new.mode]
  BY <1>1, <1>3 DEF Run, Resumes
<1>. QED  BY <1>1, <1>2, <1>4, QuietRepeats

LEMMA GotRepeats ==
    ASSUME TypeInv, SkipInv, OneRun, RepeatInv, NEW j \in Job, FetchByLength(j) \/ FetchByTitle(j)
    PROVE  RepeatInv'
<1>1. PICK r \in Run : r = run[j]
  BY RunAt DEF TypeInv
<1>2. r.wiki \in Wiki /\ r.mode \in Mode /\ r.phase = "fetch" /\ r.at \in Cursor
  BY <1>1, RunAt DEF TypeInv, FetchByLength, FetchByTitle
<1>. DEFINE S == Remaining(r.mode, r.wiki, r.at)
<1>3. PICK B, c : Got(j, B, c) /\ B \subseteq S /\ (c = Complete \/ c \in S)
  BY <1>1, BatchRead
<1>4. PICK new : new = [r EXCEPT !.phase = "queue", !.rows = B, !.next = c]
  OBVIOUS
<1>5. new.phase = "queue" /\ new.wiki = r.wiki /\ new.mode = r.mode /\ new.rows = B /\ new.next = c
  BY <1>4 DEF Run
<1>6. /\ run' = [run EXCEPT ![j] = new]
      /\ UNCHANGED <<length, cursor, handed, still, failures>>
  BY <1>1, <1>3, <1>4 DEF Got, World
<1>7. run'[j] = new /\ \A k \in Job : k = j
  BY <1>6 DEF TypeInv, Runs, OneRun
<1>8. \A w, m : ~Queueing(w, m) /\ (Queueing(w, m)' <=> w = r.wiki /\ m = r.mode)
  BY <1>1, <1>2, <1>5, <1>7 DEF Queueing
<1>9. r.at = cursor[r.wiki][r.mode]
  BY <1>1, <1>2 DEF RepeatInv, AtStored
<1>10. ASSUME NEW p \in still[r.wiki][r.mode],
              \/ KeyOf(r.mode, r.wiki, p) \in B
              \/ Ahead(r.mode, c, KeyOf(r.mode, r.wiki, p))
       PROVE  handed[r.wiki][r.mode][p] <= failures
  <2>. DEFINE k == KeyOf(r.mode, r.wiki, p)
  <2>1. p \in Listed(r.wiki)
    BY <1>2 DEF SkipInv, StillListed
  <2>2. k \in Key
    BY <1>2, <2>1, KeyTypes DEF TypeInv
  <2>3. Ahead(r.mode, r.at, k)
    <3>1. CASE k \in B
      BY <1>3, <3>1 DEF Remaining
    <3>2. CASE Ahead(r.mode, c, k)
      <4>1. c \in S
        BY <1>3, <3>2, Marks DEF Ahead
      <4>2. c \in Key /\ c # Start /\ Ahead(r.mode, r.at, c)
        BY <1>2, <4>1, RemainingKeys, Marks DEF TypeInv, Remaining
      <4>3. CASE r.at = Start
        BY <4>3 DEF Ahead
      <4>4. CASE r.at # Start /\ r.mode = "length"
        <5>1. r.at \in Key /\ Before("length", r.at, c) /\ Before("length", c, k)
          BY <3>2, <4>2, <4>4 DEF Ahead
        <5>. QED  BY <1>2, <2>2, <4>2, <4>4, <5>1, Ordered DEF Ahead
      <4>5. CASE r.at # Start /\ r.mode # "length"
        <5>1. r.at \in Key /\ ~Before(r.mode, c, r.at) /\ ~Before(r.mode, k, c)
          BY <3>2, <4>2, <4>5 DEF Ahead
        <5>2. r.at[2] \in Nat /\ c[2] \in Nat /\ k[2] \in Nat
          BY <2>2, <4>2, <5>1, KeyNumbers
        <5>3. ~Before(r.mode, k, r.at)
          BY <4>5, <5>1, <5>2 DEF Before
        <5>. QED  BY <4>5, <5>1, <5>3 DEF Ahead
      <4>. QED  BY <4>3, <4>4, <4>5
    <3>. QED  BY <1>10, <3>1, <3>2
  <2>. QED  BY <1>2, <1>8, <1>9, <2>3 DEF RepeatInv, DueOnce
<1>11. BatchDueOnce(new)'
  BY <1>5, <1>6, <1>10 DEF BatchDueOnce, KeyOf
<1>12. AtStored' /\ \A k \in Job : BatchDueOnce(run[k])'
  BY <1>5, <1>7, <1>11 DEF AtStored, BatchDueOnce
<1>13. DueOnce' /\ RepeatsOnlyAfterFailure'
  BY <1>6, <1>8 DEF RepeatInv, DueOnce, RepeatsOnlyAfterFailure, KeyOf
<1>. QED  BY <1>12, <1>13 DEF RepeatInv

LEMMA HandRepeats ==
    ASSUME TypeInv, SkipInv, OrderInv, OneRun, RepeatInv, NEW j \in Job, Hand(j)
    PROVE  RepeatInv'
<1>1. PICK r \in Run : r = run[j]
  BY RunAt DEF TypeInv
<1>2. /\ r.wiki \in Wiki /\ r.mode \in Mode /\ r.phase = "queue" /\ r.rows \subseteq Key
      /\ RowsHeld(r) /\ BatchDueOnce(r)
  BY <1>1, RunAt DEF TypeInv, Hand, OrderInv, BatchesHeld, RepeatInv
<1>3. PICK k \in r.rows : /\ run' = [run EXCEPT ![j] = [r EXCEPT !.rows = @ \ {k}]]
                          /\ handed' = [handed EXCEPT ![r.wiki][r.mode][k[2]] = Count(@)]
  BY <1>1 DEF Hand
<1>4. UNCHANGED <<length, cursor, still, failures>> /\ k[2] \in Page
  BY <1>2, <1>3 DEF Hand, World, Key
<1>5. PICK new : new = [r EXCEPT !.rows = @ \ {k}]
  OBVIOUS
<1>6. /\ new.phase = "queue" /\ new.wiki = r.wiki /\ new.mode = r.mode
      /\ new.rows = r.rows \ {k} /\ new.next = r.next
  BY <1>2, <1>5 DEF Run
<1>7. run'[j] = new /\ \A i \in Job : i = j
  BY <1>3, <1>5 DEF TypeInv, Runs, OneRun
<1>8. \A w, m : Queueing(w, m)' <=> Queueing(w, m)
  BY <1>1, <1>2, <1>6, <1>7 DEF Queueing
<1>9. /\ handed'[r.wiki][r.mode][k[2]] = Count(handed[r.wiki][r.mode][k[2]])
      /\ \A w \in Wiki, m \in Mode, p \in Page :
            ~(w = r.wiki /\ m = r.mode /\ p = k[2]) => handed'[w][m][p] = handed[w][m][p]
  BY <1>2, <1>3, <1>4 DEF TypeInv, Histories
<1>10. \A w \in Wiki, m \in Mode : \A p \in still[w][m] : p \in Page /\ handed[w][m][p] \in Nat
  BY DEF TypeInv, Histories
<1>11. failures \in Nat
  BY DEF TypeInv, Counters
<1>12. BatchDueOnce(new)'
  <2>. SUFFICES ASSUME NEW p \in still[r.wiki][r.mode],
                       \/ KeyOf(r.mode, r.wiki, p) \in r.rows \ {k}
                       \/ Ahead(r.mode, r.next, KeyOf(r.mode, r.wiki, p))
                PROVE  handed'[r.wiki][r.mode][p] <= failures
    BY <1>4, <1>6 DEF BatchDueOnce, KeyOf
  <2>1. p # k[2]
    BY <1>2 DEF RowsHeld, Passed
  <2>2. handed'[r.wiki][r.mode][p] = handed[r.wiki][r.mode][p]
    BY <1>2, <1>9, <1>10, <2>1
  <2>. QED  BY <1>2, <2>2 DEF BatchDueOnce
<1>13. RepeatsOnlyAfterFailure'
  <2>. SUFFICES ASSUME NEW w \in Wiki, NEW m \in Mode, NEW p \in still[w][m]
                PROVE  handed'[w][m][p] <= 1 + failures
    BY <1>4 DEF RepeatsOnlyAfterFailure
  <2>1. CASE w = r.wiki /\ m = r.mode /\ p = k[2]
    <3>1. handed[w][m][p] <= failures
      BY <1>2, <2>1 DEF RowsHeld, BatchDueOnce
    <3>2. \A n \in Nat : Count(n) <= n + 1
      BY DEF Count
    <3>3. handed'[w][m][p] <= handed[w][m][p] + 1 /\ handed'[w][m][p] \in Nat
      <4>1. \A n \in Nat : Count(n) \in Nat
        BY DEF Count
      <4>. QED  BY <1>9, <1>10, <2>1, <3>2, <4>1
    <3>. QED  BY <1>10, <1>11, <3>1, <3>3
  <2>2. CASE ~(w = r.wiki /\ m = r.mode /\ p = k[2])
    BY <1>9, <1>10, <2>2 DEF RepeatInv, RepeatsOnlyAfterFailure
  <2>. QED  BY <2>1, <2>2
<1>14. DueOnce'
  <2>. SUFFICES ASSUME NEW w \in Wiki, NEW m \in Mode, NEW p \in still[w][m], ~Queueing(w, m),
                       Ahead(m, cursor[w][m], KeyOf(m, w, p))
                PROVE  handed'[w][m][p] <= failures
    BY <1>4, <1>8 DEF DueOnce, KeyOf
  <2>1. ~(w = r.wiki /\ m = r.mode)
    BY <1>1, <1>2 DEF Queueing
  <2>. QED  BY <1>9, <1>10, <2>1 DEF RepeatInv, DueOnce
<1>15. AtStored' /\ \A i \in Job : BatchDueOnce(run[i])'
  BY <1>6, <1>7, <1>12 DEF AtStored, BatchDueOnce
<1>. QED  BY <1>13, <1>14, <1>15 DEF RepeatInv

LEMMA StoreRepeats ==
    ASSUME TypeInv, OneRun, RepeatInv, NEW j \in Job, Store(j)
    PROVE  RepeatInv'
<1>1. PICK r \in Run : r = run[j]
  BY RunAt DEF TypeInv
<1>2. /\ r.wiki \in Wiki /\ r.mode \in Mode /\ r.phase = "queue" /\ r.rows = {}
      /\ BatchDueOnce(r) /\ cursor' = [cursor EXCEPT ![r.wiki][r.mode] = r.next]
      /\ UNCHANGED <<length, handed, still, failures>>
  BY <1>1, RunAt DEF TypeInv, Store, Stored, World, RepeatInv
<1>3. PICK new : run' = [run EXCEPT ![j] = new] /\ new.phase # "queue" /\ Resumes(j, new)
  BY LetGo
<1>4. new.phase = "fetch" => new.at = r.next /\ new.wiki = r.wiki /\ new.mode = r.mode
  <2>1. ~Open(j)
    BY <1>1, <1>2 DEF Open
  <2>. QED  BY <1>1, <1>3, <2>1 DEF Run, Resumes
<1>5. run'[j] = new /\ \A k \in Job : k = j
  BY <1>3 DEF TypeInv, Runs, OneRun
<1>6. cursor'[r.wiki][r.mode] = r.next
  BY <1>2 DEF TypeInv, Cursors
<1>7. AtStored' /\ \A k \in Job : BatchDueOnce(run[k])'
  BY <1>3, <1>4, <1>5, <1>6 DEF AtStored, BatchDueOnce
<1>8. DueOnce'
  <2>. SUFFICES ASSUME NEW w \in Wiki, NEW m \in Mode, NEW p \in still[w][m],
                       Ahead(m, cursor'[w][m], KeyOf(m, w, p))
                PROVE  handed[w][m][p] <= failures
    BY <1>2 DEF DueOnce, KeyOf
  <2>1. CASE w = r.wiki /\ m = r.mode
    BY <1>2, <1>6, <2>1 DEF BatchDueOnce
  <2>2. CASE ~(w = r.wiki /\ m = r.mode)
    <3>1. ~Queueing(w, m)
      BY <1>1, <1>5, <2>2 DEF Queueing
    <3>2. cursor'[w][m] = cursor[w][m]
      BY <1>2, <2>2 DEF TypeInv, Cursors
    <3>. QED  BY <3>1, <3>2 DEF RepeatInv, DueOnce
  <2>. QED  BY <2>1, <2>2
<1>9. RepeatsOnlyAfterFailure'
  BY <1>2 DEF RepeatInv, RepeatsOnlyAfterFailure
<1>. QED  BY <1>7, <1>8, <1>9 DEF RepeatInv

\* A failure may send a run back to a batch it has handed over: once more is allowed.
LEMMA DieRepeats ==
    ASSUME TypeInv, OneRun, RepeatInv, NEW j \in Job, Die(j)
    PROVE  RepeatInv'
<1>1. /\ run' = [run EXCEPT ![j] = NoRun] /\ failures' = failures + 1 /\ failures \in Nat
      /\ UNCHANGED <<length, cursor, handed, still>>
  BY DEF Die, World, TypeInv, Counters
<1>2. run'[j] = NoRun /\ \A k \in Job : k = j
  BY <1>1 DEF TypeInv, Runs, OneRun
<1>3. AtStored' /\ \A k \in Job : BatchDueOnce(run[k])'
  BY <1>2 DEF AtStored, BatchDueOnce, NoRun, Bare
<1>4. \A w \in Wiki, m \in Mode : \A p \in still[w][m] :
          handed[w][m][p] \in Nat /\ handed[w][m][p] <= 1 + failures
  BY DEF TypeInv, Histories, RepeatInv, RepeatsOnlyAfterFailure
<1>5. DueOnce' /\ RepeatsOnlyAfterFailure'
  BY <1>1, <1>4 DEF DueOnce, RepeatsOnlyAfterFailure
<1>. QED  BY <1>3, <1>5 DEF RepeatInv

LEMMA ResetRepeats ==
    ASSUME TypeInv, OneRun, RepeatInv, NEW j \in Job, Reset(j)
    PROVE  RepeatInv'
<1>1. PICK r \in Run : r = run[j]
  BY RunAt DEF TypeInv
<1>2. PICK m \in Mode : m = IF r.left = 0 THEN "title" ELSE "length"
  BY DEF Mode
<1>3. /\ r.wiki \in Wiki /\ r.phase = "reset" /\ failures \in Nat
      /\ handed' = [handed EXCEPT ![r.wiki][m] = [p \in Page |-> 0]]
      /\ still' = [still EXCEPT ![r.wiki][m] = Listed(r.wiki)]
      /\ cursor' = [cursor EXCEPT ![r.wiki][m] = Start]
      /\ UNCHANGED <<length, failures>>
  BY <1>1, <1>2, RunAt DEF Reset, World, TypeInv, Counters
<1>4. PICK new : run' = [run EXCEPT ![j] = new] /\ new.phase # "queue" /\ Resumes(j, new)
  BY LetGo
<1>5. new.phase # "fetch"
  BY <1>1, <1>3, <1>4 DEF Open, Store, Resumes
<1>6. run'[j] = new /\ \A k \in Job : k = j
  BY <1>4 DEF TypeInv, Runs, OneRun
<1>7. AtStored' /\ \A k \in Job : BatchDueOnce(run[k])'
  BY <1>4, <1>5, <1>6 DEF AtStored, BatchDueOnce
<1>8. \A w, n : ~Queueing(w, n)
  BY <1>1, <1>3, <1>6 DEF Queueing
<1>9. ASSUME NEW w \in Wiki, NEW n \in Mode, NEW p \in still'[w][n]
      PROVE  /\ handed'[w][n][p] <= 1 + failures
             /\ Ahead(n, cursor'[w][n], KeyOf(n, w, p)') => handed'[w][n][p] <= failures
  <2>1. CASE w = r.wiki /\ n = m
    <3>1. handed'[w][n] = [x \in Page |-> 0] /\ p \in Page
      BY <1>3, <1>9, <2>1 DEF TypeInv, Histories, Listed
    <3>. QED  BY <1>3, <3>1
  <2>2. CASE ~(w = r.wiki /\ n = m)
    <3>1. /\ handed'[w][n] = handed[w][n] /\ still'[w][n] = still[w][n]
          /\ cursor'[w][n] = cursor[w][n] /\ KeyOf(n, w, p)' = KeyOf(n, w, p)
      BY <1>3, <2>2 DEF TypeInv, Histories, Cursors, KeyOf
    <3>. QED  BY <1>8, <1>9, <3>1 DEF RepeatInv, DueOnce, RepeatsOnlyAfterFailure
  <2>. QED  BY <2>1, <2>2
<1>10. DueOnce' /\ RepeatsOnlyAfterFailure'
  BY <1>3, <1>9 DEF DueOnce, RepeatsOnlyAfterFailure
<1>. QED  BY <1>7, <1>10 DEF RepeatInv

LEMMA EditRepeats ==
    ASSUME TypeInv, SkipInv, RepeatInv, NEW w \in Wiki, NEW p \in Page,
           NEW l \in {Absent} \cup 0..MaxLength, Edit(w, p, l)
    PROVE  RepeatInv'
<1>1. UNCHANGED <<cursor, run, handed, failures>>
  BY DEF Edit
<1>2. AtStored'
  BY <1>1 DEF RepeatInv, AtStored
<1>3. DueOnce' /\ RepeatsOnlyAfterFailure'
  BY <1>1, EditKeeps DEF RepeatInv, DueOnce, RepeatsOnlyAfterFailure, Queueing
<1>4. ASSUME NEW j \in Job PROVE BatchDueOnce(run[j])'
  <2>1. PICK r \in Run : r = run[j] /\ r = run'[j]
    BY <1>1, RunAt DEF TypeInv
  <2>2. BatchDueOnce(r) /\ (r.phase # "none" => r.wiki \in Wiki /\ r.mode \in Mode)
    BY <2>1, RunAt DEF TypeInv, RepeatInv
  <2>3. BatchDueOnce(r)'
    BY <1>1, <2>2, EditKeeps DEF BatchDueOnce
  <2>. QED  BY <2>1, <2>3 DEF BatchDueOnce
<1>. QED  BY <1>2, <1>3, <1>4 DEF RepeatInv

LEMMA RepeatsInductive ==
    ASSUME OneRun
    PROVE  TypeInv /\ SkipInv /\ OrderInv /\ RepeatInv /\ [Next]_vars => RepeatInv'
<1>. SUFFICES ASSUME TypeInv, SkipInv, OrderInv, RepeatInv, [Next]_vars PROVE RepeatInv'
  OBVIOUS
<1>1. CASE \E j \in Job : Begin(j) \/ BeginRestart(j) \/ Go(j) \/ Die(j)
  BY <1>1, IdleRepeats, GotRepeats, HandRepeats, StoreRepeats, DieRepeats, ResetRepeats DEF Go
<1>2. CASE \E w \in Wiki, p \in Page, l \in {Absent} \cup 0..MaxLength : Edit(w, p, l)
  BY <1>2, EditRepeats
<1>3. CASE Configure \/ UNCHANGED vars
  <2>1. UNCHANGED <<length, cursor, handed, still, run, failures>>
    BY <1>3 DEF Configure, vars
  <2>. QED  BY <2>1 DEF RepeatInv, AtStored, DueOnce, RepeatsOnlyAfterFailure, BatchDueOnce,
                        Queueing, KeyOf
<1>. QED  BY <1>1, <1>2, <1>3 DEF Next

\* With one run of the backfill at a time, an article that stood still is handed over
\* once in a walk, and once more for every run that died at most: neither a tie of
\* lengths nor the end of a batch, nor a restart by hand, makes the walk repeat itself.
THEOREM RepeatsBounded ==
    ASSUME OneRun
    PROVE  Spec => []RepeatsOnlyAfterFailure
<1>0. RestartsAlone
  BY DEF RestartsAlone, OneRun
<1>1. ASSUME Init PROVE OrderInv /\ RepeatInv
  <2>1. BatchesHeld /\ AtStored /\ \A j \in Job : BatchDueOnce(run[j])
    BY <1>1 DEF Init, BatchesHeld, RowsHeld, AtStored, BatchDueOnce, NoRun, Bare
  <2>2. \A w \in Wiki, m \in Mode : \A p \in still[w][m] : handed[w][m][p] = 0
    BY <1>1 DEF Init, Listed
  <2>3. failures = 0 /\ "length" \in Mode
    BY <1>1 DEF Init, Mode
  <2>4. HeaviestFirst
    BY <2>2, <2>3 DEF HeaviestFirst, Met
  <2>5. DueOnce /\ RepeatsOnlyAfterFailure
    BY <2>2, <2>3 DEF DueOnce, RepeatsOnlyAfterFailure
  <2>. QED  BY <2>1, <2>4, <2>5 DEF OrderInv, RepeatInv
<1>2. RepeatInv => RepeatsOnlyAfterFailure
  BY DEF RepeatInv
<1>. QED  BY <1>0, <1>1, <1>2, InitTypes, TypesInductive, InitSkips, SkipsInductive,
             OrderInductive, RepeatsInductive, PTL DEF Spec
=============================================================================
