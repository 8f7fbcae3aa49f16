------------------------------- MODULE Backfill -------------------------------
(***************************************************************************)
(* The gradual backfill: an hourly job that walks every opted-in wiki a    *)
(* batch at a time, heaviest article first, and hands each page to the     *)
(* queue with the lowest priority.  A wiki's walk outlives the runs: its   *)
(* cursor is a row of app_state, stored after the batch has been queued.   *)
(*                                                                         *)
(* The source of the walk is the wiki's database replica, a keyset on      *)
(* (page_len, page_id) descending; without replica credentials it is the   *)
(* Action API in title order, under a cursor of its own.  Articles are     *)
(* edited, created and removed while the walk goes on, a run may die       *)
(* between any two of its transactions, and an operator may restart the    *)
(* walk by hand while the scheduled job is running.                        *)
(*                                                                         *)
(* What enqueue_if_stale does with a page is WorkQueue's matter: here a    *)
(* page is handed over or not.  A page number stands for its id in the     *)
(* walk by length and for the place of its title in the walk by title.     *)
(***************************************************************************)
EXTENDS Integers, FiniteSets

CONSTANTS
    LastWiki,            \* the wikis are 1..LastWiki, in the order of BACKFILL_WIKIS
    Page,                \* page ids, and places of titles in the alphabet
    MaxLength,           \* bound: the longest article
    FirstLengths,        \* what each wiki's page table holds at first
    BatchSize,           \* backfill_batch_size, and the size of an allpages batch
    Batches,             \* --batches
    Job,                 \* runs that may be in progress at once
    Unreachable,         \* wikis whose replica does not answer
    OverlappingRestart,  \* may --restart be given while another run goes on?
    MaxEdits,            \* bound: edits, and changes of the configuration
    MaxRestarts,         \* bound: how often --restart is given
    MaxFailures          \* bound: how often a run dies

Wiki == 1..LastWiki
Mode == {"length", "title"}
Absent == -1             \* no such page in the main namespace, or a redirect

ASSUME BackfillAssumption ==
    /\ {LastWiki, MaxLength, MaxEdits, MaxRestarts, MaxFailures} \subseteq Nat
    /\ {BatchSize, Batches} \subseteq Nat \ {0}
    /\ Page \subseteq Nat
    /\ FirstLengths \in [Wiki -> [Page -> {Absent} \cup 0..MaxLength]]
    /\ Unreachable \subseteq Wiki
    /\ OverlappingRestart \in BOOLEAN

\* A place in a walk: the sort key of a row.
Key == ({0} \cup 0..MaxLength) \X Page

\* What a cursor row holds: the empty string, __COMPLETE__, or a place.
Start == <<"start">>
Complete == <<"complete">>
Cursor == {Start, Complete} \cup Key

VARIABLES
    length,     \* page_len of each article of each wiki, or Absent
    replica,    \* are replica credentials configured?
    cursor,     \* app_state: the two cursors of each wiki
    run,        \* what each run holds in memory
    handed,     \* history: how often each walk met each page since its last restart
    still,      \* history: pages that kept their place since then
    edits, restarts, failures

vars == <<length, replica, cursor, run, handed, still, edits, restarts, failures>>

-----------------------------------------------------------------------------
(* Places, cursors and batches.                                            *)

Listed(w) == {p \in Page : length[w][p] # Absent}

KeyOf(m, w, p) == IF m = "length" THEN <<length[w][p], p>> ELSE <<0, p>>

\* Mutant of Before: ORDER BY page_id alone.
BeforeById(m, a, b) == IF m = "length" THEN a[2] > b[2] ELSE a[2] < b[2]

\* ORDER BY page_len DESC, page_id DESC; titles ascend.
Before(m, a, b) ==
    IF m = "length" THEN a[1] > b[1] \/ (a[1] = b[1] /\ a[2] > b[2])
    ELSE a[2] < b[2]

\* Mutant of Ahead: <= where the keyset says <.
AheadInclusive(m, c, k) == c = Start \/ (c \in Key /\ ~Before(m, k, c))

\* Is place k still to come at cursor c?  The keyset is strict, gapcontinue
\* names the first title of the next batch.
Ahead(m, c, k) ==
    \/ c = Start
    \/ c \in Key /\ IF m = "length" THEN Before(m, c, k) ELSE ~Before(m, k, c)

Remaining(m, w, c) == {k \in {KeyOf(m, w, p) : p \in Listed(w)} : Ahead(m, c, k)}

\* LIMIT: the first rows of S, all of them when there are no more than BatchSize.
FirstOf(m, S) ==
    {B \in SUBSET S : /\ \A b \in B, s \in S \ B : Before(m, b, s)
                      /\ \/ B = S /\ Cardinality(S) <= BatchSize
                         \/ B # S /\ Cardinality(B) = BatchSize}

\* Only a short batch ends the walk; a full one resumes after its last row.
LengthCursors(B) ==
    IF Cardinality(B) < BatchSize THEN {Complete}
    ELSE {b \in B : \A a \in B \ {b} : Before("length", a, b)}

\* The API says where to go on, or that there is nothing more.
TitleCursors(B, S) ==
    IF B = S THEN {Complete}
    ELSE {s \in S \ B : \A t \in S \ (B \cup {s}) : Before("title", s, t)}

-----------------------------------------------------------------------------
(* The runs.                                                               *)

Phases == {"none", "reset", "wiki", "fetch", "queue"}

\* left: batches still to come for this wiki; at: the cursor in memory; rows:
\* what is left of the batch; next: the cursor to store when it is queued.
Run == [phase : Phases, wiki : 1..(LastWiki + 1), mode : Mode, left : 0..Batches,
        at : Cursor, rows : SUBSET Key, next : Cursor]

\* A run that holds no batch.
Bare(phase, w, m) == [phase |-> phase, wiki |-> w, mode |-> m, left |-> 0,
                      at |-> Start, rows |-> {}, next |-> Start]

NoRun == Bare("none", 1, "length")

Init ==
    /\ length = FirstLengths
    /\ replica \in BOOLEAN
    /\ cursor = [w \in Wiki |-> [m \in Mode |-> Start]]
    /\ run = [j \in Job |-> NoRun]
    /\ handed = [w \in Wiki |-> [m \in Mode |-> [p \in Page |-> 0]]]
    /\ still = [w \in Wiki |-> [m \in Mode |-> Listed(w)]]
    /\ edits = 0 /\ restarts = 0 /\ failures = 0

World == <<length, replica, edits>>

\* Mutant of Reach: the end of the list is not looked at.
ReachAlways(m, w) == Bare("wiki", w, m)

\* main goes through the wikis in order and ends after the last.
Reach(m, w) == IF w <= LastWiki THEN Bare("wiki", w, m) ELSE NoRun

\* The settings are read once, when the process starts.
Source == IF replica THEN "length" ELSE "title"

Others(j) == Job \ {j}

\* bound: further repeats of a page are not told apart.
Count(n) == IF n > MaxFailures + 1 THEN n ELSE n + 1

Begin(j) ==
    /\ run[j].phase = "none" /\ LastWiki >= 1
    /\ OverlappingRestart \/ \A k \in Others(j) : run[k].phase # "reset"
    /\ run' = [run EXCEPT ![j] = Reach(Source, 1)]
    /\ UNCHANGED <<World, cursor, handed, still, restarts, failures>>

\* --restart: both cursors of every wiki are emptied before the run sets out.
BeginRestart(j) ==
    /\ run[j].phase = "none" /\ restarts < MaxRestarts /\ LastWiki >= 1
    /\ OverlappingRestart \/ \A k \in Others(j) : run[k].phase = "none"
    /\ run' = [run EXCEPT ![j] = Bare("reset", 1, Source)]
    /\ restarts' = restarts + 1
    /\ UNCHANGED <<World, cursor, handed, still, failures>>

\* One set_state a step: the title cursor, then the length cursor (left counts).
Reset(j) ==
    LET r == run[j]
        m == IF r.left = 0 THEN "title" ELSE "length"
    IN  /\ r.phase = "reset"
        /\ cursor' = [cursor EXCEPT ![r.wiki][m] = Start]
        /\ handed' = [handed EXCEPT ![r.wiki][m] = [p \in Page |-> 0]]
        /\ still' = [still EXCEPT ![r.wiki][m] = Listed(r.wiki)]
        /\ run' = [run EXCEPT ![j] =
                     IF m = "title" THEN [r EXCEPT !.left = 1]
                     ELSE IF r.wiki < LastWiki THEN [r EXCEPT !.left = 0, !.wiki = @ + 1]
                     ELSE Reach(r.mode, 1)]
        /\ UNCHANGED <<World, restarts, failures>>

\* get_state; a walk that is complete is left alone.
Open(j) ==
    LET r == run[j]
        c == cursor[r.wiki][r.mode]
    IN  /\ r.phase = "wiki"
        /\ run' = [run EXCEPT ![j] =
                     IF c = Complete THEN Reach(r.mode, r.wiki + 1)
                     ELSE [r EXCEPT !.phase = "fetch", !.left = Batches, !.at = c]]
        /\ UNCHANGED <<World, cursor, handed, still, restarts, failures>>

\* Mutant of Got: the cursor is stored before the batch is queued.
GotAndStored(j, rows, next) ==
    /\ run' = [run EXCEPT ![j] = [@ EXCEPT !.phase = "queue", !.rows = rows, !.next = next]]
    /\ cursor' = [cursor EXCEPT ![run[j].wiki][run[j].mode] = next]
    /\ UNCHANGED <<World, handed, still, restarts, failures>>

\* The batch is in memory; nothing is stored yet.
Got(j, rows, next) ==
    /\ run' = [run EXCEPT ![j] = [@ EXCEPT !.phase = "queue", !.rows = rows, !.next = next]]
    /\ UNCHANGED <<World, cursor, handed, still, restarts, failures>>

FetchByLength(j) ==
    LET r == run[j]
        S == Remaining("length", r.wiki, r.at)
    IN  /\ r.phase = "fetch" /\ r.mode = "length" /\ r.wiki \notin Unreachable
        /\ \E B \in FirstOf("length", S) : \E c \in LengthCursors(B) : Got(j, B, c)

FetchByTitle(j) ==
    LET r == run[j]
        S == Remaining("title", r.wiki, r.at)
    IN  /\ r.phase = "fetch" /\ r.mode = "title"
        /\ \E B \in FirstOf("title", S) : \E c \in TitleCursors(B, S) : Got(j, B, c)

\* enqueue_if_stale, one page and one transaction after the other.
Hand(j) ==
    LET r == run[j]
    IN  /\ r.phase = "queue"
        /\ \E k \in r.rows :
              /\ \A o \in r.rows \ {k} : Before(r.mode, k, o)
              /\ run' = [run EXCEPT ![j] = [r EXCEPT !.rows = @ \ {k}]]
              /\ handed' = [handed EXCEPT ![r.wiki][r.mode][k[2]] = Count(@)]
        /\ UNCHANGED <<World, cursor, still, restarts, failures>>

\* Mutant of Stored: the end of the walk is stored as the empty cursor.
StoredEmpty(c) == IF c = Complete THEN Start ELSE c

\* cursor.encode() if cursor else COMPLETE.
Stored(c) == c

\* set_state, once the whole batch is queued; then the next batch or wiki.
Store(j) ==
    LET r == run[j]
    IN  /\ r.phase = "queue" /\ r.rows = {}
        /\ cursor' = [cursor EXCEPT ![r.wiki][r.mode] = Stored(r.next)]
        /\ run' = [run EXCEPT ![j] =
                     IF r.next = Complete \/ r.left = 1 THEN Reach(r.mode, r.wiki + 1)
                     ELSE [r EXCEPT !.phase = "fetch", !.left = @ - 1, !.at = r.next,
                                    !.next = Start]]
        /\ UNCHANGED <<World, handed, still, restarts, failures>>

\* The replica does not answer: main catches nothing, so the run ends with the
\* wikis that were to come.
ReplicaDown(j) ==
    /\ run[j].phase = "fetch" /\ run[j].mode = "length" /\ run[j].wiki \in Unreachable
    /\ run' = [run EXCEPT ![j] = NoRun]
    /\ UNCHANGED <<World, cursor, handed, still, restarts, failures>>

\* Any other exception, or the job's timeout, between two transactions.
Die(j) ==
    /\ run[j].phase # "none" /\ failures < MaxFailures
    /\ run' = [run EXCEPT ![j] = NoRun]
    /\ failures' = failures + 1
    /\ UNCHANGED <<World, cursor, handed, still, restarts>>

-----------------------------------------------------------------------------
(* The wikis and the operator.                                             *)

\* An edit, a creation, a deletion, a redirect made or unmade: the page leaves
\* the place it had, in the walk by title only if it is listed no longer.
Edit(w, p, l) ==
    /\ edits < MaxEdits /\ l # length[w][p]
    /\ length' = [length EXCEPT ![w][p] = l]
    /\ still' = [still EXCEPT ![w] =
                   [m \in Mode |-> IF m = "length" \/ l = Absent THEN @[m] \ {p} ELSE @[m]]]
    /\ edits' = edits + 1
    /\ UNCHANGED <<replica, cursor, run, handed, restarts, failures>>

Configure ==
    /\ edits < MaxEdits
    /\ replica' = ~replica
    /\ edits' = edits + 1
    /\ UNCHANGED <<length, cursor, run, handed, still, restarts, failures>>

Go(j) == Reset(j) \/ Open(j) \/ FetchByLength(j) \/ FetchByTitle(j) \/ Hand(j)
            \/ Store(j) \/ ReplicaDown(j)

Next ==
    \/ \E j \in Job : Begin(j) \/ BeginRestart(j) \/ Go(j) \/ Die(j)
    \/ \E w \in Wiki, p \in Page, l \in {Absent} \cup 0..MaxLength : Edit(w, p, l)
    \/ Configure

Spec == Init /\ [][Next]_vars

\* The job is scheduled every hour, and a run goes on until it ends.
Fairness == \A j \in Job : WF_vars(Begin(j)) /\ WF_vars(Go(j))

FairSpec == Spec /\ Fairness

-----------------------------------------------------------------------------
(* What is asked of it.                                                    *)

\* Every table, every run and every counter stays in its range, and a run that
\* holds a batch holds a place of the walk it is on.
TypeOK ==
    /\ length \in [Wiki -> [Page -> {Absent} \cup 0..MaxLength]]
    /\ replica \in BOOLEAN
    /\ cursor \in [Wiki -> [Mode -> Cursor]]
    /\ run \in [Job -> Run]
    /\ handed \in [Wiki -> [Mode -> [Page -> Nat]]]
    /\ still \in [Wiki -> [Mode -> SUBSET Page]]
    /\ {edits, restarts, failures} \subseteq Nat
    /\ \A j \in Job : run[j].phase # "none" => run[j].wiki \in Wiki

\* The walk has been past the place k when its cursor says c.
Passed(m, c, k) == c # Start /\ ~Ahead(m, c, k)

Met(w, m, p) == handed[w][m][p] > 0

\* "Resumable": whatever dies and wherever it dies, a cursor never gets past an
\* article that stood still while the walk came by and was not handed to the
\* queue; a walk that says it is complete has handed over every such article.
NoneSkipped ==
    \A w \in Wiki, m \in Mode : \A p \in still[w][m] :
        Passed(m, cursor[w][m], KeyOf(m, w, p)) => Met(w, m, p)

\* "Heaviest first": among the articles that stood still, none is handed over
\* before a heavier one, across batches, runs that died and edits around them.
HeaviestFirst ==
    \A w \in Wiki : \A p, q \in still[w]["length"] :
        Met(w, "length", p) /\ length[w][q] > length[w][p] => Met(w, "length", q)

\* The walk does not repeat what stood still, within a tie of lengths least of
\* all: with one run at a time, only a run that dies after queueing and before
\* storing its cursor makes the next one hand the same articles over again.
RepeatsOnlyAfterFailure ==
    \A w \in Wiki, m \in Mode : \A p \in still[w][m] : handed[w][m][p] <= 1 + failures

\* The wikis whose walk in this mode does not come behind an unreachable replica.
Served(w, m) == m = "length" => \A u \in Unreachable : w < u

\* Once nobody restarts, reconfigures or kills anything any more, every walk in
\* the mode that is configured ends and stays ended -- as far as the list of
\* wikis goes until the first one whose replica does not answer.
WalksEnd ==
    \A w \in Wiki, m \in Mode :
        Served(w, m) => <>[](m = Source => cursor[w][m] = Complete)

\* "A wiki whose replica is unreachable falls back to the Action API in title
\* order": one such wiki stops neither its own walk nor those of the others.
UnreachableFallsBack ==
    \A w \in Wiki : <>(\E m \in Mode : cursor[w][m] = Complete)
=============================================================================
