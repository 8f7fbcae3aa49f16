---------------------------- MODULE StandingProofs ----------------------------
(***************************************************************************)
(* Theorems about Standing, for any accounts, blocks, ration and recheck   *)
(* period.                                                                 *)
(***************************************************************************)
EXTENDS Standing, FiniteSetTheorems, WellFoundedInduction, TLAPS

LEMMA NumbersTyped ==
    /\ Account \subseteq Nat /\ IsFiniteSet(Account) /\ Mortal \subseteq Account
    /\ Longest \in Nat /\ Threshold \in Nat /\ ChecksPerRun \in Nat
    /\ Recheck \in Nat /\ MaxChanges \in Nat /\ Blocks \subseteq BlockInfo
BY StandingAssumption

-----------------------------------------------------------------------------
(* The ration.                                                             *)

\* A nonempty finite set of numbers has a greatest one.
LEMMA GreatestElement ==
    ASSUME NEW T, T \subseteq Nat, IsFiniteSet(T), T # {}
    PROVE  \E x \in T : \A y \in T : y <= x
<1>. DEFINE Above(a) == {b \in T : b > a}
            Tails == {Above(a) : a \in T}
<1>1. Tails # {} /\ Tails \subseteq FiniteSubsetsOf(T)
  <2>1. \A a \in T : Above(a) \in SUBSET T /\ IsFiniteSet(Above(a))
    BY FS_Subset
  <2>. QED  BY <2>1 DEF FiniteSubsetsOf
<1>2. PICK V \in Tails : \A U \in Tails : <<U, V>> \notin StrictSubsetOrdering(T)
  <2>. HIDE DEF Tails
  <2>. QED  BY <1>1, FS_StrictSubsetOrderingWellFounded, WFMin
<1>3. PICK a \in T : V = Above(a)
  BY <1>2
<1>4. ASSUME NEW c \in T, c > a PROVE FALSE
  <2>1. Above(c) \in Tails /\ Above(c) \subseteq V /\ c \in V /\ c \notin Above(c)
    <3>1. a \in Nat /\ c \in Nat /\ \A b \in T : b \in Nat
      OBVIOUS
    <3>2. \A b \in Above(c) : b \in T /\ b > a
      BY <1>4, <3>1
    <3>3. Above(c) \in Tails
      OBVIOUS
    <3>4. c \in V /\ c \notin Above(c)
      BY <1>3, <1>4, <3>1
    <3>5. Above(c) \subseteq V
      BY <1>3, <3>2
    <3>. QED  BY <3>3, <3>4, <3>5
  <2>. HIDE DEF Above, Tails
  <2>2. V \in SUBSET T /\ Above(c) \in SUBSET T
    BY <1>3 DEF Above
  <2>. QED  BY <1>2, <2>1, <2>2 DEF StrictSubsetOrdering
<1>. QED  BY <1>4

\* Fewer than n numbers below each: no more than n numbers.
LEMMA RationKept ==
    ASSUME NEW U, U \subseteq Nat, IsFiniteSet(U), NEW n \in Nat
    PROVE  Cardinality({a \in U : Cardinality({b \in U : b < a}) < n}) <= n
<1>. DEFINE Below(a) == {b \in U : b < a}
            T == {a \in U : Cardinality(Below(a)) < n}
<1>1. IsFiniteSet(T) /\ T \subseteq Nat /\ Cardinality(T) \in Nat
  BY FS_Subset, FS_CardinalityType
<1>2. ASSUME T = {} PROVE Cardinality(T) <= n
  <2>. HIDE DEF T
  <2>. QED  BY <1>2, FS_EmptySet
<1>3. ASSUME T # {} PROVE Cardinality(T) <= n
  <2>1. PICK m \in T : \A a \in T : a <= m
    <3>. HIDE DEF T
    <3>. QED  BY <1>1, <1>3, GreatestElement
  <2>2. Below(m) \in SUBSET U /\ T \ {m} \in SUBSET Below(m)
    <3>1. ASSUME NEW a \in T \ {m} PROVE a \in U /\ a < m
      <4>1. a \in Nat /\ m \in Nat /\ a <= m /\ a # m
        BY <2>1
      <4>. QED  BY <4>1
    <3>. QED  BY <3>1
  <2>3. IsFiniteSet(Below(m)) /\ Cardinality(Below(m)) \in Nat
    BY <2>2, FS_Subset, FS_CardinalityType
  <2>4. Cardinality(T \ {m}) <= Cardinality(Below(m))
    BY <2>2, <2>3, FS_Subset
  <2>5. Cardinality(T \ {m}) = Cardinality(T) - 1
    BY <1>1, <2>1, FS_RemoveElement
  <2>6. Cardinality(Below(m)) < n
    BY <2>1
  <2>. HIDE DEF T, Below
  <2>. QED  BY <1>1, <2>3, <2>4, <2>5, <2>6
<1>4. Cardinality(T) <= n
  BY <1>2, <1>3
<1>. QED  BY <1>4

-----------------------------------------------------------------------------
(* Types.                                                                  *)

\* A row that is there has been checked, or waits for its first check.
TrackedIn(rows) == \A a \in Account : rows[a] # NoRow => rows[a].checked # Untracked

StandingInv == TypeOK /\ TrackedIn(table) /\ TrackedIn(run.records)

RunType == [phase : Phases, ids : SUBSET Account, records : [Account -> Row],
            todo : SUBSET Account]

LEMMA RowTypes ==
    /\ NoBlock \in BlockInfo
    /\ NoRow \in Row /\ NoRow.checked = Untracked /\ NoRow.locked = FALSE
    /\ \A b \in BlockInfo : NewRow(b) \in Row /\ NewRow(b).checked = Never /\ NewRow(b) # NoRow
<1>1. NoBlock \in BlockInfo
  BY NumbersTyped DEF NoBlock, BlockInfo
<1>2. \A b \in BlockInfo : NewRow(b) \in Row /\ NewRow(b).checked = Never
  BY DEF NewRow, Row, Never
<1>3. NoRow \in Row /\ NoRow.checked = Untracked /\ NoRow.locked = FALSE
  BY <1>1 DEF NoRow, NewRow, Row
<1>. QED  BY <1>1, <1>2, <1>3 DEF Never, Untracked

\* Setting one column to a value of its range keeps the row a row and the rest of it.
LEMMA ColumnTypes ==
    ASSUME NEW row \in Row
    PROVE  /\ \A b \in BlockInfo : LET new == [row EXCEPT !.block = b]
                                   IN  /\ new \in Row /\ new.block = b /\ new.locked = row.locked
                                       /\ new.reason = row.reason /\ new.checked = row.checked
           /\ LET new == [row EXCEPT !.locked = TRUE]
              IN  /\ new \in Row /\ new.block = row.block /\ new.locked = TRUE
                  /\ new.reason = row.reason /\ new.checked = row.checked
           /\ LET new == [row EXCEPT !.locked = FALSE, !.reason = "other", !.checked = 0]
              IN  /\ new \in Row /\ new.block = row.block /\ new.locked = FALSE
                  /\ new.reason = "other" /\ new.checked = 0
           /\ \A x \in {"other", "sanction"} :
                 LET new == [row EXCEPT !.reason = x, !.checked = 0]
                 IN  /\ new \in Row /\ new.block = row.block /\ new.locked = row.locked
                     /\ new.reason = x /\ new.checked = 0
BY DEF Row

LEMMA NoRunType == /\ NoRun \in RunType /\ NoRun.phase = "idle" /\ NoRun.ids = {}
                   /\ NoRun.todo = {} /\ TrackedIn(NoRun.records)
BY RowTypes DEF NoRun, RunType, Phases, TrackedIn

\* An account's row and record after fetch_standing and after an hour.
LEMMA DraftedType ==
    ASSUME StandingInv, NEW a \in Account
    PROVE  /\ Drafted(a) \in Row
           /\ Drafted(a) # NoRow => Drafted(a).checked # Untracked
           /\ a \in run.ids /\ (table[a] # NoRow \/ Answered(a)) => Drafted(a) # NoRow
<1>0. /\ table[a] \in Row /\ block[a] \in BlockInfo
      /\ table[a] # NoRow => table[a].checked # Untracked
  BY DEF StandingInv, TypeOK, TrackedIn
<1>1. BlockSaid(a) \in BlockInfo
  BY <1>0, RowTypes DEF BlockSaid
<1>. DEFINE new == [table[a] EXCEPT !.block = BlockSaid(a)]
<1>2. new \in Row /\ new.checked = table[a].checked
  BY <1>0, <1>1 DEF Row
<1>3. /\ NewRow(BlockSaid(a)) \in Row /\ NewRow(BlockSaid(a)).checked = Never
      /\ NewRow(BlockSaid(a)) # NoRow
  BY <1>1, RowTypes
<1>. HIDE DEF new
<1>4. Drafted(a) = IF a \notin run.ids THEN NoRow
                   ELSE IF ~Answered(a) THEN table[a]
                   ELSE IF table[a] # NoRow THEN new
                   ELSE NewRow(BlockSaid(a))
  BY DEF Drafted, new
<1>. QED  BY <1>0, <1>2, <1>3, <1>4, RowTypes DEF Never, Untracked

LEMMA ExpiringType ==
    ASSUME NEW b \in BlockInfo
    PROVE  Expiring(b) \in BlockInfo /\ Ended(b) \in BlockInfo
<1>1. Expiring(b) \in BlockInfo
  <2>1. CASE b.left \in {0, Forever}
    BY <2>1 DEF Expiring
  <2>2. CASE b.left \notin {0, Forever}
    <3>1. b.left - 1 \in 0..Longest
      BY <2>2, NumbersTyped DEF BlockInfo
    <3>. QED  BY <2>2, <3>1 DEF Expiring, BlockInfo
  <2>. QED  BY <2>1, <2>2
<1>. QED  BY <1>1, RowTypes DEF Ended

LEMMA AgedType ==
    ASSUME StandingInv, NEW a \in Account
    PROVE  Aged(a) \in Row /\ (Aged(a) # NoRow => Aged(a).checked # Untracked)
<1>1. table[a] \in Row /\ (table[a] # NoRow => table[a].checked # Untracked)
  BY DEF StandingInv, TypeOK, TrackedIn
<1>2. CASE table[a] = NoRow
  BY <1>2, RowTypes DEF Aged
<1>3. CASE table[a] # NoRow
  <2>. DEFINE old == IF table[a].checked # Never /\ Older(a) THEN table[a].checked + 1
                     ELSE table[a].checked
  <2>1. old \in Nat \cup {Never}
    BY <1>1, <1>3 DEF Row, Never, Untracked
  <2>2. Expiring(table[a].block) \in BlockInfo
    BY <1>1, ExpiringType DEF Row
  <2>3. Aged(a) = [table[a] EXCEPT !.block = Expiring(table[a].block), !.checked = old]
    BY <1>1, <1>3 DEF Aged, Row
  <2>. HIDE DEF old
  <2>4. /\ [table[a] EXCEPT !.block = Expiring(table[a].block), !.checked = old] \in Row
        /\ [table[a] EXCEPT !.block = Expiring(table[a].block), !.checked = old].checked = old
    BY <1>1, <2>1, <2>2 DEF Row
  <2>5. old # Untracked
    BY <2>1 DEF Never, Untracked
  <2>. QED  BY <2>3, <2>4, <2>5
<1>. QED  BY <1>2, <1>3

\* A run asks about no more accounts than the ration: the stale rows of the
\* candidates, and as many of the unseen as there is room for.
LEMMA TodoRationed ==
    ASSUME StandingInv, NEW S \in SUBSET Account, Candidates(S)
    PROVE  LET todo == {a \in run.ids : Answered(a) /\ a \in S \cup Unseen(S)}
           IN  todo \subseteq run.ids /\ Cardinality(todo) <= ChecksPerRun
<1>. DEFINE unseen == {a \in run.ids : table[a] = NoRow}
            todo == {a \in run.ids : Answered(a) /\ a \in S \cup Unseen(S)}
            room == ChecksPerRun - Cardinality(S)
<1>1. /\ IsFiniteSet(S) /\ Cardinality(S) \in Nat
      /\ IsFiniteSet(Stale) /\ Cardinality(Stale) \in Nat
  BY NumbersTyped, FS_Subset, FS_CardinalityType DEF Stale
<1>2. room \in Nat
  <2>1. Cardinality(S) <= ChecksPerRun
    BY <1>1, NumbersTyped DEF Candidates
  <2>. QED  BY <1>1, <2>1, NumbersTyped
<1>3. unseen \subseteq Nat /\ IsFiniteSet(unseen) /\ unseen \in SUBSET Account
  <2>1. unseen \in SUBSET Account
    BY DEF StandingInv, TypeOK
  <2>. QED  BY <2>1, NumbersTyped, FS_Subset
<1>4. Cardinality(Unseen(S)) <= room
  <2>1. Unseen(S) = {a \in unseen : Cardinality({b \in unseen : b < a}) < room}
    BY DEF Unseen
  <2>. HIDE DEF unseen, room
  <2>. QED  BY <1>2, <1>3, <2>1, RationKept
<1>5. IsFiniteSet(Unseen(S)) /\ Cardinality(Unseen(S)) \in Nat
  <2>1. Unseen(S) \in SUBSET unseen
    BY DEF Unseen
  <2>. QED  BY <1>3, <2>1, FS_Subset, FS_CardinalityType
<1>6. /\ IsFiniteSet(S \cup Unseen(S))
      /\ Cardinality(S \cup Unseen(S)) <= Cardinality(S) + Cardinality(Unseen(S))
  <2>1. /\ IsFiniteSet(S \cup Unseen(S))
        /\ Cardinality(S \cup Unseen(S)) = Cardinality(S) + Cardinality(Unseen(S))
                                             - Cardinality(S \cap Unseen(S))
    BY <1>1, <1>5, FS_Union
  <2>2. Cardinality(S \cap Unseen(S)) \in Nat
    BY <1>1, FS_Intersection, FS_CardinalityType
  <2>. QED  BY <1>1, <1>5, <2>1, <2>2
<1>7. Cardinality(S \cup Unseen(S)) \in Nat
  BY <1>6, FS_CardinalityType
<1>8. Cardinality(todo) <= Cardinality(S \cup Unseen(S)) /\ Cardinality(todo) \in Nat
  <2>1. todo \in SUBSET (S \cup Unseen(S))
    OBVIOUS
  <2>. HIDE DEF todo
  <2>. QED  BY <1>6, <2>1, FS_Subset, FS_CardinalityType
<1>9. Cardinality(todo) <= ChecksPerRun
  <2>. HIDE DEF todo
  <2>. QED  BY <1>1, <1>4, <1>5, <1>6, <1>7, <1>8, NumbersTyped DEF room
<1>. QED  BY <1>9

\* A step of the run that has dealt with an account, or with half of it.
LEMMA RecordAssigned ==
    ASSUME StandingInv, NEW phase \in Phases, NEW todo \in SUBSET run.todo,
           NEW a \in Account, NEW row \in Row, row # NoRow, row.checked # Untracked,
           phase = "reason" => todo # {},
           run' = [run EXCEPT !.phase = phase, !.todo = todo, !.records[a] = row],
           UNCHANGED <<named, block, lock, gone, table, moved>>,
           changes' \in 0..MaxChanges
    PROVE  StandingInv'
<1>0. run \in RunType /\ run.todo \subseteq Account
  BY DEF StandingInv, TypeOK, RunType
<1>1. /\ run' \in RunType /\ run'.phase = phase /\ run'.todo = todo /\ run'.ids = run.ids
      /\ run'.records = [run.records EXCEPT ![a] = row]
  BY <1>0 DEF RunType
<1>2. Cardinality(run'.todo) <= ChecksPerRun
  <2>1. IsFiniteSet(run.todo)
    BY <1>0, NumbersTyped, FS_Subset
  <2>2. /\ Cardinality(todo) <= Cardinality(run.todo)
        /\ Cardinality(todo) \in Nat /\ Cardinality(run.todo) \in Nat
    BY <2>1, FS_Subset, FS_CardinalityType
  <2>. QED  BY <1>1, <2>2, NumbersTyped DEF StandingInv, TypeOK
<1>3. \A b \in run'.todo : b \in run'.ids /\ run'.records[b] # NoRow
  BY <1>0, <1>1 DEF StandingInv, TypeOK, RunType
<1>4. TrackedIn(run.records)' /\ TrackedIn(table)'
  BY <1>0, <1>1 DEF StandingInv, TrackedIn, RunType
<1>. QED  BY <1>1, <1>2, <1>3, <1>4 DEF StandingInv, TypeOK, RunType

LEMMA CountType ==
    ASSUME TypeOK, Count
    PROVE  changes' \in 0..MaxChanges
BY NumbersTyped DEF TypeOK, Count

\* A step around the job, or one that ends or begins a run.
LEMMA RunReset ==
    ASSUME StandingInv, run' = run \/ run' = NoRun \/ run' = [NoRun EXCEPT !.phase = "fetch", !.ids = named],
           named' \subseteq Account, gone' \subseteq Mortal, moved' \subseteq Account,
           block' \in [Account -> BlockInfo], lock' \in [Account -> Locks],
           table' \in [Account -> Row], TrackedIn(table)',
           changes' \in 0..MaxChanges
    PROVE  StandingInv'
<1>1. /\ run' \in RunType /\ Cardinality(run'.todo) <= ChecksPerRun
      /\ \A a \in run'.todo : a \in run'.ids /\ run'.records[a] # NoRow
      /\ run'.phase = "reason" => run'.todo # {}
      /\ TrackedIn(run.records)'
  <2>1. CASE run' = run
    BY <2>1 DEF StandingInv, TypeOK, RunType, TrackedIn
  <2>2. CASE run' = NoRun
    BY <2>2, NoRunType, FS_EmptySet, NumbersTyped DEF TrackedIn
  <2>3. CASE run' = [NoRun EXCEPT !.phase = "fetch", !.ids = named]
    <3>1. /\ run' \in RunType /\ run'.phase = "fetch" /\ run'.todo = {}
          /\ run'.records = NoRun.records
      BY <2>3, NoRunType DEF RunType, Phases, StandingInv, TypeOK
    <3>. QED  BY <3>1, NoRunType, FS_EmptySet, NumbersTyped DEF TrackedIn
  <2>. QED  BY <2>1, <2>2, <2>3
<1>. QED  BY <1>1 DEF StandingInv, TypeOK, RunType

LEMMA StandingStep == StandingInv /\ [Next]_vars => StandingInv'
<1>. SUFFICES ASSUME StandingInv, [Next]_vars PROVE StandingInv'
  OBVIOUS
<1>0. TypeOK /\ TrackedIn(table) /\ run \in RunType /\ run.todo \subseteq Account
      /\ table \in [Account -> Row] /\ TrackedIn(run.records)
  BY DEF StandingInv, TypeOK, RunType
<1>1. ASSUME NEW a \in Account, SetBlock(a) \/ SetLock(a) \/ Vanish(a) \/ Rename(a)
      PROVE  StandingInv'
  <2>1. changes' \in 0..MaxChanges /\ moved' \subseteq Account
    BY <1>0, <1>1, CountType DEF SetBlock, SetLock, Vanish, Rename, Change, TypeOK
  <2>2. block' \in [Account -> BlockInfo]
    BY <1>0, <1>1, NumbersTyped, RowTypes DEF SetBlock, SetLock, Vanish, Rename, TypeOK
  <2>3. lock' \in [Account -> Locks]
    BY <1>0, <1>1 DEF SetBlock, SetLock, Vanish, Rename, TypeOK
  <2>4. named' \subseteq Account /\ gone' \subseteq Mortal
    BY <1>0, <1>1 DEF SetBlock, SetLock, Vanish, Rename, TypeOK
  <2>5. UNCHANGED <<table, run>>
    BY <1>1 DEF SetBlock, SetLock, Vanish, Rename
  <2>. QED  BY <1>0, <2>1, <2>2, <2>3, <2>4, <2>5, RunReset DEF TrackedIn
<1>2. CASE Begin \/ Abort \/ UNCHANGED vars
  <2>1. changes' \in 0..MaxChanges /\ moved' \subseteq Account
    BY <1>0, <1>2, CountType DEF Begin, Abort, vars, TypeOK
  <2>2. /\ UNCHANGED <<named, block, lock, gone, table>>
        /\ run' = run \/ run' = NoRun \/ run' = [NoRun EXCEPT !.phase = "fetch", !.ids = named]
    BY <1>2 DEF Begin, Abort, vars
  <2>. QED  BY <1>0, <2>1, <2>2, RunReset DEF TypeOK, TrackedIn
<1>3. CASE Replace
  <2>1. table' \in [Account -> Row] /\ TrackedIn(table)'
    BY <1>0, <1>3 DEF Replace, RunType, TrackedIn
  <2>. QED  BY <1>0, <1>3, <2>1, RunReset DEF Replace, TypeOK
<1>4. CASE Fetch
  <2>1. PICK S \in SUBSET Account :
           /\ Candidates(S)
           /\ run' = [run EXCEPT !.phase = "locks",
                        !.records = [a \in Account |-> Drafted(a)],
                        !.todo = {a \in run.ids : Answered(a) /\ a \in S \cup Unseen(S)}]
    BY <1>4 DEF Fetch
  <2>. DEFINE todo == {a \in run.ids : Answered(a) /\ a \in S \cup Unseen(S)}
  <2>2. todo \subseteq run.ids /\ Cardinality(todo) <= ChecksPerRun
    BY <2>1, TodoRationed
  <2>3. \A a \in todo : Answered(a)
    OBVIOUS
  <2>4. run' = [run EXCEPT !.phase = "locks", !.records = [a \in Account |-> Drafted(a)],
                           !.todo = todo]
    BY <2>1
  <2>. HIDE DEF todo
  <2>5. [a \in Account |-> Drafted(a)] \in [Account -> Row]
    BY DraftedType
  <2>6. /\ run' \in RunType /\ run'.phase = "locks" /\ run'.todo = todo /\ run'.ids = run.ids
        /\ \A a \in Account : run'.records[a] = Drafted(a)
    BY <1>0, <2>2, <2>4, <2>5 DEF RunType, Phases
  <2>7. \A a \in run'.todo : a \in run'.ids /\ run'.records[a] # NoRow
    BY <1>0, <2>2, <2>3, <2>6, DraftedType DEF RunType
  <2>8. TrackedIn(run.records)'
    BY <2>6, DraftedType DEF TrackedIn
  <2>9. UNCHANGED <<named, block, lock, gone, table, changes, moved>>
    BY <1>4 DEF Fetch
  <2>. QED  BY <1>0, <2>2, <2>6, <2>7, <2>8, <2>9 DEF StandingInv, TypeOK, RunType, TrackedIn
<1>5. ASSUME NEW a \in Account, ReadLock(a) \/ ReadReason(a) \/ LockUnread(a)
      PROVE  StandingInv'
  <2>. DEFINE record == run.records[a]
  <2>1. /\ a \in run.todo /\ record \in Row /\ record # NoRow /\ record.checked # Untracked
    BY <1>0, <1>5 DEF ReadLock, ReadReason, LockUnread, Turn, TypeOK, RunType, TrackedIn
  <2>2. /\ "locks" \in Phases /\ "reason" \in Phases /\ "locks" # "reason"
        /\ run.todo \ {a} \in SUBSET run.todo /\ run.todo \in SUBSET run.todo
        /\ run.todo # {}
    BY <2>1 DEF Phases
  <2>3. changes' \in 0..MaxChanges /\ UNCHANGED <<named, block, lock, gone, table, moved>>
    BY <1>0, <1>5, CountType DEF ReadLock, ReadReason, LockUnread, TypeOK
  <2>4. CASE ReadLock(a) /\ (lock[a] = "none" \/ a \in gone)
    <3>. DEFINE new == [record EXCEPT !.locked = FALSE, !.reason = "other", !.checked = 0]
    <3>1. new \in Row /\ new.checked = 0
      BY <2>1, ColumnTypes
    <3>. HIDE DEF new
    <3>2. new # NoRow /\ new.checked # Untracked
      BY <3>1, RowTypes DEF Untracked
    <3>3. run' = [run EXCEPT !.phase = "locks", !.todo = run.todo \ {a}, !.records[a] = new]
      BY <1>0, <2>4 DEF ReadLock, RunType, new
    <3>. QED  BY <2>2, <2>3, <3>1, <3>2, <3>3, RecordAssigned
  <2>5. CASE ReadLock(a) /\ ~(lock[a] = "none" \/ a \in gone)
    <3>. DEFINE new == [record EXCEPT !.locked = TRUE]
    <3>1. new \in Row /\ new.checked = record.checked /\ new.locked = TRUE
      BY <2>1, ColumnTypes
    <3>. HIDE DEF new
    <3>2. new # NoRow /\ new.checked # Untracked
      BY <2>1, <3>1, RowTypes
    <3>3. run' = [run EXCEPT !.phase = "reason", !.todo = run.todo, !.records[a] = new]
      BY <1>0, <2>5 DEF ReadLock, RunType, new
    <3>. QED  BY <2>2, <2>3, <3>1, <3>2, <3>3, RecordAssigned
  <2>6. CASE ReadReason(a)
    <3>1. PICK reason \in {"other", "sanction"} :
             run' = [run EXCEPT !.phase = "locks", !.todo = @ \ {a},
                        !.records[a] = [@ EXCEPT !.reason = reason, !.checked = 0]]
      BY <2>6 DEF ReadReason
    <3>. DEFINE new == [record EXCEPT !.reason = reason, !.checked = 0]
    <3>2. new \in Row /\ new.checked = 0
      BY <2>1 DEF Row
    <3>. HIDE DEF new
    <3>3. new # NoRow /\ new.checked # Untracked
      BY <3>2, RowTypes DEF Untracked
    <3>4. run' = [run EXCEPT !.phase = "locks", !.todo = run.todo \ {a}, !.records[a] = new]
      BY <1>0, <3>1 DEF RunType, new
    <3>. QED  BY <2>2, <2>3, <3>2, <3>3, <3>4, RecordAssigned
  <2>7. CASE LockUnread(a)
    <3>1. run' = [run EXCEPT !.phase = "locks", !.todo = run.todo \ {a}, !.records[a] = record]
      BY <1>0, <2>7 DEF LockUnread, RunType
    <3>. HIDE DEF record
    <3>. QED  BY <2>1, <2>2, <2>3, <3>1, RecordAssigned
  <2>. QED  BY <1>5, <2>4, <2>5, <2>6, <2>7
<1>6. CASE Tick
  <2>1. table' \in [Account -> Row] /\ TrackedIn(table)'
    BY <1>6, AgedType DEF Tick, TrackedIn
  <2>2. block' \in [Account -> BlockInfo]
    BY <1>0, <1>6, ExpiringType DEF Tick, TypeOK
  <2>. QED  BY <1>0, <1>6, <2>1, <2>2, RunReset DEF Tick, TypeOK
<1>. QED  BY <1>1, <1>2, <1>3, <1>4, <1>5, <1>6 DEF Next

LEMMA StandingAlways == Spec => []StandingInv
<1>1. Init => StandingInv
  <2>. SUFFICES ASSUME Init PROVE StandingInv
    OBVIOUS
  <2>1. block \in [Account -> BlockInfo]
    BY NumbersTyped, RowTypes DEF Init
  <2>2. table \in [Account -> Row] /\ TrackedIn(table)
    BY RowTypes DEF Init, TrackedIn
  <2>3. run = NoRun
    BY DEF Init
  <2>. QED  BY <2>1, <2>2, <2>3, NoRunType, NumbersTyped, FS_EmptySet
            DEF Init, StandingInv, TypeOK, RunType
<1>. QED  BY <1>1, StandingStep, PTL DEF Spec

\* Facts, rows and the run in progress stay in their ranges (Drafted), and no run asks
\* CentralAuth about more accounts than its ration (sync_wiki), whatever the wiki
\* does and wherever a run ends.
THEOREM StandingTyped == Spec => []TypeOK
<1>1. StandingInv => TypeOK
  BY DEF StandingInv
<1>. QED  BY <1>1, StandingAlways, PTL

-----------------------------------------------------------------------------
(* No amnesty by accident.                                                 *)

\* What a run has drafted for an account still withholds the name if the table
\* does and the wiki's facts are what they were.
Kept(a) ==
    table[a] # NoRow =>
        /\ run.records[a] # NoRow
        /\ a \notin gone \cap Flagged =>
              /\ BlockBars(table[a].block) /\ BlockBars(block[a]) =>
                     BlockBars(run.records[a].block)
              /\ LockBars(table[a]) /\ lock[a] = "sanction" => LockBars(run.records[a])

\* The accounts still to be asked about have answered: those that were gone when
\* the run began have an item flagged missing.
RunAgrees ==
    /\ run.phase = "idle" => run.ids = {}
    /\ run.phase \in {"locks", "reason"} => \A a \in run.ids \ moved : Kept(a)
    /\ \A a \in run.todo \ moved : a \in gone => a \in Flagged

LEMMA DraftKeeps ==
    ASSUME StandingInv, NEW a \in run.ids,
           run'.records[a] = Drafted(a), UNCHANGED <<table, block, lock, gone>>
    PROVE  Kept(a)'
<1>1. /\ a \in Account /\ table[a] \in Row /\ block[a] \in BlockInfo
  BY DEF StandingInv, TypeOK
<1>2. CASE table[a] = NoRow
  BY <1>2 DEF Kept
<1>3. CASE table[a] # NoRow /\ a \in gone
  <2>1. CASE a \in Flagged
    <3>1. Drafted(a) # NoRow
      BY <1>1, <1>3, <2>1, DraftedType DEF Answered
    <3>. QED  BY <1>3, <2>1, <3>1 DEF Kept
  <2>2. CASE a \notin Flagged
    <3>1. Drafted(a) = table[a]
      BY <1>3, <2>2 DEF Drafted, Answered
    <3>. QED  BY <1>3, <3>1 DEF Kept, LockBars
  <2>. QED  BY <2>1, <2>2
<1>4. CASE table[a] # NoRow /\ a \notin gone
  <2>1. Drafted(a) = [table[a] EXCEPT !.block = block[a]]
    BY <1>4 DEF Drafted, Answered, BlockSaid
  <2>2. /\ Drafted(a).block = block[a] /\ Drafted(a).locked = table[a].locked
        /\ Drafted(a).reason = table[a].reason
    BY <1>1, <2>1 DEF Row
  <2>3. Drafted(a) # NoRow
    BY <1>1, <1>4, DraftedType
  <2>. QED  BY <2>2, <2>3 DEF Kept, LockBars
<1>. QED  BY <1>2, <1>3, <1>4

LEMMA AgreesStep ==
    ASSUME StandingInv, RunAgrees, [Next]_vars
    PROVE  RunAgrees'
<1>0. /\ TypeOK /\ TrackedIn(table) /\ run \in RunType /\ run.todo \subseteq Account
      /\ run.ids \subseteq Account /\ StandingInv'
  BY StandingStep DEF StandingInv, TypeOK, RunType
<1>1. ASSUME NEW a \in Account, SetBlock(a) \/ SetLock(a) \/ Vanish(a) \/ Rename(a)
      PROVE  RunAgrees'
  <2>1. /\ UNCHANGED <<table, run>> /\ moved \subseteq moved'
        /\ \A b \in Account \ moved' : /\ b \in Account \ moved
                                       /\ block'[b] = block[b] /\ lock'[b] = lock[b]
                                       /\ b \in gone' <=> b \in gone
    BY <1>0, <1>1 DEF SetBlock, SetLock, Vanish, Rename, Change, TypeOK
  <2>. QED  BY <1>0, <2>1 DEF RunAgrees, Kept
<1>2. CASE Begin \/ Abort \/ Replace
  <2>1. run' = NoRun \/ run' = [NoRun EXCEPT !.phase = "fetch", !.ids = named]
    BY <1>2 DEF Begin, Abort, Replace
  <2>2. /\ run'.todo = {} /\ run'.phase \notin {"locks", "reason"}
        /\ run'.phase = "idle" => run'.ids = {}
    BY <2>1, NoRunType DEF RunType
  <2>. QED  BY <2>2 DEF RunAgrees
<1>3. CASE Fetch
  <2>1. PICK S \in SUBSET Account :
           run' = [run EXCEPT !.phase = "locks",
                        !.records = [a \in Account |-> Drafted(a)],
                        !.todo = {a \in run.ids : Answered(a) /\ a \in S \cup Unseen(S)}]
    BY <1>3 DEF Fetch
  <2>2. /\ run'.phase = "locks" /\ run'.ids = run.ids
        /\ \A a \in Account : run'.records[a] = Drafted(a)
        /\ \A a \in run'.todo : Answered(a)
    BY <1>0, <2>1 DEF RunType
  <2>3. UNCHANGED <<table, block, lock, gone, moved>>
    BY <1>3 DEF Fetch
  <2>4. \A a \in run.ids : Kept(a)'
    BY <1>0, <2>2, <2>3, DraftKeeps
  <2>. QED  BY <2>2, <2>3, <2>4 DEF RunAgrees, Answered
<1>4. ASSUME NEW a \in Account, ReadLock(a) \/ ReadReason(a) \/ LockUnread(a)
      PROVE  RunAgrees'
  <2>. DEFINE record == run.records[a]
  <2>1. /\ UNCHANGED <<table, block, lock, gone, moved>> /\ a \in run.todo
        /\ run.phase \in {"locks", "reason"}
        /\ record \in Row /\ a \in run.ids /\ record # NoRow
    BY <1>0, <1>4 DEF ReadLock, ReadReason, LockUnread, Turn, RunType, TypeOK
  <2>2. /\ run'.ids = run.ids /\ run'.phase \in {"locks", "reason"}
        /\ run'.todo \subseteq run.todo
        /\ \A b \in Account : b # a => run'.records[b] = run.records[b]
    <3>1. CASE ReadLock(a) /\ (lock[a] = "none" \/ a \in gone)
      BY <1>0, <3>1 DEF ReadLock, RunType
    <3>2. CASE ReadLock(a) /\ ~(lock[a] = "none" \/ a \in gone)
      BY <1>0, <3>2 DEF ReadLock, RunType
    <3>3. CASE ReadReason(a)
      BY <1>0, <3>3 DEF ReadReason, RunType
    <3>4. CASE LockUnread(a)
      BY <1>0, <3>4 DEF LockUnread, RunType
    <3>. QED  BY <1>4, <3>1, <3>2, <3>3, <3>4
  <2>3. /\ run'.records[a].block = record.block
        /\ LockBars(record) /\ lock[a] = "sanction" /\ a \notin gone => LockBars(run'.records[a])
        /\ run'.records[a] # NoRow
    <3>1. CASE ReadLock(a) /\ (lock[a] = "none" \/ a \in gone)
      <4>1. run'.records[a] = [record EXCEPT !.locked = FALSE, !.reason = "other", !.checked = 0]
        BY <1>0, <3>1 DEF ReadLock, RunType
      <4>2. run'.records[a].checked = 0 /\ run'.records[a].block = record.block
        BY <2>1, <4>1 DEF Row
      <4>3. LockBars(record) /\ lock[a] = "sanction" => a \in gone
        BY <3>1
      <4>. QED  BY <4>2, <4>3, RowTypes DEF Untracked
    <3>2. CASE ReadLock(a) /\ ~(lock[a] = "none" \/ a \in gone)
      <4>1. run'.records[a] = [record EXCEPT !.locked = TRUE]
        BY <1>0, <3>2 DEF ReadLock, RunType
      <4>2. run'.records[a].locked = TRUE
        BY <2>1, <4>1 DEF Row
      <4>. QED  BY <2>1, <4>1, <4>2, RowTypes DEF Row, LockBars
    <3>3. CASE ReadReason(a)
      <4>1. PICK reason \in {"other", "sanction"} :
               /\ lock[a] # "none" => reason = lock[a]
               /\ run'.records[a] = [record EXCEPT !.reason = reason, !.checked = 0]
        BY <1>0, <3>3 DEF ReadReason, RunType
      <4>2. /\ run'.records[a].checked = 0 /\ run'.records[a].block = record.block
            /\ run'.records[a].locked = record.locked /\ run'.records[a].reason = reason
        BY <2>1, <4>1 DEF Row
      <4>3. LockBars(record) /\ lock[a] = "sanction" => LockBars(run'.records[a])
        BY <4>1, <4>2 DEF LockBars
      <4>. QED  BY <4>2, <4>3, RowTypes DEF Untracked
    <3>4. CASE LockUnread(a)
      <4>1. run'.records[a] = record
        BY <1>0, <3>4 DEF LockUnread, RunType
      <4>. QED  BY <2>1, <4>1
    <3>. QED  BY <1>4, <3>1, <3>2, <3>3, <3>4
  <2>. QED  BY <1>0, <2>1, <2>2, <2>3 DEF RunAgrees, Kept
<1>5. CASE Tick
  <2>1. UNCHANGED <<run, moved, gone>> /\ run.phase = "idle"
    BY <1>5 DEF Tick
  <2>. QED  BY <2>1 DEF RunAgrees
<1>6. CASE UNCHANGED vars
  BY <1>6 DEF vars, RunAgrees, Kept
<1>. QED  BY <1>1, <1>2, <1>3, <1>4, <1>5, <1>6 DEF Next

\* "A network failure is not a general amnesty" (sync_wiki, fetch_standing): no
\* step of a run forgets an account, or makes a name reappear whose block or lock
\* stands -- whatever a lock check answers, fails or changes half-way, whoever is
\* gone with or without an item flagged missing, for any number of accounts and
\* any ration.
THEOREM NoAmnesty == Spec => SanctionsSurvive
<1>1. Init => RunAgrees
  BY NoRunType DEF Init, RunAgrees
<1>2. StandingInv /\ RunAgrees /\ [Next]_vars => RunAgrees'
  BY AgreesStep
<1>3. ASSUME StandingInv, RunAgrees, [Next]_vars, NEW a \in run.ids \ moved, table[a] # NoRow
      PROVE  /\ table'[a] # NoRow
             /\ a \notin gone \cap Flagged =>
                   /\ BlockBars(table[a].block) /\ BlockBars(block[a]) =>
                          BlockBars(table'[a].block)
                   /\ LockBars(table[a]) /\ lock[a] = "sanction" => LockBars(table'[a])
  <2>1. CASE UNCHANGED table
    BY <1>3, <2>1
  <2>2. CASE Replace
    BY <1>3, <2>2 DEF Replace, RunAgrees, Kept
  <2>3. CASE Tick
    BY <1>3, <2>3 DEF Tick, RunAgrees
  <2>. QED
    BY <1>3, <2>1, <2>2, <2>3
       DEF Next, SetBlock, SetLock, Vanish, Rename, Begin, Fetch, ReadLock, ReadReason,
           LockUnread, Abort, vars
<1>4. StandingInv /\ RunAgrees /\ [Next]_vars
        => [\A a \in run.ids \ moved :
              table[a] # NoRow =>
                 /\ table'[a] # NoRow
                 /\ a \notin gone \cap Flagged =>
                       /\ BlockBars(table[a].block) /\ BlockBars(block[a]) =>
                              BlockBars(table'[a].block)
                       /\ LockBars(table[a]) /\ lock[a] = "sanction" => LockBars(table'[a])]_vars
  BY <1>3
<1>. QED  BY <1>1, <1>2, <1>4, StandingAlways, PTL DEF Spec, SanctionsSurvive
===============================================================================
