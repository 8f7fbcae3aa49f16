------------------------- MODULE WorkQueueLeaseProofs -------------------------
(***************************************************************************)
(* Theorems about WorkQueue that rest on who remembers a row.  While every *)
(* attempt ends within its lease, the row a worker addresses by id alone   *)
(* is its own.  And whoever remembers a row that is gone finds a result    *)
(* in its place, so that demand is kept.  For every value of the constants.*)
(***************************************************************************)
EXTENDS WorkQueueProofs

\* The phases after the worker has let go of its row: it still knows the id, and
\* fail() may still write by it.
Released == {"requeue", "register", "fail"}

\* The row a worker holds is leased to this very attempt and has not expired.
RowsOwned ==
    \A w \in Worker : worker[w].phase \in Holding =>
        /\ work[worker[w].job].id = worker[w].id
        /\ work[worker[w].job].state = "leased"
        /\ work[worker[w].job].lease >= 0
        /\ work[worker[w].job].attempts = worker[w].attempts

\* A row its worker has let go of is superseded, unless it is gone.
LeftAlone ==
    \A w \in Worker :
        /\ worker[w].phase \in Released
        /\ work[worker[w].job].state # "none"
        /\ work[worker[w].job].id = worker[w].id
        => work[worker[w].job].state = "superseded"

\* No two workers remember the same row.
IdsApart ==
    \A v, w \in Worker :
        /\ v # w /\ worker[v].phase # "idle" /\ worker[w].phase # "idle"
        /\ worker[v].job = worker[w].job
        => worker[v].id # worker[w].id

LeaseInv == TypeOK /\ RowsOwned /\ LeftAlone /\ IdsApart

-----------------------------------------------------------------------------
(* Steps that disturb no worker.                                           *)

\* What a step may do to the row of j without touching what a worker holds: keep
\* its owner, remove it or reuse it unless it is leased, or insert it under an id
\* that no worker of the job remembers.
Mild(j) ==
    \/ /\ work'[j].id = work[j].id /\ work'[j].state = work[j].state
       /\ work'[j].lease = work[j].lease /\ work'[j].attempts = work[j].attempts
    \/ work[j].state \in {"pending", "dead", "superseded"} /\ work'[j].state = "none"
    \/ work[j].state \in {"pending", "dead"} /\ work'[j].id = work[j].id
    \/ /\ work[j].state = "none"
       /\ \A w \in Worker : worker[w].phase # "idle" /\ worker[w].job = j =>
                               worker[w].id # work'[j].id

\* The worker ends its attempt, or goes on with the same row and the same right to it.
GoesOn(w) ==
    \/ worker'[w].phase = "idle"
    \/ /\ worker'[w].job = worker[w].job /\ worker'[w].id = worker[w].id
       /\ worker'[w].attempts = worker[w].attempts
       /\ \/ worker[w].phase \in Holding /\ worker'[w].phase \in Holding
          \/ worker[w].phase \in Released /\ worker'[w].phase \in Released

LEMMA PhaseParts ==
    ASSUME NEW ph \in Phases
    PROVE  /\ ph = "idle" \/ ph \in Holding \/ ph \in Released
           /\ ~(ph \in Holding /\ ph \in Released)
           /\ ph \in Holding \cup Released => ph # "idle"
BY DEF Phases, Holding, Released

\* A worker in the middle of something is about a job.
LEMMA BusyKnown ==
    ASSUME TypeOK, NEW w \in Worker
    PROVE  /\ worker[w] \in WorkerState /\ worker[w].phase \in Phases
           /\ worker[w].phase # "idle" => worker[w].job \in Job
           /\ worker[w].phase \in Holding \cup Released => worker[w].phase # "idle"
BY PhaseParts DEF TypeOK, JobsKnown, WorkerState

LEMMA MildStep ==
    ASSUME LeaseInv, TypeOK', \A j \in Job : Mild(j), \A w \in Worker : GoesOn(w)
    PROVE  LeaseInv'
<1>0. TypeOK /\ RowsOwned /\ LeftAlone /\ IdsApart
  BY DEF LeaseInv
<1>1. ASSUME NEW w \in Worker, worker'[w].phase # "idle"
      PROVE  /\ worker[w].phase # "idle" /\ worker[w].job \in Job
             /\ worker'[w].job = worker[w].job /\ worker'[w].id = worker[w].id
             /\ worker'[w].attempts = worker[w].attempts
             /\ worker'[w].phase \in Holding => worker[w].phase \in Holding
             /\ worker'[w].phase \in Released => worker[w].phase \in Released
             /\ Mild(worker[w].job)
  <2>1. worker[w].phase \in Phases /\ worker'[w].phase \in Phases
    BY <1>0, BusyKnown DEF TypeOK, WorkerState
  <2>. QED  BY <1>0, <1>1, <2>1, BusyKnown, PhaseParts DEF GoesOn
<1>2. RowsOwned'
  <2>1. ASSUME NEW w \in Worker, worker'[w].phase \in Holding
        PROVE  /\ work'[worker'[w].job].id = worker'[w].id
               /\ work'[worker'[w].job].state = "leased"
               /\ work'[worker'[w].job].lease >= 0
               /\ work'[worker'[w].job].attempts = worker'[w].attempts
    <3>1. worker'[w].phase # "idle"
      BY <2>1 DEF Holding
    <3>2. /\ work[worker[w].job].id = worker[w].id
          /\ work[worker[w].job].state = "leased"
          /\ work[worker[w].job].lease >= 0
          /\ work[worker[w].job].attempts = worker[w].attempts
      BY <1>0, <1>1, <2>1, <3>1 DEF RowsOwned
    <3>. QED  BY <1>1, <3>1, <3>2 DEF Mild
  <2>. QED  BY <2>1 DEF RowsOwned
<1>3. LeftAlone'
  <2>1. ASSUME NEW w \in Worker, worker'[w].phase \in Released,
               work'[worker'[w].job].state # "none",
               work'[worker'[w].job].id = worker'[w].id
        PROVE  work'[worker'[w].job].state = "superseded"
    <3>1. worker'[w].phase # "idle"
      BY <2>1 DEF Released
    <3>. DEFINE j == worker[w].job
    <3>2. work[j].state # "none" /\ work[j].id = worker[w].id => work[j].state = "superseded"
      BY <1>0, <1>1, <2>1, <3>1 DEF LeftAlone
    <3>. QED  BY <1>1, <2>1, <3>1, <3>2 DEF Mild
  <2>. QED  BY <2>1 DEF LeftAlone
<1>4. IdsApart'
  BY <1>0, <1>1 DEF IdsApart
<1>. QED  BY <1>2, <1>3, <1>4 DEF LeaseInv

\* A statement that writes by the id of a worker hits that worker's row or none.
LEMMA OwnRowStep ==
    ASSUME LeaseInv, TypeOK', NEW w \in Worker, worker[w].phase # "idle",
           \A j \in Job : j # worker[w].job => work'[j] = work[j],
           \/ work'[worker[w].job] = work[worker[w].job]
              /\ (work[worker[w].job].state = "none" \/ work[worker[w].job].id # worker[w].id)
           \/ /\ work[worker[w].job].id = worker[w].id
              /\ \/ work'[worker[w].job].state = "none"
                 \/ work'[worker[w].job].id = worker[w].id,
           \A v \in Worker : v # w => worker'[v] = worker[v],
           \/ worker'[w].phase = "idle"
           \/ /\ worker'[w].phase \in Released
              /\ worker'[w].job = worker[w].job /\ worker'[w].id = worker[w].id
              /\ work'[worker[w].job].state \in {"none", "superseded"}
    PROVE  LeaseInv'
<1>. DEFINE j == worker[w].job
<1>0. TypeOK /\ RowsOwned /\ LeftAlone /\ IdsApart
  BY DEF LeaseInv
<1>1. ASSUME NEW v \in Worker, v # w, worker[v].phase # "idle"
      PROVE  \/ work'[worker[v].job] = work[worker[v].job]
             \/ /\ worker[v].job = j /\ worker[v].phase \notin Holding
                /\ work'[j].state = "none" \/ work'[j].id # worker[v].id
  <2>1. worker[v].job \in Job
    BY <1>0, <1>1, BusyKnown
  <2>2. CASE worker[v].job = j /\ work[j].id = worker[w].id
    <3>1. worker[v].id # worker[w].id
      BY <1>0, <1>1, <2>2 DEF IdsApart
    <3>. QED  BY <1>0, <1>1, <2>2, <3>1 DEF RowsOwned
  <2>. QED  BY <2>1, <2>2
<1>2. RowsOwned'
  <2>1. ASSUME NEW v \in Worker, worker'[v].phase \in Holding
        PROVE  /\ work'[worker'[v].job].id = worker'[v].id
               /\ work'[worker'[v].job].state = "leased"
               /\ work'[worker'[v].job].lease >= 0
               /\ work'[worker'[v].job].attempts = worker'[v].attempts
    <3>1. v # w /\ worker'[v] = worker[v] /\ worker[v].phase # "idle"
      BY <2>1 DEF Holding, Released
    <3>2. work'[worker[v].job] = work[worker[v].job]
      BY <1>1, <2>1, <3>1
    <3>. QED  BY <1>0, <2>1, <3>1, <3>2 DEF RowsOwned
  <2>. QED  BY <2>1 DEF RowsOwned
<1>3. LeftAlone'
  <2>1. ASSUME NEW v \in Worker, worker'[v].phase \in Released,
               work'[worker'[v].job].state # "none",
               work'[worker'[v].job].id = worker'[v].id
        PROVE  work'[worker'[v].job].state = "superseded"
    <3>1. CASE v = w
      BY <2>1, <3>1 DEF Released
    <3>2. CASE v # w
      <4>1. worker'[v] = worker[v] /\ worker[v].phase # "idle"
        BY <2>1, <3>2 DEF Released
      <4>2. work'[worker[v].job] = work[worker[v].job]
        BY <1>1, <2>1, <3>2, <4>1
      <4>. QED  BY <1>0, <2>1, <4>1, <4>2 DEF LeftAlone
    <3>. QED  BY <3>1, <3>2
  <2>. QED  BY <2>1 DEF LeftAlone
<1>4. IdsApart'
  BY <1>0 DEF IdsApart
<1>. QED  BY <1>2, <1>3, <1>4 DEF LeaseInv

-----------------------------------------------------------------------------
(* One step per action.                                                    *)

LEMMA RevisionsTyped == \A j \in Job : RevisionOf(j) \in Int /\ PageOf(j) \in Page
BY NumbersTyped DEF Job, RevisionOf, PageOf

\* Statements that write no owner, state or lease of a row.
LEMMA TouchedMild ==
    ASSUME NEW row \in Row, NEW pri, NEW raise
    PROVE  /\ Touched(row, pri, raise).id = row.id
           /\ Touched(row, pri, raise).state = row.state
           /\ Touched(row, pri, raise).lease = row.lease
           /\ Touched(row, pri, raise).attempts = row.attempts
BY DEF Touched, Row

\* The last statement of enqueue takes pending rows only, and of other jobs.
LEMMA SupersedingMild ==
    ASSUME NEW table \in [Job -> Row], NEW j \in Job
    PROVE  /\ Superseding(table, j)[j] = table[j]
           /\ \A k \in Job :
                 \/ Superseding(table, j)[k] = table[k]
                 \/ table[k].state = "pending" /\ Superseding(table, j)[k].id = table[k].id
<1>1. Superseding(table, j)[j] = table[j]
  <2>1. ~(RevisionOf(j) < RevisionOf(j))
    BY RevisionsTyped
  <2>. QED  BY <2>1 DEF Superseding
<1>2. ASSUME NEW k \in Job
      PROVE  \/ Superseding(table, j)[k] = table[k]
             \/ table[k].state = "pending" /\ Superseding(table, j)[k].id = table[k].id
  <2>1. table[k] \in Row
    OBVIOUS
  <2>2. [table[k] EXCEPT !.state = "superseded", !.age = 0, !.wait = 0].id = table[k].id
    BY <2>1 DEF Row
  <2>. QED  BY <2>2 DEF Superseding
<1>. QED  BY <1>1, <1>2

LEMMA UnchangedGoesOn ==
    ASSUME TypeOK, UNCHANGED worker
    PROVE  \A w \in Worker : GoesOn(w)
BY BusyKnown, PhaseParts DEF GoesOn

\* enqueue, whoever called it, and whatever it found.
LEMMA EnqueueMild ==
    ASSUME TypeOK, NEW p \in Process, Enqueue(p)
    PROVE  (\A k \in Job : Mild(k)) /\ (\A w \in Worker : GoesOn(w))
<1>. DEFINE j == call[p].job
<1>0. call[p].stage # "idle"
  BY DEF Enqueue, Gate, Read, Insert, Conflict, Collide, Touch, LostRow, Skip
<1>1. j \in Job /\ work \in [Job -> Row]
  BY <1>0, CallType DEF TypeOK
<1>2. ASSUME Return(p) PROVE \A w \in Worker : GoesOn(w)
  BY <1>2, BusyKnown, PhaseParts, IdleType DEF Return, GoesOn
<1>3. ASSUME UNCHANGED work PROVE \A k \in Job : Mild(k)
  BY <1>3 DEF Mild
<1>4. CASE Gate(p) \/ Read(p) \/ Conflict(p)
  BY <1>2, <1>3, <1>4, UnchangedGoesOn DEF Gate, Read, Plan, Conflict
<1>5. CASE Insert(p)
  <2>1. PICK id \in FreshIds(j) :
           work' = Superseding([work EXCEPT ![j] = NewRow(id, "pending", call[p].priority)], j)
    BY <1>5 DEF Insert
  <2>. DEFINE table == [work EXCEPT ![j] = NewRow(id, "pending", call[p].priority)]
  <2>2. table \in [Job -> Row] /\ table[j].id = id /\ \A k \in Job \ {j} : table[k] = work[k]
    <3>1. NewRow(id, "pending", call[p].priority) \in Row
      BY <1>0, CallType, NewRowType DEF FreshIds
    <3>. QED  BY <1>1, <3>1 DEF NewRow
  <2>3. /\ work'[j] = table[j]
        /\ \A k \in Job : \/ work'[k] = table[k]
                          \/ table[k].state = "pending" /\ work'[k].id = table[k].id
    <3>. HIDE DEF table
    <3>1. work' = Superseding(table, j)
      BY <2>1 DEF table
    <3>. QED  BY <1>1, <2>2, <3>1, SupersedingMild
  <2>. HIDE DEF table
  <2>4. ASSUME NEW k \in Job, k # j PROVE Mild(k)
    BY <2>2, <2>3, <2>4 DEF Mild
  <2>5. Mild(j)
    <3>1. \A w \in Worker : worker[w].job = j => worker[w].id # id
      BY <2>1 DEF FreshIds, HeldIds
    <3>. QED  BY <1>5, <2>2, <2>3, <3>1 DEF Mild, Insert
  <2>. QED  BY <1>2, <1>5, <2>4, <2>5 DEF Insert
<1>6. CASE Collide(p)
  <2>1. \A k \in Job : work'[k] = work[k] \/ work'[k] = Touched(work[k], call[p].priority, TRUE)
    BY <1>1, <1>6 DEF Collide
  <2>2. ASSUME NEW k \in Job PROVE Mild(k)
    <3>. DEFINE row == Touched(work[k], call[p].priority, TRUE)
    <3>1. /\ row.id = work[k].id /\ row.state = work[k].state
          /\ row.lease = work[k].lease /\ row.attempts = work[k].attempts
      <4>1. work[k] \in Row
        BY <1>1
      <4>. QED  BY <4>1 DEF Touched, Row
    <3>. HIDE DEF row
    <3>2. work'[k] = work[k] \/ work'[k] = row
      BY <2>1 DEF row
    <3>. QED  BY <3>1, <3>2 DEF Mild
  <2>. QED  BY <1>2, <1>6, <2>2 DEF Collide
<1>7. CASE Touch(p)
  <2>. DEFINE row == Touched(work[j], call[p].priority, call[p].raise)
              table == [work EXCEPT ![j] = row]
  <2>1. row \in Row
    BY <1>0, CallType, TouchedType
  <2>2. /\ table \in [Job -> Row] /\ table[j] = row
        /\ \A k \in Job \ {j} : table[k] = work[k]
    BY <1>1, <2>1
  <2>3. work' = Superseding(table, j)
    BY <1>1, <1>7 DEF Touch
  <2>4. /\ row.id = work[j].id /\ row.state = work[j].state
        /\ row.lease = work[j].lease /\ row.attempts = work[j].attempts
    BY <1>1, TouchedMild
  <2>. HIDE DEF table, row
  <2>5. ASSUME NEW k \in Job PROVE Mild(k)
    <3>1. /\ work'[j] = table[j]
          /\ \/ work'[k] = table[k]
             \/ table[k].state = "pending" /\ work'[k].id = table[k].id
      BY <1>1, <2>2, <2>3, SupersedingMild
    <3>. QED  BY <2>2, <2>4, <3>1 DEF Mild
  <2>. QED  BY <1>2, <1>7, <2>5 DEF Touch
<1>8. CASE Skip(p)
  <2>1. work' = Superseding(work, j)
    BY <1>8 DEF Skip
  <2>2. \A k \in Job : Mild(k)
    BY <1>1, <2>1, SupersedingMild DEF Mild
  <2>. QED  BY <1>2, <1>8, <2>2 DEF Skip
<1>9. CASE LostRow(p)
  <2>1. ASSUME NEW w \in Worker PROVE GoesOn(w)
    <3>1. CASE w = p
      <4>1. worker[w].phase = "requeue"
        BY <1>0, <3>1 DEF TypeOK, JobsKnown
      <4>2. worker'[w] = [worker[w] EXCEPT !.phase = "fail"]
        BY <1>9, <3>1 DEF LostRow
      <4>3. worker[w] \in WorkerState
        BY DEF TypeOK
      <4>. QED  BY <4>1, <4>2, <4>3 DEF GoesOn, WorkerState, Released
    <3>2. CASE w # p
      BY <1>9, <3>2, BusyKnown, PhaseParts DEF LostRow, GoesOn
    <3>. QED  BY <3>1, <3>2
  <2>. QED  BY <1>3, <1>9, <2>1 DEF LostRow
<1>. QED  BY <1>4, <1>5, <1>6, <1>7, <1>8, <1>9 DEF Enqueue

\* What clients, cleanup and editors do outside enqueue.
LEMMA OthersMild ==
    ASSUME TypeOK,
           \/ \E c \in Client : Ask(c) \/ Inspect(c) \/ Revive(c) \/ Answer(c) \/ Abandon(c)
           \/ CleanupSelect \/ CleanupDelete
           \/ \E p \in Page : Edit(p)
           \/ UNCHANGED vars
    PROVE  (\A k \in Job : Mild(k)) /\ (\A w \in Worker : GoesOn(w))
<1>1. UNCHANGED worker
  BY DEF Ask, RequestV1, RequestV2, Prewarm, Backfill, Inspect, Revive, Answer, Abandon,
         CleanupSelect, CleanupDelete, Edit, vars
<1>2. CASE UNCHANGED work
  BY <1>1, <1>2, UnchangedGoesOn DEF Mild
<1>3. ASSUME NEW c \in Client, Revive(c) PROVE \A k \in Job : Mild(k)
  <2>1. \A k \in Job : work'[k] = work[k] \/ work'[k] = Revived(work[k])
    BY <1>3 DEF Revive, UpdateRow, TypeOK
  <2>2. \A row \in Row : \/ Revived(row) = row
                         \/ row.state = "dead" /\ Revived(row).id = row.id
    BY DEF Revived, Row
  <2>. QED  BY <2>1, <2>2 DEF Mild, TypeOK
<1>4. ASSUME CleanupSelect PROVE \A k \in Job : Mild(k)
  BY <1>4, NewRowType DEF CleanupSelect, Mild, TypeOK, NoRow, NewRow
<1>. QED
  BY <1>1, <1>2, <1>3, <1>4, UnchangedGoesOn
     DEF Ask, RequestV1, RequestV2, Prewarm, Backfill, Inspect, Answer, Abandon,
         CleanupDelete, Edit, vars

\* What a worker does between two writes of its row.
LEMMA WorkingMild ==
    ASSUME TypeOK, NEW w \in Worker,
           GetPage(w) \/ Save(w) \/ Register(w) \/ Crash(w)
    PROVE  (\A k \in Job : Mild(k)) /\ (\A v \in Worker : GoesOn(v))
<1>1. \A k \in Job : Mild(k)
  BY DEF GetPage, Save, Register, Crash, Mild
<1>2. ASSUME NEW v \in Worker, v # w PROVE GoesOn(v)
  <2>1. worker'[v] = worker[v]
    BY <1>2 DEF GetPage, Saw, Save, Register, Crash, TypeOK
  <2>. QED  BY <2>1, BusyKnown, PhaseParts DEF GoesOn
<1>3. worker[w] \in WorkerState
  BY DEF TypeOK
<1>4. CASE GetPage(w)
  <2>1. PICK phase, seen :
           /\ phase \in {"drop", "hand", "attribute"}
           /\ worker' = [worker EXCEPT ![w].phase = phase, ![w].seen = seen]
    BY <1>4 DEF GetPage, Saw
  <2>2. /\ worker'[w].phase = phase /\ worker'[w].job = worker[w].job
        /\ worker'[w].id = worker[w].id /\ worker'[w].attempts = worker[w].attempts
    BY <1>3, <2>1 DEF TypeOK, WorkerState
  <2>3. GoesOn(w)
    BY <1>4, <2>1, <2>2 DEF GetPage, GoesOn, Holding
  <2>. QED  BY <1>1, <1>2, <2>3
<1>5. CASE Save(w)
  <2>1. worker'[w] = [worker[w] EXCEPT !.phase = "complete"]
    BY <1>5 DEF Save, TypeOK
  <2>2. GoesOn(w)
    BY <1>3, <1>5, <2>1 DEF Save, GoesOn, Holding, WorkerState
  <2>. QED  BY <1>1, <1>2, <2>2
<1>6. CASE Register(w) \/ Crash(w)
  <2>1. GoesOn(w)
    BY <1>6, IdleType DEF Register, Crash, GoesOn, TypeOK
  <2>. QED  BY <1>1, <1>2, <2>1
<1>. QED  BY <1>4, <1>5, <1>6

\* The statements that write by id alone: supersede, complete and fail.
LEMMA WriteStep ==
    ASSUME LeaseInv, TypeOK', NEW w \in Worker,
           \/ Drop(w) \/ HandOver(w) \/ Complete(w)
           \/ \E permanent \in BOOLEAN : Fail(w, permanent)
    PROVE  LeaseInv'
<1>. DEFINE j == worker[w].job
            Mine == work[j].state # "none" /\ work[j].id = worker[w].id
<1>0. TypeOK /\ worker[w] \in WorkerState
  BY DEF LeaseInv, TypeOK
<1>1. worker[w].phase # "idle" /\ j \in Job /\ work[j] \in Row
  <2>1. worker[w].phase # "idle"
    BY DEF Drop, HandOver, Complete, Fail
  <2>. QED  BY <1>0, <2>1, LeaseType
<1>2. \A v \in Worker : v # w => worker'[v] = worker[v]
  BY <1>0 DEF Drop, HandOver, Complete, Fail, TypeOK
<1>3. (\A k \in Job : k # j => work'[k] = work[k]) /\ (~Mine => work'[j] = work[j])
  BY <1>0, <1>1 DEF Drop, HandOver, Complete, Fail, UpdateRow, TypeOK
<1>4. CASE Drop(w)
  <2>1. worker'[w].phase = "idle"
    BY <1>4, IdleType DEF Drop, TypeOK, LeaseInv
  <2>2. Mine => work'[j].id = worker[w].id
    <3>1. Mine => work'[j] = Superseded(work[j])
      BY <1>0, <1>1, <1>4 DEF Drop, UpdateRow, TypeOK
    <3>2. Superseded(work[j]).id = work[j].id
      BY <1>1 DEF Superseded, Row
    <3>. QED  BY <3>1, <3>2
  <2>. QED  BY <1>1, <1>2, <1>3, <2>1, <2>2, OwnRowStep
<1>5. CASE HandOver(w)
  <2>1. worker'[w] = [worker[w] EXCEPT !.phase = "requeue"]
    BY <1>0, <1>5 DEF HandOver, TypeOK
  <2>2. /\ worker'[w].phase \in Released
        /\ worker'[w].job = j /\ worker'[w].id = worker[w].id
    BY <1>0, <2>1 DEF WorkerState, Released
  <2>3. work[j].id = worker[w].id /\ work[j].state = "leased"
    BY <1>5 DEF LeaseInv, RowsOwned, HandOver, Holding
  <2>4. work'[j] = Superseded(work[j])
    BY <1>0, <1>1, <1>5, <2>3 DEF HandOver, UpdateRow, TypeOK
  <2>5. work'[j].id = worker[w].id /\ work'[j].state = "superseded"
    BY <1>1, <2>3, <2>4 DEF Superseded, Row
  <2>. QED  BY <1>1, <1>2, <1>3, <2>2, <2>3, <2>5, OwnRowStep
<1>6. CASE Complete(w)
  <2>1. worker'[w] = [worker[w] EXCEPT !.phase = "register"]
    BY <1>0, <1>6 DEF Complete, TypeOK
  <2>2. /\ worker'[w].phase \in Released
        /\ worker'[w].job = j /\ worker'[w].id = worker[w].id
    BY <1>0, <2>1 DEF WorkerState, Released
  <2>3. work[j].id = worker[w].id /\ work[j].state = "leased"
    BY <1>6 DEF LeaseInv, RowsOwned, Complete, Holding
  <2>4. work'[j] = NoRow
    BY <1>0, <1>1, <1>6, <2>3 DEF Complete, UpdateRow, TypeOK
  <2>5. work'[j].state = "none"
    BY <2>4 DEF NoRow, NewRow
  <2>. QED  BY <1>1, <1>2, <1>3, <2>2, <2>3, <2>5, OwnRowStep
<1>7. ASSUME NEW permanent \in BOOLEAN, Fail(w, permanent) PROVE LeaseInv'
  <2>1. worker'[w].phase = "idle"
    BY <1>0, <1>7, IdleType DEF Fail, TypeOK
  <2>2. Mine => work'[j].id = worker[w].id
    <3>1. Mine => work'[j] = Failed(work[j], worker[w], permanent)
      BY <1>0, <1>1, <1>7 DEF Fail, UpdateRow, TypeOK
    <3>2. Failed(work[j], worker[w], permanent).id = work[j].id
      BY <1>1 DEF Failed, Row
    <3>. QED  BY <3>1, <3>2
  <2>. QED  BY <1>1, <1>2, <1>3, <2>1, <2>2, OwnRowStep
<1>. QED  BY <1>4, <1>5, <1>6, <1>7

\* A claim takes a row that nobody remembers: one that is held has not expired,
\* and one that was let go of is superseded.
LEMMA ClaimStep ==
    ASSUME LeaseInv, TypeOK', NEW w \in Worker, NEW j \in Job, Claim(w, j)
    PROVE  LeaseInv'
<1>0. TypeOK /\ RowsOwned /\ LeftAlone /\ IdsApart /\ work[j] \in Row
  BY DEF LeaseInv, TypeOK
<1>1. /\ work[j].state \in {"pending", "leased"}
      /\ work[j].state = "leased" => work[j].lease < 0
  BY DEF Claim, First, Claimable
<1>2. ASSUME NEW v \in Worker, worker[v].phase # "idle", worker[v].job = j
      PROVE  worker[v].id # work[j].id
  <2>1. worker[v].phase \in Holding \/ worker[v].phase \in Released
    BY <1>0, <1>2, BusyKnown, PhaseParts
  <2>2. CASE worker[v].phase \in Holding
    <3>1. work[j].state = "leased" /\ work[j].lease >= 0
      BY <1>0, <1>2, <2>2 DEF RowsOwned
    <3>2. work[j].lease \in Int
      BY <1>0, NumbersTyped DEF Row
    <3>. QED  BY <1>1, <3>1, <3>2
  <2>3. CASE worker[v].phase \in Released
    BY <1>0, <1>1, <1>2, <2>3 DEF LeftAlone
  <2>. QED  BY <2>1, <2>2, <2>3
<1>3. /\ work'[j] = Leased(work[j])
      /\ \A k \in Job : k # j => work'[k] = work[k]
  BY <1>0 DEF Claim, TypeOK
<1>4. /\ work'[j].id = work[j].id /\ work'[j].state = "leased"
      /\ work'[j].lease = Lease /\ work'[j].attempts = Leased(work[j]).attempts
  BY <1>0, <1>3 DEF Leased, Row
<1>5. /\ worker'[w].phase = "fetch" /\ worker'[w].job = j /\ worker'[w].id = work[j].id
      /\ worker'[w].attempts = Leased(work[j]).attempts
      /\ \A v \in Worker : v # w => worker'[v] = worker[v]
  BY <1>0 DEF Claim, TypeOK
<1>6. RowsOwned'
  <2>1. ASSUME NEW v \in Worker, worker'[v].phase \in Holding
        PROVE  /\ work'[worker'[v].job].id = worker'[v].id
               /\ work'[worker'[v].job].state = "leased"
               /\ work'[worker'[v].job].lease >= 0
               /\ work'[worker'[v].job].attempts = worker'[v].attempts
    <3>1. CASE v = w
      BY <1>4, <1>5, <3>1, NumbersTyped
    <3>2. CASE v # w
      <4>1. worker'[v] = worker[v] /\ worker[v].phase # "idle" /\ worker[v].job \in Job
        BY <1>0, <1>5, <2>1, <3>2, BusyKnown DEF Holding
      <4>2. worker[v].job # j
        BY <1>0, <1>2, <2>1, <4>1 DEF RowsOwned
      <4>. QED  BY <1>0, <1>3, <2>1, <4>1, <4>2 DEF RowsOwned
    <3>. QED  BY <3>1, <3>2
  <2>. QED  BY <2>1 DEF RowsOwned
<1>7. LeftAlone'
  <2>1. ASSUME NEW v \in Worker, worker'[v].phase \in Released,
               work'[worker'[v].job].state # "none",
               work'[worker'[v].job].id = worker'[v].id
        PROVE  work'[worker'[v].job].state = "superseded"
    <3>1. v # w
      BY <1>5, <2>1 DEF Released
    <3>2. worker'[v] = worker[v] /\ worker[v].phase # "idle" /\ worker[v].job \in Job
      BY <1>0, <1>5, <2>1, <3>1, BusyKnown DEF Released
    <3>3. worker[v].job # j
      BY <1>2, <1>4, <2>1, <3>2
    <3>. QED  BY <1>0, <1>3, <2>1, <3>2, <3>3 DEF LeftAlone
  <2>. QED  BY <2>1 DEF LeftAlone
<1>8. IdsApart'
  <2>1. ASSUME NEW v \in Worker, v # w, worker'[v].phase # "idle", worker'[v].job = j
        PROVE  worker'[v].id # work[j].id
    BY <1>2, <1>5, <2>1
  <2>. QED  BY <1>0, <1>5, <2>1 DEF IdsApart
<1>. QED  BY <1>6, <1>7, <1>8 DEF LeaseInv

\* Time passes only while every held lease has some of it left.
LEMMA TickStep ==
    ASSUME TimelyWorkers, LeaseInv, TypeOK', Tick
    PROVE  LeaseInv'
<1>0. TypeOK /\ RowsOwned /\ LeftAlone /\ IdsApart
  BY DEF LeaseInv
<1>1. ASSUME NEW row \in Row
      PROVE  /\ Aged(row).id = row.id /\ Aged(row).state = row.state
             /\ Aged(row).attempts = row.attempts
             /\ row.state = "leased" /\ row.lease > 0 => Aged(row).lease >= 0
  BY NumbersTyped DEF Aged, Row, Most
<1>2. ASSUME NEW w \in Worker, worker[w].phase # "idle"
      PROVE  LET j == worker[w].job
             IN  /\ work'[j].id = work[j].id /\ work'[j].state = work[j].state
                 /\ work'[j].attempts = work[j].attempts
                 /\ worker[w].phase \in Holding => work'[j].lease >= 0
  <2>. DEFINE j == worker[w].job
  <2>1. j \in Job /\ work[j] \in Row
    BY <1>0, <1>2, LeaseType
  <2>2. work'[j] = Aged(work[j])
    BY <2>1 DEF Tick
  <2>3. worker[w].phase \in Holding => work[j].lease > 0 /\ work[j].state = "leased"
    BY <1>0 DEF Tick, RowsOwned
  <2>. QED  BY <1>1, <2>1, <2>2, <2>3
<1>3. UNCHANGED worker
  BY DEF Tick
<1>4. \A w \in Worker : worker[w].phase \in Holding \cup Released => worker[w].phase # "idle"
  BY <1>0, BusyKnown
<1>5. RowsOwned'
  BY <1>0, <1>2, <1>3, <1>4 DEF RowsOwned
<1>6. LeftAlone'
  BY <1>0, <1>2, <1>3, <1>4 DEF LeftAlone
<1>7. IdsApart'
  BY <1>0, <1>3 DEF IdsApart
<1>. QED  BY <1>5, <1>6, <1>7 DEF LeaseInv

LEMMA LeaseStep ==
    ASSUME TimelyWorkers, LeaseInv, [Next]_vars
    PROVE  LeaseInv'
<1>0. TypeOK /\ TypeOK'
  BY NextType DEF LeaseInv
<1>1. ASSUME NEW c \in Client, Ask(c) \/ Proceed(c) \/ Abandon(c)
      PROVE  LeaseInv'
  BY <1>0, <1>1, EnqueueMild, OthersMild, MildStep DEF Proceed, Process
<1>2. ASSUME NEW w \in Worker,
             \/ \E j \in Job : Claim(w, j)
             \/ Attempt(w)
             \/ \E permanent \in BOOLEAN : Fail(w, permanent)
             \/ Crash(w)
      PROVE  LeaseInv'
  BY <1>0, <1>2, EnqueueMild, WorkingMild, MildStep, ClaimStep, WriteStep DEF Attempt, Process
<1>3. CASE CleanupSelect \/ CleanupDelete \/ (\E p \in Page : Edit(p)) \/ UNCHANGED vars
  BY <1>0, <1>3, OthersMild, MildStep
<1>. QED  BY <1>0, <1>1, <1>2, <1>3, TickStep DEF Next

LEMMA LeaseAlways ==
    ASSUME TimelyWorkers
    PROVE  Spec => []LeaseInv
<1>1. Init => LeaseInv
  BY InitType, IdleType DEF Init, LeaseInv, RowsOwned, LeftAlone, IdsApart, Holding, Released
<1>. QED  BY <1>1, LeaseStep, PTL DEF Spec

\* While every attempt ends within its lease, the row a worker holds is leased,
\* unexpired and counts that very attempt, and no other worker holds it -- for
\* any number of workers, of clients that enqueue and of crashes.
THEOREM LeasesHonoured ==
    ASSUME TimelyWorkers
    PROVE  Spec => []LeaseHonoured
<1>1. ASSUME LeaseInv PROVE LeaseHonoured
  <2>1. ASSUME NEW w \in Worker, worker[w].phase \in Holding,
               NEW v \in Worker \ {w}, worker[v].phase \in Holding,
               worker[v].job = worker[w].job
        PROVE  FALSE
    <3>1. worker[v].id # worker[w].id
      BY <1>1, <2>1 DEF LeaseInv, IdsApart, Holding
    <3>. QED  BY <1>1, <2>1, <3>1 DEF LeaseInv, RowsOwned
  <2>. QED  BY <1>1, <2>1 DEF LeaseInv, RowsOwned, LeaseHonoured
<1>. QED  BY <1>1, LeaseAlways, PTL

-----------------------------------------------------------------------------
(* A row that died for good stays dead.                                    *)

\* No worker in the middle of something remembers a dead row.
LEMMA DeadUnowned ==
    ASSUME LeaseInv, NEW j \in Job, work[j].state = "dead",
           NEW w \in Worker, worker[w].phase # "idle", worker[w].job = j
    PROVE  worker[w].id # work[j].id
<1>1. worker[w].phase \in Holding \/ worker[w].phase \in Released
  BY BusyKnown, PhaseParts DEF LeaseInv
<1>. QED  BY <1>1 DEF LeaseInv, RowsOwned, LeftAlone

\* The row keeps its id and its verdict.
Buried(j) == work'[j].id = work[j].id /\ work'[j].state = "dead" /\ work'[j].permanent

\* enqueue writes at most the priority of a dead row.
LEMMA EnqueueBuried ==
    ASSUME TypeOK, NEW p \in Process, Enqueue(p),
           NEW j \in Job, work[j].state = "dead", work[j].permanent
    PROVE  Buried(j)
<1>. DEFINE k == call[p].job
<1>0. call[p].stage # "idle"
  BY DEF Enqueue, Gate, Read, Insert, Conflict, Collide, Touch, LostRow, Skip
<1>1. k \in Job /\ work \in [Job -> Row] /\ work[j] \in Row
  BY <1>0, CallType DEF TypeOK
<1>2. ASSUME NEW table \in [Job -> Row], table[j].id = work[j].id,
             table[j].state = "dead", table[j].permanent, work' = Superseding(table, k)
      PROVE  Buried(j)
  BY <1>1, <1>2, SupersedingMild DEF Buried
<1>3. ASSUME NEW pri, NEW raise \in BOOLEAN
      PROVE  /\ Touched(work[j], pri, raise).id = work[j].id
             /\ Touched(work[j], pri, raise).state = work[j].state
             /\ Touched(work[j], pri, raise).permanent = work[j].permanent
  BY <1>1 DEF Touched, Row
<1>4. CASE Gate(p) \/ Read(p) \/ Conflict(p) \/ LostRow(p)
  BY <1>4 DEF Gate, Read, Plan, Conflict, LostRow, Buried
<1>5. CASE Insert(p)
  <2>1. PICK id \in FreshIds(k) :
           work' = Superseding([work EXCEPT ![k] = NewRow(id, "pending", call[p].priority)], k)
    BY <1>5 DEF Insert
  <2>. DEFINE table == [work EXCEPT ![k] = NewRow(id, "pending", call[p].priority)]
  <2>2. NewRow(id, "pending", call[p].priority) \in Row
    BY <1>0, CallType, NewRowType DEF FreshIds
  <2>3. k # j
    BY <1>5 DEF Insert
  <2>4. table \in [Job -> Row] /\ table[j] = work[j]
    BY <1>1, <2>2, <2>3
  <2>. QED  BY <1>2, <2>1, <2>4
<1>6. CASE Collide(p)
  <2>1. work'[j] = work[j] \/ work'[j] = Touched(work[j], call[p].priority, TRUE)
    BY <1>1, <1>6 DEF Collide
  <2>2. \A pri : /\ Touched(work[j], pri, TRUE).id = work[j].id
                 /\ Touched(work[j], pri, TRUE).state = work[j].state
                 /\ Touched(work[j], pri, TRUE).permanent = work[j].permanent
    BY <1>1 DEF Touched, Row
  <2>. QED  BY <2>1, <2>2 DEF Buried
<1>7. CASE Touch(p)
  <2>. DEFINE row == Touched(work[k], call[p].priority, call[p].raise)
              table == [work EXCEPT ![k] = row]
  <2>1. row \in Row
    BY <1>0, CallType, TouchedType
  <2>2. table \in [Job -> Row] /\ table[j] = IF k = j THEN row ELSE work[j]
    BY <1>1, <2>1
  <2>3. k = j => row.id = work[j].id /\ row.state = work[j].state
                 /\ row.permanent = work[j].permanent
    <3>1. call[p].raise \in BOOLEAN
      BY <1>0, CallType
    <3>. QED  BY <1>3, <3>1
  <2>4. work' = Superseding(table, k)
    BY <1>7 DEF Touch
  <2>. HIDE DEF row, table
  <2>. QED  BY <1>2, <2>2, <2>3, <2>4
<1>8. CASE Skip(p)
  BY <1>1, <1>2, <1>8 DEF Skip
<1>. QED  BY <1>4, <1>5, <1>6, <1>7, <1>8 DEF Enqueue

\* A worker claims live rows and writes its own.
LEMMA WorkersLeaveBuried ==
    ASSUME LeaseInv, NEW w \in Worker,
           \/ \E k \in Job : Claim(w, k)
           \/ GetPage(w) \/ Drop(w) \/ HandOver(w) \/ Save(w) \/ Complete(w) \/ Register(w)
           \/ \E permanent \in BOOLEAN : Fail(w, permanent)
           \/ Crash(w),
           NEW j \in Job, work[j].state = "dead", work[j].permanent
    PROVE  Buried(j)
<1>0. TypeOK /\ work \in [Job -> Row]
  BY DEF LeaseInv, TypeOK
<1>1. ASSUME NEW k \in Job, Claim(w, k) PROVE Buried(j)
  <2>1. k # j
    BY <1>1 DEF Claim, First, Claimable
  <2>. QED  BY <1>0, <1>1, <2>1 DEF Claim, Buried
<1>2. CASE \/ Drop(w) \/ HandOver(w) \/ Complete(w)
           \/ \E permanent \in BOOLEAN : Fail(w, permanent)
  <2>1. worker[w].phase # "idle"
    BY <1>2 DEF Drop, HandOver, Complete, Fail
  <2>2. worker[w].job = j => worker[w].id # work[j].id
    BY <2>1, DeadUnowned
  <2>3. work'[j] = work[j]
    BY <1>0, <1>2, <2>2 DEF Drop, HandOver, Complete, Fail, UpdateRow
  <2>. QED  BY <2>3 DEF Buried
<1>3. CASE GetPage(w) \/ Save(w) \/ Register(w) \/ Crash(w)
  BY <1>3 DEF GetPage, Save, Register, Crash, Buried
<1>. QED  BY <1>1, <1>2, <1>3

\* A request about to revive a row found it due, and keeps waiting for nothing else.
LEMMA RevivesFoundDue ==
    ASSUME TypeOK, [Next]_vars, NEW c \in Client, call'[c].stage = "revive"
    PROVE  \/ call'[c] = call[c]
           \/ call'[c].job = call[c].job /\ Due(work[call[c].job])
<1>0. c \in Process /\ c \notin Worker /\ call \in [Process -> CallState]
  BY ConstantsAssumption DEF Process, TypeOK
<1>1. \A by, k, pri, stale : /\ Start("inspect", by, k, pri, stale).stage # "revive"
                             /\ Start("gate", by, k, pri, stale).stage # "revive"
                             /\ Start("answer", by, k, pri, stale).stage # "revive"
  BY DEF Start
<1>2. NoCall.stage # "revive"
  BY NoCallType
<1>3. ASSUME NEW d \in Client, Ask(d) PROVE call'[c] = call[c]
  <2>1. d # c => call'[c] = call[c]
    BY <1>0, <1>3 DEF Ask, RequestV1, RequestV2, Prewarm, Backfill
  <2>2. d = c => call'[c].stage \in {"inspect", "gate"}
    BY <1>0, <1>3 DEF Ask, RequestV1, RequestV2, Prewarm, Backfill, Start
  <2>. QED  BY <2>1, <2>2
<1>4. ASSUME NEW d \in Client, Inspect(d)
      PROVE  \/ call'[c] = call[c]
             \/ call'[c].job = call[c].job /\ Due(work[call[c].job])
  <2>1. call[c] \in CallState
    BY <1>0
  <2>2. CASE d # c
    BY <1>0, <1>4, <2>2 DEF Inspect
  <2>3. CASE d = c
    BY <1>0, <1>2, <1>4, <2>1, <2>3 DEF Inspect, CallState
  <2>. QED  BY <2>2, <2>3
<1>5. ASSUME NEW d \in Client, Revive(d) \/ Answer(d) \/ Abandon(d) PROVE call'[c] = call[c]
  BY <1>0, <1>1, <1>2, <1>5 DEF Revive, Answer, Abandon
<1>6. ASSUME NEW p \in Process, Return(p) PROVE call'[c] = call[c]
  BY <1>0, <1>1, <1>2, <1>6 DEF Return
<1>7. ASSUME NEW p \in Process, Enqueue(p) PROVE call'[c] = call[c]
  <2>1. CASE Insert(p) \/ Collide(p) \/ Touch(p) \/ Skip(p)
    BY <1>6, <2>1 DEF Insert, Collide, Touch, Skip
  <2>2. CASE Gate(p) \/ Read(p) \/ Conflict(p) \/ LostRow(p)
    <3>1. call[p] \in CallState
      BY <1>0
    <3>. QED  BY <1>0, <1>2, <1>6, <2>2, <3>1 DEF Gate, Read, Plan, Conflict, LostRow, CallState
  <2>. QED  BY <1>7, <2>1, <2>2 DEF Enqueue
<1>8. ASSUME NEW w \in Worker,
             \/ \E k \in Job : Claim(w, k)
             \/ GetPage(w) \/ Drop(w) \/ HandOver(w) \/ Save(w) \/ Complete(w) \/ Register(w)
             \/ \E permanent \in BOOLEAN : Fail(w, permanent)
             \/ Crash(w)
      PROVE  call'[c] = call[c]
  BY <1>0, <1>8 DEF Claim, GetPage, Drop, HandOver, Save, Complete, Register, Fail, Crash
<1>9. CASE CleanupSelect \/ CleanupDelete \/ (\E p \in Page : Edit(p)) \/ Tick \/ UNCHANGED vars
  BY <1>9 DEF CleanupSelect, CleanupDelete, Edit, Tick, vars
<1>. QED
  BY <1>3, <1>4, <1>5, <1>7, <1>8, <1>9 DEF Next, Proceed, Attempt, Process

LEMMA BurialStep ==
    ASSUME LeaseInv, [Next]_vars, NEW j \in Job, work[j].state = "dead", work[j].permanent
    PROVE  \/ Buried(j)
           \/ work'[j].state = "none" /\ work[j].age > QueueDays
           \/ work'[j].state = "pending" /\ Reviving(j) # {}
<1>0. TypeOK /\ work \in [Job -> Row] /\ work[j] \in Row
  BY DEF LeaseInv, TypeOK
<1>1. CASE UNCHANGED work
  BY <1>1 DEF Buried
<1>2. ASSUME NEW c \in Client, Revive(c)
      PROVE  Buried(j) \/ (work'[j].state = "pending" /\ Reviving(j) # {})
  <2>1. CASE call[c].job = j /\ call[c].row = work[j].id
    <3>1. work'[j] = Revived(work[j])
      BY <1>0, <1>2, <2>1 DEF Revive, UpdateRow
    <3>2. work'[j].state = "pending"
      BY <1>0, <3>1 DEF Revived, Row
    <3>. QED  BY <1>2, <2>1, <3>2 DEF Revive, Reviving
  <2>2. CASE ~(call[c].job = j /\ call[c].row = work[j].id)
    BY <1>0, <1>2, <2>2 DEF Revive, UpdateRow, Buried
  <2>. QED  BY <2>1, <2>2
<1>3. ASSUME NEW c \in Client, Ask(c) \/ Proceed(c) \/ Abandon(c)
      PROVE  Buried(j) \/ (work'[j].state = "pending" /\ Reviving(j) # {})
  <2>1. CASE Ask(c) \/ Inspect(c) \/ Answer(c) \/ Abandon(c)
    BY <1>1, <2>1 DEF Ask, RequestV1, RequestV2, Prewarm, Backfill, Inspect, Answer, Abandon
  <2>. QED  BY <1>0, <1>2, <1>3, <2>1, EnqueueBuried DEF Proceed, Process
<1>4. ASSUME NEW w \in Worker,
             \/ \E k \in Job : Claim(w, k)
             \/ Attempt(w)
             \/ \E permanent \in BOOLEAN : Fail(w, permanent)
             \/ Crash(w)
      PROVE  Buried(j)
  BY <1>0, <1>4, EnqueueBuried, WorkersLeaveBuried DEF Attempt, Process
<1>5. ASSUME CleanupSelect
      PROVE  Buried(j) \/ (work'[j].state = "none" /\ work[j].age > QueueDays)
  BY <1>0, <1>5 DEF CleanupSelect, Buried, NoRow, NewRow
<1>6. ASSUME Tick PROVE Buried(j)
  BY <1>0, <1>6 DEF Tick, Aged, Row, Buried
<1>7. CASE CleanupDelete \/ (\E p \in Page : Edit(p)) \/ UNCHANGED vars
  BY <1>1, <1>7 DEF CleanupDelete, Edit, vars
<1>. QED  BY <1>3, <1>4, <1>5, <1>6, <1>7 DEF Next

\* A page that no longer exists is not computed again: its dead row stays dead
\* until cleanup removes it, whoever asks for it, collides on it or revives other
\* rows; only a request that had found the row due before it died for good can
\* still revive it, and no request joins those.
THEOREM PermanentDeath ==
    ASSUME TimelyWorkers
    PROVE  Spec => PermanentStaysDead
<1>1. ASSUME LeaseInv, [Next]_vars, NEW j \in Job, work[j].state = "dead", work[j].permanent
      PROVE  \/ /\ work'[j].id = work[j].id /\ work'[j].state = "dead" /\ work'[j].permanent
                /\ Reviving(j)' \subseteq Reviving(j)
             \/ work'[j].state = "none" /\ work[j].age > QueueDays
             \/ work'[j].state = "pending" /\ Reviving(j) # {}
  <2>1. Buried(j) => Reviving(j)' \subseteq Reviving(j)
    <3>1. ASSUME Buried(j), NEW c \in Reviving(j)' PROVE c \in Reviving(j)
      <4>1. /\ c \in Client /\ call'[c].stage = "revive" /\ call'[c].job = j
            /\ call'[c].row = work[j].id
        BY <3>1 DEF Reviving, Buried
      <4>2. call'[c] = call[c]
        BY <1>1, <4>1, RevivesFoundDue DEF LeaseInv, Due
      <4>. QED  BY <4>1, <4>2 DEF Reviving
    <3>. QED  BY <3>1
  <2>. QED  BY <1>1, <2>1, BurialStep DEF Buried
<1>2. LeaseInv /\ [Next]_vars
        => [\A j \in Job : work[j].state = "dead" /\ work[j].permanent =>
              \/ /\ work'[j].id = work[j].id /\ work'[j].state = "dead" /\ work'[j].permanent
                 /\ Reviving(j)' \subseteq Reviving(j)
              \/ work'[j].state = "none" /\ work[j].age > QueueDays
              \/ work'[j].state = "pending" /\ Reviving(j) # {}]_vars
  BY <1>1
<1>. QED  BY <1>2, LeaseAlways, PTL DEF Spec, PermanentStaysDead

-----------------------------------------------------------------------------
(* Demand is kept.                                                         *)

\* No worker is killed, MediaWiki answers from a replica that has caught up, every
\* revision is an article's, and cleanup is not scheduled.  Without the first a worker
\* can be killed between supersede and enqueue (run WQCrash).  Without any of the others
\* a superseded row can be left that nobody answers for -- its worker went on to an
\* earlier revision, or gave the page up, or the dead row that answered for it was
\* cleaned away -- and enqueue, asked for that revision, leaves it superseded and
\* supersedes the pending rows of earlier ones; TLC shows each of them.
Calm ==
    /\ MaxCrashes = 0 /\ ~LaggedReads /\ "cleanup" \notin Callers
    /\ \A j \in Job : Kind[j] = "article"

Answered == {p \in Page : HasResult(p)}
Kept == {"pending", "leased", "dead"}

\* Somebody answers for revision r of page p, or for a later one: a result of the
\* page, a row that is queued or buried, or a worker about to queue another revision.
AnswersFor(p, r) ==
    \/ p \in Answered
    \/ \E j \in Job : PageOf(j) = p /\ RevisionOf(j) >= r /\ work[j].state \in Kept
    \/ \E w \in Worker : /\ worker[w].phase = "requeue" /\ PageOf(worker[w].job) = p
                         /\ RevisionOf(worker[w].job) >= r

\* Whatever is in the queue, superseded or not, is answered for.
RowsAnswered ==
    \A j \in Job : work[j].state # "none" => AnswersFor(PageOf(j), RevisionOf(j))

\* The row of j, and its row with id i, goes only when its page has a result.
Stays(j) == work[j].state # "none" \/ PageOf(j) \in Answered
StaysAs(j, i) == (work[j].state # "none" /\ work[j].id = i) \/ PageOf(j) \in Answered

\* A row that a worker remembers is there, or made way for a result.
WorkersRemember ==
    \A w \in Worker :
        /\ worker[w].phase \in Holding \cup {"requeue"} => StaysAs(worker[w].job, worker[w].id)
        /\ worker[w].phase = "complete" => PageOf(worker[w].job) \in Answered
        /\ worker[w].phase # "drop"

\* So is a row that a call has found.
CallsRemember ==
    \A q \in Process :
        /\ call[q].stage = "commit" /\ call[q].plan = "touch" => StaysAs(call[q].job, call[q].row)
        /\ call[q].stage = "commit" /\ call[q].plan = "skip" => Stays(call[q].job)
        /\ call[q].stage = "collide" => Stays(call[q].job)

\* No revision is asked for before its time, so a worker hands its page on to a
\* later one.
NoneAhead ==
    /\ \A j \in Job : work[j].state # "none" => Nameable(j)
    /\ \A q \in Process : call[q].stage # "idle" => Nameable(call[q].job)
    /\ \A w \in Worker :
          /\ worker[w].phase \in Holding => Nameable(worker[w].job)
          /\ worker[w].phase = "hand" => /\ worker[w].seen > RevisionOf(worker[w].job)
                                         /\ worker[w].seen <= current[PageOf(worker[w].job)]
          /\ call[w].stage # "idle" => /\ PageOf(call[w].job) = PageOf(worker[w].job)
                                       /\ RevisionOf(call[w].job) > RevisionOf(worker[w].job)

DemandInv == /\ TypeOK /\ DoomedReplaced /\ RowsAnswered /\ WorkersRemember
             /\ CallsRemember /\ NoneAhead

\* What a step may do to a row: leave it there, put one in for a revision that may
\* be named, or take one away whose page has a result.
RowGoesOn(j) ==
    IF work[j].state = "none"
    THEN work'[j].state = "none" \/ (work'[j].state \in Kept /\ Nameable(j))
    ELSE (work'[j].state # "none" /\ work'[j].id = work[j].id) \/ PageOf(j) \in Answered

\* To a call: end it, go on with what it has just found, or begin it.
CallGoesOn(q) ==
    \/ call'[q] = call[q] \/ call'[q].stage = "idle"
    \/ /\ call[q].stage # "idle" /\ call'[q].job = call[q].job
       /\ call'[q].stage = "commit" /\ call'[q].plan = "touch" =>
             StaysAs(call[q].job, call'[q].row)
       /\ call'[q].stage = "commit" /\ call'[q].plan = "skip" => Stays(call[q].job)
       /\ call'[q].stage = "collide" => Stays(call[q].job)
    \/ /\ call'[q].stage \in {"inspect", "gate"} /\ Nameable(call'[q].job)
       /\ q \in Worker => /\ PageOf(call'[q].job) = PageOf(worker'[q].job)
                          /\ RevisionOf(call'[q].job) > RevisionOf(worker'[q].job)

\* To a worker: end its attempt, go on with it, or begin one.
AttemptGoesOn(w) ==
    \/ worker'[w] = worker[w] \/ worker'[w].phase \in {"idle", "fail", "register"}
    \/ /\ worker[w].phase \in Holding
       /\ worker'[w].phase \in (Holding \cup {"requeue"}) \ {"drop"}
       /\ worker'[w].job = worker[w].job /\ worker'[w].id = worker[w].id
       /\ worker'[w].phase = "complete" => PageOf(worker[w].job) \in Answered'
       /\ worker'[w].phase = "hand" => /\ worker'[w].seen > RevisionOf(worker[w].job)
                                       /\ worker'[w].seen <= current[PageOf(worker[w].job)]
    \/ /\ worker'[w].phase = "fetch" /\ worker'[w].job \in Job
       /\ work[worker'[w].job].state # "none" /\ worker'[w].id = work[worker'[w].job].id

\* And whoever answered for a revision is followed by somebody who does.
RowHandedOn(j) == work[j].state \in Kept => AnswersFor(PageOf(j), RevisionOf(j))'
TaskHandedOn(w) ==
    \A j \in Job : worker[w].phase = "requeue" /\ worker[w].job = j =>
                      AnswersFor(PageOf(j), RevisionOf(j))'

Orderly == /\ \A j \in Job : RowGoesOn(j) /\ RowHandedOn(j)
           /\ \A q \in Process : CallGoesOn(q)
           /\ \A w \in Worker : AttemptGoesOn(w) /\ TaskHandedOn(w)

\* Revisions of a page only move on.
LEMMA CurrentGrows ==
    ASSUME TypeOK, [Next]_vars
    PROVE  \A p \in Page : /\ current[p] \in Int /\ current'[p] \in Int
                           /\ current[p] <= current'[p]
<1>0. \A p \in Page : current[p] \in Int /\ current'[p] \in Int
  BY NextType, NumbersTyped DEF TypeOK
<1>1. CASE \E p \in Page : Edit(p)
  BY <1>0, <1>1 DEF Edit, TypeOK
<1>2. ASSUME NEW c \in Client, Ask(c) \/ Proceed(c) \/ Abandon(c)
      PROVE  UNCHANGED current
  BY <1>2 DEF Ask, RequestV1, RequestV2, Prewarm, Backfill, Proceed, Inspect, Revive, Answer,
              Abandon, Enqueue, Gate, Read, Insert, Conflict, Collide, Touch, LostRow, Skip
<1>3. ASSUME NEW w \in Worker,
             \/ \E j \in Job : Claim(w, j)
             \/ Attempt(w)
             \/ \E permanent \in BOOLEAN : Fail(w, permanent)
             \/ Crash(w)
      PROVE  UNCHANGED current
  BY <1>3 DEF Claim, Attempt, GetPage, Drop, HandOver, Save, Complete, Register, Fail, Crash,
              Enqueue, Gate, Read, Insert, Conflict, Collide, Touch, LostRow, Skip
<1>4. ASSUME CleanupSelect \/ CleanupDelete \/ Tick \/ UNCHANGED vars
      PROVE  UNCHANGED current
  BY <1>4 DEF CleanupSelect, CleanupDelete, Tick, vars
<1>5. CASE UNCHANGED current
  BY <1>0, <1>5
<1>. QED  BY <1>1, <1>2, <1>3, <1>4, <1>5 DEF Next

\* Revisions and results do not go back.
WikiGoesOn ==
    /\ \A p \in Page : current[p] \in Int /\ current'[p] \in Int /\ current[p] <= current'[p]
    /\ Answered \subseteq Answered'

LEMMA WikiStep ==
    ASSUME TypeOK, DoomedReplaced, [Next]_vars
    PROVE  WikiGoesOn
<1>1. Answered \subseteq Answered'
  <2>1. ASSUME NEW p \in Page, HasResult(p) PROVE HasResult(p)'
    BY <2>1, ResultsKept
  <2>. QED  BY <2>1 DEF Answered
<1>. QED  BY <1>1, CurrentGrows DEF WikiGoesOn

\* Whoever remembers a row goes on remembering it rightly.
LEMMA MemoryStep ==
    ASSUME DemandInv, TypeOK', WikiGoesOn, Orderly
    PROVE  WorkersRemember' /\ CallsRemember' /\ NoneAhead'
<1>0. /\ TypeOK /\ WorkersRemember /\ CallsRemember /\ NoneAhead
      /\ Answered \subseteq Answered'
  BY DEF DemandInv, WikiGoesOn
<1>1. \A j \in Job : Nameable(j) => Nameable(j)'
  <2>1. \A p \in Page : current[p] \in Int /\ current'[p] \in Int /\ current[p] <= current'[p]
    BY DEF WikiGoesOn
  <2>. QED  BY <2>1, RevisionsTyped DEF Nameable
<1>3. ASSUME NEW j \in Job
      PROVE  (Stays(j) => Stays(j)') /\ (\A i : StaysAs(j, i) => StaysAs(j, i)')
  BY <1>0 DEF Orderly, RowGoesOn, Stays, StaysAs
<1>4. ASSUME NEW w \in Worker
      PROVE  /\ worker[w].phase # "idle" => worker[w].job \in Job
             /\ worker'[w].phase # "idle" => worker'[w].job \in Job
             /\ worker'[w].phase \in Holding \cup {"requeue"} => worker'[w].phase # "idle"
             /\ worker[w].phase \in Holding \cup {"requeue"} => worker[w].phase # "idle"
  BY <1>0 DEF TypeOK, JobsKnown, Holding
<1>5. ASSUME NEW q \in Process
      PROVE  /\ call[q].stage # "idle" => call[q].job \in Job
             /\ call'[q].stage # "idle" => call'[q].job \in Job
  BY <1>0 DEF TypeOK, JobsKnown
<1>6. ASSUME NEW w \in Worker, NEW j \in Job, NEW i,
             j = worker'[w].job, i = worker'[w].id
      PROVE  /\ worker'[w].phase \in Holding \cup {"requeue"} => StaysAs(j, i)'
             /\ worker'[w].phase = "complete" => PageOf(j) \in Answered'
             /\ worker'[w].phase # "drop"
             /\ worker'[w].phase \in Holding => Nameable(j)'
  <2>1. CASE worker'[w] = worker[w]
    <3>1. /\ worker[w].phase \in Holding \cup {"requeue"} => StaysAs(worker[w].job, worker[w].id)
          /\ worker[w].phase = "complete" => PageOf(worker[w].job) \in Answered
          /\ worker[w].phase # "drop"
          /\ worker[w].phase \in Holding => Nameable(worker[w].job)
      BY <1>0 DEF WorkersRemember, NoneAhead
    <3>2. /\ worker[w].phase \in Holding \cup {"requeue"} => StaysAs(j, i)
          /\ worker[w].phase = "complete" => PageOf(j) \in Answered
          /\ worker[w].phase \in Holding => Nameable(j)
      BY <1>6, <2>1, <3>1
    <3>. QED  BY <1>0, <1>1, <1>3, <2>1, <3>1, <3>2
  <2>2. CASE worker'[w].phase \in {"idle", "fail", "register"}
    BY <2>2 DEF Holding
  <2>3. CASE /\ worker[w].phase \in Holding
             /\ worker'[w].phase \in (Holding \cup {"requeue"}) \ {"drop"}
             /\ worker'[w].job = worker[w].job /\ worker'[w].id = worker[w].id
             /\ worker'[w].phase = "complete" => PageOf(worker[w].job) \in Answered'
    <3>1. StaysAs(worker[w].job, worker[w].id) /\ Nameable(worker[w].job)
      BY <1>0, <2>3 DEF WorkersRemember, NoneAhead
    <3>2. StaysAs(j, i) /\ Nameable(j)
      BY <1>6, <2>3, <3>1
    <3>. QED  BY <1>1, <1>3, <1>6, <2>3, <3>2
  <2>4. CASE /\ worker'[w].phase = "fetch"
             /\ work[worker'[w].job].state # "none" /\ worker'[w].id = work[worker'[w].job].id
    <3>1. StaysAs(j, i) /\ Nameable(j)
      BY <1>0, <1>6, <2>4 DEF StaysAs, NoneAhead
    <3>. QED  BY <1>1, <1>3, <2>4, <3>1
  <2>. QED  BY <2>1, <2>2, <2>3, <2>4 DEF Orderly, AttemptGoesOn
<1>7. ASSUME NEW w \in Worker, worker'[w].phase = "hand"
      PROVE  /\ worker'[w].seen > RevisionOf(worker'[w].job)
             /\ worker'[w].seen <= current'[PageOf(worker'[w].job)]
  <2>1. /\ worker'[w].seen > RevisionOf(worker'[w].job)
        /\ worker'[w].seen <= current[PageOf(worker'[w].job)]
    <3>1. worker'[w] = worker[w] => worker[w].phase = "hand"
      BY <1>7
    <3>. QED  BY <1>0, <1>7, <3>1 DEF Orderly, AttemptGoesOn, NoneAhead
  <2>2. worker'[w].job \in Job /\ worker'[w].seen \in Int
    BY <1>0, <1>7, NumbersTyped DEF TypeOK, JobsKnown
  <2>3. PageOf(worker'[w].job) \in Page
    BY <2>2, RevisionsTyped
  <2>. QED  BY <2>1, <2>2, <2>3 DEF WikiGoesOn
<1>8. ASSUME NEW q \in Process, NEW j \in Job, NEW i,
             j = call'[q].job, i = call'[q].row
      PROVE  /\ call'[q].stage = "commit" /\ call'[q].plan = "touch" => StaysAs(j, i)'
             /\ call'[q].stage = "commit" /\ call'[q].plan = "skip" => Stays(j)'
             /\ call'[q].stage = "collide" => Stays(j)'
             /\ call'[q].stage # "idle" => Nameable(j)'
  <2>1. CASE call'[q] = call[q]
    <3>1. /\ call[q].stage = "commit" /\ call[q].plan = "touch" => StaysAs(call[q].job, call[q].row)
          /\ call[q].stage = "commit" /\ call[q].plan = "skip" => Stays(call[q].job)
          /\ call[q].stage = "collide" => Stays(call[q].job)
          /\ call[q].stage # "idle" => Nameable(call[q].job)
      BY <1>0 DEF CallsRemember, NoneAhead
    <3>2. /\ call[q].stage = "commit" /\ call[q].plan = "touch" => StaysAs(j, i)
          /\ call[q].stage = "commit" /\ call[q].plan = "skip" => Stays(j)
          /\ call[q].stage = "collide" => Stays(j)
          /\ call[q].stage # "idle" => Nameable(j)
      BY <1>8, <2>1, <3>1
    <3>. QED  BY <1>1, <1>3, <2>1, <3>2
  <2>2. CASE call'[q].stage = "idle"
    BY <2>2
  <2>3. CASE /\ call[q].stage # "idle" /\ call'[q].job = call[q].job
             /\ call'[q].stage = "commit" /\ call'[q].plan = "touch" =>
                   StaysAs(call[q].job, call'[q].row)
             /\ call'[q].stage = "commit" /\ call'[q].plan = "skip" => Stays(call[q].job)
             /\ call'[q].stage = "collide" => Stays(call[q].job)
    <3>1. Nameable(call[q].job)
      BY <1>0, <2>3 DEF NoneAhead
    <3>2. /\ call'[q].stage = "commit" /\ call'[q].plan = "touch" => StaysAs(j, i)
          /\ call'[q].stage = "commit" /\ call'[q].plan = "skip" => Stays(j)
          /\ call'[q].stage = "collide" => Stays(j)
          /\ Nameable(j)
      BY <1>8, <2>3, <3>1
    <3>. QED  BY <1>1, <1>3, <3>2
  <2>4. CASE call'[q].stage \in {"inspect", "gate"} /\ Nameable(call'[q].job)
    <3>1. Nameable(j)
      BY <1>8, <2>4
    <3>. QED  BY <1>1, <2>4, <3>1
  <2>. QED  BY <2>1, <2>2, <2>3, <2>4 DEF Orderly, CallGoesOn
<1>9. ASSUME NEW w \in Worker, call'[w].stage # "idle"
      PROVE  /\ PageOf(call'[w].job) = PageOf(worker'[w].job)
             /\ RevisionOf(call'[w].job) > RevisionOf(worker'[w].job)
  <2>0. w \in Process /\ worker'[w].phase = "requeue"
    BY <1>0, <1>9 DEF TypeOK, JobsKnown, Process
  <2>1. CASE call[w].stage # "idle" /\ call'[w].job = call[w].job
    <3>1. worker[w].phase = "requeue"
      BY <1>0, <2>0, <2>1 DEF TypeOK, JobsKnown
    <3>2. worker'[w] = worker[w]
      BY <2>0, <3>1 DEF Orderly, AttemptGoesOn, Holding
    <3>. QED  BY <1>0, <2>1, <3>2 DEF NoneAhead
  <2>2. CASE call'[w] = call[w]
    BY <1>9, <2>1, <2>2
  <2>. QED  BY <1>9, <2>0, <2>1, <2>2 DEF Orderly, CallGoesOn
<1>10. ASSUME NEW j \in Job, work'[j].state # "none" PROVE Nameable(j)'
  <2>1. CASE work[j].state = "none"
    BY <1>1, <1>10, <2>1 DEF Orderly, RowGoesOn
  <2>2. CASE work[j].state # "none"
    BY <1>0, <1>1, <2>2 DEF NoneAhead
  <2>. QED  BY <2>1, <2>2
<1>11. WorkersRemember'
  <2>1. ASSUME NEW w \in Worker
        PROVE  /\ worker'[w].phase \in Holding \cup {"requeue"} =>
                      StaysAs(worker[w].job, worker[w].id)'
               /\ worker'[w].phase = "complete" => PageOf(worker'[w].job) \in Answered'
               /\ worker'[w].phase # "drop"
    <3>1. CASE worker'[w].phase = "idle"
      BY <3>1 DEF Holding
    <3>2. CASE worker'[w].phase # "idle"
      <4>1. PICK j \in Job : j = worker'[w].job
        BY <1>4, <3>2
      <4>2. PICK i : i = worker'[w].id
        OBVIOUS
      <4>3. /\ worker'[w].phase \in Holding \cup {"requeue"} => StaysAs(j, i)'
            /\ worker'[w].phase = "complete" => PageOf(j) \in Answered'
            /\ worker'[w].phase # "drop"
        BY <1>6, <4>1, <4>2
      <4>. QED  BY <4>1, <4>2, <4>3 DEF StaysAs, PageOf
    <3>. QED  BY <3>1, <3>2
  <2>. QED  BY <2>1 DEF WorkersRemember, PageOf
<1>12. CallsRemember'
  <2>1. ASSUME NEW q \in Process
        PROVE  /\ call'[q].stage = "commit" /\ call'[q].plan = "touch" =>
                     StaysAs(call[q].job, call[q].row)'
               /\ call'[q].stage = "commit" /\ call'[q].plan = "skip" => Stays(call[q].job)'
               /\ call'[q].stage = "collide" => Stays(call[q].job)'
    <3>1. CASE call'[q].stage = "idle"
      BY <3>1
    <3>2. CASE call'[q].stage # "idle"
      <4>1. PICK j \in Job : j = call'[q].job
        BY <1>5, <3>2
      <4>2. PICK i : i = call'[q].row
        OBVIOUS
      <4>3. /\ call'[q].stage = "commit" /\ call'[q].plan = "touch" => StaysAs(j, i)'
            /\ call'[q].stage = "commit" /\ call'[q].plan = "skip" => Stays(j)'
            /\ call'[q].stage = "collide" => Stays(j)'
        BY <1>8, <4>1, <4>2
      <4>. QED  BY <4>1, <4>2, <4>3 DEF StaysAs, Stays, PageOf
    <3>. QED  BY <3>1, <3>2
  <2>. QED  BY <2>1 DEF CallsRemember
<1>13. NoneAhead'
  <2>1. ASSUME NEW q \in Process, call'[q].stage # "idle" PROVE Nameable(call[q].job)'
    <3>1. PICK j \in Job : j = call'[q].job
      BY <1>5, <2>1
    <3>2. PICK i : i = call'[q].row
      OBVIOUS
    <3>3. Nameable(j)'
      BY <1>8, <2>1, <3>1, <3>2
    <3>. QED  BY <3>1, <3>3 DEF Nameable, PageOf, RevisionOf
  <2>2. ASSUME NEW w \in Worker, worker'[w].phase \in Holding PROVE Nameable(worker[w].job)'
    <3>1. PICK j \in Job : j = worker'[w].job
      BY <1>4, <2>2
    <3>2. PICK i : i = worker'[w].id
      OBVIOUS
    <3>3. Nameable(j)'
      BY <1>6, <2>2, <3>1, <3>2
    <3>. QED  BY <3>1, <3>3 DEF Nameable, PageOf, RevisionOf
  <2>. QED  BY <1>7, <1>9, <1>10, <2>1, <2>2 DEF NoneAhead, PageOf, RevisionOf
<1>. QED  BY <1>11, <1>12, <1>13

\* Who answers for a revision answers for earlier ones.
LEMMA AnswersEarlier ==
    ASSUME TypeOK', NEW p, NEW r \in Int, NEW s \in Int, r <= s, AnswersFor(p, s)'
    PROVE  AnswersFor(p, r)'
<1>1. \A j \in Job : RevisionOf(j) >= s => RevisionOf(j) >= r
  BY RevisionsTyped
<1>2. \A w \in Worker : worker'[w].phase = "requeue" =>
                          (RevisionOf(worker'[w].job) >= s => RevisionOf(worker'[w].job) >= r)
  BY <1>1 DEF TypeOK, JobsKnown
<1>. QED  BY <1>1, <1>2 DEF AnswersFor, PageOf, RevisionOf

\* A row that stays where it is answers for its own revision.
LEMMA RowStands ==
    ASSUME NEW j \in Job, work[j].state # "none" => work'[j].id = work[j].id,
           work[j].state = "none" <=> work'[j].state = "none",
           work[j].state \in Kept => work'[j].state \in Kept
    PROVE  RowGoesOn(j) /\ RowHandedOn(j)
<1>1. RevisionOf(j) >= RevisionOf(j)
  BY RevisionsTyped
<1>. QED  BY <1>1 DEF RowGoesOn, RowHandedOn, AnswersFor

LEMMA TaskStands ==
    ASSUME NEW w \in Worker, worker'[w] = worker[w]
    PROVE  AttemptGoesOn(w) /\ TaskHandedOn(w)
<1>1. \A j \in Job : RevisionOf(j) >= RevisionOf(j)
  BY RevisionsTyped
<1>. QED  BY <1>1 DEF AttemptGoesOn, TaskHandedOn, AnswersFor, PageOf, RevisionOf

\* A page with a result needs nobody else.
LEMMA ResultAnswers ==
    ASSUME WikiGoesOn, NEW p \in Answered, NEW r
    PROVE  AnswersFor(p, r)'
BY DEF WikiGoesOn, AnswersFor

\* A worker inside enqueue is about a later revision of its page, so when enqueue
\* has made somebody answer for that one the worker may go.
LEMMA TaskEnds ==
    ASSUME DemandInv, TypeOK', NEW w \in Worker, NEW k \in Job, call[w].job = k,
           call[w].stage # "idle", AnswersFor(PageOf(k), RevisionOf(k))'
    PROVE  TaskHandedOn(w)
<1>1. ASSUME NEW j \in Job, worker[w].job = j
      PROVE  AnswersFor(PageOf(j), RevisionOf(j))'
  <2>1. PageOf(k) = PageOf(j) /\ RevisionOf(k) > RevisionOf(j)
    BY <1>1 DEF DemandInv, NoneAhead
  <2>2. RevisionOf(j) \in Int /\ RevisionOf(k) \in Int /\ RevisionOf(j) <= RevisionOf(k)
    BY <2>1, RevisionsTyped
  <2>3. AnswersFor(PageOf(j), RevisionOf(k))'
    BY <2>1
  <2>. QED  BY <2>2, <2>3, AnswersEarlier
<1>. QED  BY <1>1 DEF TaskHandedOn

\* enqueue returns.
LEMMA ReturnGoesOn ==
    ASSUME DemandInv, TypeOK', NEW q \in Process, NEW j \in Job, call[q].job = j,
           call[q].stage # "idle", Return(q),
           q \in Worker => AnswersFor(PageOf(j), RevisionOf(j))'
    PROVE  /\ \A p \in Process : CallGoesOn(p)
           /\ \A w \in Worker : AttemptGoesOn(w) /\ TaskHandedOn(w)
<1>0. TypeOK
  BY DEF DemandInv
<1>1. ASSUME NEW p \in Process PROVE CallGoesOn(p)
  <2>1. CASE p # q
    BY <1>0, <2>1 DEF Return, CallGoesOn, TypeOK
  <2>2. CASE p = q
    <3>. DEFINE answer == Start("answer", call[q].by, j, call[q].priority, call[q].stale)
    <3>1. call'[q] = answer \/ call'[q] = NoCall
      BY <1>0 DEF Return, TypeOK
    <3>2. answer.stage = "answer" /\ answer.job = j
      BY DEF Start
    <3>. HIDE DEF answer
    <3>. QED  BY <2>2, <3>1, <3>2, NoCallType DEF CallGoesOn
  <2>. QED  BY <2>1, <2>2
<1>2. ASSUME NEW w \in Worker, w # q PROVE AttemptGoesOn(w) /\ TaskHandedOn(w)
  BY <1>2, TaskStands DEF Return
<1>3. ASSUME q \in Worker PROVE AttemptGoesOn(q) /\ TaskHandedOn(q)
  BY <1>3, IdleType, TaskEnds DEF Return, AttemptGoesOn
<1>. QED  BY <1>1, <1>2, <1>3

\* What the last statements of enqueue leave behind: the row of the call's job is
\* kept, or as it was; older pending rows have given way.
LEMMA EnqueueWrites ==
    ASSUME DemandInv, TypeOK', WikiGoesOn, NEW q \in Process, NEW j \in Job,
           call[q].job = j, call[q].stage # "idle", Return(q),
           RowGoesOn(j),
           work'[j].state \in Kept \/ (Stays(j) /\ work'[j].state = work[j].state),
           \A k \in Job \ {j} :
              /\ work'[k].id = work[k].id
              /\ \/ work'[k].state = work[k].state
                 \/ /\ PageOf(k) = PageOf(j) /\ RevisionOf(k) < RevisionOf(j)
                    /\ work[k].state = "pending" /\ work'[k].state = "superseded"
    PROVE  Orderly
<1>0. TypeOK /\ RowsAnswered /\ NoneAhead
  BY DEF DemandInv
<1>1. AnswersFor(PageOf(j), RevisionOf(j))'
  <2>1. CASE work'[j].state \in Kept
    BY <2>1, RevisionsTyped DEF AnswersFor
  <2>2. CASE PageOf(j) \in Answered
    BY <2>2, ResultAnswers
  <2>3. CASE work[j].state # "none" /\ work'[j].state = work[j].state
    <3>1. AnswersFor(PageOf(j), RevisionOf(j))
      BY <1>0, <2>3 DEF RowsAnswered
    <3>2. ASSUME NEW k \in Job, PageOf(k) = PageOf(j), RevisionOf(k) >= RevisionOf(j),
                 work[k].state \in Kept
          PROVE  AnswersFor(PageOf(j), RevisionOf(j))'
      <4>1. ~(RevisionOf(k) < RevisionOf(j))
        BY <3>2, RevisionsTyped
      <4>2. work'[k].state = work[k].state
        BY <2>3, <4>1
      <4>. QED  BY <3>2, <4>2 DEF AnswersFor
    <3>3. ASSUME NEW w \in Worker, worker[w].phase = "requeue",
                 PageOf(worker[w].job) = PageOf(j), RevisionOf(worker[w].job) >= RevisionOf(j)
          PROVE  AnswersFor(PageOf(j), RevisionOf(j))'
      <4>1. w # q
        <5>1. SUFFICES ASSUME w = q PROVE FALSE
          OBVIOUS
        <5>2. RevisionOf(j) > RevisionOf(worker[w].job)
          BY <1>0, <5>1 DEF NoneAhead
        <5>3. worker[w].job \in Job
          BY <1>0, <3>3 DEF TypeOK, JobsKnown
        <5>. QED  BY <3>3, <5>2, <5>3, RevisionsTyped
      <4>2. worker'[w] = worker[w]
        BY <4>1 DEF Return
      <4>. QED  BY <3>3, <4>2 DEF AnswersFor, PageOf, RevisionOf
    <3>. QED  BY <2>2, <3>1, <3>2, <3>3 DEF AnswersFor
  <2>. QED  BY <2>1, <2>2, <2>3 DEF Stays
<1>2. ASSUME NEW k \in Job, k # j PROVE RowGoesOn(k) /\ RowHandedOn(k)
  <2>1. CASE work'[k].state = work[k].state
    BY <1>2, <2>1, RowStands
  <2>2. CASE /\ PageOf(k) = PageOf(j) /\ RevisionOf(k) < RevisionOf(j)
             /\ work[k].state = "pending" /\ work'[k].state = "superseded"
    <3>1. RowGoesOn(k)
      BY <1>2, <2>2 DEF RowGoesOn
    <3>2. RevisionOf(k) \in Int /\ RevisionOf(j) \in Int /\ RevisionOf(k) <= RevisionOf(j)
      BY <2>2, RevisionsTyped
    <3>3. AnswersFor(PageOf(k), RevisionOf(j))'
      BY <1>1, <2>2
    <3>4. AnswersFor(PageOf(k), RevisionOf(k))'
      BY <3>2, <3>3, AnswersEarlier
    <3>. QED  BY <3>1, <3>4 DEF RowHandedOn
  <2>. QED  BY <1>2, <2>1, <2>2
<1>3. RowGoesOn(j) /\ RowHandedOn(j)
  BY <1>1 DEF RowHandedOn
<1>4. /\ \A p \in Process : CallGoesOn(p)
      /\ \A w \in Worker : AttemptGoesOn(w) /\ TaskHandedOn(w)
  BY <1>1, ReturnGoesOn
<1>. QED  BY <1>2, <1>3, <1>4 DEF Orderly

\* The last statement of enqueue: which rows give way, and to what.
LEMMA SupersedingOlder ==
    ASSUME NEW table \in [Job -> Row], NEW j \in Job
    PROVE  /\ Superseding(table, j)[j] = table[j]
           /\ \A k \in Job :
                 /\ Superseding(table, j)[k].id = table[k].id
                 /\ \/ Superseding(table, j)[k].state = table[k].state
                    \/ /\ PageOf(k) = PageOf(j) /\ RevisionOf(k) < RevisionOf(j)
                       /\ table[k].state = "pending"
                       /\ Superseding(table, j)[k].state = "superseded"
<1>1. ASSUME NEW k \in Job
      PROVE  /\ Superseding(table, j)[k].id = table[k].id
             /\ \/ Superseding(table, j)[k].state = table[k].state
                \/ /\ PageOf(k) = PageOf(j) /\ RevisionOf(k) < RevisionOf(j)
                   /\ table[k].state = "pending"
                   /\ Superseding(table, j)[k].state = "superseded"
  <2>1. table[k] \in Row
    OBVIOUS
  <2>2. LET row == [table[k] EXCEPT !.state = "superseded", !.age = 0, !.wait = 0]
        IN  row.id = table[k].id /\ row.state = "superseded"
    BY <2>1 DEF Row
  <2>. QED  BY <2>2 DEF Superseding, SamePage
<1>. QED  BY <1>1, SupersedingMild

LEMMA RowsUnmoved == UNCHANGED work => \A j \in Job : RowGoesOn(j) /\ RowHandedOn(j)
BY RowStands

LEMMA AttemptsUnmoved == UNCHANGED worker => \A w \in Worker : AttemptGoesOn(w) /\ TaskHandedOn(w)
BY TaskStands

\* Clients, outside enqueue.
LEMMA ClientOrderly ==
    ASSUME DemandInv, TypeOK', NEW c \in Client,
           Ask(c) \/ Inspect(c) \/ Revive(c) \/ Answer(c) \/ Abandon(c)
    PROVE  Orderly
<1>0. /\ TypeOK /\ c \in Process /\ c \notin Worker
      /\ UNCHANGED worker
  BY ConstantsAssumption
     DEF DemandInv, Process, Ask, RequestV1, RequestV2, Prewarm, Backfill, Inspect, Revive,
         Answer, Abandon
<1>1. ASSUME NEW x, call' = [call EXCEPT ![c] = x],
             \/ x.stage = "idle"
             \/ x.stage \in {"inspect", "gate"} /\ Nameable(x.job)
             \/ call[c].stage # "idle" /\ x.job = call[c].job /\ x.stage \in {"revive", "gate"}
      PROVE  \A q \in Process : CallGoesOn(q)
  BY <1>0, <1>1 DEF TypeOK, CallGoesOn
<1>2. \A q \in Process : CallGoesOn(q)
  <2>1. ASSUME NEW j \in Job, RequestV1(c, j) \/ RequestV2(c, j) \/ Prewarm(c, j) \/ Backfill(c, j)
        PROVE  \A q \in Process : CallGoesOn(q)
    <3>1. Nameable(j)
      <4>1. RevisionOf(j) = current[PageOf(j)] => Nameable(j)
        BY RevisionsTyped DEF Nameable
      <4>. QED  BY <2>1, <4>1 DEF RequestV1, RequestV2, Prewarm, Backfill
    <3>. DEFINE v1 == Start("inspect", "v1", j, Priority.v1, FALSE)
                v2 == Start("inspect", "v2", j, Priority.v2, HasResult(PageOf(j)))
                prewarm == Start("gate", "prewarm", j, Priority.prewarm, FALSE)
                backfill == Start("gate", "backfill", j, Priority.backfill, FALSE)
    <3>2. /\ v1.stage = "inspect" /\ v2.stage = "inspect"
          /\ prewarm.stage = "gate" /\ backfill.stage = "gate"
          /\ v1.job = j /\ v2.job = j /\ prewarm.job = j /\ backfill.job = j
      BY DEF Start
    <3>3. \/ call' = [call EXCEPT ![c] = v1]
          \/ call' = [call EXCEPT ![c] = v2]
          \/ call' = [call EXCEPT ![c] = prewarm]
          \/ call' = [call EXCEPT ![c] = backfill]
      BY <2>1 DEF RequestV1, RequestV2, Prewarm, Backfill
    <3>. HIDE DEF v1, v2, prewarm, backfill
    <3>. QED  BY <1>1, <3>1, <3>2, <3>3
  <2>2. CASE Inspect(c)
    <3>. DEFINE revive == [[call[c] EXCEPT !.stage = "revive"] EXCEPT !.row = work[call[c].job].id]
                gate == [call[c] EXCEPT !.stage = "gate"]
    <3>1. call[c].stage # "idle" /\ call[c] \in CallState
      BY <1>0, <2>2 DEF Inspect, TypeOK
    <3>2. /\ revive.stage = "revive" /\ revive.job = call[c].job
          /\ gate.stage = "gate" /\ gate.job = call[c].job
      BY <3>1 DEF CallState
    <3>3. \/ call' = [call EXCEPT ![c] = revive]
          \/ call' = [call EXCEPT ![c] = NoCall]
          \/ call' = [call EXCEPT ![c] = gate]
      BY <1>0, <2>2 DEF Inspect, TypeOK
    <3>. HIDE DEF revive, gate
    <3>. QED  BY <1>1, <3>1, <3>2, <3>3, NoCallType
  <2>3. CASE Revive(c)
    <3>. DEFINE next == Start("gate", call[c].by, call[c].job, call[c].priority, call[c].stale)
    <3>1. next.stage = "gate" /\ next.job = call[c].job /\ call[c].stage # "idle"
      BY <2>3 DEF Start, Revive
    <3>2. call' = [call EXCEPT ![c] = next]
      BY <1>0, <2>3 DEF Revive, TypeOK
    <3>. HIDE DEF next
    <3>. QED  BY <1>1, <3>1, <3>2
  <2>4. CASE Answer(c) \/ Abandon(c)
    BY <1>1, <2>4, NoCallType DEF Answer, Abandon
  <2>. QED  BY <2>1, <2>2, <2>3, <2>4 DEF Ask
<1>3. \A j \in Job : RowGoesOn(j) /\ RowHandedOn(j)
  <2>1. CASE Revive(c)
    <3>1. ASSUME NEW j \in Job PROVE RowGoesOn(j) /\ RowHandedOn(j)
      <4>1. work'[j] = work[j] \/ (work'[j] = Revived(work[j]))
        BY <1>0, <2>1 DEF Revive, UpdateRow, TypeOK
      <4>2. work[j] \in Row
        BY <1>0 DEF TypeOK
      <4>3. \/ Revived(work[j]) = work[j]
            \/ /\ work[j].state = "dead" /\ Revived(work[j]).state = "pending"
               /\ Revived(work[j]).id = work[j].id
        BY <4>2 DEF Revived, Row
      <4>. QED  BY <4>1, <4>3, RowStands DEF Kept
    <3>. QED  BY <3>1
  <2>2. CASE UNCHANGED work
    BY <2>2, RowsUnmoved
  <2>. QED
    BY <2>1, <2>2 DEF Ask, RequestV1, RequestV2, Prewarm, Backfill, Inspect, Answer, Abandon
<1>. QED  BY <1>0, <1>2, <1>3, AttemptsUnmoved DEF Orderly

\* enqueue, whoever called it, and whatever it found.
LEMMA EnqueueOrderly ==
    ASSUME DemandInv, TypeOK', WikiGoesOn, NEW q \in Process, Enqueue(q)
    PROVE  Orderly
<1>0. /\ TypeOK /\ CallsRemember /\ NoneAhead /\ call[q].stage # "idle"
  BY DEF DemandInv, Enqueue, Gate, Read, Insert, Conflict, Collide, Touch, LostRow, Skip
<1>1. PICK j \in Job : call[q].job = j
  BY <1>0, CallType
<1>2. /\ call[q] \in CallState /\ work \in [Job -> Row] /\ work[j] \in Row
      /\ call[q].priority \in Priorities /\ call[q].raise \in BOOLEAN
  BY <1>0, <1>1, CallType DEF TypeOK
<1>3. ASSUME NEW x, call' = [call EXCEPT ![q] = x], UNCHANGED <<work, worker>>, x.job = j,
             x.stage = "commit" /\ x.plan = "touch" => StaysAs(j, x.row),
             x.stage = "commit" /\ x.plan = "skip" => Stays(j),
             x.stage = "collide" => Stays(j)
      PROVE  Orderly
  <2>1. \A p \in Process : CallGoesOn(p)
    BY <1>0, <1>1, <1>3 DEF TypeOK, CallGoesOn
  <2>. QED  BY <1>3, <2>1, RowsUnmoved, AttemptsUnmoved DEF Orderly
<1>4. ASSUME UNCHANGED work, Return(q), q \in Worker => AnswersFor(PageOf(j), RevisionOf(j))'
      PROVE  Orderly
  BY <1>0, <1>1, <1>4, RowsUnmoved, ReturnGoesOn DEF Orderly
<1>5. CASE Gate(q)
  <2>1. CASE Return(q) /\ (q \in Worker => results[j] # NoResult)
    <3>1. ASSUME q \in Worker PROVE AnswersFor(PageOf(j), RevisionOf(j))'
      <4>1. PageOf(j) \in Answered
        BY <2>1, <3>1, RevisionsTyped DEF Answered, HasResult, Computed
      <4>. QED  BY <4>1, ResultAnswers
    <3>. QED  BY <1>4, <1>5, <2>1, <3>1 DEF Gate
  <2>2. CASE call' = [call EXCEPT ![q].stage = "read"] /\ UNCHANGED worker
    <3>. DEFINE x == [call[q] EXCEPT !.stage = "read"]
    <3>1. x.job = j /\ x.stage = "read"
      BY <1>1, <1>2 DEF CallState
    <3>2. call' = [call EXCEPT ![q] = x] /\ UNCHANGED <<work, worker>>
      BY <1>0, <1>5, <2>2 DEF TypeOK, Gate
    <3>. HIDE DEF x
    <3>. QED  BY <1>3, <3>1, <3>2
  <2>3. q \in Worker => call[q].by = "requeue"
    BY <1>0 DEF TypeOK, JobsKnown
  <2>. QED  BY <1>1, <1>5, <2>1, <2>2, <2>3 DEF Gate
<1>6. CASE Read(q)
  <2>1. CASE NewerLive(j) /\ Return(q)
    <3>1. PICK k \in Job : /\ PageOf(k) = PageOf(j) /\ RevisionOf(k) > RevisionOf(j)
                           /\ work[k].state \in Live
      BY <2>1 DEF NewerLive, SamePage
    <3>2. RevisionOf(k) >= RevisionOf(j) /\ work'[k].state \in Kept
      BY <1>6, <3>1, RevisionsTyped DEF Read, Live, Kept
    <3>3. AnswersFor(PageOf(j), RevisionOf(j))'
      BY <3>1, <3>2 DEF AnswersFor
    <3>. QED  BY <1>4, <1>6, <2>1, <3>3 DEF Read
  <2>2. ASSUME NEW plan, NEW row, NEW raise, Plan(q, plan, row, raise),
               plan = "touch" => StaysAs(j, row), plan = "skip" => Stays(j)
        PROVE  Orderly
    <3>. DEFINE x == [stage |-> "commit", by |-> call[q].by, job |-> j,
                      priority |-> call[q].priority, stale |-> call[q].stale,
                      plan |-> plan, row |-> row, raise |-> raise]
    <3>1. x.job = j /\ x.stage = "commit" /\ x.plan = plan /\ x.row = row
      OBVIOUS
    <3>2. call' = [call EXCEPT ![q] = x] /\ UNCHANGED <<work, worker>>
      BY <1>0, <1>1, <1>6, <2>2 DEF Plan, Read, TypeOK
    <3>. HIDE DEF x
    <3>. QED  BY <1>3, <2>2, <3>1, <3>2
  <2>3. CASE work[j].state = "none" /\ Plan(q, "insert", 0, FALSE)
    BY <2>2, <2>3
  <2>4. CASE work[j].state \in Live /\ Plan(q, "touch", work[j].id, work[j].priority < call[q].priority)
    <3>1. StaysAs(j, work[j].id)
      BY <2>4 DEF StaysAs, Live
    <3>. QED  BY <2>2, <2>4, <3>1
  <2>5. CASE work[j].state \in {"dead", "superseded"} /\ Plan(q, "skip", 0, FALSE)
    <3>1. Stays(j)
      BY <2>5 DEF Stays
    <3>. QED  BY <2>2, <2>5, <3>1
  <2>. QED  BY <1>1, <1>6, <2>1, <2>3, <2>4, <2>5 DEF Read
<1>7. CASE Insert(q)
  <2>1. PICK id \in FreshIds(j) :
           work' = Superseding([work EXCEPT ![j] = NewRow(id, "pending", call[q].priority)], j)
    BY <1>1, <1>7 DEF Insert
  <2>. DEFINE table == [work EXCEPT ![j] = NewRow(id, "pending", call[q].priority)]
  <2>2. /\ table \in [Job -> Row] /\ table[j].state = "pending"
        /\ \A k \in Job \ {j} : table[k] = work[k]
    <3>1. NewRow(id, "pending", call[q].priority) \in Row
      BY <1>2, NewRowType DEF FreshIds
    <3>. QED  BY <1>2, <3>1 DEF NewRow
  <2>3. work' = Superseding(table, j)
    BY <2>1
  <2>. HIDE DEF table
  <2>4. /\ work'[j] = table[j]
        /\ \A k \in Job \ {j} :
              /\ work'[k].id = work[k].id
              /\ \/ work'[k].state = work[k].state
                 \/ /\ PageOf(k) = PageOf(j) /\ RevisionOf(k) < RevisionOf(j)
                    /\ work[k].state = "pending" /\ work'[k].state = "superseded"
    BY <2>2, <2>3, SupersedingOlder
  <2>5. Nameable(j)
    BY <1>0, <1>1 DEF NoneAhead
  <2>6. RowGoesOn(j) /\ work'[j].state \in Kept
    BY <1>1, <1>7, <2>2, <2>4, <2>5 DEF RowGoesOn, Kept, Insert
  <2>. QED  BY <1>0, <1>1, <1>7, <2>4, <2>6, EnqueueWrites DEF Insert
<1>8. CASE Conflict(q)
  <2>. DEFINE x == [call[q] EXCEPT !.stage = "collide"]
  <2>1. x.job = j /\ x.stage = "collide"
    BY <1>1, <1>2 DEF CallState
  <2>2. call' = [call EXCEPT ![q] = x] /\ UNCHANGED <<work, worker>>
    BY <1>0, <1>8 DEF TypeOK, Conflict
  <2>3. Stays(j)
    BY <1>1, <1>8 DEF Conflict, Stays
  <2>. HIDE DEF x
  <2>. QED  BY <1>3, <2>1, <2>2, <2>3
<1>9. CASE Collide(q)
  <2>. DEFINE row == Touched(work[j], call[q].priority, TRUE)
  <2>1. row.id = work[j].id /\ row.state = work[j].state
    BY <1>2 DEF Touched, Row
  <2>2. work' = work \/ work' = [work EXCEPT ![j] = row]
    BY <1>1, <1>9 DEF Collide
  <2>. HIDE DEF row
  <2>3. \A k \in Job : work'[k].id = work[k].id /\ work'[k].state = work[k].state
    BY <1>2, <2>1, <2>2
  <2>4. RowGoesOn(j)
    BY <2>3, RowStands
  <2>5. Stays(j)
    BY <1>0, <1>1, <1>9 DEF CallsRemember, Collide
  <2>. QED  BY <1>0, <1>1, <1>9, <2>3, <2>4, <2>5, EnqueueWrites DEF Collide
<1>10. CASE Touch(q)
  <2>. DEFINE row == Touched(work[j], call[q].priority, call[q].raise)
              table == [work EXCEPT ![j] = row]
  <2>1. row \in Row
    BY <1>2, TouchedType
  <2>2. /\ table \in [Job -> Row] /\ table[j] = row
        /\ \A k \in Job \ {j} : table[k] = work[k]
    BY <1>2, <2>1
  <2>3. work' = Superseding(table, j)
    BY <1>1, <1>10 DEF Touch
  <2>4. row.id = work[j].id /\ row.state = work[j].state
    BY <1>2, TouchedMild
  <2>. HIDE DEF table, row
  <2>5. /\ work'[j].id = work[j].id /\ work'[j].state = work[j].state
        /\ \A k \in Job \ {j} :
              /\ work'[k].id = work[k].id
              /\ \/ work'[k].state = work[k].state
                 \/ /\ PageOf(k) = PageOf(j) /\ RevisionOf(k) < RevisionOf(j)
                    /\ work[k].state = "pending" /\ work'[k].state = "superseded"
    BY <2>2, <2>3, <2>4, SupersedingOlder
  <2>6. RowGoesOn(j)
    BY <2>5, RowStands
  <2>7. Stays(j)
    BY <1>0, <1>1, <1>10 DEF CallsRemember, Touch, Stays, StaysAs
  <2>. QED  BY <1>0, <1>1, <1>10, <2>5, <2>6, <2>7, EnqueueWrites DEF Touch
<1>11. CASE LostRow(q)
  <2>1. StaysAs(j, call[q].row)
    BY <1>0, <1>1, <1>11 DEF CallsRemember, LostRow
  <2>2. PageOf(j) \in Answered
    BY <1>1, <1>11, <2>1 DEF StaysAs, LostRow
  <2>3. \A p \in Process : CallGoesOn(p)
    BY <1>0, <1>11, NoCallType DEF LostRow, CallGoesOn, TypeOK
  <2>4. ASSUME NEW w \in Worker, w # q PROVE AttemptGoesOn(w) /\ TaskHandedOn(w)
    BY <1>11, <2>4, TaskStands DEF LostRow
  <2>5. ASSUME q \in Worker PROVE AttemptGoesOn(q) /\ TaskHandedOn(q)
    <3>1. worker'[q].phase = "fail"
      <4>1. worker'[q] = [worker[q] EXCEPT !.phase = "fail"] /\ worker[q] \in WorkerState
        BY <1>0, <1>11, <2>5 DEF LostRow, TypeOK
      <4>. QED  BY <4>1 DEF WorkerState
    <3>2. AnswersFor(PageOf(j), RevisionOf(j))'
      BY <2>2, ResultAnswers
    <3>. QED  BY <1>0, <1>1, <2>5, <3>1, <3>2, TaskEnds DEF AttemptGoesOn
  <2>6. UNCHANGED work
    BY <1>11 DEF LostRow
  <2>. QED  BY <2>3, <2>4, <2>5, <2>6, RowsUnmoved DEF Orderly
<1>12. CASE Skip(q)
  <2>1. work' = Superseding(work, j)
    BY <1>1, <1>12 DEF Skip
  <2>2. /\ work'[j].id = work[j].id /\ work'[j].state = work[j].state
        /\ \A k \in Job \ {j} :
              /\ work'[k].id = work[k].id
              /\ \/ work'[k].state = work[k].state
                 \/ /\ PageOf(k) = PageOf(j) /\ RevisionOf(k) < RevisionOf(j)
                    /\ work[k].state = "pending" /\ work'[k].state = "superseded"
    BY <1>2, <2>1, SupersedingOlder
  <2>3. RowGoesOn(j)
    BY <2>2, RowStands
  <2>4. Stays(j)
    BY <1>0, <1>1, <1>12 DEF CallsRemember, Skip
  <2>. QED  BY <1>0, <1>1, <1>12, <2>2, <2>3, <2>4, EnqueueWrites DEF Skip
<1>. QED  BY <1>5, <1>6, <1>7, <1>8, <1>9, <1>10, <1>11, <1>12 DEF Enqueue

\* Workers, outside enqueue.
LEMMA WorkerOrderly ==
    ASSUME Calm, DemandInv, TypeOK', WikiGoesOn, NEW w \in Worker,
           \/ \E j \in Job : Claim(w, j)
           \/ GetPage(w) \/ Drop(w) \/ HandOver(w) \/ Save(w) \/ Complete(w) \/ Register(w)
           \/ \E permanent \in BOOLEAN : Fail(w, permanent)
           \/ Crash(w)
    PROVE  Orderly
<1>0. /\ TypeOK /\ WorkersRemember /\ NoneAhead /\ w \in Process
      /\ worker[w] \in WorkerState /\ worker[w].phase \in Phases
      /\ work \in [Job -> Row]
  BY BusyKnown DEF DemandInv, Process, TypeOK
<1>1. ASSUME NEW v \in Worker, v # w PROVE AttemptGoesOn(v) /\ TaskHandedOn(v)
  <2>1. worker'[v] = worker[v]
    BY <1>0, <1>1 DEF Claim, GetPage, Saw, Drop, HandOver, Save, Complete, Register, Fail, Crash,
                      TypeOK
  <2>. QED  BY <2>1, TaskStands
<1>2. ASSUME UNCHANGED call PROVE \A q \in Process : CallGoesOn(q)
  BY <1>2 DEF CallGoesOn
<1>3. worker[w].phase # "requeue" => TaskHandedOn(w)
  BY DEF TaskHandedOn
<1>4. ASSUME NEW j \in Job, j # worker[w].job, ~(\E k \in Job : Claim(w, k))
      PROVE  RowGoesOn(j) /\ RowHandedOn(j)
  <2>1. work'[j] = work[j]
    BY <1>0, <1>4 DEF GetPage, Drop, HandOver, Save, Complete, Register, Fail, Crash, UpdateRow,
                      TypeOK
  <2>. QED  BY <2>1, RowStands
<1>5. CASE \E j \in Job : Claim(w, j)
  <2>1. PICK j \in Job : Claim(w, j)
    BY <1>5
  <2>2. work[j].state \in Kept /\ work[j].state # "none"
    BY <2>1 DEF Claim, First, Claimable, Kept
  <2>3. work' = [work EXCEPT ![j] = Leased(work[j])]
    BY <1>0, <2>1 DEF Claim
  <2>4. Leased(work[j]).state = "leased" /\ Leased(work[j]).id = work[j].id
    <3>1. work[j] \in Row
      BY <1>0
    <3>. QED  BY <3>1 DEF Leased, Row
  <2>5. \A k \in Job : RowGoesOn(k) /\ RowHandedOn(k)
    BY <1>0, <2>2, <2>3, <2>4, RowStands DEF Kept
  <2>. DEFINE lease == [phase |-> "fetch", id |-> work[j].id, job |-> j,
                        priority |-> work[j].priority,
                        attempts |-> Leased(work[j]).attempts, seen |-> 0]
  <2>6. lease.phase = "fetch" /\ lease.id = work[j].id /\ lease.job = j
    OBVIOUS
  <2>7. worker' = [worker EXCEPT ![w] = lease]
    BY <2>1 DEF Claim
  <2>. HIDE DEF lease
  <2>8. AttemptGoesOn(w) /\ TaskHandedOn(w)
    <3>1. worker'[w] = lease
      BY <1>0, <2>7 DEF TypeOK
    <3>2. worker[w].phase # "requeue"
      BY <2>1 DEF Claim
    <3>. QED  BY <1>3, <2>2, <2>6, <3>1, <3>2 DEF AttemptGoesOn
  <2>. QED  BY <1>1, <1>2, <2>1, <2>5, <2>8 DEF Orderly, Claim
<1>6. CASE GetPage(w)
  <2>1. worker[w].phase = "fetch" /\ UNCHANGED <<work, call>>
    BY <1>6 DEF GetPage
  <2>2. worker[w].job \in Job
    BY <1>0, <2>1, BusyKnown
  <2>3. PICK k \in SamePage(worker[w].job) :
           /\ RevisionOf(k) = current[PageOf(k)]
           /\ \/ k # worker[w].job /\ Saw(w, "hand", RevisionOf(k))
              \/ k = worker[w].job /\ Saw(w, "attribute", 0)
    BY <1>6 DEF GetPage, Calm, RefusedPage, SamePage
  <2>4. k \in Job /\ PageOf(k) = PageOf(worker[w].job)
    BY <2>3 DEF SamePage
  <2>5. ASSUME NEW phase, NEW r, Saw(w, phase, r)
        PROVE  /\ worker'[w].phase = phase /\ worker'[w].seen = r
               /\ worker'[w].job = worker[w].job /\ worker'[w].id = worker[w].id
    <3>1. worker'[w] = [[worker[w] EXCEPT !.phase = phase] EXCEPT !.seen = r]
      BY <1>0, <2>5 DEF Saw, TypeOK
    <3>. QED  BY <1>0, <3>1 DEF WorkerState
  <2>6. CASE k # worker[w].job /\ Saw(w, "hand", RevisionOf(k))
    <3>1. RevisionOf(k) > RevisionOf(worker[w].job)
      <4>1. RevisionOf(worker[w].job) <= current[PageOf(worker[w].job)]
        BY <1>0, <2>1 DEF NoneAhead, Nameable, Holding
      <4>2. RevisionOf(k) # RevisionOf(worker[w].job)
        BY <2>2, <2>4, <2>6 DEF Job, PageOf, RevisionOf
      <4>. QED  BY <2>2, <2>3, <2>4, <4>1, <4>2, RevisionsTyped
    <3>2. RevisionOf(k) <= current[PageOf(worker[w].job)]
      BY <2>3, <2>4, RevisionsTyped
    <3>3. AttemptGoesOn(w)
      BY <2>1, <2>5, <2>6, <3>1, <3>2 DEF AttemptGoesOn, Holding
    <3>. QED  BY <1>1, <1>2, <1>3, <2>1, <3>3, RowsUnmoved DEF Orderly
  <2>7. CASE Saw(w, "attribute", 0)
    <3>1. AttemptGoesOn(w)
      BY <2>1, <2>5, <2>7 DEF AttemptGoesOn, Holding
    <3>. QED  BY <1>1, <1>2, <1>3, <2>1, <3>1, RowsUnmoved DEF Orderly
  <2>. QED  BY <2>3, <2>6, <2>7
<1>7. CASE Drop(w) \/ Crash(w)
  <2>1. ~Drop(w)
    BY <1>0 DEF WorkersRemember, Drop
  <2>2. ~Crash(w)
    BY <1>0 DEF Crash, Calm, TypeOK
  <2>. QED  BY <1>7, <2>1, <2>2
<1>8. CASE HandOver(w)
  <2>1. worker[w].phase = "hand"
    BY <1>8 DEF HandOver
  <2>2. PICK j \in Job : worker[w].job = j
    BY <1>0, <2>1, BusyKnown
  <2>3. worker'[w].phase = "requeue" /\ worker'[w].job = j /\ worker'[w].id = worker[w].id
    <3>1. worker'[w] = [worker[w] EXCEPT !.phase = "requeue"]
      BY <1>0, <1>8 DEF HandOver, TypeOK
    <3>. QED  BY <1>0, <2>2, <3>1 DEF WorkerState
  <2>4. AttemptGoesOn(w)
    BY <2>1, <2>2, <2>3 DEF AttemptGoesOn, Holding
  <2>5. \A q \in Process : CallGoesOn(q)
    <3>. DEFINE k == <<PageOf(j), worker[w].seen>>
                x == Start("gate", "requeue", k, worker[w].priority, FALSE)
    <3>1. x.stage = "gate" /\ x.job = k
      BY DEF Start
    <3>2. PageOf(k) = PageOf(j) /\ RevisionOf(k) = worker[w].seen
      BY DEF PageOf, RevisionOf
    <3>3. Nameable(k) /\ RevisionOf(k) > RevisionOf(j)
      BY <1>0, <2>1, <2>2, <3>2 DEF NoneAhead, Nameable
    <3>4. call' = [call EXCEPT ![w] = x]
      BY <1>8, <2>2 DEF HandOver
    <3>. HIDE DEF k, x
    <3>5. ASSUME NEW q \in Process, q # w PROVE CallGoesOn(q)
      BY <1>0, <3>4, <3>5 DEF CallGoesOn, TypeOK
    <3>6. CallGoesOn(w)
      BY <1>0, <2>3, <3>1, <3>2, <3>3, <3>4 DEF CallGoesOn, TypeOK
    <3>. QED  BY <3>5, <3>6
  <2>6. RowGoesOn(j) /\ RowHandedOn(j)
    <3>1. \/ work'[j] = work[j]
          \/ work[j].state # "none" /\ work'[j] = Superseded(work[j])
      BY <1>0, <1>8, <2>2 DEF HandOver, UpdateRow
    <3>2. Superseded(work[j]).state = "superseded" /\ Superseded(work[j]).id = work[j].id
      <4>1. work[j] \in Row
        BY <1>0
      <4>. QED  BY <4>1 DEF Superseded, Row
    <3>3. RowGoesOn(j)
      BY <3>1, <3>2 DEF RowGoesOn
    <3>4. AnswersFor(PageOf(j), RevisionOf(j))'
      BY <2>3, RevisionsTyped DEF AnswersFor, PageOf, RevisionOf
    <3>. QED  BY <3>3, <3>4 DEF RowHandedOn
  <2>7. \A k \in Job : RowGoesOn(k) /\ RowHandedOn(k)
    BY <1>4, <2>1, <2>2, <2>6 DEF Claim
  <2>. QED  BY <1>1, <1>3, <2>1, <2>4, <2>5, <2>7 DEF Orderly
<1>9. CASE Save(w)
  <2>1. worker[w].phase = "attribute" /\ UNCHANGED <<work, call>>
    BY <1>9 DEF Save
  <2>2. PICK j \in Job : worker[w].job = j
    BY <1>0, <2>1, BusyKnown
  <2>3. worker'[w].phase = "complete" /\ worker'[w].job = j /\ worker'[w].id = worker[w].id
    <3>1. worker'[w] = [worker[w] EXCEPT !.phase = "complete"]
      BY <1>0, <1>9 DEF Save, TypeOK
    <3>. QED  BY <1>0, <2>2, <3>1 DEF WorkerState
  <2>4. PageOf(j) \in Answered'
    <3>1. results'[j] # NoResult
      BY <1>0, <1>9, <2>2 DEF Save, NoResult, TypeOK
    <3>. QED  BY <3>1, RevisionsTyped DEF Answered, HasResult, Computed
  <2>5. AttemptGoesOn(w)
    BY <2>1, <2>2, <2>3, <2>4 DEF AttemptGoesOn, Holding
  <2>. QED  BY <1>1, <1>2, <1>3, <2>1, <2>5, RowsUnmoved DEF Orderly
<1>10. CASE Complete(w)
  <2>1. worker[w].phase = "complete"
    BY <1>10 DEF Complete
  <2>2. PICK j \in Job : worker[w].job = j
    BY <1>0, <2>1, BusyKnown
  <2>3. worker'[w].phase = "register"
    <3>1. worker'[w] = [worker[w] EXCEPT !.phase = "register"]
      BY <1>0, <1>10 DEF Complete, TypeOK
    <3>. QED  BY <1>0, <3>1 DEF WorkerState
  <2>4. PageOf(j) \in Answered
    BY <1>0, <2>1, <2>2 DEF WorkersRemember
  <2>5. RowGoesOn(j) /\ RowHandedOn(j)
    <3>1. AnswersFor(PageOf(j), RevisionOf(j))'
      BY <2>4, ResultAnswers
    <3>2. work[j].state = "none" => work'[j].state = "none"
      BY <1>0, <1>10, <2>2 DEF Complete, UpdateRow
    <3>. QED  BY <2>4, <3>1, <3>2 DEF RowGoesOn, RowHandedOn
  <2>6. \A k \in Job : RowGoesOn(k) /\ RowHandedOn(k)
    BY <1>4, <2>1, <2>2, <2>5 DEF Claim
  <2>7. AttemptGoesOn(w)
    BY <2>3 DEF AttemptGoesOn
  <2>. QED  BY <1>1, <1>2, <1>3, <1>10, <2>1, <2>6, <2>7 DEF Orderly, Complete
<1>11. CASE Register(w)
  <2>1. worker[w].phase = "register" /\ UNCHANGED <<work, call>>
    BY <1>11 DEF Register
  <2>2. AttemptGoesOn(w)
    BY <1>0, <1>11, IdleType DEF Register, AttemptGoesOn, TypeOK
  <2>. QED  BY <1>1, <1>2, <1>3, <2>1, <2>2, RowsUnmoved DEF Orderly
<1>12. ASSUME NEW permanent \in BOOLEAN, Fail(w, permanent) PROVE Orderly
  <2>1. worker[w].phase # "idle"
    BY <1>12 DEF Fail
  <2>2. PICK j \in Job : worker[w].job = j
    BY <1>0, <2>1, BusyKnown
  <2>3. \/ work'[j] = work[j] /\ (work[j].state = "none" \/ work[j].id # worker[w].id)
        \/ /\ work[j].state # "none" /\ work[j].id = worker[w].id
           /\ work'[j] = Failed(work[j], worker[w], permanent)
    BY <1>0, <1>12, <2>2 DEF Fail, UpdateRow
  <2>4. /\ Failed(work[j], worker[w], permanent).state \in Kept
        /\ Failed(work[j], worker[w], permanent).id = work[j].id
    <3>1. work[j] \in Row
      BY <1>0
    <3>. QED  BY <3>1 DEF Failed, Row, Kept
  <2>5. RowGoesOn(j) /\ RowHandedOn(j)
    BY <2>3, <2>4, RowStands DEF Kept
  <2>6. \A k \in Job : RowGoesOn(k) /\ RowHandedOn(k)
    BY <1>4, <2>1, <2>2, <2>5 DEF Claim
  <2>7. worker'[w].phase = "idle"
    BY <1>0, <1>12, IdleType DEF Fail, TypeOK
  <2>8. TaskHandedOn(w)
    <3>1. CASE worker[w].phase = "requeue"
      <4>1. StaysAs(j, worker[w].id)
        BY <1>0, <2>2, <3>1 DEF WorkersRemember
      <4>2. CASE PageOf(j) \in Answered
        BY <2>2, <4>2, ResultAnswers DEF TaskHandedOn
      <4>3. CASE work[j].state # "none" /\ work[j].id = worker[w].id
        <5>1. work'[j].state \in Kept
          BY <2>3, <2>4, <4>3
        <5>2. AnswersFor(PageOf(j), RevisionOf(j))'
          BY <5>1, RevisionsTyped DEF AnswersFor
        <5>. QED  BY <2>2, <5>2 DEF TaskHandedOn
      <4>. QED  BY <4>1, <4>2, <4>3 DEF StaysAs
    <3>. QED  BY <1>3, <3>1
  <2>9. \A q \in Process : CallGoesOn(q)
    BY <1>0, <1>12, NoCallType DEF Fail, CallGoesOn, TypeOK
  <2>10. AttemptGoesOn(w)
    BY <2>7 DEF AttemptGoesOn
  <2>. QED  BY <1>1, <2>6, <2>8, <2>9, <2>10 DEF Orderly
<1>. QED  BY <1>5, <1>6, <1>7, <1>8, <1>9, <1>10, <1>11, <1>12

\* Whatever happens, somebody goes on answering.
LEMMA StepOrderly ==
    ASSUME Calm, DemandInv, [Next]_vars
    PROVE  WikiGoesOn /\ TypeOK' /\ Orderly
<1>0. TypeOK /\ TypeOK' /\ DoomedReplaced /\ WikiGoesOn
  BY NextType, WikiStep DEF DemandInv
<1>1. ASSUME NEW c \in Client, Ask(c) \/ Proceed(c) \/ Abandon(c)
      PROVE  Orderly
  BY <1>0, <1>1, ClientOrderly, EnqueueOrderly DEF Proceed, Process
<1>2. ASSUME NEW w \in Worker,
             \/ \E j \in Job : Claim(w, j)
             \/ Attempt(w)
             \/ \E permanent \in BOOLEAN : Fail(w, permanent)
             \/ Crash(w)
      PROVE  Orderly
  BY <1>0, <1>2, WorkerOrderly, EnqueueOrderly DEF Attempt, Process
<1>3. ASSUME worker' = worker, call' = call, \A j \in Job : RowGoesOn(j) /\ RowHandedOn(j)
      PROVE  Orderly
  BY <1>3, AttemptsUnmoved DEF Orderly, CallGoesOn
<1>4. CASE CleanupSelect \/ CleanupDelete \/ (\E p \in Page : Edit(p)) \/ UNCHANGED vars
  <2>1. work' = work /\ worker' = worker /\ call' = call
    BY <1>4 DEF Calm, CleanupSelect, CleanupDelete, Edit, vars
  <2>. QED  BY <1>0, <1>3, <2>1, RowsUnmoved
<1>5. CASE Tick
  <2>0. ASSUME NEW row \in Row PROVE Aged(row).id = row.id /\ Aged(row).state = row.state
    BY NumbersTyped DEF Aged, Row, Most
  <2>1. ASSUME NEW j \in Job PROVE RowGoesOn(j) /\ RowHandedOn(j)
    <3>1. work'[j] = Aged(work[j]) /\ work[j] \in Row
      BY <1>0, <1>5 DEF Tick, TypeOK
    <3>2. Aged(work[j]).id = work[j].id /\ Aged(work[j]).state = work[j].state
      BY <2>0, <3>1
    <3>. QED  BY <3>1, <3>2, RowStands
  <2>. QED  BY <1>0, <1>3, <1>5, <2>1 DEF Tick
<1>. QED  BY <1>0, <1>1, <1>2, <1>4, <1>5 DEF Next

\* Whoever was answered for still is.
LEMMA AnswersStay ==
    ASSUME DemandInv, TypeOK', WikiGoesOn, Orderly, NEW p \in Page, NEW r \in Int,
           AnswersFor(p, r)
    PROVE  AnswersFor(p, r)'
<1>1. CASE p \in Answered
  BY <1>1, ResultAnswers
<1>2. ASSUME NEW j \in Job, PageOf(j) = p, RevisionOf(j) >= r,
             AnswersFor(PageOf(j), RevisionOf(j))'
      PROVE  AnswersFor(p, r)'
  <2>1. RevisionOf(j) \in Int /\ r <= RevisionOf(j)
    BY <1>2, RevisionsTyped
  <2>2. AnswersFor(p, RevisionOf(j))'
    BY <1>2
  <2>. QED  BY <2>1, <2>2, AnswersEarlier
<1>3. ASSUME NEW j \in Job, PageOf(j) = p, RevisionOf(j) >= r, work[j].state \in Kept
      PROVE  AnswersFor(p, r)'
  BY <1>2, <1>3 DEF Orderly, RowHandedOn
<1>4. ASSUME NEW w \in Worker, worker[w].phase = "requeue", PageOf(worker[w].job) = p,
             RevisionOf(worker[w].job) >= r
      PROVE  AnswersFor(p, r)'
  <2>1. PICK j \in Job : worker[w].job = j
    BY <1>4 DEF DemandInv, TypeOK, JobsKnown
  <2>. QED  BY <1>2, <1>4, <2>1 DEF Orderly, TaskHandedOn
<1>. QED  BY <1>1, <1>3, <1>4 DEF AnswersFor

LEMMA DemandStep ==
    ASSUME Calm, DemandInv, [Next]_vars
    PROVE  DemandInv'
<1>0. TypeOK /\ TypeOK' /\ DoomedReplaced' /\ WikiGoesOn /\ Orderly
  BY StepOrderly, DoomedStep DEF DemandInv
<1>1. WorkersRemember' /\ CallsRemember' /\ NoneAhead'
  BY <1>0, MemoryStep
<1>2. ASSUME NEW j \in Job, work'[j].state # "none"
      PROVE  AnswersFor(PageOf(j), RevisionOf(j))'
  <2>1. CASE work[j].state = "none"
    <3>1. work'[j].state \in Kept
      BY <1>0, <1>2, <2>1 DEF Orderly, RowGoesOn
    <3>. QED  BY <3>1, RevisionsTyped DEF AnswersFor
  <2>2. CASE work[j].state # "none"
    <3>1. AnswersFor(PageOf(j), RevisionOf(j))
      BY <2>2 DEF DemandInv, RowsAnswered
    <3>. QED  BY <1>0, <3>1, AnswersStay, RevisionsTyped
  <2>. QED  BY <2>1, <2>2
<1>3. RowsAnswered'
  BY <1>2 DEF RowsAnswered
<1>. QED  BY <1>0, <1>1, <1>3 DEF DemandInv

LEMMA DemandAlways ==
    ASSUME Calm
    PROVE  Spec => []DemandInv
<1>1. Init => DemandInv
  <2>1. SUFFICES ASSUME Init PROVE DemandInv
    OBVIOUS
  <2>2. TypeOK /\ \A j \in Job : work[j].state = "none"
    BY <2>1, InitType DEF Init, NoRow, NewRow
  <2>3. /\ \A w \in Worker : worker[w].phase = "idle"
        /\ \A q \in Process : call[q].stage = "idle"
        /\ doomed = {}
    BY <2>1, IdleType, NoCallType DEF Init
  <2>4. \A w \in Worker : w \in Process
    BY DEF Process
  <2>. QED  BY <2>2, <2>3, <2>4
            DEF DemandInv, DoomedReplaced, RowsAnswered, WorkersRemember, CallsRemember,
                NoneAhead, Holding
<1>. QED  BY <1>1, DemandStep, PTL DEF Spec

\* "Demand once accepted is never lost": no interleaving of requests, feeders and
\* workers, however often they supersede each other's rows, outlive their leases,
\* fail, collide or hand a page over, leaves a page that was queued with no result,
\* no live or dead row and nobody about to queue one -- for any number of pages,
\* revisions, workers and clients, in the calm that Calm describes.
THEOREM DemandIsKept ==
    ASSUME Calm
    PROVE  Spec => DemandKept
<1>1. \A j \in Job : RevisionOf(j) >= 0
  BY NumbersTyped DEF Job, RevisionOf
<1>2. ASSUME TypeOK, NEW p \in Page, Covered(p) PROVE AnswersFor(p, 0)
  BY <1>1, <1>2 DEF Covered, AnswersFor, Answered, Kept, TypeOK, JobsKnown
<1>3. ASSUME NEW p \in Page, AnswersFor(p, 0)' PROVE Covered(p)'
  BY <1>3 DEF Covered, AnswersFor, Answered, Kept
<1>4. ASSUME DemandInv, [Next]_vars, NEW p \in Page, Covered(p) PROVE Covered(p)'
  <2>1. TypeOK /\ TypeOK' /\ WikiGoesOn /\ Orderly
    BY <1>4, StepOrderly DEF DemandInv
  <2>2. AnswersFor(p, 0)
    BY <1>2, <1>4, <2>1
  <2>3. AnswersFor(p, 0)'
    BY <1>4, <2>1, <2>2, AnswersStay
  <2>. QED  BY <1>3, <2>3
<1>5. DemandInv /\ [Next]_vars
        => [\A p \in Page : Covered(p) => Covered(p)' \/ Refused(p)]_vars
  BY <1>4
<1>. QED  BY <1>5, DemandAlways, PTL DEF Spec, DemandKept
=============================================================================
