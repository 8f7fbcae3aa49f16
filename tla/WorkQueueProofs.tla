--------------------------- MODULE WorkQueueProofs ---------------------------
(***************************************************************************)
(* Theorems about WorkQueue, for every value of its constants.             *)
(***************************************************************************)
EXTENDS WorkQueue, WellFoundedInduction, TLAPS

LEMMA NumbersTyped ==
    /\ MaxRevision \in Nat \ {0} /\ MaxAttempts \in Nat \ {0}
    /\ Lease \in Nat /\ BackoffCap \in Nat \ {0} /\ BornCap \in Nat
    /\ Freshness \in Nat /\ MaxCrashes \in Nat
    /\ RowIds \subseteq Nat \ {0}
    /\ RowAgeCap \in Nat \ {0} /\ ResultAgeCap \in Nat \ {0}
    /\ AttemptCap \in Nat \ {0}
BY ConstantsAssumption DEF RowAgeCap, ResultAgeCap, AttemptCap, Most

LEMMA BackoffType ==
    ASSUME NEW a \in 0..AttemptCap
    PROVE  Backoff(a) \in 0..BackoffCap
BY NumbersTyped DEF Backoff

LEMMA PriorityTypes ==
    /\ Priority.v1 \in Priorities /\ Priority.v2 \in Priorities
    /\ Priority.prewarm \in Priorities /\ Priority.backfill \in Priorities
BY DEF Priority, Priorities

-----------------------------------------------------------------------------
(* What each transaction writes into a row is a row.                       *)

\* Setting one column to a value of its range keeps the row a row.
LEMMA ColumnTypes ==
    ASSUME NEW row \in Row
    PROVE  /\ \A x \in RowStates : [row EXCEPT !.state = x] \in Row
           /\ \A x \in Priorities : [row EXCEPT !.priority = x] \in Row
           /\ \A x \in 0..AttemptCap : [row EXCEPT !.attempts = x] \in Row
           /\ \A x \in 0..BackoffCap : [row EXCEPT !.wait = x] \in Row
           /\ \A x \in -1..Lease : [row EXCEPT !.lease = x] \in Row
           /\ \A x \in BOOLEAN : [row EXCEPT !.permanent = x] \in Row
           /\ \A x \in 0..RowAgeCap : [row EXCEPT !.age = x] \in Row
           /\ \A x \in 0..BornCap : [row EXCEPT !.born = x] \in Row
BY DEF Row

LEMMA NewRowType ==
    /\ NoRow \in Row
    /\ \A id \in RowIds : \A pri \in Priorities : NewRow(id, "pending", pri) \in Row
BY NumbersTyped DEF NewRow, NoRow, Row, RowStates, Priorities

LEMMA RevivedType ==
    ASSUME NEW row \in Row
    PROVE  Revived(row) \in Row
<1>. DEFINE r1 == [row EXCEPT !.state = "pending"]
            r2 == [r1 EXCEPT !.attempts = 0]
            r3 == [r2 EXCEPT !.priority = 100]
            r4 == [r3 EXCEPT !.wait = 0]
            r5 == [r4 EXCEPT !.age = 0]
<1>. HIDE DEF r1, r2, r3, r4, r5
<1>1. r1 \in Row  BY ColumnTypes DEF RowStates, r1
<1>2. r2 \in Row  BY <1>1, ColumnTypes, NumbersTyped DEF r2
<1>3. r3 \in Row  BY <1>2, ColumnTypes DEF Priorities, r3
<1>4. r4 \in Row  BY <1>3, ColumnTypes, NumbersTyped DEF r4
<1>5. r5 \in Row  BY <1>4, ColumnTypes, NumbersTyped DEF r5
<1>6. Revived(row) = IF row.state = "dead" THEN r5 ELSE row
  BY DEF Revived, r1, r2, r3, r4, r5
<1>. QED  BY <1>5, <1>6

LEMMA LeasedType ==
    ASSUME NEW row \in Row
    PROVE  Leased(row) \in Row
<1>. DEFINE r1 == [row EXCEPT !.state = "leased"]
            r2 == [r1 EXCEPT !.lease = Lease]
            r3 == [r2 EXCEPT !.age = 0]
            r4 == [r3 EXCEPT !.attempts = Least(row.attempts + 1, AttemptCap)]
<1>. HIDE DEF r1, r2, r3, r4
<1>1. r1 \in Row  BY ColumnTypes DEF RowStates, r1
<1>2. r2 \in Row  BY <1>1, ColumnTypes, NumbersTyped DEF r2
<1>3. r3 \in Row  BY <1>2, ColumnTypes, NumbersTyped DEF r3
<1>4. Least(row.attempts + 1, AttemptCap) \in 0..AttemptCap
  BY NumbersTyped DEF Row, Least
<1>5. r4 \in Row  BY <1>3, <1>4, ColumnTypes DEF r4
<1>6. Leased(row) = r4
  BY DEF Leased, r1, r2, r3, r4
<1>. QED  BY <1>5, <1>6

LEMMA SupersededType ==
    ASSUME NEW row \in Row
    PROVE  /\ Superseded(row) \in Row
           /\ [row EXCEPT !.state = "superseded", !.age = 0, !.wait = 0] \in Row
<1>. DEFINE r1 == [row EXCEPT !.state = "superseded"]
            r2 == [r1 EXCEPT !.lease = 0]
            r3 == [r2 EXCEPT !.wait = 0]
            r4 == [r3 EXCEPT !.age = 0]
            s2 == [r1 EXCEPT !.age = 0]
            s3 == [s2 EXCEPT !.wait = 0]
<1>. HIDE DEF r1, r2, r3, r4, s2, s3
<1>1. r1 \in Row  BY ColumnTypes DEF RowStates, r1
<1>2. r2 \in Row  BY <1>1, ColumnTypes, NumbersTyped DEF r2
<1>3. r3 \in Row  BY <1>2, ColumnTypes, NumbersTyped DEF r3
<1>4. r4 \in Row  BY <1>3, ColumnTypes, NumbersTyped DEF r4
<1>5. s2 \in Row  BY <1>1, ColumnTypes, NumbersTyped DEF s2
<1>6. s3 \in Row  BY <1>5, ColumnTypes, NumbersTyped DEF s3
<1>7. Superseded(row) = r4
  BY DEF Superseded, r1, r2, r3, r4, s2, s3
<1>8. [row EXCEPT !.state = "superseded", !.age = 0, !.wait = 0] = s3
  BY DEF r1, r2, r3, r4, s2, s3
<1>. QED  BY <1>4, <1>6, <1>7, <1>8

LEMMA TouchedType ==
    ASSUME NEW row \in Row, NEW pri \in Priorities, NEW raise \in BOOLEAN
    PROVE  Touched(row, pri, raise) \in Row
<1>. DEFINE r1 == [row EXCEPT !.age = 0]
            r2 == [r1 EXCEPT !.priority = IF raise THEN pri ELSE row.priority]
<1>. HIDE DEF r1, r2
<1>1. r1 \in Row  BY ColumnTypes, NumbersTyped DEF r1
<1>2. (IF raise THEN pri ELSE row.priority) \in Priorities  BY DEF Row
<1>3. r2 \in Row  BY <1>1, <1>2, ColumnTypes DEF r2
<1>4. Touched(row, pri, raise) = r2
  BY DEF Touched, r1, r2
<1>. QED  BY <1>3, <1>4

LEMMA FailedType ==
    ASSUME NEW row \in Row, NEW lease \in WorkerState, NEW permanent \in BOOLEAN
    PROVE  Failed(row, lease, permanent) \in Row
<1>. DEFINE dead == permanent \/ lease.attempts >= MaxAttempts
            delay == IF dead THEN 0 ELSE Backoff(lease.attempts)
            r1 == [row EXCEPT !.state = IF dead THEN "dead" ELSE "pending"]
            r2 == [r1 EXCEPT !.wait = delay]
            r3 == [r2 EXCEPT !.lease = 0]
            r4 == [r3 EXCEPT !.permanent = permanent]
            r5 == [r4 EXCEPT !.age = 0]
<1>. HIDE DEF r1, r2, r3, r4, r5
<1>1. r1 \in Row  BY ColumnTypes DEF RowStates, r1
<1>2. Backoff(lease.attempts) \in 0..BackoffCap
  BY BackoffType DEF WorkerState
<1>3. r2 \in Row  BY <1>1, <1>2, ColumnTypes, NumbersTyped DEF r2
<1>4. r3 \in Row  BY <1>3, ColumnTypes, NumbersTyped DEF r3
<1>5. r4 \in Row  BY <1>4, ColumnTypes DEF r4
<1>6. r5 \in Row  BY <1>5, ColumnTypes, NumbersTyped DEF r5
<1>7. Failed(row, lease, permanent) = r5
  BY DEF Failed, r1, r2, r3, r4, r5
<1>. QED  BY <1>6, <1>7

LEMMA AgedType ==
    ASSUME NEW row \in Row
    PROVE  Aged(row) \in Row
<1>. DEFINE left == IF row.state = "leased" THEN Most(-1, row.lease - 1) ELSE row.lease
            old == IF row.state \in Live THEN 0 ELSE Least(RowAgeCap, row.age + 1)
            r1 == [row EXCEPT !.wait = Most(0, row.wait - 1)]
            r2 == [r1 EXCEPT !.lease = left]
            r3 == [r2 EXCEPT !.age = old]
            r4 == [r3 EXCEPT !.born = Least(BornCap, row.born + 1)]
<1>. HIDE DEF r1, r2, r3, r4
<1>0. /\ Most(0, row.wait - 1) \in 0..BackoffCap
      /\ left \in -1..Lease
      /\ old \in 0..RowAgeCap
      /\ Least(BornCap, row.born + 1) \in 0..BornCap
  BY NumbersTyped DEF Row, Most, Least
<1>1. r1 \in Row  BY <1>0, ColumnTypes DEF r1
<1>2. r2 \in Row  BY <1>0, <1>1, ColumnTypes DEF r2
<1>3. r3 \in Row  BY <1>0, <1>2, ColumnTypes DEF r3
<1>4. r4 \in Row  BY <1>0, <1>3, ColumnTypes DEF r4
<1>5. Aged(row) = IF row.state = "none" THEN row ELSE r4
  BY DEF Aged, r1, r2, r3, r4
<1>. QED  BY <1>4, <1>5

LEMMA SupersedingType ==
    ASSUME NEW table \in [Job -> Row], NEW j \in Job
    PROVE  Superseding(table, j) \in [Job -> Row]
BY SupersededType DEF Superseding

-----------------------------------------------------------------------------
(* What a process holds in memory is well typed.                           *)

By == {"none", "v1", "v2", "prewarm", "backfill", "requeue"}

LEMMA StartType ==
    ASSUME NEW stage \in Stages, NEW by \in By, NEW j \in Job \cup {NoJob},
           NEW pri \in Priorities, NEW stale \in BOOLEAN
    PROVE  /\ Start(stage, by, j, pri, stale) \in CallState
           /\ Start(stage, by, j, pri, stale).stage = stage
           /\ Start(stage, by, j, pri, stale).job = j
           /\ Start(stage, by, j, pri, stale).by = by
BY DEF Start, CallState, Plans, By

LEMMA NoCallType == NoCall \in CallState /\ NoCall.stage = "idle"
<1>1. "idle" \in Stages /\ "none" \in By /\ 0 \in Priorities
  BY DEF Stages, By, Priorities
<1>2. NoJob \in Job \cup {NoJob} /\ FALSE \in BOOLEAN
  OBVIOUS
<1>3. NoCall = Start("idle", "none", NoJob, 0, FALSE)
  BY DEF NoCall
<1>4. Start("idle", "none", NoJob, 0, FALSE) \in CallState
  BY <1>1, <1>2, StartType
<1>5. Start("idle", "none", NoJob, 0, FALSE).stage = "idle"
  BY DEF Start
<1>. QED  BY <1>3, <1>4, <1>5

LEMMA StageType ==
    ASSUME NEW c \in CallState, NEW stage \in Stages
    PROVE  /\ [c EXCEPT !.stage = stage] \in CallState
           /\ [c EXCEPT !.stage = stage].job = c.job
           /\ [c EXCEPT !.stage = stage].by = c.by
BY DEF CallState

LEMMA IdleType == Idle \in WorkerState /\ Idle.phase = "idle"
BY NumbersTyped DEF Idle, WorkerState, Phases, Priorities

LEMMA PhaseType ==
    ASSUME NEW lease \in WorkerState, NEW phase \in Phases
    PROVE  /\ [lease EXCEPT !.phase = phase] \in WorkerState
           /\ [lease EXCEPT !.phase = phase].job = lease.job
           /\ [lease EXCEPT !.phase = phase].phase = phase
BY DEF WorkerState

\* enqueue returning leaves the caller and the worker well typed.
LEMMA ReturnType ==
    ASSUME TypeOK, NEW p \in Process, call[p].stage # "idle", Return(p)
    PROVE  /\ call' \in [Process -> CallState]
           /\ worker' \in [Worker -> WorkerState]
           /\ JobsKnown'
<1>. DEFINE c == call[p]
            answer == Start("answer", c.by, c.job, c.priority, c.stale)
            next == IF c.by \in {"v1", "v2"} THEN answer ELSE NoCall
<1>1. c \in CallState /\ c.job \in Job
  BY DEF TypeOK, JobsKnown
<1>2. c.by \in By /\ c.priority \in Priorities /\ c.stale \in BOOLEAN
  BY <1>1 DEF CallState, By
<1>3. answer \in CallState /\ answer.job \in Job
  BY <1>1, <1>2, StartType DEF Stages
<1>4. next \in CallState /\ (next.stage # "idle" => next.job \in Job)
  BY <1>3, NoCallType
<1>5. call' = [call EXCEPT ![p] = next]
  BY DEF Return
<1>6. call' \in [Process -> CallState]
  BY <1>4, <1>5 DEF TypeOK
<1>7. worker' = [w \in Worker |-> IF w = p THEN Idle ELSE worker[w]]
  BY DEF Return
<1>8. worker' \in [Worker -> WorkerState]
  BY <1>7, IdleType DEF TypeOK
<1>9. \A q \in Process : call'[q].stage # "idle" => call'[q].job \in Job
  BY <1>4, <1>5 DEF TypeOK, JobsKnown
<1>10. ASSUME NEW w \in Worker
       PROVE  /\ worker'[w].phase # "idle" => worker'[w].job \in Job
              /\ worker'[w].phase = "hand" => worker'[w].seen \in 1..MaxRevision
  BY <1>7, IdleType DEF TypeOK, JobsKnown
<1>11. ASSUME NEW w \in Worker, call'[w].stage # "idle"
       PROVE  call'[w].by = "requeue" /\ worker'[w].phase = "requeue"
  <2>1. w \in Process  BY DEF Process
  <2>2. CASE w = p
    <3>1. c.by = "requeue"  BY <2>2 DEF TypeOK, JobsKnown
    <3>2. call'[w] = NoCall  BY <1>5, <2>2, <3>1 DEF TypeOK
    <3>. QED  BY <1>11, <3>2, NoCallType
  <2>3. CASE w # p
    BY <1>5, <1>7, <1>11, <2>1, <2>3 DEF TypeOK, JobsKnown
  <2>. QED  BY <2>2, <2>3
<1>12. JobsKnown'
  BY <1>9, <1>10, <1>11 DEF JobsKnown
<1>. QED
  BY <1>6, <1>8, <1>12

\* A call in flight has a job and well-typed fields.
LEMMA CallType ==
    ASSUME TypeOK, NEW p \in Process, call[p].stage # "idle"
    PROVE  /\ call[p] \in CallState /\ call[p].job \in Job
           /\ call[p].by \in By /\ call[p].priority \in Priorities
           /\ call[p].stale \in BOOLEAN /\ call[p].raise \in BOOLEAN
           /\ call[p].row \in RowIds \cup {0} /\ call[p].plan \in Plans
           /\ work[call[p].job] \in Row
<1>1. call[p] \in CallState /\ call[p].job \in Job
  BY DEF TypeOK, JobsKnown
<1>. QED  BY <1>1 DEF TypeOK, CallState, By

\* So does a worker in the middle of something.
LEMMA LeaseType ==
    ASSUME TypeOK, NEW w \in Worker, worker[w].phase # "idle"
    PROVE  /\ worker[w] \in WorkerState /\ worker[w].job \in Job
           /\ worker[w].priority \in Priorities
           /\ worker[w].attempts \in 0..AttemptCap
           /\ work[worker[w].job] \in Row
<1>1. worker[w] \in WorkerState /\ worker[w].job \in Job
  BY DEF TypeOK, JobsKnown
<1>. QED  BY <1>1 DEF TypeOK, WorkerState

\* Assigning one process a well-typed call keeps all calls well typed.
LEMMA CallAssigned ==
    ASSUME TypeOK, NEW p \in Process, NEW c \in CallState,
           c.stage # "idle" => /\ c.job \in Job
                               /\ \/ p \notin Worker
                                  \/ c.by = call[p].by /\ call[p].stage # "idle",
           call' = [call EXCEPT ![p] = c], UNCHANGED worker
    PROVE  call' \in [Process -> CallState] /\ JobsKnown'
<1>1. call' \in [Process -> CallState]
  BY DEF TypeOK
<1>2. \A q \in Process : call'[q].stage # "idle" => call'[q].job \in Job
  BY DEF TypeOK, JobsKnown
<1>3. ASSUME NEW w \in Worker, call'[w].stage # "idle"
      PROVE  call'[w].by = "requeue" /\ worker'[w].phase = "requeue"
  <2>1. w \in Process  BY DEF Process
  <2>. QED  BY <1>3, <2>1 DEF TypeOK, JobsKnown
<1>4. ASSUME NEW w \in Worker
      PROVE  /\ worker'[w].phase # "idle" => worker'[w].job \in Job
             /\ worker'[w].phase = "hand" => worker'[w].seen \in 1..MaxRevision
  BY DEF TypeOK, JobsKnown
<1>5. JobsKnown'
  BY <1>2, <1>3, <1>4 DEF JobsKnown
<1>. QED  BY <1>1, <1>5

\* A worker and its own call both change.
LEMMA BothAssigned ==
    ASSUME TypeOK, NEW w \in Worker, NEW s \in WorkerState, NEW c \in CallState,
           s.phase # "idle" => s.job \in Job,
           s.phase = "hand" => s.seen \in 1..MaxRevision,
           c.stage # "idle" => c.job \in Job /\ c.by = "requeue" /\ s.phase = "requeue",
           worker' = [worker EXCEPT ![w] = s],
           call' = [call EXCEPT ![w] = c]
    PROVE  /\ worker' \in [Worker -> WorkerState]
           /\ call' \in [Process -> CallState]
           /\ JobsKnown'
<1>0. w \in Process /\ \A v \in Worker : v \in Process
  BY DEF Process
<1>1. worker' \in [Worker -> WorkerState]
  BY DEF TypeOK
<1>2. call' \in [Process -> CallState]
  BY <1>0 DEF TypeOK
<1>3. ASSUME NEW v \in Worker
      PROVE  /\ worker'[v].phase # "idle" => worker'[v].job \in Job
             /\ worker'[v].phase = "hand" => worker'[v].seen \in 1..MaxRevision
             /\ call'[v].stage # "idle" =>
                    call'[v].by = "requeue" /\ worker'[v].phase = "requeue"
  BY <1>0 DEF TypeOK, JobsKnown
<1>4. \A q \in Process : call'[q].stage # "idle" => call'[q].job \in Job
  BY <1>0 DEF TypeOK, JobsKnown
<1>5. JobsKnown'
  BY <1>3, <1>4 DEF JobsKnown
<1>. QED  BY <1>1, <1>2, <1>5

\* A worker that is not inside enqueue moves on.
LEMMA WorkerAssigned ==
    ASSUME TypeOK, NEW w \in Worker, NEW s \in WorkerState,
           worker[w].phase # "requeue",
           s.phase # "idle" => s.job \in Job,
           s.phase = "hand" => s.seen \in 1..MaxRevision,
           worker' = [worker EXCEPT ![w] = s], UNCHANGED call
    PROVE  worker' \in [Worker -> WorkerState] /\ JobsKnown'
<1>1. w \in Process  BY DEF Process
<1>2. call[w].stage = "idle"  BY DEF TypeOK, JobsKnown
<1>3. call[w] \in CallState /\ call' = [call EXCEPT ![w] = call[w]]
  BY <1>1 DEF TypeOK
<1>. QED  BY <1>2, <1>3, BothAssigned

-----------------------------------------------------------------------------
(* Type correctness.                                                       *)

LEMMA InitType == Init => TypeOK
<1>. SUFFICES ASSUME Init PROVE TypeOK
  OBVIOUS
<1>1. work \in [Job -> Row]
  BY NewRowType DEF Init
<1>2. results \in [Job -> Nat \cup {NoResult}]
  BY NumbersTyped DEF Init, NoResult
<1>3. current \in [Page -> 1..MaxRevision]
  BY NumbersTyped DEF Init
<1>4. worker \in [Worker -> WorkerState] /\ call \in [Process -> CallState]
  BY IdleType, NoCallType DEF Init
<1>5. JobsKnown
  BY IdleType, NoCallType DEF Init, JobsKnown, Process
<1>6. active \subseteq Wiki /\ doomed \subseteq Job /\ crashes \in 0..MaxCrashes
  BY NumbersTyped DEF Init
<1>. QED  BY <1>1, <1>2, <1>3, <1>4, <1>5, <1>6 DEF TypeOK

\* The requests and the feeders.
LEMMA AskType ==
    ASSUME TypeOK, NEW c \in Client, NEW j \in Job,
           RequestV1(c, j) \/ RequestV2(c, j) \/ Prewarm(c, j) \/ Backfill(c, j)
    PROVE  TypeOK'
<1>0. c \in Process /\ c \notin Worker
  BY ConstantsAssumption DEF Process
<1>. DEFINE Step(x) == /\ call' = [call EXCEPT ![c] = x]
                       /\ UNCHANGED <<work, results, active, current, worker, doomed, crashes>>
<1>1. PICK stage \in Stages, by \in By, pri \in Priorities, stale \in BOOLEAN :
         Step(Start(stage, by, j, pri, stale))
  <2>0. HasResult(PageOf(j)) \in BOOLEAN  BY DEF HasResult
  <2>1. CASE RequestV1(c, j)
    <3>1. Step(Start("inspect", "v1", j, Priority.v1, FALSE))
      BY <2>1 DEF RequestV1
    <3>. QED  BY <3>1, PriorityTypes DEF Stages, By
  <2>2. CASE RequestV2(c, j)
    <3>1. Step(Start("inspect", "v2", j, Priority.v2, HasResult(PageOf(j))))
      BY <2>2 DEF RequestV2
    <3>. QED  BY <2>0, <3>1, PriorityTypes DEF Stages, By
  <2>3. CASE Prewarm(c, j)
    <3>1. Step(Start("gate", "prewarm", j, Priority.prewarm, FALSE))
      BY <2>3 DEF Prewarm
    <3>. QED  BY <3>1, PriorityTypes DEF Stages, By
  <2>4. CASE Backfill(c, j)
    <3>1. Step(Start("gate", "backfill", j, Priority.backfill, FALSE))
      BY <2>4 DEF Backfill
    <3>. QED  BY <3>1, PriorityTypes DEF Stages, By
  <2>. QED  BY <2>1, <2>2, <2>3, <2>4
<1>2. Start(stage, by, j, pri, stale) \in CallState
      /\ Start(stage, by, j, pri, stale).job = j
  BY StartType
<1>3. call' \in [Process -> CallState] /\ JobsKnown'
  BY <1>0, <1>1, <1>2, CallAssigned
<1>. QED  BY <1>1, <1>3 DEF TypeOK

\* The steps of an API call around enqueue.
LEMMA ProceedType ==
    ASSUME TypeOK, NEW c \in Client,
           Inspect(c) \/ Revive(c) \/ Answer(c) \/ Abandon(c)
    PROVE  TypeOK'
<1>0. c \in Process /\ c \notin Worker
  BY ConstantsAssumption DEF Process
<1>1. CASE Inspect(c)
  <2>. DEFINE revive == [[call[c] EXCEPT !.stage = "revive"] EXCEPT !.row = work[call[c].job].id]
              gate == [call[c] EXCEPT !.stage = "gate"]
  <2>1. call[c].stage # "idle"
    BY <1>1 DEF Inspect
  <2>2. gate \in CallState /\ gate.job \in Job
    BY <1>0, <2>1, CallType, StageType DEF Stages
  <2>3. revive \in CallState /\ revive.job \in Job
    <3>1. work[call[c].job].id \in RowIds \cup {0}
      BY <1>0, <2>1, CallType DEF Row
    <3>2. [call[c] EXCEPT !.stage = "revive"] \in CallState
          /\ [call[c] EXCEPT !.stage = "revive"].job \in Job
      BY <1>0, <2>1, CallType, StageType DEF Stages
    <3>. QED  BY <3>1, <3>2 DEF CallState
  <2>4. \/ call' = [call EXCEPT ![c] = revive]
        \/ call' = [call EXCEPT ![c] = NoCall]
        \/ call' = [call EXCEPT ![c] = gate]
    BY <1>0, <1>1 DEF Inspect, TypeOK
  <2>. HIDE DEF revive, gate
  <2>5. UNCHANGED worker
    BY <1>1 DEF Inspect
  <2>6. call' \in [Process -> CallState] /\ JobsKnown'
    BY <1>0, <2>2, <2>3, <2>4, <2>5, NoCallType, CallAssigned
  <2>. QED  BY <1>1, <2>6 DEF TypeOK, Inspect
<1>2. CASE Revive(c)
  <2>. DEFINE next == Start("gate", call[c].by, call[c].job, call[c].priority, call[c].stale)
  <2>1. call[c].stage # "idle"
    BY <1>2 DEF Revive
  <2>2. call' = [call EXCEPT ![c] = next]
    BY <1>0, <1>2 DEF Revive, TypeOK
  <2>3. next \in CallState /\ next.job \in Job
    BY <1>0, <2>1, CallType, StartType DEF Stages
  <2>4. call' \in [Process -> CallState] /\ JobsKnown'
    BY <1>0, <1>2, <2>2, <2>3, CallAssigned DEF Revive
  <2>5. work' \in [Job -> Row]
    BY <1>2, RevivedType DEF TypeOK, Revive, UpdateRow
  <2>. QED  BY <1>2, <2>4, <2>5 DEF TypeOK, Revive
<1>3. CASE Answer(c) \/ Abandon(c)
  <2>1. call' = [call EXCEPT ![c] = NoCall]
        /\ UNCHANGED <<work, results, active, current, worker, doomed, crashes>>
    BY <1>3 DEF Answer, Abandon
  <2>2. call' \in [Process -> CallState] /\ JobsKnown'
    BY <1>0, <2>1, NoCallType, CallAssigned
  <2>. QED  BY <2>1, <2>2 DEF TypeOK
<1>. QED  BY <1>1, <1>2, <1>3

\* The steps of enqueue, whoever called it.
LEMMA EnqueueType ==
    ASSUME TypeOK, NEW p \in Process, Enqueue(p)
    PROVE  TypeOK'
<1>. DEFINE j == call[p].job
<1>0. call[p].stage # "idle"
  BY DEF Enqueue, Gate, Read, Insert, Conflict, Collide, Touch, LostRow, Skip
<1>a. UNCHANGED <<results, active, current, doomed, crashes>>
  BY DEF Enqueue, Gate, Read, Insert, Conflict, Collide, Touch, LostRow, Skip
<1>b. /\ call[p] \in CallState /\ j \in Job /\ work[j] \in Row
      /\ call[p].priority \in Priorities /\ call[p].raise \in BOOLEAN
  BY <1>0, CallType
<1>c. ASSUME work' \in [Job -> Row], Return(p)
      PROVE  TypeOK'
  <2>1. /\ call' \in [Process -> CallState]
        /\ worker' \in [Worker -> WorkerState]
        /\ JobsKnown'
    BY <1>0, <1>c, ReturnType
  <2>. QED  BY <1>a, <1>c, <2>1 DEF TypeOK
<1>d. ASSUME UNCHANGED <<work, worker>>, NEW x \in CallState, x.job \in Job,
             x.by = call[p].by, call' = [call EXCEPT ![p] = x]
      PROVE  TypeOK'
  <2>1. call' \in [Process -> CallState] /\ JobsKnown'
    BY <1>0, <1>d, CallAssigned
  <2>. QED  BY <1>a, <1>d, <2>1 DEF TypeOK
<1>1. CASE Gate(p)
  <2>1. CASE Return(p)
    BY <1>1, <2>1, <1>c DEF Gate, TypeOK
  <2>2. CASE call' = [call EXCEPT ![p] = [call[p] EXCEPT !.stage = "read"]]
             /\ UNCHANGED worker
    <3>1. /\ [call[p] EXCEPT !.stage = "read"] \in CallState
          /\ [call[p] EXCEPT !.stage = "read"].job \in Job
          /\ [call[p] EXCEPT !.stage = "read"].by = call[p].by
      BY <1>b, StageType DEF Stages
    <3>. QED  BY <1>1, <1>d, <2>2, <3>1 DEF Gate
  <2>. QED  BY <1>1, <2>1, <2>2 DEF Gate, TypeOK
<1>2. CASE Read(p)
  <2>1. CASE Return(p)
    BY <1>2, <2>1, <1>c DEF Read, TypeOK
  <2>2. CASE \E plan \in Plans, row \in RowIds \cup {0}, raise \in BOOLEAN :
                Plan(p, plan, row, raise)
    <3>1. PICK plan \in Plans, row \in RowIds \cup {0}, raise \in BOOLEAN :
             Plan(p, plan, row, raise)
      BY <2>2
    <3>. DEFINE next == [stage |-> "commit", by |-> call[p].by, job |-> j,
                         priority |-> call[p].priority, stale |-> call[p].stale,
                         plan |-> plan, row |-> row, raise |-> raise]
    <3>2. next \in CallState /\ next.job \in Job /\ next.by = call[p].by
      BY <1>0, CallType DEF CallState, Stages, By
    <3>3. call' = [call EXCEPT ![p] = next] /\ UNCHANGED <<work, worker>>
      BY <1>2, <3>1 DEF Plan, Read, TypeOK
    <3>. HIDE DEF next
    <3>. QED  BY <1>d, <3>2, <3>3
  <2>3. work[j].id \in RowIds \cup {0} /\ work[j].state \in RowStates
    BY <1>b DEF Row
  <2>4. (work[j].priority < call[p].priority) \in BOOLEAN
    OBVIOUS
  <2>. QED  BY <1>2, <2>1, <2>2, <2>3, <2>4 DEF Read, Plans
<1>3. CASE Insert(p)
  <2>1. PICK id \in FreshIds(j) :
           work' = Superseding([work EXCEPT ![j] = NewRow(id, "pending", call[p].priority)], j)
    BY <1>3 DEF Insert
  <2>2. NewRow(id, "pending", call[p].priority) \in Row
    BY <1>b, NewRowType DEF FreshIds
  <2>3. [work EXCEPT ![j] = NewRow(id, "pending", call[p].priority)] \in [Job -> Row]
    BY <2>2 DEF TypeOK
  <2>4. work' \in [Job -> Row]
    BY <1>b, <2>1, <2>3, SupersedingType
  <2>. QED  BY <1>3, <1>c, <2>4 DEF Insert
<1>4. CASE Conflict(p)
  <2>1. /\ [call[p] EXCEPT !.stage = "collide"] \in CallState
        /\ [call[p] EXCEPT !.stage = "collide"].job \in Job
        /\ [call[p] EXCEPT !.stage = "collide"].by = call[p].by
    BY <1>b, StageType DEF Stages
  <2>2. call' = [call EXCEPT ![p] = [call[p] EXCEPT !.stage = "collide"]]
    BY <1>4 DEF Conflict, TypeOK
  <2>. QED  BY <1>4, <1>d, <2>1, <2>2 DEF Conflict
<1>5. CASE Collide(p)
  <2>1. Touched(work[j], call[p].priority, TRUE) \in Row
    BY <1>b, TouchedType
  <2>2. work' \in [Job -> Row]
    BY <1>5, <1>b, <2>1 DEF Collide, TypeOK
  <2>. QED  BY <1>5, <1>c, <2>2 DEF Collide
<1>6. CASE Touch(p)
  <2>1. Touched(work[j], call[p].priority, call[p].raise) \in Row
    BY <1>b, TouchedType
  <2>2. [work EXCEPT ![j] = Touched(work[j], call[p].priority, call[p].raise)] \in [Job -> Row]
    BY <2>1 DEF TypeOK
  <2>3. work' = Superseding([work EXCEPT ![j] =
                   Touched(work[j], call[p].priority, call[p].raise)], j)
    BY <1>6, <1>b DEF Touch, TypeOK
  <2>4. work' \in [Job -> Row]
    BY <1>b, <2>2, <2>3, SupersedingType
  <2>. QED  BY <1>6, <1>c, <2>4 DEF Touch
<1>7. CASE LostRow(p)
  <2>1. worker' \in [Worker -> WorkerState]
    BY <1>7, PhaseType DEF LostRow, TypeOK, Phases
  <2>2. call' \in [Process -> CallState]
    BY <1>7, NoCallType DEF LostRow, TypeOK
  <2>3. JobsKnown'
    <3>1. \A q \in Process : call'[q].stage # "idle" => call'[q].job \in Job
      BY <1>7, NoCallType DEF LostRow, TypeOK, JobsKnown
    <3>2. ASSUME NEW w \in Worker
          PROVE  /\ worker'[w].phase # "idle" => worker'[w].job \in Job
                 /\ worker'[w].phase = "hand" => worker'[w].seen \in 1..MaxRevision
                 /\ call'[w].stage # "idle" =>
                        call'[w].by = "requeue" /\ worker'[w].phase = "requeue"
      <4>1. w \in Process  BY DEF Process
      <4>2. CASE w = p
        <5>1. worker[w].phase = "requeue" /\ worker[w].job \in Job
          BY <1>0, <4>2 DEF TypeOK, JobsKnown
        <5>2. worker'[w] = [worker[w] EXCEPT !.phase = "fail"] /\ call'[w] = NoCall
          BY <1>7, <4>1, <4>2 DEF LostRow, TypeOK
        <5>3. worker'[w].phase = "fail" /\ worker'[w].job \in Job
          BY <5>1, <5>2, PhaseType DEF TypeOK, Phases
        <5>. QED  BY <5>2, <5>3, NoCallType
      <4>3. CASE w # p
        <5>1. worker'[w] = worker[w] /\ call'[w] = call[w]
          BY <1>7, <4>1, <4>3 DEF LostRow, TypeOK
        <5>. QED  BY <5>1 DEF TypeOK, JobsKnown
      <4>. QED  BY <4>2, <4>3
    <3>. QED  BY <3>1, <3>2 DEF JobsKnown
  <2>. QED  BY <1>7, <2>1, <2>2, <2>3 DEF LostRow, TypeOK
<1>8. CASE Skip(p)
  <2>1. work' \in [Job -> Row]
    BY <1>8, <1>b, SupersedingType DEF Skip, TypeOK
  <2>. QED  BY <1>8, <1>c, <2>1 DEF Skip
<1>. QED  BY <1>1, <1>2, <1>3, <1>4, <1>5, <1>6, <1>7, <1>8 DEF Enqueue

\* What a worker does outside enqueue.
LEMMA WorkType ==
    ASSUME TypeOK, NEW w \in Worker,
           \/ \E j \in Job : Claim(w, j)
           \/ GetPage(w) \/ Drop(w) \/ HandOver(w) \/ Save(w)
           \/ Complete(w) \/ Register(w) \/ Crash(w)
           \/ \E permanent \in BOOLEAN : Fail(w, permanent)
    PROVE  TypeOK'
<1>. DEFINE s == worker[w]
<1>0. w \in Process /\ s \in WorkerState
  BY DEF Process, TypeOK
<1>1. ASSUME NEW j \in Job, Claim(w, j)
      PROVE  TypeOK'
  <2>. DEFINE next == [phase |-> "fetch", id |-> work[j].id, job |-> j,
                       priority |-> work[j].priority,
                       attempts |-> Leased(work[j]).attempts, seen |-> 0]
  <2>1. work[j] \in Row /\ Leased(work[j]) \in Row
    BY LeasedType DEF TypeOK
  <2>2. next \in WorkerState
    BY <2>1, NumbersTyped DEF Row, WorkerState, Phases
  <2>3. worker' = [worker EXCEPT ![w] = next]
    BY <1>1 DEF Claim
  <2>4. next.phase = "fetch" /\ next.job = j
    OBVIOUS
  <2>. HIDE DEF next
  <2>5. worker[w].phase # "requeue" /\ UNCHANGED call
    BY <1>1 DEF Claim
  <2>6. worker' \in [Worker -> WorkerState] /\ JobsKnown'
    BY <2>2, <2>3, <2>4, <2>5, WorkerAssigned
  <2>7. work' \in [Job -> Row]
    BY <1>1, <2>1 DEF Claim, TypeOK
  <2>. QED  BY <1>1, <2>6, <2>7 DEF Claim, TypeOK
<1>2. CASE GetPage(w)
  <2>1. PICK k \in SamePage(s.job) :
          \/ Saw(w, "drop", 0) \/ Saw(w, "hand", RevisionOf(k)) \/ Saw(w, "attribute", 0)
    BY <1>2 DEF GetPage
  <2>2. s.job \in Job /\ s.phase # "requeue"
    BY <1>2 DEF GetPage, TypeOK, JobsKnown
  <2>3. RevisionOf(k) \in 1..MaxRevision
    BY DEF SamePage, RevisionOf, Job
  <2>4. PICK phase \in {"drop", "hand", "attribute"}, seen \in 0..MaxRevision :
          Saw(w, phase, seen) /\ (phase = "hand" => seen \in 1..MaxRevision)
    BY <2>1, <2>3, NumbersTyped
  <2>. DEFINE s1 == [s EXCEPT !.phase = phase]
              s2 == [s1 EXCEPT !.seen = seen]
  <2>5. worker' = [worker EXCEPT ![w] = s2]
    BY <1>0, <2>4 DEF Saw, TypeOK
  <2>6. s1 \in WorkerState /\ s1.phase = phase /\ s1.job = s.job
    <3>1. phase \in Phases  BY DEF Phases
    <3>. QED  BY <1>0, <3>1, PhaseType
  <2>. HIDE DEF s1
  <2>7. /\ s2 \in WorkerState
        /\ s2.job = s.job /\ s2.phase = phase /\ s2.seen = seen
    BY <2>6 DEF WorkerState
  <2>. HIDE DEF s2
  <2>8. worker' \in [Worker -> WorkerState] /\ JobsKnown'
    BY <1>2, <2>2, <2>4, <2>5, <2>7, WorkerAssigned DEF GetPage
  <2>. QED  BY <1>2, <2>8 DEF GetPage, TypeOK
<1>3. CASE Drop(w)
  <2>1. worker' \in [Worker -> WorkerState] /\ JobsKnown'
    BY <1>3, IdleType, WorkerAssigned DEF Drop
  <2>2. work' \in [Job -> Row]
    BY <1>3, SupersededType DEF Drop, UpdateRow, TypeOK
  <2>. QED  BY <1>3, <2>1, <2>2 DEF Drop, TypeOK
<1>4. CASE HandOver(w)
  <2>. DEFINE next == [s EXCEPT !.phase = "requeue"]
              k == <<PageOf(s.job), s.seen>>
              c == Start("gate", "requeue", k, s.priority, FALSE)
  <2>1. s.job \in Job /\ s.seen \in 1..MaxRevision /\ s.priority \in Priorities
    BY <1>0, <1>4 DEF HandOver, TypeOK, JobsKnown, WorkerState
  <2>2. k \in Job
    BY <2>1 DEF Job, PageOf
  <2>3. c \in CallState /\ c.stage = "gate" /\ c.job = k /\ c.by = "requeue"
    <3>. HIDE DEF k
    <3>1. "gate" \in Stages /\ "requeue" \in By /\ FALSE \in BOOLEAN
      BY DEF Stages, By
    <3>2. k \in Job \cup {NoJob}
      BY <2>2
    <3>3. c \in CallState
      BY <2>1, <3>1, <3>2, StartType
    <3>. QED  BY <3>3 DEF Start
  <2>4. next \in WorkerState /\ next.job = s.job /\ next.phase = "requeue"
    BY <1>0, PhaseType DEF Phases
  <2>5. worker' = [worker EXCEPT ![w] = next] /\ call' = [call EXCEPT ![w] = c]
    BY <1>0, <1>4 DEF HandOver, TypeOK
  <2>. HIDE DEF next, c, k
  <2>6. /\ worker' \in [Worker -> WorkerState]
        /\ call' \in [Process -> CallState]
        /\ JobsKnown'
    BY <2>1, <2>2, <2>3, <2>4, <2>5, BothAssigned
  <2>7. work' \in [Job -> Row]
    BY <1>4, SupersededType DEF HandOver, UpdateRow, TypeOK
  <2>. QED  BY <1>4, <2>6, <2>7 DEF HandOver, TypeOK
<1>5. CASE Save(w)
  <2>. DEFINE next == [s EXCEPT !.phase = "complete"]
  <2>1. next \in WorkerState /\ next.job = s.job /\ next.phase = "complete"
    BY <1>0, PhaseType DEF Phases
  <2>2. worker' = [worker EXCEPT ![w] = next] /\ s.job \in Job /\ s.phase # "requeue"
    BY <1>0, <1>5 DEF Save, TypeOK, JobsKnown
  <2>. HIDE DEF next
  <2>3. worker' \in [Worker -> WorkerState] /\ JobsKnown'
    BY <1>5, <2>1, <2>2, WorkerAssigned DEF Save
  <2>4. 0 \in Nat \cup {NoResult}
    BY NumbersTyped DEF NoResult
  <2>5. results' \in [Job -> Nat \cup {NoResult}]
    BY <1>5, <2>4 DEF Save, TypeOK
  <2>. QED  BY <1>5, <2>3, <2>5 DEF Save, TypeOK
<1>6. CASE Complete(w)
  <2>. DEFINE next == [s EXCEPT !.phase = "register"]
  <2>1. next \in WorkerState /\ next.job = s.job /\ next.phase = "register"
    BY <1>0, PhaseType DEF Phases
  <2>2. worker' = [worker EXCEPT ![w] = next] /\ s.job \in Job /\ s.phase # "requeue"
    BY <1>0, <1>6 DEF Complete, TypeOK, JobsKnown
  <2>. HIDE DEF next
  <2>3. worker' \in [Worker -> WorkerState] /\ JobsKnown'
    BY <1>6, <2>1, <2>2, WorkerAssigned DEF Complete
  <2>4. work' \in [Job -> Row]
    BY <1>6, NewRowType DEF Complete, UpdateRow, TypeOK
  <2>. QED  BY <1>6, <2>3, <2>4 DEF Complete, TypeOK
<1>7. CASE Register(w)
  <2>1. worker' \in [Worker -> WorkerState] /\ JobsKnown'
    BY <1>7, IdleType, WorkerAssigned DEF Register
  <2>2. s.job \in Job
    BY <1>7 DEF Register, TypeOK, JobsKnown
  <2>3. WikiOf[PageOf(s.job)] \in Wiki
    BY <2>2, ConstantsAssumption DEF Job, PageOf
  <2>4. active' \subseteq Wiki
    BY <1>7, <2>3 DEF Register, TypeOK
  <2>. QED  BY <1>7, <2>1, <2>4 DEF Register, TypeOK
<1>8. CASE Crash(w)
  <2>1. /\ worker' \in [Worker -> WorkerState]
        /\ call' \in [Process -> CallState]
        /\ JobsKnown'
    BY <1>8, IdleType, NoCallType, BothAssigned DEF Crash
  <2>2. crashes' \in 0..MaxCrashes
    BY <1>8, NumbersTyped DEF Crash, TypeOK
  <2>. QED  BY <1>8, <2>1, <2>2 DEF Crash, TypeOK
<1>9. ASSUME NEW permanent \in BOOLEAN, Fail(w, permanent)
      PROVE  TypeOK'
  <2>1. /\ worker' \in [Worker -> WorkerState]
        /\ call' \in [Process -> CallState]
        /\ JobsKnown'
    BY <1>9, IdleType, NoCallType, BothAssigned DEF Fail
  <2>2. \A row \in Row : Failed(row, s, permanent) \in Row
    BY <1>0, FailedType
  <2>3. work' \in [Job -> Row]
    BY <1>9, <2>2 DEF Fail, UpdateRow, TypeOK
  <2>. QED  BY <1>9, <2>1, <2>3 DEF Fail, TypeOK
<1>. QED  BY <1>1, <1>2, <1>3, <1>4, <1>5, <1>6, <1>7, <1>8, <1>9

\* Cleanup, edits and time.
LEMMA EnvironmentType ==
    ASSUME TypeOK,
           CleanupSelect \/ CleanupDelete \/ (\E p \in Page : Edit(p)) \/ Tick
    PROVE  TypeOK'
<1>1. CASE CleanupSelect
  <2>1. work' \in [Job -> Row]
    BY <1>1, NewRowType DEF CleanupSelect, TypeOK
  <2>2. doomed' \subseteq Job
    BY <1>1 DEF CleanupSelect, Obsolete
  <2>. QED  BY <1>1, <2>1, <2>2 DEF CleanupSelect, TypeOK, JobsKnown
<1>2. CASE CleanupDelete
  <2>1. results' \in [Job -> Nat \cup {NoResult}]
    BY <1>2, NumbersTyped DEF CleanupDelete, TypeOK, NoResult
  <2>. QED  BY <1>2, <2>1 DEF CleanupDelete, TypeOK, JobsKnown
<1>3. CASE \E p \in Page : Edit(p)
  <2>1. current' \in [Page -> 1..MaxRevision]
    BY <1>3, NumbersTyped DEF Edit, TypeOK
  <2>. QED  BY <1>3, <2>1 DEF Edit, TypeOK, JobsKnown
<1>4. CASE Tick
  <2>1. work' \in [Job -> Row]
    BY <1>4, AgedType DEF Tick, TypeOK
  <2>2. results' \in [Job -> Nat \cup {NoResult}]
    BY <1>4, NumbersTyped DEF Tick, TypeOK, NoResult, Older
  <2>. QED  BY <1>4, <2>1, <2>2 DEF Tick, TypeOK, JobsKnown
<1>. QED  BY <1>1, <1>2, <1>3, <1>4

\* Every step of the system keeps the types.
LEMMA NextType == TypeOK /\ [Next]_vars => TypeOK'
<1>. SUFFICES ASSUME TypeOK, [Next]_vars PROVE TypeOK'
  OBVIOUS
<1>1. ASSUME NEW c \in Client, Ask(c) \/ Proceed(c) \/ Abandon(c)
      PROVE  TypeOK'
  BY <1>1, AskType, ProceedType, EnqueueType DEF Ask, Proceed, Process
<1>2. ASSUME NEW w \in Worker,
             \/ \E j \in Job : Claim(w, j)
             \/ Attempt(w)
             \/ \E permanent \in BOOLEAN : Fail(w, permanent)
             \/ Crash(w)
      PROVE  TypeOK'
  BY <1>2, WorkType, EnqueueType DEF Attempt, Process
<1>3. CASE UNCHANGED vars
  BY <1>3 DEF vars, TypeOK, JobsKnown
<1>. QED  BY <1>1, <1>2, <1>3, EnvironmentType DEF Next

\* Every table column, every process and every counter stays in its range,
\* whatever the number of pages, revisions, workers and clients and the settings.
THEOREM TypeCorrect == Spec => []TypeOK
BY InitType, NextType, PTL DEF Spec

-----------------------------------------------------------------------------
(* Only articles are attributed.                                           *)

\* A worker attributes an article revision: the branch was taken on the page
\* that get_page reported, and a job's revision never changes its kind.
ArticleInHand ==
    \A w \in Worker : worker[w].phase = "attribute" => Kind[worker[w].job] = "article"

ArticleInv == TypeOK /\ OnlyArticlesAttributed /\ ArticleInHand

\* The steps that leave results alone and put no worker in phase "attribute".
LEMMA WorkersKept ==
    ASSUME TypeOK, NEW c \in Client,
           Ask(c) \/ Proceed(c) \/ Abandon(c)
    PROVE  UNCHANGED <<results, active, worker, doomed>>
<1>1. c \in Process /\ c \notin Worker
  BY ConstantsAssumption DEF Process
<1>2. ASSUME Return(c) PROVE UNCHANGED worker
  BY <1>1, <1>2 DEF Return, TypeOK
<1>3. ASSUME LostRow(c) PROVE UNCHANGED worker
  BY <1>1, <1>3 DEF LostRow, TypeOK
<1>4. CASE Enqueue(c)
  BY <1>2, <1>3, <1>4 DEF Enqueue, Gate, Read, Plan, Insert, Conflict, Collide, Touch,
                          LostRow, Skip
<1>5. CASE Ask(c) \/ Inspect(c) \/ Revive(c) \/ Answer(c) \/ Abandon(c)
  BY <1>5 DEF Ask, RequestV1, RequestV2, Prewarm, Backfill, Inspect, Revive, Answer, Abandon
<1>. QED  BY <1>4, <1>5 DEF Proceed

\* A worker inside enqueue stays in phase "requeue", or comes to "idle" or "fail".
LEMMA WorkerEnqueues ==
    ASSUME TypeOK, NEW w \in Worker, Enqueue(w)
    PROVE  /\ UNCHANGED <<results, active, doomed>>
           /\ \A v \in Worker : v # w => worker'[v] = worker[v]
           /\ worker'[w].phase \in {"requeue", "idle", "fail"}
<1>1. w \in Process /\ call[w].stage # "idle"
  BY DEF Process, Enqueue, Gate, Read, Insert, Conflict, Collide, Touch, LostRow, Skip
<1>2. worker[w].phase = "requeue"
  BY <1>1 DEF TypeOK, JobsKnown
<1>3. UNCHANGED <<results, active, doomed>>
  BY DEF Enqueue, Gate, Read, Insert, Conflict, Collide, Touch, LostRow, Skip
<1>4. CASE Return(w)
  BY <1>3, <1>4, IdleType DEF Return
<1>5. CASE UNCHANGED worker
  BY <1>2, <1>3, <1>5
<1>6. CASE LostRow(w)
  <2>1. worker'[w] = [worker[w] EXCEPT !.phase = "fail"]
    BY <1>6 DEF LostRow
  <2>2. worker'[w].phase = "fail"
    BY <2>1, PhaseType DEF TypeOK, Phases
  <2>3. \A v \in Worker : v # w => worker'[v] = worker[v]
    BY <1>6 DEF LostRow
  <2>. QED  BY <1>3, <2>2, <2>3
<1>. QED
  BY <1>4, <1>5, <1>6 DEF Enqueue, Gate, Read, Plan, Insert, Conflict, Collide, Touch, Skip

LEMMA ArticleStep == ArticleInv /\ [Next]_vars => ArticleInv'
<1>. SUFFICES ASSUME ArticleInv, [Next]_vars PROVE ArticleInv'
  OBVIOUS
<1>0. TypeOK /\ TypeOK'
  BY NextType DEF ArticleInv
<1>a. ASSUME UNCHANGED results, NEW w \in Worker,
             \A v \in Worker : v # w => worker'[v] = worker[v],
             worker'[w].phase # "attribute"
      PROVE  ArticleInv'
  BY <1>0, <1>a DEF ArticleInv, OnlyArticlesAttributed, ArticleInHand
<1>1. ASSUME NEW c \in Client, Ask(c) \/ Proceed(c) \/ Abandon(c)
      PROVE  ArticleInv'
  BY <1>0, <1>1, WorkersKept DEF ArticleInv, OnlyArticlesAttributed, ArticleInHand
<1>2. ASSUME NEW w \in Worker, NEW j \in Job, Claim(w, j)
      PROVE  ArticleInv'
  <2>1. worker'[w].phase = "fetch"
    BY <1>0, <1>2 DEF Claim, TypeOK
  <2>2. \A v \in Worker : v # w => worker'[v] = worker[v]
    BY <1>0, <1>2 DEF Claim, TypeOK
  <2>. QED  BY <1>a, <1>2, <2>1, <2>2 DEF Claim
<1>3. ASSUME NEW w \in Worker, GetPage(w)
      PROVE  ArticleInv'
  <2>1. PICK k \in SamePage(worker[w].job) :
           \/ Saw(w, "drop", 0)
           \/ Saw(w, "hand", RevisionOf(k))
           \/ Kind[k] = "article" /\ k = worker[w].job /\ Saw(w, "attribute", 0)
    BY <1>3 DEF GetPage, RefusedPage
  <2>2. PICK phase \in Phases, seen \in Int :
           Saw(w, phase, seen) /\ (phase = "attribute" => Kind[worker[w].job] = "article")
    <3>1. {"drop", "hand", "attribute"} \subseteq Phases  BY DEF Phases
    <3>2. RevisionOf(k) \in Int  BY NumbersTyped DEF SamePage, Job, RevisionOf
    <3>. QED  BY <2>1, <3>1, <3>2
  <2>3. /\ worker'[w].phase = phase /\ worker'[w].job = worker[w].job
        /\ \A v \in Worker : v # w => worker'[v] = worker[v]
    BY <1>0, <2>2 DEF Saw, TypeOK, WorkerState
  <2>4. UNCHANGED results
    BY <1>3 DEF GetPage
  <2>. QED  BY <1>0, <2>2, <2>3, <2>4 DEF ArticleInv, OnlyArticlesAttributed, ArticleInHand
<1>4. ASSUME NEW w \in Worker, Save(w)
      PROVE  ArticleInv'
  <2>1. Kind[worker[w].job] = "article"
    BY <1>4 DEF Save, ArticleInv, ArticleInHand
  <2>2. OnlyArticlesAttributed'
    BY <1>0, <1>4, <2>1 DEF Save, ArticleInv, OnlyArticlesAttributed, TypeOK
  <2>3. /\ worker'[w].phase = "complete"
        /\ \A v \in Worker : v # w => worker'[v] = worker[v]
    BY <1>0, <1>4 DEF Save, TypeOK, WorkerState
  <2>. QED  BY <1>0, <2>2, <2>3 DEF ArticleInv, ArticleInHand
<1>5. ASSUME NEW w \in Worker, HandOver(w) \/ Complete(w)
      PROVE  ArticleInv'
  <2>1. /\ worker'[w].phase \in {"requeue", "register"}
        /\ \A v \in Worker : v # w => worker'[v] = worker[v]
    <3>1. PICK phase \in {"requeue", "register"} : worker' = [worker EXCEPT ![w].phase = phase]
      BY <1>5 DEF HandOver, Complete
    <3>2. worker' = [worker EXCEPT ![w] = [worker[w] EXCEPT !.phase = phase]]
      BY <1>0, <3>1 DEF TypeOK
    <3>3. phase \in Phases /\ worker[w] \in WorkerState
      BY <1>0 DEF TypeOK, Phases
    <3>. QED  BY <1>0, <3>2, <3>3, PhaseType DEF TypeOK
  <2>. QED  BY <1>a, <1>5, <2>1 DEF HandOver, Complete
<1>6. ASSUME NEW w \in Worker,
             \/ Drop(w) \/ Register(w) \/ Crash(w)
             \/ \E permanent \in BOOLEAN : Fail(w, permanent)
      PROVE  ArticleInv'
  <2>1. worker' = [worker EXCEPT ![w] = Idle] /\ UNCHANGED results
    BY <1>6 DEF Drop, Register, Crash, Fail
  <2>2. /\ worker'[w].phase = "idle"
        /\ \A v \in Worker : v # w => worker'[v] = worker[v]
    BY <1>0, <2>1, IdleType DEF TypeOK
  <2>. QED  BY <1>a, <2>1, <2>2
<1>7. ASSUME NEW w \in Worker, Enqueue(w)
      PROVE  ArticleInv'
  BY <1>0, <1>7, <1>a, WorkerEnqueues
<1>8. CASE CleanupSelect \/ CleanupDelete \/ (\E p \in Page : Edit(p)) \/ Tick
  <2>1. UNCHANGED worker /\ \A j \in Job : results[j] = NoResult => results'[j] = NoResult
    BY <1>0, <1>8 DEF CleanupSelect, CleanupDelete, Edit, Tick, TypeOK, Older
  <2>. QED  BY <1>0, <2>1 DEF ArticleInv, OnlyArticlesAttributed, ArticleInHand
<1>9. CASE UNCHANGED vars
  BY <1>0, <1>9 DEF vars, ArticleInv, OnlyArticlesAttributed, ArticleInHand
<1>. QED  BY <1>1, <1>2, <1>3, <1>4, <1>5, <1>6, <1>7, <1>8, <1>9 DEF Next, Attempt

\* A redirect, or a page outside the main namespace, that the API or a feeder
\* queued never gets a result: no interleaving of claims, edits, lagging
\* replicas and expired leases gets past the branch in process().
THEOREM ArticlesOnly == Spec => []OnlyArticlesAttributed
<1>1. Init => ArticleInv
  BY InitType, IdleType DEF Init, ArticleInv, OnlyArticlesAttributed, ArticleInHand
<1>2. ArticleInv => OnlyArticlesAttributed
  BY DEF ArticleInv
<1>. QED  BY <1>1, <1>2, ArticleStep, PTL DEF Spec

-----------------------------------------------------------------------------
(* A page never loses its last result.                                     *)

\* A nonempty set of naturals has a least element.
LEMMA LeastElement ==
    ASSUME NEW T, T \subseteq Nat, T # {}
    PROVE  \E x \in T : \A y \in T : x <= y
<1>1. \E R : IsWellFoundedOn(R, Nat) /\ \A x, y \in Nat : y < x => <<y, x>> \in R
  <2>1. \A x, y \in Nat : y < x => <<y, x>> \in OpToRel(<, Nat)
    BY DEF OpToRel
  <2>. QED  BY <2>1, NatLessThanWellFounded
<1>2. PICK R : IsWellFoundedOn(R, Nat) /\ \A x, y \in Nat : y < x => <<y, x>> \in R
  BY <1>1
<1>3. PICK x \in T : \A y \in T : ~ (<<y, x>> \in R)
  BY <1>2, WFMin
<1>4. ASSUME NEW y \in T PROVE x <= y
  <2>1. ~ (<<y, x>> \in R)
    BY <1>3
  <2>2. y < x => <<y, x>> \in R
    BY <1>2
  <2>. QED  BY <2>1, <2>2
<1>. QED  BY <1>4

\* A page with a result has a newest one.
LEMMA NewestExists ==
    ASSUME TypeOK, NEW p, HasResult(p)
    PROVE  \E k \in Computed(p) : \A j \in Computed(p) : results[k] <= results[j]
<1>. DEFINE Ages == {results[j] : j \in Computed(p)}
<1>1. Ages \subseteq Nat /\ Ages # {}
  BY NumbersTyped DEF TypeOK, Computed, HasResult, NoResult
<1>2. PICK a \in Ages : \A b \in Ages : a <= b
  <2>. HIDE DEF Ages
  <2>. QED  BY <1>1, LeastElement
<1>. QED  BY <1>2

\* What cleanup is about to delete never is all a page has: between its SELECT
\* and its DELETE every doomed result has a sibling that is not doomed.
DoomedReplaced ==
    \A j \in doomed : \E k \in Computed(PageOf(j)) : k \notin doomed

\* One step of the system, seen from the results: nothing changes, or a worker
\* stores one, or time passes, or cleanup selects or deletes.
LEMMA ResultSteps ==
    ASSUME TypeOK, [Next]_vars
    PROVE  \/ UNCHANGED <<results, doomed>>
           \/ \E w \in Worker : Save(w)
           \/ CleanupSelect \/ CleanupDelete \/ Tick
<1>1. ASSUME NEW c \in Client, Ask(c) \/ Proceed(c) \/ Abandon(c)
      PROVE  UNCHANGED <<results, doomed>>
  BY <1>1, WorkersKept
<1>2. ASSUME NEW w \in Worker, NEW j \in Job, Claim(w, j)
      PROVE  UNCHANGED <<results, doomed>>
  BY <1>2 DEF Claim
<1>3. ASSUME NEW w \in Worker, Attempt(w), ~Save(w)
      PROVE  UNCHANGED <<results, doomed>>
  BY <1>3, WorkerEnqueues DEF Attempt, GetPage, Drop, HandOver, Complete, Register
<1>4. ASSUME NEW w \in Worker, Crash(w) \/ \E permanent \in BOOLEAN : Fail(w, permanent)
      PROVE  UNCHANGED <<results, doomed>>
  BY <1>4 DEF Crash, Fail
<1>5. CASE (\E p \in Page : Edit(p)) \/ UNCHANGED vars
  BY <1>5 DEF Edit, vars
<1>. QED  BY <1>1, <1>2, <1>3, <1>4, <1>5 DEF Next

\* A step deletes the last result of no page.
LEMMA ResultsKept ==
    ASSUME TypeOK, DoomedReplaced, [Next]_vars, NEW p, HasResult(p)
    PROVE  HasResult(p)'
<1>1. PICK j \in Computed(p) : TRUE
  BY DEF HasResult
<1>2. j \in Job /\ PageOf(j) = p /\ results[j] # NoResult /\ results[j] \in Int
  BY <1>1, NumbersTyped DEF Computed, TypeOK, NoResult
<1>3. CASE UNCHANGED <<results, doomed>>
  BY <1>2, <1>3 DEF HasResult, Computed
<1>4. ASSUME NEW w \in Worker, Save(w)
      PROVE  HasResult(p)'
  <2>1. results'[j] # NoResult
    BY <1>2, <1>4 DEF Save, TypeOK, NoResult
  <2>. QED  BY <1>2, <2>1 DEF HasResult, Computed
<1>5. CASE CleanupSelect
  BY <1>2, <1>5 DEF CleanupSelect, HasResult, Computed
<1>6. CASE CleanupDelete
  <2>1. PICK k \in Computed(p) : k \notin doomed
    BY <1>1, <1>2 DEF DoomedReplaced
  <2>2. k \in Job /\ PageOf(k) = p /\ results'[k] # NoResult
    BY <1>6, <2>1 DEF CleanupDelete, Computed
  <2>. QED  BY <2>2 DEF HasResult, Computed
<1>7. CASE Tick
  <2>1. results'[j] # NoResult
    BY <1>2, <1>7, NumbersTyped DEF Tick, Older, NoResult, TypeOK
  <2>. QED  BY <1>2, <2>1 DEF HasResult, Computed
<1>. QED  BY <1>3, <1>4, <1>5, <1>6, <1>7, ResultSteps

\* What cleanup selects leaves each page the newest of its results.
LEMMA DoomedStep ==
    ASSUME TypeOK, DoomedReplaced, [Next]_vars
    PROVE  DoomedReplaced'
<1>1. CASE UNCHANGED <<results, doomed>>
  BY <1>1 DEF DoomedReplaced, Computed
<1>2. ASSUME NEW w \in Worker, Save(w)
      PROVE  DoomedReplaced'
  <2>1. ASSUME NEW j \in doomed'
        PROVE  \E k \in Computed(PageOf(j))' : k \notin doomed'
    <3>1. PICK k \in Computed(PageOf(j)) : k \notin doomed
      BY <1>2, <2>1 DEF DoomedReplaced, Save
    <3>2. k \in Job /\ PageOf(k) = PageOf(j) /\ results'[k] # NoResult /\ k \notin doomed'
      BY <1>2, <3>1 DEF Computed, Save, TypeOK, NoResult
    <3>. QED  BY <3>2 DEF Computed
  <2>. QED  BY <2>1 DEF DoomedReplaced
<1>3. CASE CleanupSelect
  <2>1. PICK S \in SUBSET Obsolete : doomed' = S
    BY <1>3 DEF CleanupSelect
  <2>2. ASSUME NEW j \in S
        PROVE  \E k \in Computed(PageOf(j))' : k \notin S
    <3>1. HasResult(PageOf(j))
      BY <2>2, <2>1 DEF Obsolete, HasResult
    <3>2. PICK k \in Computed(PageOf(j)) :
             \A i \in Computed(PageOf(j)) : results[k] <= results[i]
      BY <3>1, NewestExists
    <3>3. PageOf(k) = PageOf(j) /\ \A i \in Computed(PageOf(j)) :
             results[i] \in Int /\ results[k] \in Int
      BY NumbersTyped DEF Computed, TypeOK, NoResult
    <3>4. k \notin Obsolete
      BY <3>2, <3>3 DEF Obsolete
    <3>5. UNCHANGED results
      BY <1>3 DEF CleanupSelect
    <3>. QED  BY <2>1, <3>4, <3>5 DEF Computed
  <2>. QED  BY <2>1, <2>2 DEF DoomedReplaced
<1>4. CASE CleanupDelete
  BY <1>4 DEF CleanupDelete, DoomedReplaced
<1>5. CASE Tick
  BY <1>5 DEF Tick, DoomedReplaced
<1>. QED  BY <1>1, <1>2, <1>3, <1>4, <1>5, ResultSteps

LEMMA DoomedAlways == Spec => [](TypeOK /\ DoomedReplaced)
<1>1. Init => DoomedReplaced
  BY DEF Init, DoomedReplaced
<1>2. TypeOK /\ DoomedReplaced /\ [Next]_vars => (TypeOK /\ DoomedReplaced)'
  BY NextType, DoomedStep
<1>. QED  BY <1>1, <1>2, InitType, PTL DEF Spec

\* A page keeps an answer: no interleaving of the cleanup's SELECT and DELETE
\* (repository.py:600-632) with workers storing results, edits and time ever
\* takes away its last result.
THEOREM ResultsStay == Spec => ResultsNeverVanish
<1>1. TypeOK /\ DoomedReplaced /\ [Next]_vars
        => [\A p \in Page : HasResult(p) => HasResult(p)']_vars
  BY ResultsKept
<1>. QED  BY <1>1, DoomedAlways, PTL DEF Spec, ResultsNeverVanish

-----------------------------------------------------------------------------
(* A discovered wiki has a result.                                         *)

\* The page a worker has just stored a result for still has one.
StoredFound ==
    \A w \in Worker : worker[w].phase \in {"complete", "register"} =>
                         HasResult(PageOf(worker[w].job))

ActiveInv == TypeOK /\ DoomedReplaced /\ StoredFound /\ ActiveWikisHaveResults

LEMMA ActiveStep == ActiveInv /\ [Next]_vars => ActiveInv'
<1>. SUFFICES ASSUME ActiveInv, [Next]_vars PROVE ActiveInv'
  OBVIOUS
<1>0. /\ TypeOK /\ DoomedReplaced /\ StoredFound /\ ActiveWikisHaveResults
      /\ TypeOK' /\ DoomedReplaced'
  BY NextType, DoomedStep DEF ActiveInv
<1>1. \A p : HasResult(p) => HasResult(p)'
  BY <1>0, ResultsKept
<1>a. ASSUME UNCHANGED active PROVE ActiveWikisHaveResults'
  BY <1>0, <1>1, <1>a DEF ActiveWikisHaveResults
<1>b. ASSUME UNCHANGED active, NEW w \in Worker,
             \A v \in Worker : v # w => worker'[v] = worker[v],
             worker'[w].phase \notin {"complete", "register"}
      PROVE  ActiveInv'
  <2>1. StoredFound'
    BY <1>0, <1>1, <1>b DEF StoredFound
  <2>. QED  BY <1>0, <1>a, <1>b, <2>1 DEF ActiveInv
<1>c. ASSUME UNCHANGED <<active, worker>> PROVE ActiveInv'
  <2>1. StoredFound'
    BY <1>0, <1>1, <1>c DEF StoredFound
  <2>. QED  BY <1>0, <1>a, <1>c, <2>1 DEF ActiveInv
<1>2. ASSUME NEW c \in Client, Ask(c) \/ Proceed(c) \/ Abandon(c)
      PROVE  ActiveInv'
  BY <1>0, <1>2, <1>c, WorkersKept
<1>3. ASSUME NEW w \in Worker, NEW j \in Job, Claim(w, j)
      PROVE  ActiveInv'
  <2>1. /\ worker'[w].phase = "fetch"
        /\ \A v \in Worker : v # w => worker'[v] = worker[v]
    BY <1>0, <1>3 DEF Claim, TypeOK
  <2>. QED  BY <1>3, <1>b, <2>1 DEF Claim
<1>4. ASSUME NEW w \in Worker, GetPage(w)
      PROVE  ActiveInv'
  <2>0. PICK k \in SamePage(worker[w].job) :
           Saw(w, "drop", 0) \/ Saw(w, "hand", RevisionOf(k)) \/ Saw(w, "attribute", 0)
    BY <1>4 DEF GetPage
  <2>1. PICK phase \in {"drop", "hand", "attribute"}, seen \in Int : Saw(w, phase, seen)
    <3>1. RevisionOf(k) \in Int  BY NumbersTyped DEF SamePage, Job, RevisionOf
    <3>. QED  BY <2>0, <3>1
  <2>2. /\ worker'[w].phase = phase
        /\ \A v \in Worker : v # w => worker'[v] = worker[v]
    BY <1>0, <2>1 DEF Saw, TypeOK, WorkerState
  <2>. QED  BY <1>4, <1>b, <2>2 DEF GetPage
<1>5. ASSUME NEW w \in Worker, HandOver(w)
      PROVE  ActiveInv'
  <2>1. worker' = [worker EXCEPT ![w] = [worker[w] EXCEPT !.phase = "requeue"]]
    BY <1>0, <1>5 DEF HandOver, TypeOK
  <2>2. [worker[w] EXCEPT !.phase = "requeue"].phase = "requeue"
    BY <1>0, PhaseType DEF TypeOK, Phases
  <2>3. /\ worker'[w].phase = "requeue"
        /\ \A v \in Worker : v # w => worker'[v] = worker[v]
    BY <1>0, <2>1, <2>2 DEF TypeOK
  <2>. QED  BY <1>5, <1>b, <2>3 DEF HandOver
<1>6. ASSUME NEW w \in Worker, Save(w)
      PROVE  ActiveInv'
  <2>1. worker' = [worker EXCEPT ![w] = [worker[w] EXCEPT !.phase = "complete"]]
    BY <1>0, <1>6 DEF Save, TypeOK
  <2>2. [worker[w] EXCEPT !.phase = "complete"].job = worker[w].job
    BY <1>0, PhaseType DEF TypeOK, Phases
  <2>3. worker[w].job \in Job /\ results'[worker[w].job] # NoResult
    BY <1>0, <1>6 DEF Save, TypeOK, JobsKnown, NoResult
  <2>4. HasResult(PageOf(worker[w].job))'
    BY <1>0, <2>1, <2>2, <2>3 DEF HasResult, Computed, TypeOK
  <2>5. StoredFound'
    BY <1>0, <1>1, <2>1, <2>2, <2>4 DEF StoredFound, TypeOK
  <2>. QED  BY <1>0, <1>6, <1>a, <2>5 DEF ActiveInv, Save
<1>7. ASSUME NEW w \in Worker, Complete(w)
      PROVE  ActiveInv'
  <2>1. worker' = [worker EXCEPT ![w] = [worker[w] EXCEPT !.phase = "register"]]
    BY <1>0, <1>7 DEF Complete, TypeOK
  <2>2. [worker[w] EXCEPT !.phase = "register"].job = worker[w].job
    BY <1>0, PhaseType DEF TypeOK, Phases
  <2>3. HasResult(PageOf(worker[w].job))
    BY <1>0, <1>7 DEF Complete, StoredFound
  <2>4. StoredFound'
    BY <1>0, <1>1, <2>1, <2>2, <2>3 DEF StoredFound, TypeOK
  <2>. QED  BY <1>0, <1>7, <1>a, <2>4 DEF ActiveInv, Complete
<1>8. ASSUME NEW w \in Worker, Register(w)
      PROVE  ActiveInv'
  <2>1. /\ worker'[w].phase = "idle"
        /\ \A v \in Worker : v # w => worker'[v] = worker[v]
    BY <1>0, <1>8, IdleType DEF Register, TypeOK
  <2>2. worker[w].job \in Job /\ PageOf(worker[w].job) \in Page
        /\ HasResult(PageOf(worker[w].job))
    BY <1>0, <1>8 DEF Register, TypeOK, JobsKnown, StoredFound, Job, PageOf
  <2>3. ActiveWikisHaveResults'
    BY <1>0, <1>1, <1>8, <2>2 DEF ActiveWikisHaveResults, Register
  <2>4. StoredFound'
    BY <1>0, <1>1, <2>1 DEF StoredFound
  <2>. QED  BY <1>0, <2>3, <2>4 DEF ActiveInv
<1>9. ASSUME NEW w \in Worker,
             Drop(w) \/ Crash(w) \/ \E permanent \in BOOLEAN : Fail(w, permanent)
      PROVE  ActiveInv'
  <2>1. worker' = [worker EXCEPT ![w] = Idle] /\ UNCHANGED active
    BY <1>9 DEF Drop, Crash, Fail
  <2>2. /\ worker'[w].phase = "idle"
        /\ \A v \in Worker : v # w => worker'[v] = worker[v]
    BY <1>0, <2>1, IdleType DEF TypeOK
  <2>. QED  BY <1>b, <2>1, <2>2
<1>10. ASSUME NEW w \in Worker, Enqueue(w)
       PROVE  ActiveInv'
  BY <1>0, <1>10, <1>b, WorkerEnqueues
<1>11. CASE CleanupSelect \/ CleanupDelete \/ (\E p \in Page : Edit(p)) \/ Tick
            \/ UNCHANGED vars
  BY <1>11, <1>c DEF CleanupSelect, CleanupDelete, Edit, Tick, vars
<1>. QED  BY <1>2, <1>3, <1>4, <1>5, <1>6, <1>7, <1>8, <1>9, <1>10, <1>11 DEF Next, Attempt

\* "A wiki that has produced at least one real result" (models.py ActiveWiki):
\* every listed wiki has a page with a result, and cleanup leaves it one.
THEOREM ActiveHaveResults == Spec => []ActiveWikisHaveResults
<1>1. Init => ActiveInv
  BY InitType, IdleType DEF Init, ActiveInv, DoomedReplaced, StoredFound,
                            ActiveWikisHaveResults
<1>2. ActiveInv => ActiveWikisHaveResults
  BY DEF ActiveInv
<1>. QED  BY <1>1, <1>2, ActiveStep, PTL DEF Spec

-----------------------------------------------------------------------------
(* Seen from the readers the machine is a cache.                           *)

\* The newest answer that a running cleanup leaves a page saturates where the
\* abstract cache lets it.
KeptCapped ==
    \A p \in Page : HasResult(p) =>
        \E k \in Computed(p) : k \notin doomed /\ results[k] <= ResultAgeCap

CacheInv == TypeOK /\ DoomedReplaced /\ KeptCapped

LEMMA ResultsTyped ==
    ASSUME TypeOK
    PROVE  \A j \in Job : /\ results[j] \in Int /\ PageOf(j) \in Page /\ RevisionOf(j) \in Int
                          /\ results[j] # NoResult => results[j] >= 0
BY NumbersTyped DEF TypeOK, NoResult, Job, PageOf, RevisionOf

\* Results of a page grow old in step: what was newer or as old stays so.
LEMMA AgesKeepOrder ==
    ASSUME TypeOK, Tick, NEW j \in Job, NEW k \in Job, PageOf(j) = PageOf(k),
           results[j] # NoResult, results[k] # NoResult, results[k] <= results[j]
    PROVE  results'[k] <= results'[j]
<1>1. results[j] \in Int /\ results[k] \in Int
  BY ResultsTyped
<1>2. /\ results'[j] = IF Older(j) THEN results[j] + 1 ELSE results[j]
      /\ results'[k] = IF Older(k) THEN results[k] + 1 ELSE results[k]
  BY DEF Tick
<1>3. CASE results[j] = results[k]
  <2>1. Older(j) <=> Older(k)
    BY <1>3 DEF Older
  <2>. QED  BY <1>1, <1>2, <1>3, <2>1
<1>4. CASE results[k] < results[j]
  <2>1. results'[k] \in {results[k], results[k] + 1}
        /\ results'[j] \in {results[j], results[j] + 1}
    BY <1>2
  <2>. QED  BY <1>1, <1>4, <2>1
<1>5. results[j] = results[k] \/ results[k] < results[j]
  BY <1>1
<1>. QED  BY <1>3, <1>4, <1>5

\* No result appears or vanishes when time passes.
LEMMA TickKeepsComputed ==
    ASSUME TypeOK, Tick
    PROVE  \A j \in Job : results'[j] # NoResult <=> results[j] # NoResult
<1>1. \A j \in Job : results'[j] = IF Older(j) THEN results[j] + 1 ELSE results[j]
  BY DEF Tick
<1>2. \A j \in Job : Older(j) => results[j] # NoResult
  BY DEF Older
<1>. QED  BY <1>1, <1>2, ResultsTyped DEF NoResult

\* Time makes the newest results of a page one tick older, up to the cap.
LEMMA NewestAges ==
    ASSUME TypeOK, Tick, NEW p \in Page, NEW k \in Computed(p),
           \A j \in Computed(p) : results[k] <= results[j], results[k] <= ResultAgeCap
    PROVE  results'[k] = IF results[k] = ResultAgeCap THEN results[k] ELSE results[k] + 1
<1>1. /\ k \in Job /\ PageOf(k) = p /\ results[k] # NoResult /\ ResultAgeCap \in Nat
      /\ results'[k] = IF Older(k) THEN results[k] + 1 ELSE results[k]
      /\ \A j \in Computed(p) : results[j] \in Int
      /\ results[k] \in Int
  BY NumbersTyped, ResultsTyped DEF Tick, Computed
<1>2. CASE results[k] = ResultAgeCap
  <2>1. ResultAgeCap - 1 \in (ResultAgeCap - 1)..(results[k] - 1)
    BY <1>1, <1>2
  <2>2. ~ \E j \in Computed(PageOf(k)) : results[j] = ResultAgeCap - 1
    BY <1>1, <1>2
  <2>. QED  BY <1>1, <1>2, <2>1, <2>2 DEF Older
<1>3. CASE results[k] # ResultAgeCap
  <2>1. (ResultAgeCap - 1)..(results[k] - 1) = {}
    BY <1>1, <1>3
  <2>. QED  BY <1>1, <1>3, <2>1 DEF Older
<1>. QED  BY <1>2, <1>3

\* A newest result is not obsolete: cleanup does not select it.
LEMMA NewestNotObsolete ==
    ASSUME TypeOK, NEW p, NEW k \in Computed(p),
           \A j \in Computed(p) : results[k] <= results[j]
    PROVE  k \notin Obsolete
<1>1. PageOf(k) = p /\ results[k] \in Int /\ \A j \in Computed(p) : results[j] \in Int
  BY ResultsTyped DEF Computed
<1>. QED  BY <1>1 DEF Obsolete

LEMMA CacheStep ==
    ASSUME CacheInv, [Next]_vars
    PROVE  CacheInv'
<1>0. /\ TypeOK /\ DoomedReplaced /\ KeptCapped /\ TypeOK' /\ DoomedReplaced'
      /\ ResultAgeCap \in Nat
      /\ \A j \in Job : results[j] \in Int /\ PageOf(j) \in Page
  BY NextType, DoomedStep, ResultsTyped, NumbersTyped DEF CacheInv
<1>. SUFFICES ASSUME NEW p \in Page, HasResult(p)'
              PROVE  \E k \in Computed(p)' : k \notin doomed' /\ results'[k] <= ResultAgeCap
  BY <1>0 DEF CacheInv, KeptCapped
<1>1. CASE UNCHANGED <<results, doomed>>
  <2>1. HasResult(p)
    BY <1>1 DEF HasResult, Computed
  <2>2. PICK k \in Computed(p) : k \notin doomed /\ results[k] <= ResultAgeCap
    BY <1>0, <2>1 DEF KeptCapped
  <2>. QED  BY <1>1, <2>2 DEF Computed
<1>2. ASSUME NEW w \in Worker, Save(w)
      PROVE  \E k \in Computed(p)' : k \notin doomed' /\ results'[k] <= ResultAgeCap
  <2>1. PICK j \in Job : j = worker[w].job
    BY <1>0, <1>2 DEF Save, TypeOK, JobsKnown
  <2>2. /\ results'[j] = 0 /\ UNCHANGED doomed
        /\ \A k \in Job : k # j => results'[k] = results[k]
    BY <1>0, <1>2, <2>1 DEF Save, TypeOK
  <2>3. CASE PageOf(j) = p /\ j \notin doomed
    <3>1. j \in Computed(p)'
      BY <2>2, <2>3 DEF Computed, NoResult
    <3>. QED  BY <1>0, <2>2, <2>3, <3>1
  <2>4. CASE ~ (PageOf(j) = p /\ j \notin doomed)
    <3>1. HasResult(p)
      <4>1. CASE PageOf(j) = p
        BY <1>0, <2>4, <4>1 DEF DoomedReplaced, HasResult
      <4>2. CASE PageOf(j) # p
        BY <2>2, <4>2 DEF HasResult, Computed
      <4>. QED  BY <4>1, <4>2
    <3>2. PICK k \in Computed(p) : k \notin doomed /\ results[k] <= ResultAgeCap
      BY <1>0, <3>1 DEF KeptCapped
    <3>3. k # j /\ k \in Computed(p)' /\ results'[k] = results[k]
      BY <2>2, <2>4, <3>2 DEF Computed
    <3>. QED  BY <2>2, <3>2, <3>3
  <2>. QED  BY <2>3, <2>4
<1>3. CASE CleanupSelect \/ Tick
  <2>1. HasResult(p)
    BY <1>0, <1>3, TickKeepsComputed DEF CleanupSelect, HasResult, Computed
  <2>2. PICK k \in Computed(p) : \A j \in Computed(p) : results[k] <= results[j]
    BY <1>0, <2>1, NewestExists
  <2>3. results[k] <= ResultAgeCap
    <3>1. PICK i \in Computed(p) : results[i] <= ResultAgeCap
      BY <1>0, <2>1 DEF KeptCapped
    <3>2. results[k] <= results[i] /\ results[k] \in Int /\ results[i] \in Int
      BY <1>0, <2>2, <3>1 DEF Computed
    <3>. QED  BY <1>0, <3>1, <3>2
  <2>4. CASE CleanupSelect
    <3>1. k \notin doomed'
      BY <1>0, <2>2, <2>4, NewestNotObsolete DEF CleanupSelect
    <3>. QED  BY <2>2, <2>3, <2>4, <3>1 DEF CleanupSelect, Computed
  <2>5. CASE Tick
    <3>1. results'[k] <= ResultAgeCap
      <4>1. results[k] \in Int
        BY <1>0, <2>2 DEF Computed
      <4>. QED  BY <1>0, <2>2, <2>3, <2>5, <4>1, NewestAges
    <3>2. k \in Computed(p)'
      BY <1>0, <2>2, <2>5, TickKeepsComputed DEF Computed
    <3>3. k \notin doomed'
      BY <2>5 DEF Tick
    <3>. QED  BY <3>1, <3>2, <3>3
  <2>. QED  BY <1>3, <2>4, <2>5
<1>4. CASE CleanupDelete
  <2>1. /\ \A j \in Job : results'[j] = IF j \in doomed THEN NoResult ELSE results[j]
        /\ doomed' = {}
    BY <1>4 DEF CleanupDelete
  <2>2. HasResult(p)
    BY <2>1 DEF HasResult, Computed
  <2>3. PICK k \in Computed(p) : k \notin doomed /\ results[k] <= ResultAgeCap
    BY <1>0, <2>2 DEF KeptCapped
  <2>. QED  BY <2>1, <2>3 DEF Computed
<1>. QED  BY <1>0, <1>1, <1>2, <1>3, <1>4, ResultSteps

\* NewestOf, of any set of jobs and any table of ages.
Newest(C, res) == IF C = {} THEN NoResult
                  ELSE CHOOSE a \in {res[j] : j \in C} : \A j \in C : a <= res[j]

LEMMA NewestIs ==
    ASSUME NEW C, NEW res, \A j \in C : res[j] \in Int,
           NEW k \in C, \A j \in C : res[k] <= res[j]
    PROVE  Newest(C, res) = res[k]
<1>. DEFINE Ages == {res[j] : j \in C}
            Least1(a) == \A j \in C : a <= res[j]
<1>1. Ages \subseteq Int /\ res[k] \in Ages /\ Least1(res[k])
  OBVIOUS
<1>2. ASSUME NEW a \in Ages, Least1(a) PROVE a = res[k]
  <2>1. a <= res[k] /\ res[k] <= a /\ a \in Int /\ res[k] \in Int
    BY <1>1, <1>2
  <2>. QED  BY <2>1
<1>3. (CHOOSE a \in Ages : Least1(a)) = res[k]
  <2>. HIDE DEF Ages, Least1
  <2>. QED  BY <1>1, <1>2
<1>. QED  BY <1>3 DEF Newest

\* Only the ages of its jobs count.
LEMMA NewestSame ==
    ASSUME NEW C, NEW res1, NEW res2,
           \A j \in C : res1[j] \in Nat /\ res2[j] = res1[j]
    PROVE  Newest(C, res1) = Newest(C, res2)
<1>1. CASE C = {}
  BY <1>1 DEF Newest
<1>2. CASE C # {}
  <2>. DEFINE Ages == {res1[j] : j \in C}
  <2>1. Ages \subseteq Nat /\ Ages # {}
    BY <1>2
  <2>2. PICK a \in Ages : \A b \in Ages : a <= b
    <3>. HIDE DEF Ages
    <3>. QED  BY <2>1, LeastElement
  <2>3. PICK k \in C : \A j \in C : res1[k] <= res1[j]
    BY <2>2
  <2>4. Newest(C, res1) = res1[k]
    BY <2>3, NewestIs
  <2>5. Newest(C, res2) = res2[k]
    BY <2>3, NewestIs
  <2>. QED  BY <2>4, <2>5
<1>. QED  BY <1>1, <1>2

LEMMA AgesAre ==
    /\ \A p : /\ NewestAge(p) = Newest(Computed(p), results)
              /\ NewestAge(p)' = Newest(Computed(p)', results')
              /\ KeptAge(p) = Newest(Computed(p) \ doomed, results)
              /\ KeptAge(p)' = Newest(Computed(p)' \ doomed', results')
    /\ TypeOK => \A p : \A j \in Computed(p) : results[j] \in Nat
    /\ TypeOK' => \A p : \A j \in Computed(p)' : results'[j] \in Nat
<1>1. \A p : /\ NewestAge(p) = Newest(Computed(p), results)
             /\ NewestAge(p)' = Newest(Computed(p)', results')
             /\ KeptAge(p) = Newest(Computed(p) \ doomed, results)
             /\ KeptAge(p)' = Newest(Computed(p)' \ doomed', results')
  BY DEF NewestAge, KeptAge, NewestOf, Newest
<1>. QED  BY <1>1, NumbersTyped DEF TypeOK, Computed, NoResult

\* A stored result is an answer; cleanup may hold the row it was stored in.
LEMMA SaveAnswers ==
    ASSUME TypeOK, TypeOK', DoomedReplaced, NEW w \in Worker, Save(w)
    PROVE  \E p \in Page : Cache!Answered(p)
<1>1. PICK j \in Job : j = worker[w].job
  BY DEF Save, TypeOK, JobsKnown
<1>2. /\ results'[j] = 0 /\ UNCHANGED doomed
      /\ \A k \in Job : k # j => results'[k] = results[k]
  BY <1>1 DEF Save, TypeOK
<1>3. PageOf(j) \in Page /\ j \in Computed(PageOf(j))'
  BY <1>2, ResultsTyped DEF Computed, NoResult
<1>4. NewestAge(PageOf(j))' = 0
  <2>1. \A i \in Computed(PageOf(j))' : results'[i] \in Int /\ 0 <= results'[i]
    BY AgesAre
  <2>. QED  BY <1>2, <1>3, <2>1, NewestIs, AgesAre
<1>5. ASSUME NEW p \in Page, p # PageOf(j)
      PROVE  NewestAge(p)' = NewestAge(p) /\ KeptAge(p)' = KeptAge(p)
  <2>1. Computed(p)' = Computed(p) /\ \A i \in Computed(p) : results'[i] = results[i]
    BY <1>2, <1>5 DEF Computed
  <2>2. \A i \in Computed(p) : results[i] \in Nat
    BY AgesAre
  <2>3. Newest(Computed(p), results) = Newest(Computed(p), results')
    BY <2>1, <2>2, NewestSame
  <2>4. Newest(Computed(p) \ doomed, results) = Newest(Computed(p) \ doomed, results')
    BY <2>1, <2>2, NewestSame
  <2>. QED  BY <1>2, <2>1, <2>3, <2>4, AgesAre
<1>6. [p \in Page |-> NewestAge(p)]' = [[p \in Page |-> NewestAge(p)] EXCEPT ![PageOf(j)] = 0]
  BY <1>4, <1>5
<1>7. CASE j \notin doomed
  <2>1. \A i \in Computed(PageOf(j))' : results'[i] \in Int /\ 0 <= results'[i]
    BY AgesAre
  <2>2. KeptAge(PageOf(j))' = 0
    <3>1. j \in Computed(PageOf(j))' \ doomed'
      BY <1>2, <1>3, <1>7
    <3>2. Newest(Computed(PageOf(j))' \ doomed', results') = results'[j]
      BY <1>2, <2>1, <3>1, NewestIs
    <3>. QED  BY <1>2, <3>2, AgesAre
  <2>3. [p \in Page |-> KeptAge(p)]' = [[p \in Page |-> KeptAge(p)] EXCEPT ![PageOf(j)] = 0]
    BY <1>5, <2>2
  <2>. QED  BY <1>2, <1>3, <1>6, <2>3 DEF Cache!Answered
<1>8. CASE j \in doomed
  <2>1. /\ Computed(PageOf(j))' \ doomed' = Computed(PageOf(j)) \ doomed
        /\ \A i \in Computed(PageOf(j)) \ doomed : results'[i] = results[i] /\ results[i] \in Nat
    <3>1. Computed(PageOf(j))' \ doomed' = Computed(PageOf(j)) \ doomed
      BY <1>2, <1>8 DEF Computed
    <3>2. \A i \in Computed(PageOf(j)) \ doomed : results'[i] = results[i]
      BY <1>2, <1>8 DEF Computed
    <3>. QED  BY <3>1, <3>2, AgesAre
  <2>2. KeptAge(PageOf(j))' = KeptAge(PageOf(j))
    <3>1. Newest(Computed(PageOf(j)) \ doomed, results) = Newest(Computed(PageOf(j)) \ doomed, results')
      BY <2>1, NewestSame
    <3>. QED  BY <2>1, <3>1, AgesAre
  <2>3. KeptAge(PageOf(j)) \in Nat
    <3>. DEFINE C == Computed(PageOf(j)) \ doomed
                Ages == {results[i] : i \in C}
    <3>1. Ages \subseteq Nat /\ Ages # {}
      BY <1>8, <2>1 DEF DoomedReplaced
    <3>2. PICK a \in Ages : \A b \in Ages : a <= b
      <4>. HIDE DEF Ages
      <4>. QED  BY <3>1, LeastElement
    <3>3. PICK k \in C : \A i \in C : results[k] <= results[i]
      BY <3>2
    <3>4. Newest(C, results) = results[k]
      BY <2>1, <3>3, NewestIs
    <3>. QED  BY <2>1, <3>3, <3>4, AgesAre
  <2>4. [p \in Page |-> KeptAge(p)]' = [p \in Page |-> KeptAge(p)]
    BY <1>5, <2>2
  <2>5. [p \in Page |-> KeptAge(p)][PageOf(j)] # Cache!Unknown
    BY <1>3, <2>3 DEF Cache!Unknown
  <2>6. doomed # {}
    BY <1>8
  <2>. QED  BY <1>2, <1>3, <1>6, <2>4, <2>5, <2>6 DEF Cache!Answered
<1>. QED  BY <1>7, <1>8

\* Every step of the machine is one of the cache, or none.
LEMMA CacheRefined ==
    ASSUME CacheInv, [Next]_vars
    PROVE  [Cache!CacheNext]_(Cache!cacheVars)
<1>0. /\ TypeOK /\ DoomedReplaced /\ KeptCapped /\ TypeOK' /\ ResultAgeCap \in Nat
  BY NextType, NumbersTyped DEF CacheInv
<1>1. CASE UNCHANGED <<results, doomed>>
  BY <1>1 DEF Cache!cacheVars, NewestAge, KeptAge, NewestOf, Computed
<1>2. ASSUME NEW w \in Worker, Save(w) PROVE Cache!CacheNext
  BY <1>0, <1>2, SaveAnswers DEF Cache!CacheNext
<1>3. CASE CleanupSelect /\ doomed' # {}
  <2>1. PICK S \in SUBSET Obsolete : doomed' = S
    BY <1>3 DEF CleanupSelect
  <2>2. doomed = {} /\ UNCHANGED results /\ \A p : Computed(p)' = Computed(p)
    BY <1>3 DEF CleanupSelect, Computed
  <2>3. ASSUME NEW p \in Page
        PROVE  NewestAge(p)' = NewestAge(p) /\ KeptAge(p)' = KeptAge(p)
    <3>1. NewestAge(p)' = NewestAge(p)
      BY <2>2, AgesAre
    <3>2. CASE ~ HasResult(p)
      BY <2>2, <3>2, AgesAre DEF HasResult
    <3>3. CASE HasResult(p)
      <4>1. PICK k \in Computed(p) : \A j \in Computed(p) : results[k] <= results[j]
        BY <1>0, <3>3, NewestExists
      <4>2. k \notin S /\ \A j \in Computed(p) : results[j] \in Int
        BY <1>0, <2>1, <4>1, NewestNotObsolete, AgesAre
      <4>3. Newest(Computed(p) \ S, results) = results[k]
        BY <4>1, <4>2, NewestIs
      <4>4. Newest(Computed(p) \ {}, results) = results[k]
        BY <4>1, <4>2, NewestIs
      <4>. QED  BY <2>1, <2>2, <3>1, <4>3, <4>4, AgesAre
    <3>. QED  BY <3>1, <3>2, <3>3
  <2>. QED  BY <1>3, <2>2, <2>3 DEF Cache!CacheNext, Cache!RetentionBegins
<1>4. CASE CleanupDelete
  <2>1. /\ \A j \in Job : results'[j] = IF j \in doomed THEN NoResult ELSE results[j]
        /\ doomed # {} /\ doomed' = {}
    BY <1>4 DEF CleanupDelete
  <2>2. ASSUME NEW p \in Page
        PROVE  NewestAge(p)' = KeptAge(p) /\ KeptAge(p)' = KeptAge(p)
    <3>1. /\ Computed(p)' = Computed(p) \ doomed /\ Computed(p)' \ doomed' = Computed(p) \ doomed
          /\ \A j \in Computed(p) \ doomed : results[j] \in Nat /\ results'[j] = results[j]
      BY <1>0, <2>1, AgesAre DEF Computed
    <3>2. Newest(Computed(p) \ doomed, results) = Newest(Computed(p) \ doomed, results')
      BY <3>1, NewestSame
    <3>. QED  BY <3>1, <3>2, AgesAre
  <2>. QED  BY <2>1, <2>2 DEF Cache!CacheNext, Cache!RetentionEnds
<1>5. CASE Tick
  <2>1. \A j \in Job : results'[j] # NoResult <=> results[j] # NoResult
    BY <1>0, <1>5, TickKeepsComputed
  <2>2. /\ doomed = {} /\ doomed' = {}
        /\ \A p : Computed(p)' = Computed(p)
    BY <1>5, <2>1 DEF Tick, Computed
  <2>3. ASSUME NEW p \in Page
        PROVE  /\ NewestAge(p)' = Cache!Older(NewestAge(p))
               /\ KeptAge(p)' = Cache!Older(KeptAge(p))
    <3>1. NewestAge(p) = KeptAge(p) /\ NewestAge(p)' = KeptAge(p)'
      <4>1. Computed(p) \ doomed = Computed(p) /\ Computed(p)' \ doomed' = Computed(p)'
        BY <2>2
      <4>. QED  BY <4>1, AgesAre
    <3>2. CASE ~ HasResult(p)
      BY <2>2, <3>1, <3>2, AgesAre
         DEF HasResult, Newest, NoResult, Cache!Older, Cache!Unknown
    <3>3. CASE HasResult(p)
      <4>1. PICK k \in Computed(p) : \A i \in Computed(p) : results[k] <= results[i]
        BY <1>0, <3>3, NewestExists
      <4>2. /\ k \in Job /\ PageOf(k) = p /\ results[k] # NoResult /\ results[k] \in Nat
            /\ \A i \in Computed(p) : results[i] \in Int /\ results'[i] \in Int
        BY <1>0, <2>2, <4>1, AgesAre DEF Computed
      <4>3. results[k] <= ResultAgeCap
        <5>1. PICK i \in Computed(p) : results[i] <= ResultAgeCap
          BY <1>0, <3>3 DEF KeptCapped
        <5>. QED  BY <1>0, <4>1, <4>2, <5>1
      <4>4. NewestAge(p) = results[k]
        BY <4>1, <4>2, NewestIs, AgesAre
      <4>5. \A i \in Computed(p) : results'[k] <= results'[i]
        BY <1>0, <1>5, <4>1, <4>2, AgesKeepOrder DEF Computed
      <4>6. NewestAge(p)' = results'[k]
        BY <2>2, <4>1, <4>2, <4>5, NewestIs, AgesAre
      <4>7. results'[k] = IF results[k] = ResultAgeCap THEN results[k] ELSE results[k] + 1
        BY <1>0, <1>5, <4>1, <4>3, NewestAges
      <4>. QED  BY <3>1, <4>2, <4>4, <4>6, <4>7 DEF Cache!Older, Cache!Unknown
    <3>. QED  BY <3>2, <3>3
  <2>. QED  BY <2>2, <2>3 DEF Cache!CacheNext, Cache!TimePasses
<1>6. CASE CleanupSelect /\ doomed' = {}
  BY <1>1, <1>6 DEF CleanupSelect
<1>. QED  BY <1>1, <1>2, <1>3, <1>4, <1>5, <1>6, <1>0, ResultSteps

\* Whatever the number of workers, however far MediaWiki's replicas are behind,
\* and whichever leases expire: a page's newest answer is replaced by new ones,
\* is taken back only by a cleanup (repository.py:600-632) that was already
\* running when it was stored, and a page that had an answer keeps one.
THEOREM CacheImplemented == Spec => ImplementsCache
<1>1. Init => CacheInv
  <2>1. Init => \A p : Computed(p) = {}
    BY DEF Init, Computed
  <2>. QED  BY <2>1, InitType DEF Init, CacheInv, DoomedReplaced, KeptCapped, HasResult
<1>2. Init => Cache!CacheInit
  BY DEF Init, Cache!CacheInit, Cache!Unknown, NewestAge, KeptAge, NewestOf, Computed, NoResult
<1>3. CacheInv /\ [Next]_vars => CacheInv'
  BY CacheStep
<1>4. CacheInv /\ [Next]_vars => [Cache!CacheNext]_(Cache!cacheVars)
  BY CacheRefined
<1>. QED  BY <1>1, <1>2, <1>3, <1>4, PTL DEF Spec, ImplementsCache, Cache!CacheSpec
=============================================================================
