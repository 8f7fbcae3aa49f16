------------------------------ MODULE WorkQueue ------------------------------
(***************************************************************************)
(* The durable work queue of WikiPeople and everything that writes to it:  *)
(* the web API and the scheduled feeders (prewarm, backfill) that ask for  *)
(* attributions, the workers that compute them, the weekly cleanup, and    *)
(* the passing of time and the edits made on the wiki that they race with. *)
(*                                                                         *)
(* One action is one database transaction, or one external call together   *)
(* with the local decision taken on its answer.  enqueue() and cleanup()   *)
(* are one transaction each too, and the two that are split between their  *)
(* SELECTs and the write these decide: under REPEATABLE READ the SELECTs   *)
(* read a snapshot that other transactions can outdate before the write.   *)
(*                                                                         *)
(* Time is relative: a row carries how long it still waits, how long its   *)
(* lease still runs and how old it is, each saturating where no comparison *)
(* in the code can tell further values apart.  One Tick is the 30 seconds  *)
(* of the first retry delay.  Requests and transactions are shorter than   *)
(* that, so no tick falls inside one; the external calls of a worker are   *)
(* not, and may outlast its lease.                                         *)
(***************************************************************************)
EXTENDS Integers, FiniteSets

CONSTANTS
    Page,            \* articles: (wiki, page_id) pairs
    Wiki,            \* wikis
    WikiOf,          \* the wiki of each page
    MaxRevision,     \* bound: revisions of a page are 1..MaxRevision
    Kind,            \* what each revision is: see Kinds
    Worker,          \* worker processes
    Client,          \* API request threads and scheduled feeders
    Callers,         \* the kinds of call made, and whether cleanup is scheduled
    PinnedWikis,     \* PREWARM_WIKIS
    RowIds,          \* ids of work_queue rows
    BornCap,         \* bound: creation times further back count as equal
    MaxCrashes,      \* bound: how often a worker process is killed
    LaggedReads,     \* may MediaWiki answer from a replica that is behind?
    TimelyWorkers,   \* does every attempt end before its lease does?
    Lease,           \* worker_lease_seconds
    MaxAttempts,     \* worker_max_attempts
    BackoffCap,      \* the six hours that cap the retry delay
    DeadRetry,       \* dead_retry_seconds
    Freshness,       \* page_freshness_seconds
    QueueDays,       \* retention of dead and superseded rows
    ResultDays,      \* retention of results that are not the newest
    CleanupLimit     \* the LIMIT of the cleanup query

Kinds == {"article", "redirect", "elsewhere"}
Job == Page \X (1..MaxRevision)
PageOf(j) == j[1]
RevisionOf(j) == j[2]

ASSUME ConstantsAssumption ==
    /\ MaxRevision \in Nat \ {0} /\ MaxAttempts \in Nat \ {0}
    /\ {Lease, BackoffCap, DeadRetry, Freshness, QueueDays, ResultDays,
        CleanupLimit, MaxCrashes, BornCap} \subseteq Nat
    /\ BackoffCap >= 1
    /\ WikiOf \in [Page -> Wiki]
    /\ Kind \in [Job -> Kinds]
    /\ RowIds \subseteq Nat \ {0}
    /\ Callers \subseteq {"v1", "v2", "prewarm", "backfill", "cleanup"}
    /\ LaggedReads \in BOOLEAN /\ TimelyWorkers \in BOOLEAN
    /\ Worker \cap Client = {}

Process == Worker \cup Client
Least(a, b) == IF a <= b THEN a ELSE b
Most(a, b) == IF a >= b THEN a ELSE b

\* Ages beyond these caps are indistinguishable to every comparison with a bound.
RowAgeCap == Most(DeadRetry, QueueDays) + 1
ResultAgeCap == Most(Freshness, ResultDays) + 1
\* fail() only asks whether attempts reached MaxAttempts.
AttemptCap == MaxAttempts + 1

\* The priorities the callers pass.  A worker that queues the current revision
\* passes the priority of the lease it abandons.
Priority == [v1 |-> 100, v2 |-> 100, prewarm |-> 50, backfill |-> 10]
Priorities == {0, 10, 50, 100}

VARIABLES
    work,       \* table work_queue, one row at most per job (unique key)
    results,    \* table attribution_results: the age of computed_at, or NoResult
    active,     \* table active_wikis
    current,    \* the revision MediaWiki serves for each page
    worker,     \* what each worker process holds in memory
    call,       \* the enqueue or API call each process is in the middle of
    doomed,     \* result rows the running cleanup selected for deletion
    crashes     \* how many times a worker was killed so far

vars == <<work, results, active, current, worker, call, doomed, crashes>>

-----------------------------------------------------------------------------
(* The tables.                                                             *)

RowStates == {"none", "pending", "leased", "dead", "superseded"}
Live == {"pending", "leased"}

\* wait: ticks to available_at; lease: ticks to lease_until; born and age: ticks
\* since created_at and updated_at.  Each is 0 in the states of a row where no
\* query looks at it: age is read of dead and superseded rows only.
Row == [id : RowIds \cup {0}, state : RowStates, priority : Priorities,
        attempts : 0..AttemptCap, wait : 0..BackoffCap, lease : -1..Lease,
        permanent : BOOLEAN, age : 0..RowAgeCap, born : 0..BornCap]

NewRow(id, state, priority) ==
    [id |-> id, state |-> state, priority |-> priority, attempts |-> 0,
     wait |-> 0, lease |-> 0, permanent |-> FALSE, age |-> 0, born |-> 0]

NoRow == NewRow(0, "none", 0)

NoResult == -1

SamePage(j) == {k \in Job : PageOf(k) = PageOf(j)}
Computed(p) == {j \in Job : PageOf(j) = p /\ results[j] # NoResult}
HasResult(p) == Computed(p) # {}

\* get_latest_result: the age of the newest result of page p is at most a.
NewestWithin(p, a) == \E j \in Computed(p) : results[j] <= a

\* update(WorkItem).where(id == ...): touches no row when the row is gone.
UpdateRow(j, id, Change(_)) ==
    [work EXCEPT ![j] = IF @.state # "none" /\ @.id = id THEN Change(@) ELSE @]

\* Mutant of Superseding: the filter on older revisions is missing.
SupersedingOthers(w, j) ==
    [k \in Job |->
        IF k \in SamePage(j) \ {j} /\ w[k].state = "pending"
        THEN [w[k] EXCEPT !.state = "superseded", !.age = 0, !.wait = 0]
        ELSE w[k]]

\* The last statement of enqueue: older pending rows of the page give way.
Superseding(w, j) ==
    [k \in Job |->
        IF k \in SamePage(j) /\ RevisionOf(k) < RevisionOf(j) /\ w[k].state = "pending"
        THEN [w[k] EXCEPT !.state = "superseded", !.age = 0, !.wait = 0]
        ELSE w[k]]

-----------------------------------------------------------------------------
(* What a process holds in memory.                                         *)

NoJob == <<"none", 0>>

Phases == {"idle", "fetch", "drop", "hand", "requeue", "attribute",
           "complete", "register", "fail"}
\* Phases in which the worker believes the row is its own.
Holding == {"fetch", "drop", "hand", "attribute", "complete"}

WorkerState == [phase : Phases, id : RowIds \cup {0}, job : Job \cup {NoJob},
                priority : Priorities, attempts : 0..AttemptCap,
                seen : 0..MaxRevision]

Idle == [phase |-> "idle", id |-> 0, job |-> NoJob, priority |-> 0,
         attempts |-> 0, seen |-> 0]

Stages == {"idle", "inspect", "revive", "gate", "read", "commit", "collide", "answer"}
Plans == {"none", "insert", "touch", "skip"}

CallState == [stage : Stages, by : {"none", "v1", "v2", "prewarm", "backfill", "requeue"},
              job : Job \cup {NoJob}, priority : Priorities, stale : BOOLEAN,
              plan : Plans, row : RowIds \cup {0}, raise : BOOLEAN]

Start(stage, by, j, priority, stale) ==
    [stage |-> stage, by |-> by, job |-> j, priority |-> priority,
     stale |-> stale, plan |-> "none", row |-> 0, raise |-> FALSE]

NoCall == Start("idle", "none", NoJob, 0, FALSE)

\* AUTO_INCREMENT tells the successive rows of a job apart, and whoever holds an
\* id also knows its job: an id is unique within its job, and one that nobody
\* remembers any more may be used again.
HeldIds(j) == {worker[w].id : w \in {v \in Worker : worker[v].job = j}}
                \cup {call[p].row : p \in {q \in Process : call[q].job = j}}
FreshIds(j) == {i \in RowIds \ HeldIds(j) : \A k \in RowIds \ HeldIds(j) : i <= k}

Init ==
    /\ work = [j \in Job |-> NoRow]
    /\ results = [j \in Job |-> NoResult]
    /\ active = {}
    /\ current = [p \in Page |-> 1]
    /\ worker = [w \in Worker |-> Idle]
    /\ call = [p \in Process |-> NoCall]
    /\ doomed = {}
    /\ crashes = 0

-----------------------------------------------------------------------------
(* The callers.  A request answered from a fresh result changes nothing    *)
(* and is not an action.                                                   *)

\* The revisions a client can name: the gadget of a reader sends the one its
\* page view was built from, the feeders the one MediaWiki reported.
Nameable(j) == RevisionOf(j) <= current[PageOf(j)]

RequestV1(c, j) ==
    /\ "v1" \in Callers /\ call[c] = NoCall /\ Nameable(j)
    /\ results[j] = NoResult
    /\ call' = [call EXCEPT ![c] = Start("inspect", "v1", j, Priority.v1, FALSE)]
    /\ UNCHANGED <<work, results, active, current, worker, doomed, crashes>>

\* is_fresh is computed_at + freshness > now, strictly.
RequestV2(c, j) ==
    /\ "v2" \in Callers /\ call[c] = NoCall /\ Nameable(j)
    /\ ~NewestWithin(PageOf(j), Freshness - 1)
    /\ call' = [call EXCEPT ![c] =
                  Start("inspect", "v2", j, Priority.v2, HasResult(PageOf(j)))]
    /\ UNCHANGED <<work, results, active, current, worker, doomed, crashes>>

\* Popular titles of the discovered and the pinned wikis; titles are resolved
\* through redirects and other namespaces are skipped.
Prewarm(c, j) ==
    /\ "prewarm" \in Callers /\ call[c] = NoCall
    /\ RevisionOf(j) = current[PageOf(j)] \/ (LaggedReads /\ Nameable(j))
    /\ Kind[j] = "article"
    /\ WikiOf[PageOf(j)] \in active \cup PinnedWikis
    /\ call' = [call EXCEPT ![c] = Start("gate", "prewarm", j, Priority.prewarm, FALSE)]
    /\ UNCHANGED <<work, results, active, current, worker, doomed, crashes>>

\* The next page of the walk, read from the wiki's database replica.
Backfill(c, j) ==
    /\ "backfill" \in Callers /\ call[c] = NoCall
    /\ Nameable(j) /\ Kind[j] = "article"
    /\ call' = [call EXCEPT ![c] = Start("gate", "backfill", j, Priority.backfill, FALSE)]
    /\ UNCHANGED <<work, results, active, current, worker, doomed, crashes>>

\* Mutant of Due: is_permanent is not looked at.
DueAnyway(row) == row.age >= DeadRetry

\* A dead row may be tried again.
Due(row) == ~row.permanent /\ row.age >= DeadRetry

\* get_work, and the decision on a dead row: retry it when it is due, else
\* answer 503 -- unless a stale result can still be served.
Inspect(c) ==
    LET row == work[call[c].job]
    IN  /\ call[c].stage = "inspect"
        /\ \/ /\ row.state = "dead" /\ Due(row)
              /\ call' = [call EXCEPT ![c].stage = "revive", ![c].row = row.id]
           \/ /\ row.state = "dead" /\ ~Due(row) /\ ~call[c].stale
              /\ call' = [call EXCEPT ![c] = NoCall]
           \/ /\ row.state = "dead" => ~Due(row) /\ call[c].stale
              /\ call' = [call EXCEPT ![c].stage = "gate"]
        /\ UNCHANGED <<work, results, active, current, worker, doomed, crashes>>

Revived(row) ==
    IF row.state = "dead"
    THEN [row EXCEPT !.state = "pending", !.attempts = 0, !.priority = 100,
                     !.wait = 0, !.age = 0]
    ELSE row

Revive(c) ==
    /\ call[c].stage = "revive"
    /\ work' = UpdateRow(call[c].job, call[c].row, Revived)
    /\ call' = [call EXCEPT ![c] = Start("gate", @.by, @.job, @.priority, @.stale)]
    /\ UNCHANGED <<results, active, current, worker, doomed, crashes>>

-----------------------------------------------------------------------------
(* enqueue and enqueue_if_stale, called by clients and by workers.         *)

\* enqueue returns: an API request goes on to answer, a feeder moves to its
\* next page, a worker is done with its job.
Return(p) ==
    /\ call' = [call EXCEPT ![p] =
                  IF @.by \in {"v1", "v2"}
                  THEN Start("answer", @.by, @.job, @.priority, @.stale)
                  ELSE NoCall]
    /\ worker' = [w \in Worker |-> IF w = p THEN Idle ELSE worker[w]]

\* The early returns: the exact result exists (v1, worker), or the newest one
\* of the page is fresh enough (computed_at >= cutoff; v2 and the feeders).
Gate(p) ==
    LET j == call[p].job
        satisfied == IF call[p].by \in {"v1", "requeue"}
                     THEN results[j] # NoResult
                     ELSE NewestWithin(PageOf(j), Freshness)
    IN  /\ call[p].stage = "gate"
        /\ \/ satisfied /\ Return(p)
           \/ /\ ~satisfied
              /\ call' = [call EXCEPT ![p].stage = "read"]
              /\ UNCHANGED worker
        /\ UNCHANGED <<work, results, active, current, doomed, crashes>>

NewerLive(j) == \E k \in SamePage(j) : /\ RevisionOf(k) > RevisionOf(j)
                                       /\ work[k].state \in Live

\* What the SELECTs of enqueue leave to do: insert the row, touch the row with
\* this id (raising its priority or not), or leave the row alone.
Plan(p, plan, row, raise) ==
    /\ call' = [call EXCEPT ![p] =
          [stage |-> "commit", by |-> @.by, job |-> @.job, priority |-> @.priority,
           stale |-> @.stale, plan |-> plan, row |-> row, raise |-> raise]]
    /\ UNCHANGED worker

\* The SELECTs of the transaction, and the write they decide.
Read(p) ==
    LET row == work[call[p].job]
    IN  /\ call[p].stage = "read"
        /\ \/ row.state = "none" /\ NewerLive(call[p].job) /\ Return(p)
           \/ row.state = "none" /\ ~NewerLive(call[p].job) /\ Plan(p, "insert", 0, FALSE)
           \/ /\ row.state \in Live
              /\ Plan(p, "touch", row.id, row.priority < call[p].priority)
           \/ row.state \in {"dead", "superseded"} /\ Plan(p, "skip", 0, FALSE)
        /\ UNCHANGED <<work, results, active, current, doomed, crashes>>

Touched(row, priority, raise) ==
    [row EXCEPT !.age = 0, !.priority = IF raise THEN priority ELSE @]

Insert(p) ==
    LET j == call[p].job
    IN  /\ call[p].stage = "commit" /\ call[p].plan = "insert"
        /\ work[j].state = "none"
        /\ \E id \in FreshIds(j) :
              work' = Superseding([work EXCEPT ![j] = NewRow(id, "pending", call[p].priority)], j)
        /\ Return(p)
        /\ UNCHANGED <<results, active, current, doomed, crashes>>

\* The INSERT hits the unique key: IntegrityError, and the session rolls back.
Conflict(p) ==
    /\ call[p].stage = "commit" /\ call[p].plan = "insert"
    /\ work[call[p].job].state # "none"
    /\ call' = [call EXCEPT ![p].stage = "collide"]
    /\ UNCHANGED <<work, results, active, current, worker, doomed, crashes>>

\* The second transaction of that path assigns the priority.
Collide(p) ==
    LET j == call[p].job
    IN  /\ call[p].stage = "collide"
        /\ work' = IF work[j].state = "none" THEN work
                   ELSE [work EXCEPT ![j] = Touched(@, call[p].priority, TRUE)]
        /\ Return(p)
        /\ UNCHANGED <<results, active, current, doomed, crashes>>

\* UPDATE by primary key of the row the snapshot showed.  The ORM writes the
\* priority only when max() changed the value it had read.
Touch(p) ==
    LET j == call[p].job
    IN  /\ call[p].stage = "commit" /\ call[p].plan = "touch"
        /\ work[j].id = call[p].row
        /\ work' = Superseding(
                      [work EXCEPT ![j] = Touched(@, call[p].priority, call[p].raise)], j)
        /\ Return(p)
        /\ UNCHANGED <<results, active, current, doomed, crashes>>

\* The row is gone: StaleDataError, which enqueue does not catch.  A request
\* ends in a 500, a feeder's run stops, a worker goes on to fail its job.
LostRow(p) ==
    /\ call[p].stage = "commit" /\ call[p].plan = "touch"
    /\ work[call[p].job].id # call[p].row
    /\ call' = [call EXCEPT ![p] = NoCall]
    /\ worker' = [w \in Worker |->
                    IF w = p THEN [worker[w] EXCEPT !.phase = "fail"] ELSE worker[w]]
    /\ UNCHANGED <<work, results, active, current, doomed, crashes>>

\* A dead or superseded row is left as it is.
Skip(p) ==
    /\ call[p].stage = "commit" /\ call[p].plan = "skip"
    /\ work' = Superseding(work, call[p].job)
    /\ Return(p)
    /\ UNCHANGED <<results, active, current, doomed, crashes>>

\* 202, or 200 with a stale result.
Answer(c) ==
    /\ call[c].stage = "answer"
    /\ call' = [call EXCEPT ![c] = NoCall]
    /\ UNCHANGED <<work, results, active, current, worker, doomed, crashes>>

\* A database error or a restart ends a client's call between two transactions.
Abandon(c) ==
    /\ call[c].stage \notin {"idle", "answer"}
    /\ call' = [call EXCEPT ![c] = NoCall]
    /\ UNCHANGED <<work, results, active, current, worker, doomed, crashes>>

Enqueue(p) == Gate(p) \/ Read(p) \/ Insert(p) \/ Conflict(p) \/ Collide(p)
              \/ Touch(p) \/ LostRow(p) \/ Skip(p)

-----------------------------------------------------------------------------
(* The workers.                                                            *)

\* Mutants of Claimable: lease_until <= now; and expired leases left out.
ClaimableEarly(row) == \/ row.state = "pending" /\ row.wait = 0
                       \/ row.state = "leased" /\ row.lease <= 0
ClaimablePending(row) == row.state = "pending" /\ row.wait = 0

Claimable(row) == \/ row.state = "pending" /\ row.wait = 0
                  \/ row.state = "leased" /\ row.lease < 0

\* ORDER BY priority DESC, created_at ASC LIMIT 1.
First(j) ==
    /\ Claimable(work[j])
    /\ \A k \in Job : Claimable(work[k]) =>
          \/ work[k].priority < work[j].priority
          \/ work[k].priority = work[j].priority /\ work[k].born <= work[j].born

Leased(row) == [row EXCEPT !.state = "leased", !.lease = Lease, !.age = 0,
                           !.attempts = Least(@ + 1, AttemptCap)]

Claim(w, j) ==
    /\ worker[w].phase = "idle"
    /\ First(j)
    /\ work' = [work EXCEPT ![j] = Leased(@)]
    /\ worker' = [worker EXCEPT ![w] =
                    [phase |-> "fetch", id |-> work[j].id, job |-> j,
                     priority |-> work[j].priority,
                     attempts |-> Leased(work[j]).attempts, seen |-> 0]]
    /\ UNCHANGED <<results, active, current, call, doomed, crashes>>

\* Mutant of RefusedPage: the is_redirect branch is missing.
RefusedNamespace(k) == Kind[k] = "elsewhere"

\* namespace != 0, or is_redirect.
RefusedPage(k) == Kind[k] # "article"

Saw(w, phase, revision) ==
    worker' = [worker EXCEPT ![w].phase = phase, ![w].seen = revision]

\* get_page, and the branch taken on what it says.
GetPage(w) ==
    /\ worker[w].phase = "fetch"
    /\ \E k \in SamePage(worker[w].job) :
          /\ RevisionOf(k) = current[PageOf(k)] \/ (LaggedReads /\ Nameable(k))
          /\ \/ RefusedPage(k) /\ Saw(w, "drop", 0)
             \/ /\ ~RefusedPage(k) /\ k # worker[w].job
                /\ Saw(w, "hand", RevisionOf(k))
             \/ ~RefusedPage(k) /\ k = worker[w].job /\ Saw(w, "attribute", 0)
    /\ UNCHANGED <<work, results, active, current, call, doomed, crashes>>

Superseded(row) == [row EXCEPT !.state = "superseded", !.lease = 0, !.wait = 0, !.age = 0]

\* Not an article any more, or a redirect: supersede and stop.
Drop(w) ==
    /\ worker[w].phase = "drop"
    /\ work' = UpdateRow(worker[w].job, worker[w].id, Superseded)
    /\ worker' = [worker EXCEPT ![w] = Idle]
    /\ UNCHANGED <<results, active, current, call, doomed, crashes>>

\* Another revision is current: supersede, then (in transactions of its own)
\* queue that revision with the lease's priority.
HandOver(w) ==
    /\ worker[w].phase = "hand"
    /\ work' = UpdateRow(worker[w].job, worker[w].id, Superseded)
    /\ worker' = [worker EXCEPT ![w].phase = "requeue"]
    /\ call' = [call EXCEPT ![w] =
                  Start("gate", "requeue", <<PageOf(worker[w].job), worker[w].seen>>,
                        worker[w].priority, FALSE)]
    /\ UNCHANGED <<results, active, current, doomed, crashes>>

\* The attribution succeeded; computed_at is taken right before the upsert.
Save(w) ==
    /\ worker[w].phase = "attribute"
    /\ results' = [results EXCEPT ![worker[w].job] = 0]
    /\ worker' = [worker EXCEPT ![w].phase = "complete"]
    /\ UNCHANGED <<work, active, current, call, doomed, crashes>>

Complete(w) ==
    /\ worker[w].phase = "complete"
    /\ work' = UpdateRow(worker[w].job, worker[w].id, LAMBDA row : NoRow)
    /\ worker' = [worker EXCEPT ![w].phase = "register"]
    /\ UNCHANGED <<results, active, current, call, doomed, crashes>>

Register(w) ==
    /\ worker[w].phase = "register"
    /\ active' = active \cup {WikiOf[PageOf(worker[w].job)]}
    /\ worker' = [worker EXCEPT ![w] = Idle]
    /\ UNCHANGED <<work, results, current, call, doomed, crashes>>

\* Mutant of Backoff: min() with six hours is missing.
BackoffUncapped(attempts) == 2 ^ Most(0, attempts - 1)

\* 30 * 2^(attempts - 1) seconds, in ticks of 30 seconds, capped.
Backoff(attempts) ==
    LET delay == 2 ^ Most(0, attempts - 1)
    IN  IF delay \in 0..BackoffCap THEN delay ELSE BackoffCap

\* Mutant of Failed: max_attempts is not looked at.
FailedForever(row, lease, permanent) ==
    [row EXCEPT !.state = IF permanent THEN "dead" ELSE "pending",
                !.wait = IF permanent THEN 0 ELSE Backoff(lease.attempts),
                !.lease = 0, !.permanent = permanent, !.age = 0]

\* What fail() writes.  available_at of a dead row is never read before revive
\* overwrites it, so it is left at 0.
Failed(row, lease, permanent) ==
    LET dead == permanent \/ lease.attempts >= MaxAttempts
    IN  [row EXCEPT !.state = IF dead THEN "dead" ELSE "pending",
                    !.wait = IF dead THEN 0 ELSE Backoff(lease.attempts),
                    !.lease = 0, !.permanent = permanent, !.age = 0]

\* run_once catches whatever process() raised.  Only get_page raises a
\* permanent error that reaches it: the page no longer exists.
Fail(w, permanent) ==
    /\ worker[w].phase # "idle"
    /\ permanent => worker[w].phase = "fetch"
    /\ work' = UpdateRow(worker[w].job, worker[w].id,
                         LAMBDA row : Failed(row, worker[w], permanent))
    /\ worker' = [worker EXCEPT ![w] = Idle]
    /\ call' = [call EXCEPT ![w] = NoCall]
    /\ UNCHANGED <<results, active, current, doomed, crashes>>

\* The process is killed, or fail() itself raised; another one takes its place.
Crash(w) ==
    /\ worker[w].phase # "idle" /\ crashes < MaxCrashes
    /\ worker' = [worker EXCEPT ![w] = Idle]
    /\ call' = [call EXCEPT ![w] = NoCall]
    /\ crashes' = crashes + 1
    /\ UNCHANGED <<work, results, active, current, doomed>>

-----------------------------------------------------------------------------
(* Cleanup, edits and time.                                                *)

\* Mutants of Obsolete: the join with a newer result is missing; compares the
\* wrong way round.
ObsoleteByAge == {j \in Job : results[j] > ResultDays}
ObsoleteReversed == {j \in Job : /\ results[j] > ResultDays
                                 /\ \E k \in Computed(PageOf(j)) : results[k] > results[j]}

\* Results past retention that some strictly newer result of the page replaces.
Obsolete == {j \in Job : /\ results[j] > ResultDays
                         /\ \E k \in Computed(PageOf(j)) : results[k] < results[j]}

\* The DELETE on work_queue, and the SELECT of at most CleanupLimit results.  The
\* rows of work_queue are gone for the others here, in the code when the
\* transaction commits; in between nobody can change them there either.
CleanupSelect ==
    /\ "cleanup" \in Callers /\ doomed = {}
    /\ work' = [j \in Job |->
                  IF work[j].state \in {"dead", "superseded"} /\ work[j].age > QueueDays
                  THEN NoRow ELSE work[j]]
    /\ \E S \in SUBSET Obsolete :
          /\ Cardinality(S) = Least(CleanupLimit, Cardinality(Obsolete))
          /\ doomed' = S
    /\ UNCHANGED <<results, active, current, worker, call, crashes>>

\* Mutant of CleanupDelete: by page where the code says by id.
CleanupDeletePages ==
    /\ doomed # {}
    /\ results' = [j \in Job |-> IF SamePage(j) \cap doomed # {} THEN NoResult ELSE results[j]]
    /\ doomed' = {}
    /\ UNCHANGED <<work, active, current, worker, call, crashes>>

\* The DELETE of the selected results, by id, and the commit.
CleanupDelete ==
    /\ doomed # {}
    /\ results' = [j \in Job |-> IF j \in doomed THEN NoResult ELSE results[j]]
    /\ doomed' = {}
    /\ UNCHANGED <<work, active, current, worker, call, crashes>>

Edit(p) ==
    /\ current[p] < MaxRevision
    /\ current' = [current EXCEPT ![p] = @ + 1]
    /\ UNCHANGED <<work, results, active, worker, call, doomed, crashes>>

Aged(row) ==
    IF row.state = "none" THEN row
    ELSE [row EXCEPT !.wait = Most(0, @ - 1),
                     !.lease = IF row.state = "leased" THEN Most(-1, @ - 1) ELSE @,
                     !.age = IF row.state \in Live THEN 0 ELSE Least(RowAgeCap, @ + 1),
                     !.born = Least(BornCap, @ + 1)]

\* Past ResultAgeCap only the order of a page's results counts: an age grows on
\* only where that keeps it apart from a newer one that catches up.
Older(j) ==
    /\ results[j] # NoResult
    /\ \A a \in (ResultAgeCap - 1)..(results[j] - 1) :
          \E k \in Computed(PageOf(j)) : results[k] = a

Tick ==
    /\ \A p \in Process : call[p] = NoCall
    /\ doomed = {}
    /\ TimelyWorkers => \A w \in Worker : worker[w].phase \in Holding =>
                           work[worker[w].job].lease > 0
    /\ work' = [j \in Job |-> Aged(work[j])]
    /\ results' = [j \in Job |-> IF Older(j) THEN results[j] + 1 ELSE results[j]]
    /\ UNCHANGED <<active, current, worker, call, doomed, crashes>>

-----------------------------------------------------------------------------
Ask(c) == \E j \in Job : RequestV1(c, j) \/ RequestV2(c, j) \/ Prewarm(c, j) \/ Backfill(c, j)

Proceed(c) == Inspect(c) \/ Revive(c) \/ Answer(c) \/ Enqueue(c)

Attempt(w) == GetPage(w) \/ Drop(w) \/ HandOver(w) \/ Enqueue(w) \/ Save(w)
              \/ Complete(w) \/ Register(w)

Next ==
    \/ \E c \in Client : Ask(c) \/ Proceed(c) \/ Abandon(c)
    \/ \E w \in Worker : \/ \E j \in Job : Claim(w, j)
                         \/ Attempt(w)
                         \/ \E permanent \in BOOLEAN : Fail(w, permanent)
                         \/ Crash(w)
    \/ CleanupSelect \/ CleanupDelete
    \/ \E p \in Page : Edit(p)
    \/ Tick

Spec == Init /\ [][Next]_vars

\* A request and a worker's attempt run on until they end, the workers poll,
\* and time passes.  Nobody has to ask, to edit or to clean up.
Fairness ==
    /\ \A c \in Client : WF_vars(Proceed(c))
    /\ \A w \in Worker : WF_vars(\E j \in Job : Claim(w, j))
                         /\ WF_vars(Attempt(w) \/ Fail(w, FALSE))
    /\ WF_vars(CleanupDelete)
    /\ SF_vars(Tick)

FairSpec == Spec /\ Fairness

-----------------------------------------------------------------------------
(* What is asked of it.                                                    *)

\* A process in the middle of something knows the job it is about; a worker is
\* inside enqueue only to queue a current revision.
JobsKnown ==
    /\ \A w \in Worker :
          /\ worker[w].phase # "idle" => worker[w].job \in Job
          /\ worker[w].phase = "hand" => worker[w].seen \in 1..MaxRevision
          /\ call[w].stage # "idle" => call[w].by = "requeue" /\ worker[w].phase = "requeue"
    /\ \A p \in Process : call[p].stage # "idle" => call[p].job \in Job

\* Every table column, every process and every counter stays in its range.
TypeOK ==
    /\ work \in [Job -> Row]
    /\ results \in [Job -> Nat \cup {NoResult}]
    /\ active \subseteq Wiki
    /\ current \in [Page -> 1..MaxRevision]
    /\ worker \in [Worker -> WorkerState]
    /\ call \in [Process -> CallState]
    /\ doomed \subseteq Job
    /\ crashes \in 0..MaxCrashes
    /\ JobsKnown

\* Only article revisions are ever attributed: a redirect or a page outside the
\* main namespace that a reader made the API queue is refused by the worker
\* (worker.py:87-97), whatever happened between its claim and its save.
OnlyArticlesAttributed ==
    \A j \in Job : results[j] # NoResult => Kind[j] = "article"

\* A page that has a result never loses its last one, whatever cleanup deletes
\* (repository.py:600-632) while workers store results and other edits arrive.
ResultsNeverVanish ==
    [][\A p \in Page : HasResult(p) => HasResult(p)']_vars

\* A wiki listed in active_wikis has a result: "A wiki that has produced at
\* least one real result" (models.py ActiveWiki) -- and cleanup leaves it one.
ActiveWikisHaveResults ==
    \A k \in active : \E p \in Page : WikiOf[p] = k /\ HasResult(p)

\* The page is attributed, queued, buried where revive can find it, or in the
\* hands of a worker that is about to queue its current revision.
Covered(p) ==
    \/ HasResult(p)
    \/ \E j \in Job : PageOf(j) = p /\ work[j].state \in {"pending", "leased", "dead"}
    \/ \E w \in Worker : worker[w].phase = "requeue" /\ PageOf(worker[w].job) = p

\* A worker found the page to be no article; or its dead row is past retention.
Refused(p) ==
    \/ \E w \in Worker : worker[w].phase = "drop" /\ PageOf(worker[w].job) = p
    \/ \E j \in Job : PageOf(j) = p /\ work[j].state = "dead" /\ work[j].age > QueueDays

\* Demand once accepted is never lost: no interleaving of enqueues that
\* supersede each other, workers handing a page over to its newer revision,
\* expired leases and failures leaves a page that was queued with no result,
\* no job and nobody about to queue one.
DemandKept == [][\A p \in Page : Covered(p) => Covered(p)' \/ Refused(p)]_vars

\* While attempts end within their lease, the row a worker holds is leased,
\* unexpired and counts that very attempt, and no other worker holds it: what
\* supersede, complete and fail write by id alone is the worker's to write.
LeaseHonoured ==
    \A w \in Worker : worker[w].phase \in Holding =>
        LET row == work[worker[w].job]
        IN  /\ row.id = worker[w].id
            /\ row.state = "leased" /\ row.lease >= 0
            /\ row.attempts = worker[w].attempts
            /\ \A v \in Worker \ {w} : worker[v].phase \in Holding =>
                                         worker[v].job # worker[w].job

\* The requests that have found the dead row of j due and are about to revive it.
Reviving(j) == {c \in Client : /\ call[c].stage = "revive" /\ call[c].job = j
                               /\ call[c].row = work[j].id}

\* A page that no longer exists is not computed again: its dead row stays dead
\* until cleanup removes it, whoever asks, collides on it or revives others.
\* revive() does not look at is_permanent again, so a request that had found the
\* row due before it died for good can still hit it; no request joins those.
PermanentStaysDead ==
    [][\A j \in Job : work[j].state = "dead" /\ work[j].permanent =>
          \/ /\ work'[j].id = work[j].id /\ work'[j].state = "dead" /\ work'[j].permanent
             /\ Reviving(j)' \subseteq Reviving(j)
          \/ work'[j].state = "none" /\ work[j].age > QueueDays
          \/ work'[j].state = "pending" /\ Reviving(j) # {}]_vars

\* The age of the newest result in a set of jobs of one page.
NewestOf(C) == IF C = {} THEN NoResult
               ELSE CHOOSE a \in {results[j] : j \in C} : \A j \in C : a <= results[j]

NewestAge(p) == NewestOf(Computed(p))
\* What a running cleanup leaves of the page.
KeptAge(p) == NewestOf(Computed(p) \ doomed)

\* Seen from the readers of the pages the whole machine is a cache.
Cache == INSTANCE AttributionCache
            WITH AgeCap <- ResultAgeCap, cleaning <- doomed # {},
                 age <- [p \in Page |-> NewestAge(p)],
                 kept <- [p \in Page |-> KeptAge(p)]

\* With any number of workers, crashes, lagging replicas and expired leases the
\* machine implements the cache: the newest answer of a page is replaced by new
\* ones; nothing but a cleanup (repository.py:600-632) that was already running
\* when an answer was stored takes it back, and then the page returns to the
\* newest answer the cleanup left, never to none.
ImplementsCache == Cache!CacheSpec

\* A lease makes a job recoverable: a job whose worker was killed does not stay
\* leased, it is claimed again and completed, failed or superseded.
LeasesEnd == \A j \in Job : work[j].state = "leased" ~> work[j].state # "leased"

\* A page with a job waiting or running comes to have a result, or a dead row.
JobsSettle ==
    \A p \in Page :
        (\E j \in Job : PageOf(j) = p /\ work[j].state \in Live)
          ~> HasResult(p) \/ \E j \in Job : PageOf(j) = p /\ work[j].state = "dead"
=============================================================================
