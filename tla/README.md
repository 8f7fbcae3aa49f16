# WikiPeople: a formal model

TLA+ specifications of WikiPeople, the service that names the main authors of a
Wikipedia article under its title, with the TLC configurations that model-check
them and TLAPS proofs of what matters most. Paths are relative to the
repository root; the Python package is `src/wikipeople/`, the gadget is
`wikipeople.js`.

Run from this directory:

    tlasany WorkQueue.tla                            # parse
    tlc -workers 2 -config WQDemand.cfg MCWorkQueue   # model-check one run
    tlapm WorkQueueProofs.tla                         # check the proofs

## 1. The system

A MariaDB database stands in the middle. The web API reads answers from it and
writes demand into it; worker processes take demand out and put answers in;
scheduled jobs feed the queue, refresh policy tables and delete what is old. The
processes share nothing but the database, and only the workers and the jobs call
MediaWiki, WikiWho, CentralAuth and the pageview lists. In the browser, the gadget asks the API.

| Component | State | Operations | Talks to |
|---|---|---|---|
| Work queue (`repository.py`, `models.py`) | `work_queue`: a row per (wiki, page, revision, algorithm), its state, priority, attempts, lease, `available_at`, `created_at`, `updated_at`; `attribution_results`; `active_wikis` | `enqueue`, `enqueue_if_stale`, `claim`, `save_result`, `complete`, `supersede`, `fail`, `revive`, `cleanup`, `register_active_wiki` | every process, one transaction per call |
| Worker (`worker.py`) | the lease in memory | claim, read the page, refuse it, hand over to the current revision, attribute, save, complete, fail | queue, MediaWiki, WikiWho, CentralAuth |
| Public API (`app.py`) | none of its own | `/v1` (exact revision), `/v2` (fresh enough), `/v1/stats`, `/healthz` | results, queue, policy tables |
| Prewarm (`prewarm.py`) | none between runs | find the wikis, load pageview lists, resolve titles, enqueue | `active_wikis`, queue, pageview lists, MediaWiki |
| Backfill (`backfill.py`, `replica.py`) | two cursors per wiki in `app_state` | walk all articles by length or by title, a batch at a time; `--restart` | queue, wiki replicas, MediaWiki |
| Cleanup (`cleanup.py`) | none | delete old queue rows and superseded results | queue, results |
| Attribution algorithm (`attribution.py`, `policy.py`, `worker.attribute`) | a cache of global bots in each worker process | count surviving tokens or revisions, rank, exclude who may not be named, fall down a ladder of three rungs | WikiWho, MediaWiki, CentralAuth |
| Standing sync (`standing.py`, naming rule in `policy.py` and `app.py`) | `contributor_standing` | block pass, rationed lock checks, replacement of the table | MediaWiki, CentralAuth |
| Opt-out sync (`optout.py`) | `page_optout` | read the list page, resolve it, replace the table | MediaWiki |
| Gadget (`wikipeople.js`) | session storage, the box in the page, timers | article view, history view | API |
| Configuration, runtime, sites, database, migration | environment, connections | start-up | all |

What is hard about it:

- **Interleavings in the queue.** Rows are addressed by id alone after a claim:
  `complete`, `supersede` and `fail` never look at the lease again, and
  `enqueue` reads and writes in one REPEATABLE READ transaction whose snapshot
  others outdate. Enqueues of different revisions supersede each other.
- **Crashes and timeouts.** A worker may die between any two of its
  transactions, or outlive its lease and go on as a zombie beside its successor.
- **Stale reads.** MediaWiki may answer from a replica that lags; cleanup
  deletes by id the rows that the SELECT before it found.
- **Partial failure.** The two sync jobs make many requests and replace a table
  at the end. A failure must never read as "nobody is blocked", "nobody opted
  out"; one wiki's must not cost the others their turn; half a history must not be
  ranked as a whole one.
- **Walks over moving ground.** The backfill's keyset walk outlives its runs,
  while articles change length, a run dies between queueing and storing the
  cursor, and an operator restarts it.
- **Ages and boundaries.** Freshness, retry delays, retention, rotation of lock
  checks, and three caches in a row between a policy table and a screen.
- **Two asynchronous functions** in the gadget that end in either order.

What makes each part correct:

- *Queue and workers*: demand accepted is never lost; a worker owns the row it
  writes; what must not be attributed is not; a permanent failure stays; a page
  never loses its last result; jobs and leases come to an end.
- *Standing sync*: no run makes a name reappear whose sanction stands, and in
  the end the table says what the wiki says although lock checks are rationed.
- *Opt-out sync*: no run withdraws what an entry covers; in the end the list
  governs; a change passes the caches to the reader within a stated time.
- *Backfill*: no article that stands still is skipped, overtaken by a lighter one or,
  without a failure, repeated; every walk ends.
- *Prewarm*: each wiki gets the popular articles of the freshest days there are,
  whatever happens to the others.
- *Attribution*: who is named may be named; nobody due is left out; a rung is left
  only when it is empty.
- *Gadget*: the box finally says what is known, whichever half ends first; the
  loading label and every view end in time.

## 2. Modules

| Module | Models | Status |
|---|---|---|
| `WorkQueue` | queue, workers, API and feeders as callers, cleanup, crashes, edits, time | done |
| `AttributionCache` | abstract: what the service promises about one page | done |
| `WorkQueueProofs` | theorems about `WorkQueue`: types, results, the refinement | five theorems |
| `WorkQueueLeaseProofs` | theorems about `WorkQueue`: who owns and who remembers a row | three theorems |
| `Standing` | the hourly standing sync, the naming rule, the wiki around it | done |
| `StandingProofs` | theorems about `Standing` | two theorems |
| `OptOut` | the opt-out sync, the answer's policy, HTTP and session cache, a reader | done |
| `OptOutProofs` | theorems about `OptOut` | three theorems |
| `Backfill` | both walks of the gradual backfill, over page tables that change | done |
| `BackfillProofs` | theorems about `Backfill` | four theorems |
| `Attribution` | the ladder of sources and the rule who may be named | done |
| `AttributionProofs` | theorems about `Attribution` | five theorems |
| `Prewarm` | the daily run over all wikis | done |
| `PrewarmProofs` | theorems about `Prewarm` | two theorems |
| `Gadget` | views of one tab: request, retries, timeout, placeholder, session cache | done |
| `GadgetProofs` | theorems about `Gadget` | four theorems |
| `MCWorkQueue`, `MCStanding`, `MCOptOut`, `MCBackfill`, `MCAttribution`, `MCPrewarm`, `MCGadget` | constants of the small instances | |

The modules meet at the tables, and each keeps to one cut. `WorkQueue` treats
an answer as an age; `Standing` and `OptOut` decide what an existing answer may
show; `Gadget` treats the API as something that is ready, pending or failing.
`Backfill` and `Prewarm` end where a page is handed to the queue, which is where the
actions of those names in `WorkQueue` begin; `Attribution` is what happens inside
`WorkQueue`'s phase "attribute", between `GetPage` and `Save` or `Fail`.
`AttributionCache` is the interface of the first seen from the others.

### WorkQueue

A job is a pair of a page and a revision; the algorithm version is fixed. `work`
is a function from jobs to rows, which is the unique key of the table, `NoRow`
standing for no row. Row ids matter, since statements write by id: an id is
unique within its job, and `FreshIds` may hand out again one that no process
remembers, as no statement could tell it from a new one.

One action is one transaction, or one external call with the local decision on
its answer:

| Code | Actions |
|---|---|
| `page_attribution`, `page_attribution_by_freshness` | `RequestV1`, `RequestV2`, `Inspect`, `Revive`, `Answer`, `Abandon` |
| `enqueue`, `enqueue_if_stale` | `Gate`, `Read`, then `Insert`, `Touch`, `Skip`, or `Conflict` and `Collide`, or `LostRow` |
| `prewarm_wiki`, `enqueue_pages` | `Prewarm`, `Backfill` |
| `claim` | `Claim` with `Claimable` and `First` (the `ORDER BY`) |
| `process` | `GetPage`, `Drop`, `HandOver`, `Save`, `Complete`, `Register` |
| `run_once`'s handlers, `fail` | `Fail` with `Failed` and `Backoff`; `Crash` for a kill |
| `cleanup` | `CleanupSelect`, `CleanupDelete` |

`enqueue` and `cleanup` are one transaction each, and the only ones split in two,
between what they SELECT and what they write. Under REPEATABLE READ
a SELECT reads a snapshot, and a write goes to the table as it is by then. `CleanupSelect`
takes the old queue rows and picks the results, `CleanupDelete` deletes those by id; that
others see the queue rows gone before the results are is more than the code allows, and
costs nothing: no step of theirs looks at both. Of `enqueue`, `Read` takes the decision and the commit actions write: the UPDATE by primary key may find its
row gone (`LostRow`, SQLAlchemy's `StaleDataError`), the INSERT may hit the unique
key (`Conflict`, and `Collide` is the second transaction of that handler).

Time is relative. A row carries how long it waits, how long its lease runs and
how old it is; `Tick` is 30 seconds, the first retry delay. Values saturate where
no comparison in the code tells more apart. Ages of results are compared with each
other as well, so `Older` saturates while keeping their order. No tick falls
inside a request or an open cleanup; a worker's calls may take any time, and
`TimelyWorkers` says whether they may outlast its lease.

### AttributionCache

A page has no answer or one of a certain age. Computing makes it new, time makes it
older, and nothing takes it away, but for one thing: a retention run keeps what it found
(`RetentionBegins`), and if an answer was computed while it ran, its end may take that one
back to the newest it kept (`RetentionEnds`). `WorkQueue!ImplementsCache` maps the age of a
page's newest stored result to `age`, of the newest that cleanup has not selected to
`kept`. Nothing is said of revisions: two workers, or one that was told an earlier revision
by a lagging replica, may save an earlier one last, and the newest result is the last
computed (`repository.py:86`).

### Standing

`Begin` reads the named accounts and the table, `Fetch` is the block pass with the
choice of the accounts whose lock is due (`Candidates`, then `Unseen` with what
the ration leaves), `ReadLock` and `ReadReason` are the two requests about one
account, `LockUnread` the handler of their failure, `Replace` the one transaction
at the end and `Abort` everything that ends a run early. `SetBlock`, `SetLock`,
`Vanish` and `Rename` are the wiki. `Tick` is the hour between two runs: it ends
blocks and ages the rows. `Withheld` is the naming rule. The wording patterns
for courtesy blocks and sanction locks are reduced to what they decide
(`spares`, `reason`). MediaWiki answers for an account that is gone either with nothing or
with an item flagged missing; `Flagged` are the accounts it does the latter for, and
`Answered` is `fetch_standing`, which takes any item for an answer.

### OptOut

`Begin`, `Classify`, `ReadCategory` and `Replace` are the requests and the
transaction of `sync_wiki`; `Abort` may strike before any. `resolves` is the page a title
leads to now, `meant` the one it led to when it was put on the list. The reader has the page
open again and again: `ViewCached` is answered from session storage, the others go through
the browser's HTTP cache under the `Cache-Control` the API sends. `ViewFresh` needs no
request; `ViewStale` shows what is there while a request goes on behind it, which is
answered or lost; `ViewAsked` waits for the answer. A request behind a stale answer
that takes longer than a tick is not told from one that is lost, and one in the foreground that
fails leaves the reader with nothing. A tick is half of `MaxAge`; the real values, 300 s and
300 s, are equal like those of the run.

`get_wikitext` also reads an answer with neither pages nor revisions as an empty list
(`clients.py:412-417`). That MediaWiki gives such an answer for a page that is there is not
modelled: here it answers in full or the run ends.

### Backfill

A place in a walk is the sort key of a row: `(page_len, page_id)`, descending, or the
place of the title. `Ahead` is the WHERE clause of the keyset, `FirstOf` its
LIMIT, `LengthCursors` and `TitleCursors` are the cursors a batch leaves. A run is a
record of what the process holds; its steps are the transactions and requests:
`Open` (`get_state`), `FetchByLength` or `FetchByTitle`, `Hand` for each page,
`Store` (`set_state`), `Reset` for each of the `set_state` of `--restart`.
`ReplicaDown` is the exception that leaves `main`; `Die` is any other end. `Edit`
changes, creates and removes articles at any time, `Configure` the credentials that
choose the source. `handed` and `still` are history: how often a walk met a page, and
which pages have kept their place since it began.

### Attribution

One action is one request with the decision on its answer, or one step of the loop
over a ranking: `WikiWhoAnswers` and `WikiWhoRefuses`, `ResolveUsers`, then for
each author `PassOver`, `Recall` or `AskCentralAuth`; `FallThrough` to the batches of
`ReadHistory`; `CountEditors`, `CountBots`, `Save`. `Fail` may strike at each
request, `Restart` empties the process's cache, `Flag` is a steward, `Delete` takes
the page away. `Pools` and the order of the loop leave ties open, as the order in
which tokens and revisions come up is not otherwise modelled. Which tokens count
and what a bot's name looks like are facts of the instance (`PageFacts`, `Barred`).

### Prewarm

`Begin` resolves the wikis, `Turn` starts one's walk back over the days, `AskDay` is
one list or one 404, `Resolve` one batch of titles, `Hand` one page. `Unavailable`
is the exception that costs a wiki its turn, `Die` the one that costs all that
follow theirs. Lists are published, midnight passes and workers discover wikis
while a run goes on.

### Gadget

Whatever JavaScript runs between two awaits is one step. `request` is
`contributionData` with its attempts and timers, `holder` is
`runCountPlaceholder`, and an article view concludes when both have ended. A tick
is 500 ms, so the constants of the run are the gadget's own: label 2.5 s, timeout
8 s, retries after 3 s and 10 s.

## 3. What the runs show

| Run | Shows | Bounds |
|---|---|---|
| `WQDemand` | `DemandKept`: a page that was queued keeps a result, a live or dead row, or a worker about to queue it; `OnlyArticlesAttributed` | 2 workers that may outlive their leases, 1 client, 2 revisions, a redirect and then an article, 2 attempts, no crash |
| `WQReplicas` | `LeaseHonoured`, `PermanentStaysDead`, `ResultsNeverVanish`, `ActiveWikisHaveResults`, `ImplementsCache` | 2 timely workers, as many as `jobs.yaml` runs, 1 client, 1 crash, cleanup, 2 revisions, 1 attempt |
| `WQSettle` | `TypeOK`; `JobsSettle`, `LeasesEnd` under fairness | 1 worker killed up to twice, every kind of caller, 1 revision, 4 attempts, backoff capped at 2 ticks |
| `STSync` | `TypeOK` with the ration, `SanctionsSurvive`, `StandingsSettle` | 2 accounts, 1 lock check a run, 2 changes or failures, two blocks that expire and replace each other; either account may vanish, one with a flagged item |
| `OOSync` | `TypeOK`, `OptOutsSurvive`, `ListSettles`, `ReachesReader` | 2 pages, a title, a category that can exceed its limit, 2 changes or failures, any number of lost background requests |
| `BFWalk` | `TypeOK`, `NoneSkipped`, `HeaviestFirst`, `RepeatsOnlyAfterFailure`, `WalksEnd` | 2 wikis, one unreachable; 3 articles with a tie, batches of 2; 2 edits or changes of source, a restart, a death |
| `ATLadder` | `TypeOK`, `OnlyNameableNamed`, `NobodyOvertaken`, `LadderDescends`, `WholeHistoryRanked` | 4 pages, 6 accounts, a pool of 5, a cache of 2, a history on each side of the budget, one flag |
| `PWDaily` | `TypeOK`, `EachWikiOnItsOwn`, `Discovered` | 2 wikis, 3 days of 4, late lists, a redirect, a dead title, a page of another namespace, one failure |
| `GadgetView` | `TypeOK`, `BoxTellsOutcome`, `LabelGivesUp`, `ViewsEnd` | real delays, every outcome at every instant |
| `WQCrash`, `STMissing`, `BFReplica` | the disagreements of section 5 | the smallest instances that show them |

Why the bounds are enough. A hazard of the queue involves one page, two of its
revisions (superseding needs an older and a newer one) and two actors on one row
(a zombie and its successor, or a worker and a request). Ages need one value on
each side of each comparison. Attempts: one below the maximum, one at it, where a run is
about failures. One crash
suffices for each crash point, since a crash leaves nothing behind but the
tables. For `Standing`, two accounts and a ration of one make the rotation matter; for
`OptOut`, a title and a category with a limit of one give both kinds of entry and
truncation; a run reads the list, may be aborted between any two requests, and the
two changes may fall on both sides of each read. `Backfill` has three articles and batches
of two, so that a batch ends inside a tie of lengths, a full batch can be the last,
and a page can move from one side of the cursor to the other; the second wiki lies behind
the first in the loop and its replica does not answer. `Attribution` has authors who
tie at the edge of the pool, accounts on each side of every gate, a cache that must be
emptied, and a budget that is spent on the last batch, before it and after it. `Prewarm`
wants two days out of three, so one may be late. `RowIds` has as many ids as a
job's rows can be remembered at once; with two of them, in `WQReplicas`,
an insert waits until one of them is forgotten.
`MaxChanges`, `MaxCrashes`, `MaxRevision`, `MaxEdits`, `MaxRestarts`, `MaxFailures`,
`MaxFlags` and `MaxDay` bound what the environment does, never what the program does. Symmetry is declared only where a run has no liveness.

Where a run is cut: `WQSettle` has one client, since two can keep a request in flight for
ever and no tick falls inside one, and one page and one revision, since with two a kill
loses the page (`WQCrash`). `WQReplicas` has workers that keep to their lease and one
client; no passing run has a lagging replica, with which `DemandKept` is false (section 5), and none a page
that is moved out of the main namespace. For zombies, lag, late revives and such pages there are
the theorems `CacheImplemented`, `PermanentDeath` and `ArticlesOnly`. With two pages, a page can wait
for ever behind one that dies and is revived again and again, because `claim` orders
by priority and creation time and revive keeps the creation time; no document
promises otherwise.

Deadlock is checked in every run, and every action of a specification is
reached in some passing run.

## 4. Fairness

- `WorkQueue!FairSpec`: a request runs on, a worker polls (`run_forever` loops for
  ever) and an attempt moves on or fails (each external call has a timeout); a started
  cleanup finishes. `Tick` is strongly fair: it is disabled while a request is
  in flight, and requests are finite. Nobody has to ask, edit or clean up.
- `Standing!FairSpec` and `OptOut!FairSpec`: the jobs are scheduled for ever and a
  run that has begun goes on. Failures are not assumed away but counted in
  `changes`: they stop after finitely many, as "once nothing changes or fails any
  more" says. In `Standing` hours pass between runs (strong fairness of `Tick`).
- `Backfill!FairSpec`: the hourly job is scheduled for ever (`Begin`) and a run goes on
  (`Go`). Deaths, restarts, edits and changes of source are bounded, so `WalksEnd`
  speaks of the time after the last. `Prewarm!FairSpec`: the same of the daily job,
  days pass, and each day's list is published some time.
- `Attribution` has none: how an attempt ends is `WorkQueue`'s, and what it asks of this
  module is safety.
- `Gadget` has none: its time bounds are invariants over a clock that cannot
  pass a due timer, which is the assumption that browser timers are prompt.

## 5. What disagrees

Three statements of the repository have a run that shows they do not hold of the code.

1. `WQCrash`. "A lease makes a job recoverable after a worker crash"
   (`docs/architecture.md:164`). A worker killed between `supersede` and the
   `enqueue` of the current revision leaves a superseded row and nothing queued:
   no lease expires, so nothing brings the page back but a new request.
2. `STMissing`. "Keep what was known rather than inventing a clean slate for it"
   (`standing.py:71-72`). `fetch_standing` (`clients.py:303`) takes an item flagged missing
   for an account without a block, though `resolve_users` beside it reads the flag
   (`clients.py:264-275`). The account of a withheld name vanishes, and the next run names it.
3. `BFReplica`. "A wiki whose replica is unreachable falls back to the Action API in
   title order" (`docs/operations.md:204`, `backfill.py:14`). The fallback is taken
   when credentials are missing. A replica that does not answer raises out of
   `main`, and no later wiki is walked either, for as long as that lasts.
   What does hold is `WalksEnd`, for the wikis before it.

Seen while modelling, without a run:

- The cleanup job "always retains the newest computed version for a page"
  (`docs/architecture.md:77`, and `docs/operations.md:212`). Of two results a worker
  saved the later revision's first, so that one is the older and past retention; a
  cleanup selects it, a worker computes it again, and the DELETE by id
  (`repository.py:625`) takes what is now the page's newest result. An older one remains,
  so `ResultsNeverVanish` holds, and `ImplementsCache` says how far back the page can go.
- "The request created or reused one durable queue item" (`docs/api.md:177`, of 202).
  `enqueue` leaves a superseded row of the requested revision as it is
  (`repository.py:152`), so when the row of the revision that superseded it has died, a
  request for the earlier one is answered 202 with nothing queued.
- "The opt-out follows the article rather than the name someone happened to list it
  under" (`models.py:128-130`). A page keeps its row across a rename, but every run
  resolves the titles anew (`optout.py:72`): an article that is moved without a redirect,
  or whose title another takes, is named again a quarter of an hour later, while its
  entry stands. `ListSettles` sides with neither: it asks nothing of such a page.
- A superseded row answers for nothing, yet an `enqueue` of its revision supersedes the
  pending rows of earlier ones before it returns (`repository.py:152-160`). That is safe
  while somebody answers for the superseded row itself, which is the invariant behind
  `DemandKept`, and the page loses its only job otherwise: when a lagging replica made
  the worker hand over to an *earlier* revision (`LaggedReads = TRUE` in `WQDemand`), when
  cleanup removes the dead row that answered for it (`cleanup` among the `Callers`), or
  when its worker dropped it as no article and an earlier one is asked for (the
  last two with three revisions). TLC finds `DemandKept` violated in each.
- `revive` asks only for a dead row (`repository.py:301`), while that the row may be tried
  again was decided in the request's previous transaction (`app.py:224`). A request that
  found it due before another worker learnt that the page is gone brings the row back, to
  be computed once more. `PermanentStaysDead` allows that to the requests that were already
  on their way when the row died for good, and to no other; with one client, as in
  `WQReplicas`, there are none.
- "A policy change now reaches readers within five minutes of their next page
  view" (ADR-0007:53): a stale answer is served within `stale-while-revalidate` while the
  browser asks for a new one, the session cache keeps it for five minutes, and if that request
  is lost the next session starts with it again. `ReachesReader` states what does hold:
  fifteen minutes, and five from the first answer that has the change.
- "Exits as soon as `outcome.done` is set" (`wikipeople.js:665`): the placeholder
  sleeps once for the whole 2.5 s and the view waits for it.
- The gadget relies on its label settling (2.5 s) before the last retry is sent (13 s):
  were it the other way round, the last pending answer would leave the label on the
  screen for good, as nothing but that answer concludes the view. Nothing in
  `wikipeople.js:51` says that the two constants depend on each other.
- A `--restart` that overlaps the scheduled job can be undone by that job's stored
  cursor, and articles it has not met count as passed: `OverlappingRestart = TRUE`
  in `BFWalk`, with two jobs, makes TLC find `NoneSkipped` violated. `docs/operations.md:357`
  has the operator run it once and then let the job resume.
- A page deleted between two batches of its history answers like a history that is
  complete; only the 404 of the editor count afterwards keeps the slice from being
  stored, so the order of those requests is what `WholeHistoryRanked` rests on.
- `StaleDataError` out of `enqueue` is no `WikiPeopleError`: in a feeder it ends the run
  for every page and wiki to come.
- `loadWikiConfig` stores `{}` for a day after a request that failed just as after a
  page that is missing (`wikipeople.js:250`): one lost request, and a reader who has
  switched the gadget off sees it in that tab until then. The introduction is stored
  the same way, which `docs/onwiki-setup.md:209` does say.
- The retry after an insert collision assigns the priority instead of raising it
  (`repository.py:178`; `docs/architecture.md:160`): a reader's job can fall to
  backfill priority.
- An older revision's failing job returns to pending beside a newer one: two
  pending rows of one page. The worker that claims it hands over.
- Never-checked accounts get only what stale ones leave of the ration
  (`standing.py:61-64`), against the "jumps the queue" of the comment; accounts
  that are gone and were never checked keep their place for ever.
  `StandingsSettle` leaves them out.
- An account that vanishes between the block pass and its lock check reads as
  not locked until its next turn.
- The table of priorities calls the backfill "alphabetical" (`docs/architecture.md:162`);
  it goes by length where there is a replica (`docs/operations.md:183-205`).

## 6. What is proved

The theorems hold for every value of the constants -- any number of pages, revisions,
workers, clients, accounts, wikis, runs and delays -- under the modules' named assumptions
(`ConstantsAssumption`, `OptOutAssumption`, `BackfillAssumption`, `AttributionAssumption`,
`StandingAssumption`, `PrewarmAssumption`, `GadgetAssumption`). Those ask for little more
than that numbers are numbers, that settings the code divides or loops by are positive, and
that the accounts and the pages a run collects are finitely many. Every invariant and
action property that a passing run checks is stated by a theorem. A hypothesis beyond the
assumptions is part of the theorem's statement and explained below; `TimelyWorkers`
and the others each hold in the run that checks the same property.

### The queue and the cache

| Theorem | Argument |
|---|---|
| `TypeCorrect`: `WorkQueue` keeps `TypeOK` | A lemma per column (`ColumnTypes`), per operation on a row (`RevivedType`, `LeasedType`, `FailedType`, ...) and per way of assigning a process's memory; then one step per action. `JobsKnown` is the part of `TypeOK` that makes it inductive: a process amid something knows its job. |
| `ArticlesOnly`: `OnlyArticlesAttributed` | Strengthened by `ArticleInHand`: a worker in phase "attribute" holds a revision that is an article. `GetPage` establishes it, and no other step enters that phase or changes the job of a worker in it. |
| `ResultsStay`: `ResultsNeverVanish` | Strengthened by `DoomedReplaced`: every result a running cleanup selected has a strictly newer result of its page that it did not select. The newest exists because ages are naturals (`LeastElement`, from well-founded induction). `Save` between the selection and the deletion only makes a result newer, and no tick falls between them. |
| `ActiveHaveResults`: `ActiveWikisHaveResults` | Strengthened by `StoredFound`: between saving and registering, the worker's page has a result; `DoomedReplaced` shows that cleanup leaves it one. |
| `CacheImplemented`: `ImplementsCache` | The refinement of `AttributionCache`, with any number of workers, zombies among them, and lagging replicas. `CacheInv`: the ages the mapping reports saturate where the abstract ones do (`KeptCapped`), and by `DoomedReplaced` cleanup leaves a result of every page it selects from. `NewestIs` characterises the newest of a page's results, `AgesAre` says that ages passing by a tick are those of the abstract cache. Under it `Save` maps to `Answered` -- of both kinds, as cleanup has selected the row it overwrites or has not -- `Tick` to `TimePasses`, the two halves of a cleanup that finds something to `RetentionBegins` and `RetentionEnds`, and everything else to a stutter. |
| `LeasesHonoured`: `LeaseHonoured`, if every attempt ends within its lease (`TimelyWorkers`) | `LeaseInv`: the row a worker holds is leased, unexpired and at this attempt's count (`RowsOwned`); one it has let go of is superseded or gone (`LeftAlone`); no two workers remember the same row (`IdsApart`). `LeftAlone` is what keeps `supersede`, `register` and a late `fail` from touching a row that was claimed again. `Mild` names the steps of everybody else. |
| `PermanentDeath`: `PermanentStaysDead`, under the same hypothesis | From `LeaseInv`: no worker can hold a dead row, so only cleanup and `revive` reach it, and a `revive` on its way was decided when the row was still due (`RevivesFoundDue`: no new one can be decided now). |
| `DemandIsKept`: `DemandKept`, if `Calm` | `DemandInv`: whatever row there is, superseded or not, its page has a result, a queued or buried row of that revision or a later one, or a worker about to queue such a one (`RowsAnswered`). Workers and calls between two transactions remember rows that are still there or made way for a result (`WorkersRemember`, `CallsRemember`), which covers the insert collision and every decision carried out a transaction later; and a hand-over goes to a later revision (`NoneAhead`). Zombies whose lease expired are included. `Calm` excludes what really loses demand, each of which TLC shows: a worker killed between superseding and queueing (run `WQCrash`), an answer from a lagging replica, a row that is refused as no article, and cleanup of dead rows (section 5). |

### Opt-outs, standing, naming

| Theorem | Argument |
|---|---|
| `OptOutTyped`: `OptOut` keeps `TypeOK` | One step per action. |
| `OptOutsKept`: `OptOutsSurvive` | Strengthened by `Collected`: what an untouched target of the run covers is among the entries as soon as the run has read it. A category within its limit is read whole, since a subset as large as a finite set is the set. Only `Replace` shrinks the table, and then nothing is left to read. |
| `ChangesReach`: `ReachesReader`, whichever background requests are lost | `ReachInv`: what the HTTP cache holds of an earlier answer is as old as the change (`HttpDated`); what the session holds of it was put there while HTTP could reuse it, or before the change (`SessionDated`); once the API has given the changed answer, none is left in HTTP, and the one the session may still show is as old as that (`LoadedDated`). |
| `StandingTyped`: `Standing` keeps `TypeOK` | `StandingInv` adds that a row that is there was checked or waits for its first check (`TrackedIn`), without which a run could ration a row that has no age. |
| `NoAmnesty`: `SanctionsSurvive` | Strengthened by `RunAgrees`: what a run is about to write about an account that nobody touched still bars it if its sanction stands, and writes something about every account it knew. No hypothesis: for an account gone with a flagged item the property promises its row alone, and `STMissing` shows why. |
| `AttributionTyped`: `Attribution` keeps `TypeOK` | Only the sum over tokens is not a step of propositional reasoning: that every prefix sum is a number follows from the least counterexample. |
| `OnlyNameable`: `OnlyNameableNamed` | `NamesInv`: while a rung is being prepared nobody is named (`NoneYet`), the loop is about counted accounts, and what the cache calls clean was no bot once (`CleanOnce`), across emptied caches and restarts. |
| `PlacesKept`: `NobodyOvertaken` | `LadderInv`: the loop asks in order of counts, so those named count at least as much as those left, and whoever was passed over did not deserve a name (`LoopHeld`, in `Judged`); `RungsApart` keeps the rungs' counts apart. |
| `RungsInOrder`: `LadderDescends` | The same invariant's `PassedOver`: when rung 2 goes by edits after tokens were counted, rung 1 had nobody who deserved a name. |
| `HistoryWhole`: `WholeHistoryRanked` | `RungsApart` says that what is counted is what the batches read so far say (`CountedTo`); `CountsStand` that a ranking goes by all of them unless the page was deleted meanwhile, and then comes to no decision. `Edits` counts positions of the history, so that a batch's contribution is a set and its size. |

### Backfill and prewarm

| Theorem | Argument |
|---|---|
| `BackfillTyped`: `Backfill` keeps `TypeOK` | `TypeInv` adds that a run between reading and storing a cursor has a batch left, without which `left` could fall below zero. One step per action; a lemma for each way a run's record changes. |
| `NothingSkipped`: `NoneSkipped`, if `RestartsAlone` | `RestartsAlone`: no `--restart` overlaps another run, or there is one run at a time. `SkipInv`: what every stored cursor, every cursor in a run's memory and every batch in hand has passed is handed over or still in the batch (`Owes`); pages that stand still are listed; a run that empties cursors is alone. `LengthAhead` and `TitleAhead` say that a row left out of a batch is ahead of the cursor the batch leaves, ties and full last batches included. `OwesKept` carries the debt over everybody else's steps. Any number of runs may overlap otherwise. |
| `HeaviestComeFirst`: `HeaviestFirst`, if `RestartsAlone` | On top of `SkipInv`: the rows of a batch are behind the cursor it leaves and are where the page table has them (`BatchesHeld`). What a batch hands over is then no heavier than what its cursor passed, and that was handed over. |
| `RepeatsBounded`: `RepeatsOnlyAfterFailure`, with one run at a time (`OneRun`) | `RepeatInv`: the cursor in memory is the stored one until the batch is queued (`AtStored`), and what is still ahead of a cursor, stored or left by a batch, was handed over no more often than runs died (`DueOnce`, `BatchDueOnce`). |
| `PrewarmTyped`: `Prewarm` keeps `TypeOK`; `WikisServed`: `EachWikiOnItsOwn` | `PrewarmInv`: wikis that came are those no longer listed and the one at hand (`TurnsHeld`); the walk back has passed exactly the days it did not load (`WalkHeld`), from which `Freshness` shows they are the freshest; titles and pages in hand add up to those of the days (`PagesHeld`). |

### The gadget

All four assume `SettlesFirst`: the label settles (2.5 s) before the last retry is sent
(13 s) -- true of the constants in `wikipeople.js`, and needed (section 5).

| Theorem | Argument |
|---|---|
| `GadgetTyped`: `Gadget` keeps `TypeOK`; `BoxTold`: `BoxTellsOutcome` | `GadgetInv`: what an article's box shows follows from how far request and placeholder are (`ArticleHeld`, and `HistoryHeld`, `OtherHeld` for the other views); a request that has not ended has nothing to tell (`RequestHeld`). |
| `LabelSettles`: `LabelGivesUp`; `ViewsBounded`: `ViewsEnd` | `TimeHeld`, in the same invariant: the time so far is at least the delays waited and at most those and the timeouts of the attempts made. |

### What is only model-checked

- Liveness -- `JobsSettle`, `LeasesEnd`, `StandingsSettle`, `ListSettles`, `WalksEnd`,
  `Discovered` -- rests on fairness and ENABLED, out of the prover's reach.
- The three runs that expect a violation show a trace each.
- Outside its hypothesis a theorem says nothing: `DemandIsKept` is false with a crash,
  `NothingSkipped` with a restart that overlaps a run.


## 7. What is not modelled

- HTTP clients, parsing, paging: what they can answer, fail with or answer late is in
  the actions that call them. Lists that are read whole, page after page, are one step.
- Which tokens of a text are countable, and the patterns for bot names, courtesy blocks
  and sanction locks: string matching, of which the models keep the verdict.
- Configuration, URL building, schema creation, `/healthz`, `/v1/stats`: no state
  a property could be about.
- The migration script: a copy from one database into another, in one target
  transaction, run by hand and once; nothing else uses the target meanwhile.
- In the gadget: loading the configuration page and the introduction (a walk over
  titles, each result kept for a day), wording and layout. `OpenHistory` starts where
  the introduction is there.

Assumed of the world: one `list=users` request carries all accounts of a wiki (and the
whole candidate pool); no second run of a sync job or of prewarm overlaps the first; an
attempt at a page is too short for a deleted page to come back while it lasts; the page
a reader views is not edited meanwhile (its URL names the revision); one tab at a time.

## 8. Plan

1. Done: `WorkQueue`, `AttributionCache`, `Standing`, `OptOut`, `Backfill`,
   `Attribution`, `Prewarm`, `Gadget`, their runs, and a theorem for every safety and
   action property that a passing run checks.
2. Proofs: `DemandKept` under weaker hypotheses (revisions that are refused); the bound
   between attempts and `MaxAttempts` that `JobsSettle` rests on, as an invariant.
3. Runs with two pages and two wikis for the safety properties of the queue, as far
   as TLC reaches.
