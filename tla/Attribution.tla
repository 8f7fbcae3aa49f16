----------------------------- MODULE Attribution -----------------------------
(***************************************************************************)
(* How a worker names up to three accounts for a page: the attribution     *)
(* ladder (ADR-0005).  Surviving tokens first; edit counts when WikiWho    *)
(* refuses the page or nobody clears the thresholds; else nobody.  Both    *)
(* rankings go through one rule of who may be named (ADR-0006), whose last *)
(* check costs a request to CentralAuth per account, remembered for as     *)
(* long as the worker process lives.                                       *)
(*                                                                         *)
(* One action is one request to an upstream service together with what is  *)
(* decided on its answer, or one step of the loop over a ranking.  Any     *)
(* request may fail, and then the attempt stores nothing: what becomes of  *)
(* the job is WorkQueue's matter (its phase "attribute", and its actions   *)
(* Save and Fail).  Meanwhile stewards flag and unflag global bots, and    *)
(* the page may be deleted, for good: an attempt is too short for a page   *)
(* to come back while it lasts.                                            *)
(*                                                                         *)
(* WikiWho names an author by a numeric id or as anonymous: all anonymous  *)
(* authors are the one author 0 here, which cannot be named.  The pool of  *)
(* candidates fits into one list=users request (50 by default, both).      *)
(***************************************************************************)
EXTENDS Integers, FiniteSets, SequencesExt

CONSTANTS
    Editor,         \* accounts: registered user ids
    Pages,          \* the pages met: see PageFacts
    Answered,       \* the accounts list=users returns an item for
    Barred,         \* those it shows to be missing, temporary or bots
    PoolSize,       \* candidate_pool_size
    MinTokens,      \* minimum_tokens
    MinPercent,     \* minimum_share, in percent
    MaxRevisions,   \* top_editor_max_revisions
    CacheSize,      \* GLOBAL_GROUP_CACHE_SIZE
    Flaggable,      \* the accounts a steward may ever flag or unflag
    MaxCount,       \* bound: the editor count MediaWiki reports
    MaxFlags        \* bound: how often a steward flags or unflags a bot

Author == Editor \cup {0}
Shown == 3          \* limit: names shown

\* What the upstreams hold on a page: how many countable tokens of each author
\* survive, and its history, newest first, in the batches the API hands out.
PageFacts == [tokens : [Author -> Nat], history : Seq(Seq(Author))]

ASSUME AttributionAssumption ==
    /\ Editor \subseteq Nat \ {0} /\ IsFiniteSet(Editor)
    /\ \A p \in Pages : p \in PageFacts /\ Len(p.history) > 0
    /\ Answered \subseteq Editor /\ Barred \subseteq Answered /\ Flaggable \subseteq Editor
    /\ {PoolSize, MinTokens, MinPercent, MaxCount, MaxFlags} \subseteq Nat
    /\ {MaxRevisions, CacheSize} \subseteq Nat \ {0}

Metrics == {"tokens", "edits"}
Phases == {"idle", "wikiwho", "users", "rank", "history", "editors", "bots", "save"}

VARIABLES
    phase,      \* where the attempt is
    page,       \* the page it is about
    gone,       \* was it deleted since the attempt began?
    metric,     \* the rung it is on
    countable,  \* total_tokens: 0 until WikiWho has answered
    counts,     \* the Counter of that rung
    total,      \* its total: tokens, or revisions
    pool,       \* the accounts resolve_users was asked about
    left,       \* the authors the loop has not come to
    batch,      \* history batches read
    names,      \* the contributors picked so far
    people,     \* editor_count, then distinct_contributors
    cache,      \* _global_users: who is known to be a global bot, and who not
    bots,       \* the accounts that are in a global bot group
    flags,      \* how often that changed
    everBot, everClean   \* history: what each account was since the worker started

job == <<metric, countable, counts, total, pool, left, batch, names, people>>
world == <<bots, flags, everBot, everClean>>
vars == <<phase, page, gone, job, cache, world>>

-----------------------------------------------------------------------------
(* Rankings, thresholds and the rule.                                      *)

Nobody == [a \in Author |-> 0]

Present(c) == {a \in Author : c[a] > 0}

FirstOf(S, c) ==
    {P \in SUBSET S : /\ \A a \in P, b \in S \ P : c[a] >= c[b]
                      /\ \/ P = S /\ Cardinality(S) <= PoolSize
                         \/ P # S /\ Cardinality(P) = PoolSize}

\* Mutant of Pools: anonymous authors take up places in the pool.
PoolsOfAll(c) == {P \ {0} : P \in FirstOf(Present(c), c)}

\* candidate_user_ids, most_common(candidate_pool_size): the first registered
\* accounts by count, equal counts in the order they came up.
Pools(c) == FirstOf(Present(c) \ {0}, c)

\* The gates of select_contributors; select_top_editors has none.
Clears(m, n, all) == m = "tokens" => n >= MinTokens /\ 100 * n >= MinPercent * all

\* Mutant of Presentable: a group or a name that says bot goes unnoticed.
Registered(a) == a \in Answered

\* What should_highlight_contributor can say without a request.
Presentable(a) == a \in Answered \ Barred

\* The account is worth asking CentralAuth about.
Contends(a) == a \in pool /\ Presentable(a) /\ Clears(metric, counts[a], total)

Cached == cache.bot \cup cache.clean
NoCache == [bot |-> {}, clean |-> {}]

Init ==
    /\ phase = "idle" /\ page \in Pages /\ gone = FALSE
    /\ metric = "tokens" /\ countable = 0 /\ counts = Nobody /\ total = 0
    /\ pool = {} /\ left = {} /\ batch = 0 /\ names = <<>> /\ people = 0
    /\ cache = NoCache
    /\ bots \in SUBSET Flaggable /\ flags = 0
    /\ everBot = bots /\ everClean = Editor \ bots

-----------------------------------------------------------------------------
(* Rung 1: the text on screen.                                             *)

Begin ==
    /\ phase = "idle"
    /\ phase' = "wikiwho" /\ page' \in Pages /\ gone' = FALSE
    /\ UNCHANGED <<job, cache, world>>

\* The attempt is over, and what it held in memory is gone.
End ==
    /\ phase' = "idle"
    /\ metric' = "tokens" /\ countable' = 0 /\ counts' = Nobody /\ total' = 0
    /\ pool' = {} /\ left' = {} /\ batch' = 0 /\ names' = <<>> /\ people' = 0
    /\ UNCHANGED <<page, gone>>

TokenTotal(p) == SumFunction(p.tokens)

\* Whom to resolve, and whom to go through.
Rank(c) == phase' = "users" /\ pool' \in Pools(c) /\ left' = Present(c)

\* The exact revision's tokens, counted.
WikiWhoAnswers ==
    /\ phase = "wikiwho"
    /\ counts' = page.tokens
    /\ countable' = TokenTotal(page) /\ total' = countable'
    /\ Rank(counts')
    /\ UNCHANGED <<page, gone, metric, batch, names, people, cache, world>>

\* On to rung 2: get_editor_history starts from nothing.
Descend ==
    /\ phase' = "history" /\ metric' = "edits"
    /\ counts' = Nobody /\ total' = 0 /\ pool' = {} /\ left' = {}
    /\ UNCHANGED <<page, gone, countable, batch, names, people, cache, world>>

\* HTTP 400, or a response past the size limit: PermanentDataError.
WikiWhoRefuses ==
    /\ phase = "wikiwho"
    /\ Descend

\* resolve_users for the pool of either rung.
ResolveUsers ==
    /\ phase = "users"
    /\ phase' = "rank"
    /\ UNCHANGED <<page, gone, job, cache, world>>

-----------------------------------------------------------------------------
(* The loop over a ranking.                                                *)

\* The loop is at a: equal counts come in any order.
Looking(a) ==
    /\ phase = "rank" /\ Len(names) < Shown
    /\ a \in left /\ \A b \in left : counts[b] <= counts[a]

\* The account is named or not, and the loop goes on.
Judge(a, clean) ==
    /\ names' = IF clean THEN Append(names, a) ELSE names
    /\ left' = left \ {a}
    /\ UNCHANGED <<phase, page, gone, metric, countable, counts, total, pool, batch,
                   people, world>>

PassOver(a) ==
    /\ Looking(a) /\ ~Contends(a)
    /\ Judge(a, FALSE)
    /\ UNCHANGED cache

Recall(a) ==
    /\ Looking(a) /\ Contends(a) /\ a \in Cached
    /\ Judge(a, a \in cache.clean)
    /\ UNCHANGED cache

\* global_user_info: a full cache is emptied before the answer goes in.
AskCentralAuth(a) ==
    LET kept == IF Cardinality(Cached) >= CacheSize THEN NoCache ELSE cache
    IN  /\ Looking(a) /\ Contends(a) /\ a \notin Cached
        /\ Judge(a, a \notin bots)
        /\ cache' = IF a \in bots THEN [kept EXCEPT !.bot = @ \cup {a}]
                    ELSE [kept EXCEPT !.clean = @ \cup {a}]

Ranked == phase = "rank" /\ (left = {} \/ Len(names) = Shown)

\* Mutant of Settle: rung 2 is for pages WikiWho refuses alone.
SettleAtOnce ==
    /\ Ranked
    /\ phase' = "editors"
    /\ UNCHANGED <<page, gone, job, cache, world>>

\* Names, or the last rung: the attempt goes on to the counts.
Settle ==
    /\ Ranked /\ (names # <<>> \/ metric = "edits")
    /\ phase' = "editors"
    /\ UNCHANGED <<page, gone, job, cache, world>>

\* Rung 1 named nobody.
FallThrough ==
    /\ Ranked /\ names = <<>> /\ metric = "tokens"
    /\ Descend

-----------------------------------------------------------------------------
(* Rung 2: the history, batch after batch.                                 *)

\* Only accounts are counted; every revision is in the total.
Tally(c, revisions) ==
    [a \in Author |->
        IF a = 0 THEN 0 ELSE c[a] + Cardinality({i \in 1..Len(revisions) : revisions[i] = a})]

\* Mutant of Unranked: what was read when the budget ran out is ranked.
RankedAnyway == Rank(counts')

\* The walk stopped before the end of the history: nobody is named.
Unranked == phase' = "editors" /\ UNCHANGED <<pool, left>>

\* One request; the walk is complete when the API has nothing to continue with.
ReadHistory ==
    LET revisions == page.history[batch + 1]
    IN  /\ phase = "history" /\ ~gone
        /\ batch' = batch + 1
        /\ counts' = Tally(counts, revisions)
        /\ total' = total + Len(revisions)
        /\ \/ /\ batch' = Len(page.history)
              /\ Rank(counts')
           \/ /\ batch' < Len(page.history) /\ total' < MaxRevisions
              /\ UNCHANGED <<phase, pool, left>>
           \/ /\ batch' < Len(page.history) /\ total' >= MaxRevisions
              /\ Unranked
        /\ UNCHANGED <<page, gone, metric, countable, names, people, cache, world>>

\* A deleted page: no entry, or an entry without revisions and nothing to
\* continue with, which reads as the end of the history.
HistoryGone ==
    /\ phase = "history" /\ gone
    /\ UNCHANGED <<page, gone, metric, countable, counts, total, batch, names, people,
                   cache, world>>
    /\ Unranked \/ Rank(counts)

-----------------------------------------------------------------------------
(* The counts, and the end of the attempt.                                 *)

\* 404 for a page that is gone.
CountEditors(n) ==
    /\ phase = "editors" /\ ~gone
    /\ phase' = "bots" /\ people' = n
    /\ UNCHANGED <<page, gone, metric, countable, counts, total, pool, left, batch, names,
                   cache, world>>

\* Mutant of Distinct: the counts are taken at their word.
DistinctUnbounded(n) == people - n

\* max(len(contributors), editor_count - bot_count).
Distinct(n) == IF people - n > Len(names) THEN people - n ELSE Len(names)

CountBots(n) ==
    /\ phase = "bots" /\ (gone => n = 0)
    /\ phase' = "save" /\ people' = Distinct(n)
    /\ UNCHANGED <<page, gone, metric, countable, counts, total, pool, left, batch, names,
                   cache, world>>

Save ==
    /\ phase = "save"
    /\ End
    /\ UNCHANGED <<cache, world>>

\* A step that sends a request.
Asks == \/ phase \in {"wikiwho", "history", "editors", "bots"}
        \/ phase = "users" /\ pool # {}
        \/ \E a \in Editor : Looking(a) /\ Contends(a) /\ a \notin Cached

\* It failed in a way worth a retry: nothing is stored.
Fail ==
    /\ Asks
    /\ End
    /\ UNCHANGED <<cache, world>>

\* The worker is restarted, and its cache is gone.
Restart ==
    /\ End
    /\ cache' = NoCache
    /\ everBot' = bots /\ everClean' = Editor \ bots
    /\ UNCHANGED <<bots, flags>>

\* A steward flags or unflags a bot.
Flag(a) ==
    /\ flags < MaxFlags
    /\ bots' = IF a \in bots THEN bots \ {a} ELSE bots \cup {a}
    /\ everBot' = everBot \cup bots' /\ everClean' = everClean \cup (Editor \ bots')
    /\ flags' = flags + 1
    /\ UNCHANGED <<phase, page, gone, job, cache>>

Delete ==
    /\ phase # "idle" /\ ~gone
    /\ gone' = TRUE
    /\ UNCHANGED <<phase, page, job, cache, world>>

Next ==
    \/ Begin \/ WikiWhoAnswers \/ WikiWhoRefuses \/ ResolveUsers
    \/ \E a \in Author : PassOver(a) \/ Recall(a) \/ AskCentralAuth(a)
    \/ Settle \/ FallThrough
    \/ ReadHistory \/ HistoryGone
    \/ \E n \in 0..MaxCount : CountEditors(n) \/ CountBots(n)
    \/ Save \/ Fail \/ Restart
    \/ \E a \in Flaggable : Flag(a)
    \/ Delete

Spec == Init /\ [][Next]_vars

-----------------------------------------------------------------------------
(* What is asked of it.                                                    *)

Named == {names[i] : i \in 1..Len(names)}

\* Every variable stays in its range, the cache within its limit, and the count
\* stored with the names is at least their number.
TypeOK ==
    /\ phase \in Phases /\ gone \in BOOLEAN /\ page \in Pages /\ metric \in Metrics
    /\ counts \in [Author -> Nat] /\ {countable, total, batch, flags} \subseteq Nat
    /\ pool \subseteq Editor /\ left \subseteq Author /\ names \in Seq(Editor) /\ Len(names) <= Shown
    /\ people \in Nat /\ (phase = "save" => people >= Len(names))
    /\ cache \in [bot : SUBSET Editor, clean : SUBSET Editor]
    /\ Cardinality(Cached) <= CacheSize
    /\ bots \subseteq Editor /\ everBot \subseteq Editor /\ everClean \subseteq Editor

\* "Bots, temporary accounts and missing users are unnameable through either
\* path": whichever rung names an account, MediaWiki knows it, nothing it shows
\* bars it, it clears the gates of the rung, and CentralAuth listed it in no bot
\* group at some moment since the worker started.
OnlyNameableNamed ==
    \A a \in Named : /\ a \in Answered \ Barred /\ a \in everClean
                     /\ counts[a] > 0 /\ Clears(metric, counts[a], total)

\* The names are final, and the page was still there to be counted.
Decided == phase \in {"bots", "save"}

\* The revisions in the first n batches of a page's history, by batch and place.
Revisions(p, n) == UNION {{b} \X (1..Len(p.history[b])) : b \in 1..n}
By(p, n, a) == {r \in Revisions(p, n) : p.history[r[1]][r[2]] = a}
Edits(p, n) == [a \in Author |-> IF a = 0 THEN 0 ELSE Cardinality(By(p, n, a))]

Batches == Len(page.history)

\* What a rung counts on a page, said once more without the walk.
Evidence(m) == IF m = "tokens" THEN page.tokens ELSE Edits(page, Batches)

\* The history is read whole: the budget is not spent before the last batch.
WithinBudget == Cardinality(Revisions(page, Batches - 1)) < MaxRevisions

\* a is within the pool however its ties fall, may be named, and was no bot.
Deserves(m, a) ==
    /\ Evidence(m)[a] > 0
    /\ Cardinality({b \in Editor : Evidence(m)[b] >= Evidence(m)[a]}) <= PoolSize
    /\ a \in Answered \ (Barred \cup everBot)
    /\ Clears(m, Evidence(m)[a], TokenTotal(page))

\* The order of the checks costs nobody a place ("the set of names is the same
\* either way"): among those within the pool, nobody who may be named is left
\* out for somebody with a smaller count, or while a place is free.
NobodyOvertaken ==
    Decided /\ names # <<>> =>
        \A a \in Editor \ Named :
            Deserves(metric, a) => /\ Len(names) = Shown
                                   /\ \A b \in Named : counts[b] >= counts[a]

\* "Three rungs, tried in order": edits are resorted to only when WikiWho
\* refused or none of the text's authors may be named, and nobody is named only
\* when neither rung has anybody, or the history is longer than the budget.
LadderDescends ==
    Decided =>
        /\ metric = "edits" /\ countable > 0 => \A a \in Editor : ~Deserves("tokens", a)
        /\ names = <<>> => /\ metric = "edits"
                           /\ WithinBudget => \A a \in Editor : ~Deserves("edits", a)

\* "A history longer than that is left unranked rather than ranked from its
\* newest slice": who is named for edits is ranked by the whole history, also
\* when the page is deleted between two of its batches.
WholeHistoryRanked ==
    Decided /\ metric = "edits" /\ names # <<>> =>
        counts = Edits(page, Batches) /\ total = Cardinality(Revisions(page, Batches))
=============================================================================
