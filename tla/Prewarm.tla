------------------------------- MODULE Prewarm -------------------------------
(***************************************************************************)
(* The daily prewarming of popular articles.  A run takes every wiki that  *)
(* has a result or is pinned, and for each of them walks back over the     *)
(* pageview lists until it has loaded enough days (a list may be published *)
(* late), resolves the titles of those days to pages, and hands the        *)
(* articles to the queue.                                                  *)
(*                                                                         *)
(* Nothing is handed over for a wiki before all its titles are resolved.   *)
(* An upstream that fails costs the wiki at hand its turn; an exception of *)
(* another kind, or the job's timeout, costs everybody who is still to     *)
(* come theirs.  Workers enrol wikis, days pass and lists are published    *)
(* while a run goes on.                                                    *)
(***************************************************************************)
EXTENDS Integers, FiniteSets

CONSTANTS
    LastWiki,       \* the wikis are 1..LastWiki, sorted by name
    Capable,        \* those WikiWho covers
    Pinned,         \* PREWARM_WIKIS
    Title,          \* titles, in their order
    Page,           \* what titles lead to
    PageOf,         \* which page each leads to, redirects resolved, if any
    Article,        \* the pages in the main namespace
    Top,            \* the pageview list of each wiki and day
    TargetDays,     \* --days
    LookbackDays,   \* lookback_days
    ResolveBatch,   \* titles in one request
    MaxDay,         \* bound: the last day that passes
    MaxFailures     \* bound: how often a request or a run fails

Wiki == 1..LastWiki
Day == 1..MaxDay
NoPage == -1

ASSUME PrewarmAssumption ==
    /\ {LastWiki, MaxFailures} \subseteq Nat
    /\ {TargetDays, LookbackDays, ResolveBatch, MaxDay} \subseteq Nat \ {0}
    /\ TargetDays <= LookbackDays
    /\ Capable \subseteq Wiki /\ Pinned \subseteq Wiki /\ Article \subseteq Page
    /\ Title \subseteq Nat /\ Page \subseteq Nat
    /\ PageOf \in [Title -> Page \cup {NoPage}]
    /\ Top \in [Wiki -> [Day -> SUBSET Title]]

VARIABLES
    today,      \* the current day
    published,  \* the days whose list each wiki's readers can ask for
    active,     \* active_wikis: a worker has stored a result
    run,        \* what the run in progress holds in memory
    targets,    \* history: the wikis of the last run
    hurt,       \* history: those of them whose upstreams failed
    cut,        \* history: did it end before its last wiki?
    came,       \* history: the wikis whose turn has come
    base,       \* history: the days each of those could load then
    handed,     \* history: what it handed over for each wiki
    failures

history == <<targets, hurt, cut, came, base, handed, failures>>
world == <<today, published, active>>
vars == <<world, run, history>>

Phases == {"none", "wiki", "days", "titles", "queue"}

\* left: wikis still to come, the one at hand included; ref: the day its walk
\* started on; back: how far it has got; then the days, titles and pages.
Run == [phase : Phases, left : SUBSET Wiki, ref : Day, back : 0..LookbackDays,
        loaded : SUBSET Day, titles : SUBSET Title, pages : SUBSET Page]

NoRun == [phase |-> "none", left |-> {}, ref |-> 1, back |-> 0,
          loaded |-> {}, titles |-> {}, pages |-> {}]

Nothing == [w \in Wiki |-> {}]

Init ==
    /\ today = 1 /\ published = Nothing /\ active = {}
    /\ run = NoRun
    /\ targets = {} /\ hurt = {} /\ cut = FALSE /\ came = {} /\ base = Nothing /\ handed = Nothing
    /\ failures = 0

Here == CHOOSE w \in run.left : \A v \in run.left : w <= v

-----------------------------------------------------------------------------
(* A run.                                                                  *)

\* Mutant of Covered: the discovered wikis are forgotten.
CoveredPinned == Pinned \cap Capable

\* resolve_target_wikis.
Covered == (active \cup Pinned) \cap Capable

Begin ==
    /\ run.phase = "none" /\ Covered # {}
    /\ run' = [NoRun EXCEPT !.phase = "wiki", !.left = Covered]
    /\ targets' = Covered /\ hurt' = {} /\ cut' = FALSE /\ came' = {}
    /\ base' = Nothing /\ handed' = Nothing
    /\ UNCHANGED <<world, failures>>

\* The days a walk that starts now asks for.
Window == {d \in Day : d < today /\ d >= today - LookbackDays}

Turn ==
    /\ run.phase = "wiki"
    /\ run' = [run EXCEPT !.phase = "days", !.ref = today]
    /\ came' = came \cup {Here}
    /\ base' = [base EXCEPT ![Here] = published[Here] \cap Window]
    /\ UNCHANGED <<world, targets, hurt, cut, handed, failures>>

\* Mutant of NextWiki: the end of the list is not looked at.
NextAlways == run' = [NoRun EXCEPT !.phase = "wiki", !.left = run.left \ {Here}]

\* The wiki at hand is done with, and the next one's turn comes.
NextWiki ==
    run' = IF run.left = {Here} THEN NoRun
           ELSE [NoRun EXCEPT !.phase = "wiki", !.left = run.left \ {Here}]

\* Mutant of Enough: days asked for are counted, published or not.
EnoughAsked(loaded, back) == back = TargetDays

Enough(loaded, back) == Cardinality(loaded) = TargetDays

\* One day's list, or 404 while it is not published.
AskDay ==
    LET back == run.back + 1
        d == run.ref - back
        loaded == run.loaded \cup ({d} \cap published[Here])
        titles == run.titles \cup (IF d \in published[Here] THEN Top[Here][d] ELSE {})
        walked == Enough(loaded, back) \/ back = LookbackDays
    IN  /\ run.phase = "days"
        /\ IF walked /\ loaded = {}
           THEN NextWiki
           ELSE run' = [run EXCEPT !.back = back, !.loaded = loaded, !.titles = titles,
                                   !.phase = IF walked THEN "titles" ELSE "days"]
        /\ UNCHANGED <<world, history>>

FirstTitles ==
    {B \in SUBSET run.titles :
        /\ \A t \in B, u \in run.titles \ B : t < u
        /\ \/ B = run.titles /\ Cardinality(B) <= ResolveBatch
           \/ B # run.titles /\ Cardinality(B) = ResolveBatch}

\* resolve_titles, one request: titles that lead nowhere are left out.
Resolve ==
    /\ run.phase = "titles" /\ run.titles # {}
    /\ \E B \in FirstTitles :
          run' = [run EXCEPT !.titles = @ \ B,
                             !.pages = @ \cup ({PageOf[t] : t \in B} \ {NoPage})]
    /\ UNCHANGED <<world, history>>

Resolved ==
    /\ run.phase = "titles" /\ run.titles = {}
    /\ run' = [run EXCEPT !.phase = "queue", !.pages = @ \cap Article]
    /\ UNCHANGED <<world, history>>

\* enqueue_if_stale, a page and a transaction at a time.
Hand(p) ==
    /\ run.phase = "queue" /\ p \in run.pages
    /\ run' = [run EXCEPT !.pages = @ \ {p}]
    /\ handed' = [handed EXCEPT ![Here] = @ \cup {p}]
    /\ UNCHANGED <<world, targets, hurt, cut, came, base, failures>>

Finish ==
    /\ run.phase = "queue" /\ run.pages = {}
    /\ NextWiki
    /\ UNCHANGED <<world, history>>

\* Mutant of Isolated: the exception ends the loop.
IsolatedNot == run' = NoRun

\* "One unavailable wiki must not cancel prewarming for the others."
Isolated == NextWiki

\* A WikiPeopleError: pageviews or MediaWiki fail.
Unavailable ==
    /\ run.phase = "days" \/ (run.phase = "titles" /\ run.titles # {})
    /\ failures < MaxFailures
    /\ Isolated
    /\ hurt' = hurt \cup {Here}
    /\ failures' = failures + 1
    /\ UNCHANGED <<world, targets, cut, came, base, handed>>

\* Any other exception, such as enqueue's StaleDataError, or the timeout.
Die ==
    /\ run.phase # "none" /\ failures < MaxFailures
    /\ run' = NoRun
    /\ cut' = TRUE
    /\ failures' = failures + 1
    /\ UNCHANGED <<world, targets, hurt, came, base, handed>>

-----------------------------------------------------------------------------
(* The world around it.                                                    *)

\* register_active_wiki.
Discover(w) ==
    /\ w \notin active
    /\ active' = active \cup {w}
    /\ UNCHANGED <<today, published, run, history>>

Publish(w, d) ==
    /\ d < today /\ d \notin published[w]
    /\ published' = [published EXCEPT ![w] = @ \cup {d}]
    /\ UNCHANGED <<today, active, run, history>>

Midnight ==
    /\ today < MaxDay
    /\ today' = today + 1
    /\ UNCHANGED <<published, active, run, history>>

Go == Turn \/ AskDay \/ Resolve \/ Resolved \/ (\E p \in Page : Hand(p)) \/ Finish

Next ==
    \/ Begin \/ Go \/ Unavailable \/ Die \/ Midnight
    \/ \E w \in Wiki : Discover(w) \/ \E d \in Day : Publish(w, d)

Spec == Init /\ [][Next]_vars

\* The job is scheduled for ever, a run goes on, and a list is published some time.
Fairness ==
    /\ WF_vars(Begin) /\ WF_vars(Go) /\ WF_vars(Midnight)
    /\ \A w \in Wiki, d \in Day : WF_vars(Publish(w, d))

FairSpec == Spec /\ Fairness

-----------------------------------------------------------------------------
(* What is asked of it.                                                    *)

\* Every variable stays in its range; a run in progress is at one of its wikis,
\* never loads more days than it wants, and holds pages only once every title
\* of them is resolved.
TypeOK ==
    /\ today \in Day /\ published \in [Wiki -> SUBSET Day] /\ active \subseteq Wiki
    /\ run \in Run /\ (run.phase # "none" => run.left # {})
    /\ Cardinality(run.loaded) <= TargetDays
    /\ targets \subseteq Wiki /\ hurt \subseteq targets /\ came \subseteq targets /\ cut \in BOOLEAN
    /\ base \in [Wiki -> SUBSET Day] /\ handed \in [Wiki -> SUBSET Page]
    /\ failures \in 0..MaxFailures

Popular(w, D) == {PageOf[t] : t \in UNION {Top[w][d] : d \in D}} \cap Article

\* Nothing that could be had is missing from D, but for as many later days.
Freshest(D, have) ==
    /\ Cardinality(D) <= TargetDays
    /\ \A d \in have \ D : Cardinality({l \in D : l > d}) = TargetDays

\* "One unavailable wiki must not cancel prewarming for the others", and "not
\* published yet" must not cost a day: a run that was not cut short has handed
\* over, for every wiki whose upstreams answered, exactly the popular articles
\* of the freshest days it could load -- wherever in the list the failures, the
\* late publications and midnight fell.
EachWikiOnItsOwn ==
    run.phase = "none" /\ ~cut =>
        /\ came = targets
        /\ \A w \in targets \ hurt :
              \E D \in SUBSET published[w] :
                  Freshest(D, base[w]) /\ handed[w] = Popular(w, D)

\* A wiki is prewarmed "from then on" once a worker has stored a result for it:
\* when days, lists and failures have settled, every run to the end of its turn
\* hands over what is popular on the last days.
Discovered ==
    \A w \in Capable :
        [](w \in active =>
              <>(handed[w] # {} /\ \E D \in SUBSET Day :
                    Freshest(D, published[w] \cap Window) /\ handed[w] = Popular(w, D)))
=============================================================================
