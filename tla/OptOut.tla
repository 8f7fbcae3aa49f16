-------------------------------- MODULE OptOut --------------------------------
(***************************************************************************)
(* The way of an opt-out from the on-wiki list to a reader's screen        *)
(* (ADR-0008, ADR-0007): the optout-sync job of one wiki resolves the list *)
(* into the table page_optout, the API looks the page up when it builds an *)
(* answer, and two caches of the reader's browser stand in between: HTTP,  *)
(* with max-age and stale-while-revalidate, and the gadget's own session   *)
(* storage.                                                                *)
(*                                                                         *)
(* The page the reader looks at has a result and is not edited meanwhile,  *)
(* so that its URL stays the same.                                         *)
(***************************************************************************)
EXTENDS Integers, FiniteSets

CONSTANTS
    Page,
    Title,           \* titles of articles that the list may name
    Category,        \* categories that it may name
    Limit,           \* optout_category_limit
    Viewed,          \* the page a reader looks at
    MaxAge,          \* page_cache_seconds and CLIENT_CACHE_MAX_AGE_MS, in ticks
    Revalidate,      \* page_stale_while_revalidate_seconds, in ticks
    Nothing,         \* no page
    MaxChanges       \* bound: how often something changes on the wiki or fails

ASSUME OptOutAssumption ==
    /\ Viewed \in Page /\ Nothing \notin Page
    /\ IsFiniteSet(Page) /\ Title \cap Category = {}
    /\ {Limit, MaxAge, Revalidate, MaxChanges} \subseteq Nat /\ MaxAge > 0

VARIABLES
    listed,     \* the links on the list page: titles and categories
    resolves,   \* the page each title leads to, redirects followed
    members,    \* the articles directly in each category
    meant,      \* history: the page each title led to when it was put on the list
    table,      \* page_optout: the pages opted out
    run,        \* the run of sync_wiki in progress
    http,       \* the browser's HTTP cache: what it holds for the page viewed
    session,    \* the gadget's session cache
    shown,      \* what the reader was shown in this tick
    clock,      \* history: ticks since the answer changed, and since the API gave it
    moved,      \* history: links touched since the run in progress began
    changes     \* how often something changed or failed

wiki == <<listed, resolves, members, meant>>
reader == <<http, session, shown>>
vars == <<wiki, table, run, reader, clock, moved, changes>>

Target == Title \cup Category

\* What an answer says: "names", or "count" of a page opted out.
Answers == {"names", "count"}
Policy(pages) == IF Viewed \in pages THEN "count" ELSE "names"

\* Bound: no older age is told apart.
AgeCap == 2 * MaxAge + Revalidate
Empty == [answer |-> "none", age |-> 0]
Stored(answer) == [answer |-> answer, age |-> 0]

NoRun == [phase |-> "idle", targets |-> {}, entries |-> {}, todo |-> {}]

\* Ticks since the answer last changed, and since the API first gave this browser the
\* changed answer.
Unseen == -1
NewClock == [change |-> 0, load |-> Unseen]

Init ==
    /\ listed = {}
    /\ resolves \in [Title -> Page]
    /\ members \in [Category -> SUBSET Page]
    /\ meant = [t \in Title |-> Nothing]
    /\ table = {}
    /\ run = NoRun
    /\ http = Empty /\ session = Empty /\ shown = "none"
    /\ clock = NewClock
    /\ moved = {}
    /\ changes = 0

-----------------------------------------------------------------------------
(* The wiki.                                                               *)

Count == changes < MaxChanges /\ changes' = changes + 1
Change(t) == Count /\ moved' = moved \cup {t}

\* An entry is added to the list, or taken off it.
EditList(t) ==
    /\ listed' = IF t \in listed THEN listed \ {t} ELSE listed \cup {t}
    /\ meant' = [u \in Title |-> IF u # t THEN meant[u]
                                ELSE IF t \in listed THEN Nothing ELSE resolves[t]]
    /\ Change(t)
    /\ UNCHANGED <<resolves, members, table, run, reader, clock>>

\* The title leads elsewhere: its article is moved without leaving a redirect, or is
\* deleted, or another article takes the title. A move that leaves a redirect changes
\* nothing here, redirects being followed.
Retitle(t) ==
    /\ \E p \in (Page \cup {Nothing}) \ {resolves[t]} : resolves' = [resolves EXCEPT ![t] = p]
    /\ Change(t)
    /\ UNCHANGED <<listed, members, meant, table, run, reader, clock>>

Recategorise(c) ==
    /\ \E p \in Page : members' = [members EXCEPT ![c] = (@ \ {p}) \cup ({p} \ @)]
    /\ Change(c)
    /\ UNCHANGED <<listed, resolves, meant, table, run, reader, clock>>

-----------------------------------------------------------------------------
(* The job.                                                                *)

\* get_wikitext and parse_optout_page; no such page is an empty list. (get_wikitext
\* also takes an answer with neither pages nor revisions for an empty list; here
\* MediaWiki answers in full or the run is aborted.)
Begin ==
    /\ run.phase = "idle"
    /\ run' = [NoRun EXCEPT !.phase = "classify", !.targets = listed]
    /\ moved' = {}
    /\ UNCHANGED <<wiki, table, reader, clock, changes>>

\* Mutant of Existing: a title without a page is an entry as well.
ExistingOrNot(S) == S

\* A title that leads nowhere is skipped.
Existing(S) == S \ {Nothing}

\* classify_titles, and the entries that are articles.
Classify ==
    /\ run.phase = "classify"
    /\ run' = [run EXCEPT !.phase = "members",
                  !.entries = Existing({resolves[t] : t \in run.targets \cap Title}),
                  !.todo = run.targets \cap Category]
    /\ UNCHANGED <<wiki, table, reader, clock, moved, changes>>

\* category_members: direct members, no more than Limit of them.
Least(m, n) == IF m < n THEN m ELSE n

ReadCategory(c) ==
    /\ run.phase = "members" /\ c \in run.todo
    /\ \E S \in SUBSET members[c] :
          /\ Cardinality(S) = Least(Cardinality(members[c]), Limit)
          /\ run' = [run EXCEPT !.entries = @ \cup S, !.todo = @ \ {c}]
    /\ UNCHANGED <<wiki, table, reader, clock, moved, changes>>

\* Mutant of Written: the rows are merged, nothing is removed.
WrittenMerged == table \cup run.entries

\* replace_optout: the table becomes the entries exactly.
Written == run.entries

Replace ==
    /\ run.phase = "members" /\ run.todo = {}
    /\ table' = Written
    /\ run' = NoRun
    /\ clock' = IF Policy(table') = Policy(table) THEN clock ELSE NewClock
    /\ UNCHANGED <<wiki, reader, moved, changes>>

\* Mutant of Interrupted: what a failed request did not answer is left out.
InterruptedSkips == [run EXCEPT !.phase = "members", !.todo = {}]

\* An exception ends the run of this wiki.
Interrupted == NoRun

\* A request to MediaWiki fails, or the job is killed.
Abort ==
    /\ run.phase # "idle"
    /\ run' = Interrupted
    /\ Count
    /\ UNCHANGED <<wiki, table, reader, clock, moved>>

-----------------------------------------------------------------------------
(* The reader.                                                             *)

\* Mutant of InSession: the session cache does not age.
InSessionForever == session # Empty

\* readCache: an entry older than its maximum is removed.
InSession == session # Empty /\ session.age <= MaxAge

\* Cache-Control of a ready answer: it is reused up to max-age, and within
\* stale-while-revalidate it is still shown while the browser asks for a new one.
Fresh == http # Empty /\ http.age < MaxAge
Reusable == http # Empty /\ http.age < MaxAge + Revalidate

Show(answer) ==
    /\ shown' = answer
    /\ UNCHANGED <<wiki, table, run, moved, changes>>

ShowAndKeep(answer) == Show(answer) /\ session' = Stored(answer)

\* The API answers a request of the browser.
Answered ==
    /\ http' = Stored(Policy(table))
    /\ clock' = [clock EXCEPT !.load = IF @ = Unseen THEN 0 ELSE @]

\* An answer in the session needs no request.
ViewCached ==
    /\ InSession
    /\ Show(session.answer)
    /\ UNCHANGED <<http, session, clock>>

\* page_attribution_by_freshness, through the HTTP cache, which asks the API for what
\* it holds no longer. A request that fails leaves the reader with no answer.
ViewFresh ==
    /\ ~InSession /\ Fresh
    /\ ShowAndKeep(http.answer)
    /\ UNCHANGED <<http, clock>>

\* The request behind a stale answer may be lost; the answer is then reusable as before.
ViewStale ==
    /\ ~InSession /\ Reusable /\ ~Fresh
    /\ ShowAndKeep(http.answer)
    /\ Answered \/ UNCHANGED <<http, clock>>

ViewAsked ==
    /\ ~InSession /\ ~Reusable
    /\ ShowAndKeep(Policy(table))
    /\ Answered

\* The session ends with its tab.
CloseTab ==
    /\ session # Empty
    /\ session' = Empty /\ shown' = "none"
    /\ UNCHANGED <<wiki, table, run, http, clock, moved, changes>>

-----------------------------------------------------------------------------
Older(entry) == IF entry = Empty \/ entry.age = AgeCap THEN entry
                ELSE [entry EXCEPT !.age = @ + 1]

Later(n) == IF n = Unseen \/ n = AgeCap THEN n ELSE n + 1

Tick ==
    /\ http' = Older(http) /\ session' = Older(session) /\ shown' = "none"
    /\ clock' = [k \in DOMAIN clock |-> Later(clock[k])]
    /\ UNCHANGED <<wiki, table, run, moved, changes>>

Next ==
    \/ \E t \in Target : EditList(t)
    \/ \E t \in Title : Retitle(t)
    \/ \E c \in Category : Recategorise(c) \/ ReadCategory(c)
    \/ Begin \/ Classify \/ Replace \/ Abort
    \/ ViewCached \/ ViewFresh \/ ViewStale \/ ViewAsked \/ CloseTab
    \/ Tick

Spec == Init /\ [][Next]_vars

\* The job is started again and again, and a run that has begun goes on.
Fairness ==
    WF_vars(Begin \/ Classify \/ Replace \/ \E c \in Category : ReadCategory(c))

FairSpec == Spec /\ Fairness

-----------------------------------------------------------------------------
(* What is asked of it.                                                    *)

Entries == [answer : Answers \cup {"none"}, age : 0..AgeCap]
Ticks == {Unseen} \cup 0..AgeCap

\* Only pages are opted out, only their entries are collected, and a cached answer is
\* one of the two that the API gives.
TypeOK ==
    /\ listed \subseteq Target /\ moved \subseteq Target
    /\ resolves \in [Title -> Page \cup {Nothing}]
    /\ members \in [Category -> SUBSET Page]
    /\ meant \in [Title -> Page \cup {Nothing}]
    /\ table \subseteq Page
    /\ run \in [phase : {"idle", "classify", "members"}, targets : SUBSET Target,
                entries : SUBSET Page, todo : SUBSET Category]
    /\ {http, session} \subseteq Entries
    /\ shown \in Answers \cup {"none"}
    /\ clock \in [{"change", "load"} -> Ticks]
    /\ changes \in 0..MaxChanges

\* The page is covered by an entry, whatever MediaWiki says of the order of a
\* category that is too large.
CoveredBy(p, S) ==
    \/ \E t \in S \cap Title : resolves[t] = p
    \/ \E c \in S \cap Category : p \in members[c] /\ Cardinality(members[c]) <= Limit

\* "A network failure must not read as 'everybody withdrew their opt-out'"
\* (sync_wiki): no step of a run withdraws a page that an entry covers throughout
\* the run, whichever of its requests fails and however far it got.
OptOutsSurvive ==
    [][\A p \in table : CoveredBy(p, (run.targets \cap listed) \ moved) => p \in table']_vars

\* Once nothing changes or fails any more, the list governs: what it covers is opted
\* out, and what it no longer covers is named again. Nothing is
\* said of a page whose title has come to lead elsewhere: whether the opt-out should
\* follow the article (models.py:128-130) or the title, every run goes by the title.
ListSettles ==
    <>[](\A p \in Page :
            /\ CoveredBy(p, listed) => p \in table
            /\ p \in table => \/ \E t \in listed \cap Title : p \in {resolves[t], meant[t]}
                              \/ \E c \in listed \cap Category : p \in members[c])

\* A change reaches the reader through both caches, in one of two times. Once the API
\* has given the browser the changed answer, be it behind a stale one, every view more
\* than MaxAge later shows it. And however many of those requests are lost, every view
\* shows it when the change is 2 * MaxAge + Revalidate old: an answer may be reused for
\* MaxAge + Revalidate, and is kept in a session for MaxAge after its last use.
ReachesReader ==
    shown # "none" /\ (clock.load > MaxAge \/ clock.change >= 2 * MaxAge + Revalidate)
        => shown = Policy(table)
=============================================================================
