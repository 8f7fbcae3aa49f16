-------------------------------- MODULE Gadget --------------------------------
(***************************************************************************)
(* The gadget in one tab of a reader's browser (wikipeople.js): the views  *)
(* of one article and of its history, one after the other.  An article     *)
(* view draws a box at once and fills it in when the API answers: two      *)
(* asynchronous functions run side by side, one that asks the API and asks *)
(* again while the answer is pending, one that gives up the loading label  *)
(* after a while, and the view waits for both.  A history view asks only   *)
(* for the count its introduction has a slot for.                          *)
(*                                                                         *)
(* Whatever JavaScript runs between two awaits is one step.  Timers fire   *)
(* on time.  Leaving the page ends whatever it was doing; the session      *)
(* cache stays.                                                            *)
(***************************************************************************)
EXTENDS Integers, Sequences

CONSTANTS
    Settle,          \* PENDING_SETTLE_MS, in ticks
    Timeout,         \* REQUEST_TIMEOUT_MS
    Delays,          \* PENDING_RETRY_DELAYS_MS
    MaxAge           \* CLIENT_CACHE_MAX_AGE_MS

ASSUME GadgetAssumption ==
    /\ {Settle, Timeout, MaxAge} \subseteq Nat \ {0}
    /\ Delays \in Seq(Nat \ {0})

VARIABLES
    server,     \* what the API has for the page
    cache,      \* session storage: the answer kept for the page, and its age
    view,       \* the page the tab shows
    request,    \* contributionData
    holder,     \* runCountPlaceholder
    elapsed     \* Date.now() - startedAt

vars == <<server, cache, view, request, holder, elapsed>>

\* A ready answer counts somebody, or nobody.
Data == {"people", "nobody"}
NoData == "none"

Kinds == {"article", "history", "other"}
Boxes == {"none", "loading", "vague", "final", "intro", "filled"}

\* place: the skin has room for a box; slot: the introduction asks for a count.
View == [kind : Kinds, place : BOOLEAN, slot : BOOLEAN, box : Boxes, open : BOOLEAN]

NoRequest == [phase |-> "off", attempt |-> 0, timer |-> 0, data |-> NoData, failed |-> FALSE]
NoCache == [data |-> NoData, age |-> 0]

Init ==
    /\ server \in {"unsupported", "pending", "ready"}
    /\ cache = NoCache
    /\ view = [kind |-> "other", place |-> FALSE, slot |-> FALSE, box |-> "none", open |-> FALSE]
    /\ request = NoRequest
    /\ holder = "off"
    /\ elapsed = 0

-----------------------------------------------------------------------------
(* Views.                                                                  *)

\* readCache: what is older than its maximum is removed.
Cached == IF cache.data # NoData /\ cache.age <= MaxAge THEN cache.data ELSE NoData
Purged == IF Cached = NoData THEN NoCache ELSE cache

\* buildArticleSummary has nothing to say of nobody.
Sentence(v, data) ==
    [v EXCEPT !.open = FALSE, !.box = IF data = "people" /\ v.place THEN "final" ELSE "none"]

\* Mutant of Concluded: no answer is told before a failure is.
ConcludedEarly(v, r) ==
    IF r.data = NoData THEN [v EXCEPT !.open = FALSE]
    ELSE IF r.failed THEN [v EXCEPT !.open = FALSE, !.box = "none"]
    ELSE Sentence(v, r.data)

\* An article view whose request and placeholder have both ended: a failure leaves
\* no trace, no answer leaves what the placeholder settled on.
Concluded(v, r) ==
    IF r.failed THEN [v EXCEPT !.open = FALSE, !.box = "none"]
    ELSE IF r.data = NoData THEN [v EXCEPT !.open = FALSE]
    ELSE Sentence(v, r.data)

\* fillContributorCount: only an answer that counts somebody changes the wording.
Filled(v, r) ==
    [v EXCEPT !.open = FALSE, !.box = IF r.data = "people" THEN "filled" ELSE @]

Asked == [NoRequest EXCEPT !.phase = "fetch", !.timer = Timeout]

OpenArticle(place) ==
    LET fresh == [kind |-> "article", place |-> place, slot |-> FALSE,
                  box |-> IF place THEN "loading" ELSE "none", open |-> TRUE]
    IN  /\ cache' = Purged
        /\ elapsed' = 0
        /\ IF Cached # NoData
           THEN /\ view' = Sentence(fresh, Cached)
                /\ request' = NoRequest /\ holder' = "off"
           ELSE /\ view' = fresh
                /\ request' = Asked
                /\ holder' = IF place THEN "wait" ELSE "done"
        /\ UNCHANGED server

\* The introduction is there, whatever it took to load it; then the count is asked
\* for, once, if it is wanted.
OpenHistory(slot) ==
    LET intro == [kind |-> "history", place |-> TRUE, slot |-> slot, box |-> "intro",
                  open |-> slot]
    IN  /\ cache' = IF slot THEN Purged ELSE cache
        /\ elapsed' = 0
        /\ holder' = "off"
        /\ IF slot /\ Cached = NoData
           THEN view' = intro /\ request' = Asked
           ELSE /\ view' = Filled(intro, [NoRequest EXCEPT !.data = IF slot THEN Cached ELSE NoData])
                /\ request' = NoRequest
        /\ UNCHANGED server

\* Any other page of the wiki.
Leave ==
    /\ view' = [kind |-> "other", place |-> FALSE, slot |-> FALSE, box |-> "none", open |-> FALSE]
    /\ request' = NoRequest /\ holder' = "off" /\ elapsed' = 0
    /\ UNCHANGED <<server, cache>>

-----------------------------------------------------------------------------
(* loadContributionData and fetchJson.                                     *)

\* Mutant of Retries: a history view retries as well.
RetriesAlways == Delays

\* A history view does not retry.
Retries == IF view.kind = "article" THEN Delays ELSE <<>>

\* The request has ended: the view goes on when nothing else holds it.
Ended(r) ==
    /\ request' = r
    /\ view' = IF view.kind = "history" THEN Filled(view, r)
               ELSE IF holder = "done" THEN Concluded(view, r) ELSE view
    /\ UNCHANGED <<server, holder, elapsed>>

Ready(data) ==
    /\ request.phase = "fetch" /\ server = "ready"
    /\ cache' = [data |-> data, age |-> 0]
    /\ Ended([request EXCEPT !.phase = "done", !.data = data])

MayRetry == request.attempt < Len(Retries)

\* 202: wait and ask again, until the delays are used up.
Pending ==
    /\ request.phase = "fetch" /\ server = "pending"
    /\ IF MayRetry
       THEN /\ request' = [request EXCEPT !.phase = "wait",
                              !.attempt = @ + 1, !.timer = Retries[request.attempt + 1]]
            /\ UNCHANGED <<server, view, holder, elapsed>>
       ELSE Ended([request EXCEPT !.phase = "done"])
    /\ UNCHANGED cache

Retry ==
    /\ request.phase = "wait" /\ request.timer = 0
    /\ request' = [request EXCEPT !.phase = "fetch", !.timer = Timeout]
    /\ UNCHANGED <<server, cache, view, holder, elapsed>>

\* An HTTP error, an answer of another shape, or no connection.
Refused ==
    /\ request.phase = "fetch"
    /\ Ended([request EXCEPT !.phase = "done", !.failed = TRUE])
    /\ UNCHANGED cache

\* Mutant of TimedOut: nothing aborts the request.
TimedOutNever == FALSE

TimedOut == request.phase = "fetch" /\ request.timer = 0

\* The AbortController ends the request.
AbortRequest ==
    /\ TimedOut
    /\ Ended([request EXCEPT !.phase = "done", !.failed = TRUE])
    /\ UNCHANGED cache

-----------------------------------------------------------------------------
(* runCountPlaceholder.                                                    *)

\* Mutant of SettleDue: the timer starts when the first attempt has ended.
SettleDueLater == holder = "wait" /\ elapsed >= Settle /\ request.attempt > 0

\* countDisplayState is no longer 'loading'.
SettleDue == holder = "wait" /\ elapsed >= Settle

\* The one timer fires: settle for the vague wording, unless the request has ended.
StopHolding ==
    /\ SettleDue
    /\ holder' = "done"
    /\ view' = IF request.phase = "done" THEN Concluded(view, request)
               ELSE [view EXCEPT !.box = "vague"]
    /\ UNCHANGED <<server, cache, request, elapsed>>

-----------------------------------------------------------------------------
(* The service, and time.                                                  *)

\* A worker finishes, a page is edited, a wiki is switched on or off.
Serve ==
    /\ \E s \in {"unsupported", "pending", "ready"} : server' = s
    /\ UNCHANGED <<cache, view, request, holder, elapsed>>

\* What the delays before the first n retries add up to.
Waited[n \in 0..Len(Delays)] == IF n = 0 THEN 0 ELSE Delays[n] + Waited[n - 1]

\* The longest an article view may take: every attempt runs into its timeout.
Longest == (Len(Delays) + 1) * Timeout + Waited[Len(Delays)]

\* The clock of a view that has ended stands still; no age above MaxAge matters.
Tick ==
    /\ ~SettleDue /\ ~TimedOut
    /\ ~(request.phase = "wait" /\ request.timer = 0)
    /\ elapsed' = IF view.open /\ elapsed <= Longest THEN elapsed + 1 ELSE elapsed
    /\ request' = IF request.phase \in {"fetch", "wait"} /\ request.timer > 0
                  THEN [request EXCEPT !.timer = @ - 1] ELSE request
    /\ cache' = IF cache.data # NoData /\ cache.age <= MaxAge
                THEN [cache EXCEPT !.age = @ + 1] ELSE cache
    /\ UNCHANGED <<server, view, holder>>

Next ==
    \/ \E b \in BOOLEAN : OpenArticle(b) \/ OpenHistory(b)
    \/ Leave
    \/ \E data \in Data : Ready(data)
    \/ Pending \/ Retry \/ Refused \/ AbortRequest
    \/ StopHolding
    \/ Serve
    \/ Tick

Spec == Init /\ [][Next]_vars

-----------------------------------------------------------------------------
(* What is asked of it.                                                    *)

\* States and ages are in range; an article view asks again once for every delay, a
\* history view never.
TypeOK ==
    /\ server \in {"unsupported", "pending", "ready"}
    /\ cache \in [data : Data \cup {NoData}, age : 0..(MaxAge + 1)]
    /\ view \in View
    /\ request \in [phase : {"off", "fetch", "wait", "done"}, attempt : 0..Len(Delays),
                    timer : Nat, data : Data \cup {NoData}, failed : BOOLEAN]
    /\ view.kind # "article" => request.attempt = 0
    /\ holder \in {"off", "wait", "done"}
    /\ elapsed \in Nat

\* The box of an article view says what is known, in whichever order the request and
\* the placeholder ended: "an error is not a slow answer", so a failure leaves no box,
\* an answer leaves its sentence, and only a page that is still pending after every
\* retry is left with the vague wording.
BoxTellsOutcome ==
    view.kind = "article" /\ ~view.open /\ request.phase = "done" =>
        view.box = IF request.failed \/ ~view.place \/ request.data = "nobody" THEN "none"
                   ELSE IF request.data = "people" THEN "final" ELSE "vague"

\* "At PENDING_SETTLE_MS the label gives up": no view says that it is loading for
\* longer, whatever the request does.
LabelGivesUp == view.box = "loading" => elapsed <= Settle

\* Every view comes to an end, within the time its retries and timeouts add up to.
ViewsEnd == view.open => elapsed <= Longest
=============================================================================
