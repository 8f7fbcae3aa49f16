----------------------------- MODULE GadgetProofs -----------------------------
(***************************************************************************)
(* Theorems about Gadget, for any timeouts, any number of retries and any  *)
(* delays between them.                                                    *)
(***************************************************************************)
EXTENDS Gadget, WellFoundedInduction, TLAPS

-----------------------------------------------------------------------------
(* What the delays add up to.                                              *)

Steps == Len(Delays)

LEMMA NumbersTyped ==
    /\ Settle \in Nat \ {0} /\ Timeout \in Nat \ {0} /\ MaxAge \in Nat \ {0}
    /\ Steps \in Nat /\ \A n \in 1..Steps : Delays[n] \in Nat
BY GadgetAssumption DEF Steps

\* A nonempty set of naturals has a least element.
LEMMA LeastElement ==
    ASSUME NEW T, T \subseteq Nat, T # {}
    PROVE  \E x \in T : \A y \in T : x <= y
<1>1. \E R : IsWellFoundedOn(R, Nat) /\ \A x, y \in Nat : y < x => <<y, x>> \in R
  <2>1. \A x, y \in Nat : y < x => <<y, x>> \in OpToRel(<, Nat)
    BY DEF OpToRel
  <2>. QED  BY <2>1, NatLessThanWellFounded
<1>2. PICK R : IsWellFoundedOn(R, Nat) /\ \A x, y \in Nat : y < x => <<y, x>> \in R
  BY <1>1
<1>3. PICK x \in T : \A y \in T : ~ (<<y, x>> \in R)
  BY <1>2, WFMin
<1>4. ASSUME NEW y \in T PROVE x <= y
  <2>1. ~ (<<y, x>> \in R)
    BY <1>3
  <2>2. x \in Nat /\ y \in Nat
    OBVIOUS
  <2>3. y < x => <<y, x>> \in R
    BY <1>2, <2>2
  <2>. QED  BY <2>1, <2>2, <2>3
<1>. QED  BY <1>4

\* g adds up the first m delays.
SumsUpTo(m, g) ==
    \A n \in 0..m : g[n] = IF n = 0 THEN 0 ELSE Delays[n] + g[n - 1]

\* There is such a sum: a least m without one would have one, that of m - 1
\* extended by a delay.
LEMMA SumsExist ==
    \A m \in 0..Steps : \E g \in [0..m -> Nat] : SumsUpTo(m, g)
<1>. DEFINE Without == {m \in 0..Steps : ~ \E g \in [0..m -> Nat] : SumsUpTo(m, g)}
<1>1. SUFFICES ASSUME Without # {} PROVE FALSE
  OBVIOUS
<1>2. PICK m \in Without : \A k \in Without : m <= k
  <2>1. Without \subseteq Nat
    BY NumbersTyped
  <2>. HIDE DEF Without
  <2>. QED  BY <1>1, <2>1, LeastElement
<1>3. m \in Nat /\ m <= Steps /\ Steps \in Nat
  BY NumbersTyped
<1>4. CASE m = 0
  <2>. DEFINE g == [n \in 0..0 |-> 0]
  <2>1. g \in [0..m -> Nat] /\ SumsUpTo(m, g)
    BY <1>4 DEF SumsUpTo
  <2>. QED  BY <2>1
<1>5. CASE m # 0
  <2>1. m - 1 \in 0..Steps /\ m - 1 \notin Without
    <3>1. m - 1 \in 0..Steps
      BY <1>3, <1>5
    <3>2. ~ (m <= m - 1)
      BY <1>3
    <3>. HIDE DEF Without
    <3>. QED  BY <1>2, <3>1, <3>2
  <2>2. PICK g \in [0..(m - 1) -> Nat] : SumsUpTo(m - 1, g)
    BY <2>1
  <2>. DEFINE h == [n \in 0..m |-> IF n = m THEN Delays[m] + g[m - 1] ELSE g[n]]
  <2>3. h \in [0..m -> Nat]
    BY <1>3, <1>5, NumbersTyped
  <2>4. ASSUME NEW n \in 0..m PROVE h[n] = IF n = 0 THEN 0 ELSE Delays[n] + h[n - 1]
    BY <1>3, <1>5, <2>2 DEF SumsUpTo
  <2>5. SumsUpTo(m, h)
    BY <2>4 DEF SumsUpTo
  <2>. QED  BY <2>3, <2>5
<1>. QED  BY <1>4, <1>5

LEMMA WaitedSums ==
    /\ Waited \in [0..Steps -> Nat]
    /\ Waited[0] = 0
    /\ \A n \in 1..Steps : Waited[n] = Delays[n] + Waited[n - 1]
<1>. DEFINE Sums(f) == f = [n \in 0..Len(Delays) |-> IF n = 0 THEN 0 ELSE Delays[n] + f[n - 1]]
<1>1. \E f : Sums(f)
  <2>1. Steps \in 0..Steps
    BY NumbersTyped
  <2>2. PICK g \in [0..Steps -> Nat] : SumsUpTo(Steps, g)
    BY <2>1, SumsExist
  <2>3. Sums(g)
    BY <2>2 DEF SumsUpTo, Steps
  <2>. QED  BY <2>3
<1>2. Waited = CHOOSE f : Sums(f)
  BY DEF Waited
<1>3. Sums(Waited)
  <2>. HIDE DEF Sums
  <2>. QED  BY <1>1, <1>2
<1>4. DOMAIN Waited = 0..Steps /\ Waited = [n \in 0..Steps |-> Waited[n]]
  BY <1>3 DEF Steps
<1>5. \A n \in 0..Steps : Waited[n] = IF n = 0 THEN 0 ELSE Delays[n] + Waited[n - 1]
  BY <1>3 DEF Steps
<1>. HIDE DEF Sums
<1>6. \A n \in 0..Steps : Waited[n] \in Nat
  <2>. DEFINE Odd == {n \in 0..Steps : Waited[n] \notin Nat}
  <2>1. SUFFICES ASSUME Odd # {} PROVE FALSE
    OBVIOUS
  <2>2. PICK n \in Odd : \A k \in Odd : n <= k
    <3>1. Odd \subseteq Nat
      BY NumbersTyped
    <3>. HIDE DEF Odd
    <3>. QED  BY <2>1, <3>1, LeastElement
  <2>3. n # 0 /\ n \in 1..Steps
    BY <1>5, NumbersTyped
  <2>4. n - 1 \in 0..Steps /\ ~ (n <= n - 1)
    BY <2>3, NumbersTyped
  <2>5. n - 1 \notin Odd
    <3>. HIDE DEF Odd
    <3>. QED  BY <2>2, <2>4
  <2>6. Waited[n - 1] \in Nat /\ Delays[n] \in Nat
    BY <2>3, <2>4, <2>5, NumbersTyped
  <2>. QED  BY <1>5, <2>2, <2>3, <2>6
<1>7. 0 \in 0..Steps /\ \A n \in 1..Steps : n \in 0..Steps /\ n # 0
  BY NumbersTyped
<1>. QED  BY <1>4, <1>5, <1>6, <1>7

\* Waiting longer adds up to more, for no delay is negative.
LEMMA WaitedGrows ==
    \A n \in 0..Steps : Waited[n] <= Waited[Steps]
<1>. DEFINE Over == {d \in 0..Steps : ~ (Waited[Steps - d] <= Waited[Steps])}
<1>1. Over = {}
  <2>1. SUFFICES ASSUME Over # {} PROVE FALSE
    OBVIOUS
  <2>2. PICK d \in Over : \A k \in Over : d <= k
    <3>1. Over \subseteq Nat
      BY NumbersTyped
    <3>. HIDE DEF Over
    <3>. QED  BY <2>1, <3>1, LeastElement
  <2>3. Steps - 0 = Steps /\ Steps \in 0..Steps
    BY NumbersTyped
  <2>4. d # 0 /\ d \in 1..Steps
    <3>1. 0 \notin Over
      BY <2>3, NumbersTyped, WaitedSums
    <3>2. d \in 0..Steps
      BY <2>2
    <3>3. d # 0
      <4>. HIDE DEF Over
      <4>. QED  BY <2>2, <3>1
    <3>. QED  BY <3>2, <3>3, NumbersTyped
  <2>5. d - 1 \in 0..Steps /\ ~ (d <= d - 1)
    BY <2>4, NumbersTyped
  <2>6. d - 1 \notin Over
    <3>. HIDE DEF Over
    <3>. QED  BY <2>2, <2>5
  <2>7. Waited[Steps - (d - 1)] <= Waited[Steps]
    BY <2>5, <2>6
  <2>. DEFINE n == Steps - (d - 1)
  <2>8. n \in 1..Steps /\ n - 1 = Steps - d
    BY <2>4, NumbersTyped
  <2>9. Waited[n] = Delays[n] + Waited[n - 1] /\ Delays[n] \in Nat
    BY <2>8, WaitedSums, NumbersTyped
  <2>10. Waited[n] \in Nat /\ Waited[n - 1] \in Nat /\ Waited[Steps] \in Nat
    BY <2>3, <2>8, WaitedSums, NumbersTyped
  <2>11. Waited[n - 1] <= Waited[n]
    <3>. HIDE DEF n
    <3>. QED  BY <2>9, <2>10
  <2>12. Waited[Steps - d] <= Waited[Steps]
    <3>1. Waited[n] <= Waited[Steps]
      BY <2>7
    <3>2. Waited[n - 1] <= Waited[Steps]
      <4>. HIDE DEF n
      <4>. QED  BY <2>10, <2>11, <3>1
    <3>. QED  BY <2>8, <3>2
  <2>. QED  BY <2>2, <2>12
<1>2. ASSUME NEW n \in 0..Steps PROVE Waited[n] <= Waited[Steps]
  <2>1. Steps - n \in 0..Steps /\ Steps - (Steps - n) = n
    BY NumbersTyped
  <2>2. Steps - n \notin Over
    <3>. HIDE DEF Over
    <3>. QED  BY <1>1
  <2>3. Waited[Steps - (Steps - n)] <= Waited[Steps]
    BY <2>1, <2>2
  <2>. QED  BY <2>1, <2>3
<1>. QED  BY <1>2

-----------------------------------------------------------------------------
(* The induction.                                                          *)

\* The retries last longer than the label.  (Were it not so, the last attempt could
\* end without an answer while the label still says that the count is loading, and
\* nothing would take that label away.)
SettlesFirst == Settle < Waited[Steps]

\* n attempts that ran into their timeout.
Tries(n) == n * Timeout

Asking == request.phase \in {"fetch", "wait"}

\* What an article view shows while it waits without a label, and in the end.
Settled == IF view.place THEN "vague" ELSE "none"
Outcome ==
    IF request.failed \/ ~view.place \/ request.data = "nobody" THEN "none"
    ELSE IF request.data = "people" THEN "final" ELSE "vague"

ArticleHeld ==
    view.kind = "article" =>
        \/ request.phase = "off" /\ holder = "off" /\ ~view.open /\ view.box \in {"final", "none"}
        \/ request.phase # "off" /\ holder = "wait" /\ view.open /\ view.place
           /\ view.box = "loading"
        \/ Asking /\ holder = "done" /\ view.open /\ view.box = Settled
        \/ request.phase = "done" /\ holder = "done" /\ ~view.open /\ view.box = Outcome

HistoryHeld ==
    view.kind = "history" =>
        /\ holder = "off" /\ view.box \in {"intro", "filled"}
        /\ request.phase # "wait"
        /\ view.open <=> request.phase = "fetch"

OtherHeld ==
    view.kind = "other" =>
        request.phase = "off" /\ holder = "off" /\ ~view.open /\ view.box = "none"

\* A request that has not ended has nothing to tell; one that ended before the label
\* settled does.
RequestHeld ==
    /\ request.phase # "done" => request.data = NoData /\ ~request.failed
    /\ request.phase = "done" /\ holder = "wait" => request.failed \/ request.data # NoData

\* The time is that of the delays so far, and of the attempts at most.
TimeHeld ==
    /\ holder = "wait" => elapsed <= Settle
    /\ request.phase = "fetch" =>
           /\ Waited[request.attempt] <= elapsed
           /\ elapsed + request.timer <= Tries(request.attempt + 1) + Waited[request.attempt]
    /\ request.phase = "wait" =>
           /\ request.attempt > 0
           /\ Waited[request.attempt] <= elapsed + request.timer
           /\ elapsed + request.timer <= Tries(request.attempt) + Waited[request.attempt]

GadgetInv ==
    /\ TypeOK
    /\ ArticleHeld /\ HistoryHeld /\ OtherHeld
    /\ RequestHeld /\ TimeHeld

-----------------------------------------------------------------------------
(* One step at a time.                                                    *)

LEMMA TriesGrow ==
    /\ \A n \in 0..Steps :
        /\ Tries(n) \in Nat /\ Tries(n + 1) \in Nat
        /\ Tries(n + 1) = Tries(n) + Timeout
        /\ Tries(n + 1) <= Tries(Steps + 1)
    /\ Tries(1) = Timeout
    /\ Longest = Tries(Steps + 1) + Waited[Steps]
<1>1. ASSUME NEW n \in 0..Steps
      PROVE  /\ Tries(n) \in Nat /\ Tries(n + 1) \in Nat
             /\ Tries(n + 1) = Tries(n) + Timeout
             /\ Tries(n + 1) <= Tries(Steps + 1)
  <2>1. n \in Nat /\ Timeout \in Nat /\ Steps \in Nat /\ n <= Steps
    BY NumbersTyped
  <2>2. n * Timeout \in Nat /\ (n + 1) * Timeout \in Nat /\ (n + 1) * Timeout = n * Timeout + Timeout
    BY <2>1
  <2>3. (n + 1) * Timeout <= (Steps + 1) * Timeout
    BY <2>1
  <2>. QED  BY <2>2, <2>3 DEF Tries
<1>2. Tries(1) = Timeout
  BY NumbersTyped DEF Tries
<1>3. Longest = Tries(Steps + 1) + Waited[Steps]
  BY DEF Longest, Tries, Steps
<1>. QED  BY <1>1, <1>2, <1>3

\* The numbers the bounds on a view's time are made of.
LEMMA BoundsTyped ==
    ASSUME NEW n \in 0..Steps
    PROVE  /\ Waited[n] \in Nat /\ Waited[Steps] \in Nat /\ Waited[n] <= Waited[Steps]
           /\ Tries(n) \in Nat /\ Tries(n + 1) \in Nat /\ Tries(n + 1) = Tries(n) + Timeout
           /\ Tries(n + 1) <= Tries(Steps + 1) /\ Tries(Steps + 1) \in Nat /\ Timeout \in Nat
           /\ Longest = Tries(Steps + 1) + Waited[Steps] /\ Longest \in Nat
<1>1. Steps \in 0..Steps
  BY NumbersTyped
<1>2. Waited[n] \in Nat /\ Waited[Steps] \in Nat
  BY <1>1, WaitedSums
<1>3. Tries(Steps + 1) \in Nat
  BY <1>1, TriesGrow
<1>4. Longest = Tries(Steps + 1) + Waited[Steps]
  BY TriesGrow
<1>. QED  BY <1>2, <1>3, <1>4, TriesGrow, WaitedGrows, NumbersTyped

\* One more delay.
LEMMA NextDelay ==
    ASSUME NEW n \in 0..Steps, n # Steps
    PROVE  /\ n + 1 \in 1..Steps /\ Delays[n + 1] \in Nat
           /\ Waited[n + 1] = Delays[n + 1] + Waited[n]
<1>1. n + 1 \in 1..Steps /\ (n + 1) - 1 = n
  BY NumbersTyped
<1>2. \A k \in 1..Steps : Waited[k] = Delays[k] + Waited[k - 1]
  BY WaitedSums
<1>3. Waited[n + 1] = Delays[n + 1] + Waited[(n + 1) - 1]
  BY <1>1, <1>2
<1>. QED  BY <1>1, <1>3, NumbersTyped

\* A request just made.
LEMMA AskedInTime ==
    Waited[0] <= 0 /\ 0 + Timeout <= Tries(0 + 1) + Waited[0]
BY TriesGrow, WaitedSums, NumbersTyped

RequestType ==
    [phase : {"off", "fetch", "wait", "done"}, attempt : 0..Steps,
     timer : Nat, data : Data \cup {NoData}, failed : BOOLEAN]
CacheType == [data : Data \cup {NoData}, age : 0..(MaxAge + 1)]

LEMMA TypeShort ==
    TypeOK <=> /\ server \in {"unsupported", "pending", "ready"}
               /\ cache \in CacheType
               /\ view \in View
               /\ request \in RequestType
               /\ view.kind # "article" => request.attempt = 0
               /\ holder \in {"off", "wait", "done"}
               /\ elapsed \in Nat
BY DEF TypeOK, RequestType, CacheType, Steps

\* Nothing is asked for.
LEMMA Idle ==
    /\ NoRequest \in RequestType /\ NoRequest.phase = "off" /\ NoRequest.attempt = 0
    /\ NoRequest.data = NoData /\ ~NoRequest.failed
    /\ Asked \in RequestType /\ Asked.phase = "fetch" /\ Asked.attempt = 0
    /\ Asked.timer = Timeout /\ Asked.data = NoData /\ ~Asked.failed
    /\ NoCache \in CacheType
<1>1. /\ NoRequest \in RequestType /\ NoRequest.phase = "off" /\ NoRequest.attempt = 0
      /\ NoRequest.data = NoData /\ ~NoRequest.failed
  BY NumbersTyped DEF NoRequest, RequestType, NoData
<1>2. /\ Asked \in RequestType /\ Asked.phase = "fetch" /\ Asked.attempt = 0
      /\ Asked.timer = Timeout /\ Asked.data = NoData /\ ~Asked.failed
  BY <1>1, NumbersTyped DEF Asked, RequestType
<1>3. NoCache \in CacheType
  BY NumbersTyped DEF NoCache, CacheType, NoData
<1>. QED  BY <1>1, <1>2, <1>3

LEMMA CacheRead ==
    ASSUME cache \in CacheType
    PROVE  /\ Purged \in CacheType
           /\ Cached \in Data \cup {NoData}
BY Idle DEF CacheType, Purged, Cached

LEMMA OpenArticleHolds ==
    ASSUME GadgetInv, NEW place \in BOOLEAN, OpenArticle(place)
    PROVE  GadgetInv'
<1>1. TypeOK
  BY DEF GadgetInv
<1>2. CASE Cached # NoData
  <2>1. /\ view' \in View /\ view'.kind = "article" /\ ~view'.open /\ view'.box \in {"final", "none"}
        /\ request' = NoRequest /\ holder' = "off" /\ elapsed' = 0 /\ cache' = Purged
        /\ server' = server
    BY <1>2 DEF OpenArticle, Sentence, View, Boxes, Kinds
  <2>2. TypeOK'
    BY <1>1, <2>1, TypeShort, CacheRead, Idle DEF TypeOK, RequestType, CacheType, Steps
  <2>3. ArticleHeld' /\ HistoryHeld' /\ OtherHeld' /\ RequestHeld' /\ TimeHeld'
    BY <2>1, Idle DEF ArticleHeld, HistoryHeld, OtherHeld, RequestHeld, TimeHeld
  <2>. QED  BY <2>2, <2>3 DEF GadgetInv
<1>3. CASE Cached = NoData
  <2>1. /\ view' \in View /\ view'.kind = "article" /\ view'.open /\ view'.place = place
        /\ view'.box = IF place THEN "loading" ELSE "none"
        /\ request' = Asked /\ elapsed' = 0 /\ cache' = Purged
        /\ holder' = IF place THEN "wait" ELSE "done"
        /\ server' = server
    <3>1. /\ view' = [kind |-> "article", place |-> place, slot |-> FALSE,
                      box |-> IF place THEN "loading" ELSE "none", open |-> TRUE]
          /\ request' = Asked /\ elapsed' = 0 /\ cache' = Purged
          /\ holder' = IF place THEN "wait" ELSE "done"
          /\ server' = server
      BY <1>3 DEF OpenArticle
    <3>2. /\ view'.kind = "article" /\ view'.open /\ view'.place = place
          /\ view'.box = IF place THEN "loading" ELSE "none"
      BY <3>1
    <3>3. (IF place THEN "loading" ELSE "none") \in Boxes
      BY DEF Boxes
    <3>4. view' \in View
      BY <3>1, <3>3 DEF View, Kinds
    <3>. QED  BY <3>1, <3>2, <3>4
  <2>2. TypeOK'
    BY <1>1, <2>1, TypeShort, CacheRead, Idle DEF TypeOK, RequestType, CacheType, Steps
  <2>3. ArticleHeld' /\ HistoryHeld' /\ OtherHeld' /\ RequestHeld'
    BY <2>1, Idle DEF ArticleHeld, HistoryHeld, OtherHeld, RequestHeld, Asking, Settled
  <2>4. TimeHeld'
    BY <2>1, Idle, AskedInTime, NumbersTyped DEF TimeHeld
  <2>. QED  BY <2>2, <2>3, <2>4 DEF GadgetInv
<1>. QED  BY <1>2, <1>3

LEMMA OpenHistoryHolds ==
    ASSUME GadgetInv, NEW slot \in BOOLEAN, OpenHistory(slot)
    PROVE  GadgetInv'
<1>1. TypeOK
  BY DEF GadgetInv
<1>2. cache' \in CacheType /\ Cached \in Data \cup {NoData}
  BY <1>1, CacheRead, TypeShort DEF OpenHistory
<1>3. CASE slot /\ Cached = NoData
  <2>1. /\ view' \in View /\ view'.kind = "history" /\ view'.open /\ view'.box = "intro"
        /\ request' = Asked /\ holder' = "off" /\ elapsed' = 0 /\ server' = server
    <3>1. /\ view' = [kind |-> "history", place |-> TRUE, slot |-> slot, box |-> "intro",
                      open |-> slot]
          /\ request' = Asked /\ holder' = "off" /\ elapsed' = 0 /\ server' = server
      BY <1>3 DEF OpenHistory
    <3>2. view' \in View
      BY <3>1 DEF View, Kinds, Boxes
    <3>3. view'.open = slot /\ view'.kind = "history" /\ view'.box = "intro"
      BY <3>1
    <3>. QED  BY <1>3, <3>1, <3>2, <3>3
  <2>2. TypeOK'
    BY <1>1, <1>2, <2>1, Idle DEF TypeOK, RequestType, CacheType, Steps
  <2>3. ArticleHeld' /\ HistoryHeld' /\ OtherHeld' /\ RequestHeld'
    BY <2>1, Idle DEF ArticleHeld, HistoryHeld, OtherHeld, RequestHeld
  <2>4. TimeHeld'
    BY <2>1, Idle, AskedInTime, NumbersTyped DEF TimeHeld
  <2>. QED  BY <2>2, <2>3, <2>4 DEF GadgetInv
<1>4. CASE ~(slot /\ Cached = NoData)
  <2>1. /\ view' \in View /\ view'.kind = "history" /\ ~view'.open
        /\ view'.box \in {"intro", "filled"}
        /\ request' = NoRequest /\ holder' = "off" /\ elapsed' = 0 /\ server' = server
    BY <1>4 DEF OpenHistory, View, Boxes, Kinds, Filled
  <2>2. TypeOK'
    BY <1>1, <1>2, <2>1, Idle DEF TypeOK, RequestType, CacheType, Steps
  <2>3. ArticleHeld' /\ HistoryHeld' /\ OtherHeld' /\ RequestHeld' /\ TimeHeld'
    BY <2>1, Idle DEF ArticleHeld, HistoryHeld, OtherHeld, RequestHeld, TimeHeld
  <2>. QED  BY <2>2, <2>3 DEF GadgetInv
<1>. QED  BY <1>3, <1>4

LEMMA LeaveHolds ==
    ASSUME GadgetInv, Leave
    PROVE  GadgetInv'
<1>1. /\ view' \in View /\ view'.kind = "other" /\ ~view'.open /\ view'.box = "none"
      /\ request' = NoRequest /\ holder' = "off" /\ elapsed' = 0
      /\ server' = server /\ cache' = cache
  BY DEF Leave, View, Boxes, Kinds
<1>2. TypeOK'
  BY <1>1, Idle DEF GadgetInv, TypeOK, RequestType, CacheType, Steps
<1>3. ArticleHeld' /\ HistoryHeld' /\ OtherHeld' /\ RequestHeld' /\ TimeHeld'
  BY <1>1, Idle DEF ArticleHeld, HistoryHeld, OtherHeld, RequestHeld, TimeHeld
<1>. QED  BY <1>2, <1>3 DEF GadgetInv

\* However the request ends, the box is what its outcome makes of it.
LEMMA EndedHolds ==
    ASSUME GadgetInv, request.phase = "fetch",
           NEW d \in Data \cup {NoData}, NEW f \in BOOLEAN,
           holder = "wait" => f \/ d # NoData,
           Ended([request EXCEPT !.phase = "done", !.data = d, !.failed = f]),
           cache' \in CacheType
    PROVE  GadgetInv'
<1>1. TypeOK /\ view \in View /\ request \in RequestType
  BY TypeShort DEF GadgetInv
<1>2. /\ request' \in RequestType /\ request'.phase = "done" /\ request'.attempt = request.attempt
      /\ request'.data = d /\ request'.failed = f
      /\ server' = server /\ holder' = holder /\ elapsed' = elapsed
  BY <1>1 DEF Ended, RequestType
<1>3. /\ view' \in View /\ view'.kind = view.kind /\ view'.place = view.place
      /\ view.kind = "history" => view'.box \in {view.box, "filled"} /\ ~view'.open
      /\ view.kind # "history" /\ holder # "done" => view' = view
  BY <1>1, <1>2 DEF Ended, Filled, Concluded, Sentence, View, Boxes, Kinds
<1>4. ASSUME view.kind = "article", holder = "done"
      PROVE  ~view'.open /\ view'.box = Outcome'
  <2>1. view.box = Settled
    BY <1>4 DEF GadgetInv, ArticleHeld
  <2>2. request'.data = d /\ request'.failed = f /\ view'.place = view.place
    BY <1>2, <1>3
  <2>3. view' = Concluded(view, request')
    BY <1>4 DEF Ended
  <2>4. CASE f
    BY <1>1, <2>2, <2>3, <2>4 DEF Concluded, View, Outcome
  <2>5. CASE ~f /\ d = NoData
    BY <1>1, <2>1, <2>2, <2>3, <2>5 DEF Concluded, View, Outcome, Settled, NoData
  <2>6. CASE ~f /\ d \in Data
    BY <1>1, <2>2, <2>3, <2>6 DEF Concluded, Sentence, View, Outcome, Data, NoData
  <2>. QED  BY <2>4, <2>5, <2>6
<1>5. TypeOK'
  BY <1>1, <1>2, <1>3, TypeShort DEF TypeOK, RequestType, CacheType, Steps
<1>6. ArticleHeld'
  BY <1>2, <1>3, <1>4 DEF GadgetInv, ArticleHeld, Asking
<1>7. HistoryHeld' /\ OtherHeld'
  BY <1>2, <1>3 DEF GadgetInv, HistoryHeld, OtherHeld
<1>8. RequestHeld' /\ TimeHeld'
  BY <1>2 DEF GadgetInv, RequestHeld, TimeHeld
<1>. QED  BY <1>5, <1>6, <1>7, <1>8 DEF GadgetInv

LEMMA ReadyHolds ==
    ASSUME GadgetInv, NEW data \in Data, Ready(data)
    PROVE  GadgetInv'
<1>1. request \in RequestType /\ request.phase = "fetch"
  BY TypeShort DEF GadgetInv, Ready
<1>2. ~request.failed
  BY <1>1 DEF GadgetInv, RequestHeld
<1>3. [request EXCEPT !.phase = "done", !.data = data] =
      [request EXCEPT !.phase = "done", !.data = data, !.failed = FALSE]
  BY <1>1, <1>2 DEF RequestType
<1>4. Ended([request EXCEPT !.phase = "done", !.data = data, !.failed = FALSE])
  BY <1>3 DEF Ready
<1>5. cache' \in CacheType /\ data # NoData
  BY NumbersTyped DEF Ready, CacheType, Data, NoData
<1>. QED  BY <1>1, <1>4, <1>5, EndedHolds

LEMMA FailedHolds ==
    ASSUME GadgetInv, Refused \/ AbortRequest
    PROVE  GadgetInv'
<1>1. /\ request \in RequestType /\ request.phase = "fetch" /\ cache' \in CacheType
      /\ request.data = NoData
  BY TypeShort DEF GadgetInv, RequestHeld, Refused, AbortRequest, TimedOut
<1>2. [request EXCEPT !.phase = "done", !.failed = TRUE] =
      [request EXCEPT !.phase = "done", !.data = NoData, !.failed = TRUE]
  BY <1>1 DEF RequestType
<1>3. Ended([request EXCEPT !.phase = "done", !.data = NoData, !.failed = TRUE])
  BY <1>2 DEF Refused, AbortRequest
<1>4. \A f \in BOOLEAN : f = TRUE =>
          (Ended([request EXCEPT !.phase = "done", !.data = NoData, !.failed = f])
               => GadgetInv')
  BY <1>1, EndedHolds
<1>. QED  BY <1>3, <1>4

LEMMA PendingHolds ==
    ASSUME SettlesFirst, GadgetInv, Pending
    PROVE  GadgetInv'
<1>1. /\ request \in RequestType /\ request.phase = "fetch" /\ cache' = cache
      /\ view \in View /\ elapsed \in Nat /\ cache \in CacheType
      /\ request.data = NoData /\ ~request.failed /\ TypeOK
      /\ view.kind # "article" => request.attempt = 0
  BY TypeShort DEF GadgetInv, RequestHeld, Pending
<1>2. view.kind # "other"
  BY <1>1 DEF GadgetInv, OtherHeld
<1>. DEFINE n == request.attempt
<1>3. n \in 0..Steps /\ request.timer \in Nat /\ Steps \in Nat
  BY <1>1, NumbersTyped DEF RequestType
<1>4. CASE MayRetry
  <2>1. view.kind = "article" /\ Retries = Delays /\ n < Steps
    BY <1>3, <1>4 DEF MayRetry, Retries, Steps
  <2>2. n + 1 \in 1..Steps /\ n + 1 \in 0..Steps /\ n + 1 - 1 = n
    BY <1>3, <2>1
  <2>3. /\ request' = [request EXCEPT !.phase = "wait", !.attempt = n + 1, !.timer = Delays[n + 1]]
        /\ server' = server /\ view' = view /\ holder' = holder /\ elapsed' = elapsed
    BY <1>4, <2>1 DEF Pending
  <2>4. /\ request' \in RequestType /\ request'.phase = "wait" /\ request'.attempt = n + 1
        /\ request'.timer = Delays[n + 1] /\ request'.data = NoData /\ ~request'.failed
    BY <1>1, <2>2, <2>3, NumbersTyped DEF RequestType
  <2>5. TypeOK'
    BY <1>1, <2>1, <2>3, <2>4, TypeShort DEF TypeOK, RequestType, CacheType, Steps
  <2>6. ArticleHeld' /\ HistoryHeld' /\ OtherHeld' /\ RequestHeld'
    BY <1>1, <2>1, <2>3, <2>4
    DEF GadgetInv, ArticleHeld, HistoryHeld, OtherHeld, RequestHeld, Asking, Settled
  <2>7. TimeHeld'
    <3>1. Waited[n] <= elapsed /\ elapsed + request.timer <= Tries(n + 1) + Waited[n]
      BY <1>1 DEF GadgetInv, TimeHeld
    <3>2. /\ Waited[n + 1] = Delays[n + 1] + Waited[n]
          /\ Waited[n] \in Nat /\ Delays[n + 1] \in Nat /\ Tries(n + 1) \in Nat
      <4>1. n # Steps
        BY <1>3, <2>1
      <4>. HIDE DEF n
      <4>. QED  BY <1>3, <4>1, NextDelay, BoundsTyped
    <3>. HIDE DEF n
    <3>3. /\ Waited[n + 1] <= elapsed + Delays[n + 1]
          /\ elapsed + Delays[n + 1] <= Tries(n + 1) + Waited[n + 1]
      BY <1>1, <1>3, <3>1, <3>2
    <3>4. n + 1 > 0
      BY <1>3
    <3>5. holder = "wait" => elapsed <= Settle
      BY DEF GadgetInv, TimeHeld
    <3>. QED  BY <2>3, <2>4, <3>3, <3>4, <3>5 DEF TimeHeld
  <2>. QED  BY <2>5, <2>6, <2>7 DEF GadgetInv
<1>5. CASE ~MayRetry
  <2>1. Ended([request EXCEPT !.phase = "done"])
    BY <1>5 DEF Pending
  <2>2. [request EXCEPT !.phase = "done"] =
        [request EXCEPT !.phase = "done", !.data = NoData, !.failed = FALSE]
    BY <1>1 DEF RequestType
  <2>3. ASSUME holder = "wait" PROVE FALSE
    <3>1. view.kind = "article"
      BY <1>2, <1>1, <2>3 DEF GadgetInv, HistoryHeld, View, Kinds
    <3>2. n = Steps
      BY <1>3, <1>5, <3>1 DEF MayRetry, Retries, Steps
    <3>3. Waited[Steps] <= elapsed /\ elapsed <= Settle
      BY <1>1, <2>3, <3>2 DEF GadgetInv, TimeHeld
    <3>4. Waited[Steps] \in Nat
      BY <1>3, WaitedSums
    <3>. QED  BY <1>1, <3>3, <3>4, NumbersTyped DEF SettlesFirst
  <2>4. Ended([request EXCEPT !.phase = "done", !.data = NoData, !.failed = FALSE])
    BY <2>1, <2>2
  <2>. QED  BY <1>1, <2>3, <2>4, EndedHolds
<1>. QED  BY <1>4, <1>5

LEMMA RetryHolds ==
    ASSUME GadgetInv, Retry
    PROVE  GadgetInv'
<1>1. /\ request \in RequestType /\ request.phase = "wait" /\ request.timer = 0
      /\ server' = server /\ cache' = cache /\ view' = view /\ holder' = holder
      /\ elapsed' = elapsed /\ elapsed \in Nat /\ TypeOK
  BY TypeShort DEF GadgetInv, Retry
<1>. DEFINE n == request.attempt
<1>2. /\ request' \in RequestType /\ request'.phase = "fetch" /\ request'.attempt = n
      /\ request'.timer = Timeout /\ request'.data = request.data
      /\ request'.failed = request.failed
  BY <1>1, NumbersTyped DEF Retry, RequestType
<1>3. TypeOK'
  BY <1>1, <1>2, TypeShort DEF TypeOK, RequestType, CacheType, Steps
<1>4. ArticleHeld' /\ HistoryHeld' /\ OtherHeld' /\ RequestHeld'
  BY <1>1, <1>2 DEF GadgetInv, ArticleHeld, HistoryHeld, OtherHeld, RequestHeld, Asking, Settled
<1>5. TimeHeld'
  <2>1. Waited[n] <= elapsed + 0 /\ elapsed + 0 <= Tries(n) + Waited[n]
    BY <1>1 DEF GadgetInv, TimeHeld
  <2>2. n \in 0..Steps
    BY <1>1 DEF RequestType
  <2>3. /\ Waited[n] \in Nat /\ Tries(n) \in Nat /\ Timeout \in Nat
        /\ Tries(n + 1) = Tries(n) + Timeout
    BY <2>2, WaitedSums, TriesGrow, NumbersTyped
  <2>. HIDE DEF n
  <2>4. Waited[n] <= elapsed /\ elapsed + Timeout <= Tries(n + 1) + Waited[n]
    BY <1>1, <2>1, <2>3
  <2>5. holder = "wait" => elapsed <= Settle
    BY DEF GadgetInv, TimeHeld
  <2>. QED  BY <1>1, <1>2, <2>4, <2>5 DEF TimeHeld
<1>. QED  BY <1>3, <1>4, <1>5 DEF GadgetInv

LEMMA StopHoldingHolds ==
    ASSUME GadgetInv, StopHolding
    PROVE  GadgetInv'
<1>1. /\ request \in RequestType /\ view \in View /\ holder = "wait" /\ holder' = "done"
      /\ server' = server /\ cache' = cache /\ request' = request /\ elapsed' = elapsed
      /\ TypeOK
  BY TypeShort DEF GadgetInv, StopHolding, SettleDue
<1>2. view.kind = "article"
  BY <1>1 DEF GadgetInv, HistoryHeld, OtherHeld, View, Kinds
<1>3. view.place /\ view.open /\ request.phase # "off"
  BY <1>1, <1>2 DEF GadgetInv, ArticleHeld
<1>4. /\ view' \in View /\ view'.kind = "article" /\ view'.place
      /\ request.phase # "done" => view'.open /\ view'.box = "vague"
      /\ request.phase = "done" => ~view'.open /\ view'.box = Outcome'
  <2>1. CASE request.phase # "done"
    BY <1>1, <1>2, <1>3, <2>1 DEF StopHolding, View, Boxes
  <2>2. CASE request.phase = "done"
    <3>1. view' = Concluded(view, request)
      BY <2>2 DEF StopHolding
    <3>2. request.failed \/ request.data # NoData
      BY <1>1, <2>2 DEF GadgetInv, RequestHeld
    <3>3. request.data \in Data \cup {NoData} /\ request.failed \in BOOLEAN
      BY <1>1 DEF RequestType
    <3>4. view' \in View /\ view'.kind = "article" /\ view'.place /\ ~view'.open
      BY <1>1, <1>2, <1>3, <3>1, <3>2 DEF Concluded, Sentence, View, Boxes
    <3>5. view'.box = IF request.failed \/ request.data = "nobody" THEN "none" ELSE "final"
      BY <1>1, <1>3, <3>1, <3>2, <3>3 DEF Concluded, Sentence, View, Data, NoData
    <3>6. view'.box = Outcome'
      BY <1>1, <3>2, <3>3, <3>4, <3>5 DEF Outcome, Data, NoData
    <3>. QED  BY <2>2, <3>4, <3>6
  <2>. QED  BY <2>1, <2>2
<1>5. TypeOK'
  BY <1>1, <1>2, <1>4, TypeShort DEF TypeOK, RequestType, CacheType, Steps
<1>6. ArticleHeld'
  BY <1>1, <1>3, <1>4 DEF ArticleHeld, Asking, Settled, RequestType
<1>7. HistoryHeld' /\ OtherHeld' /\ RequestHeld' /\ TimeHeld'
  BY <1>1, <1>4 DEF GadgetInv, HistoryHeld, OtherHeld, RequestHeld, TimeHeld
<1>. QED  BY <1>5, <1>6, <1>7 DEF GadgetInv

LEMMA TickHolds ==
    ASSUME SettlesFirst, GadgetInv, Tick
    PROVE  GadgetInv'
<1>1. /\ request \in RequestType /\ cache \in CacheType /\ elapsed \in Nat /\ TypeOK
      /\ server' = server /\ view' = view /\ holder' = holder /\ view \in View
      /\ view.kind # "article" => request.attempt = 0
  BY TypeShort DEF GadgetInv, Tick
<1>2. cache' \in CacheType
  BY <1>1, NumbersTyped DEF Tick, CacheType
<1>3. /\ request' \in RequestType /\ request'.phase = request.phase
      /\ request'.attempt = request.attempt /\ request'.data = request.data
      /\ request'.failed = request.failed
      /\ Asking /\ request.timer > 0 => request'.timer = request.timer - 1
  <2>1. CASE Asking /\ request.timer > 0
    <3>1. request' = [request EXCEPT !.timer = @ - 1]
      BY <2>1 DEF Tick, Asking
    <3>2. request.timer - 1 \in Nat
      BY <1>1, <2>1 DEF RequestType
    <3>. QED  BY <1>1, <3>1, <3>2 DEF RequestType
  <2>2. CASE ~(Asking /\ request.timer > 0)
    <3>1. request' = request
      BY <2>2 DEF Tick, Asking
    <3>. QED  BY <1>1, <2>2, <3>1
  <2>. QED  BY <2>1, <2>2
<1>4. elapsed' \in Nat /\ elapsed' <= elapsed + 1
      /\ (view.open /\ elapsed <= Longest => elapsed' = elapsed + 1)
  BY <1>1 DEF Tick
<1>5. TypeOK'
  BY <1>1, <1>2, <1>3, <1>4, TypeShort DEF TypeOK, RequestType, CacheType, Steps
<1>6. ArticleHeld' /\ HistoryHeld' /\ OtherHeld' /\ RequestHeld'
  BY <1>1, <1>3
  DEF GadgetInv, ArticleHeld, HistoryHeld, OtherHeld, RequestHeld, Asking, Settled, Outcome
<1>. DEFINE n == request.attempt
<1>7. n \in 0..Steps /\ request.timer \in Nat
  BY <1>1 DEF RequestType
<1>8. /\ Waited[n] \in Nat /\ Tries(n) \in Nat /\ Tries(n + 1) \in Nat
      /\ Waited[n] <= Longest /\ Tries(n + 1) + Waited[n] <= Longest
      /\ Tries(n) <= Tries(n + 1)
  <2>. HIDE DEF n
  <2>. QED  BY <1>7, BoundsTyped
<1>9. Longest \in Nat
  BY <1>7, BoundsTyped
<1>10. Asking => view.open
  BY <1>1 DEF GadgetInv, ArticleHeld, HistoryHeld, OtherHeld, Asking, View, Kinds
<1>11. holder = "wait" => elapsed' <= Settle
  BY <1>1, <1>4, NumbersTyped DEF Tick, SettleDue
<1>12. ASSUME request.phase = "fetch"
       PROVE  /\ Waited[n] <= elapsed'
              /\ elapsed' + request'.timer <= Tries(n + 1) + Waited[n]
  <2>1. Waited[n] <= elapsed /\ elapsed + request.timer <= Tries(n + 1) + Waited[n]
    BY <1>12 DEF GadgetInv, TimeHeld
  <2>2. request.timer # 0
    BY <1>12 DEF Tick, TimedOut
  <2>3. request'.timer = request.timer - 1 /\ view.open
    BY <1>3, <1>7, <1>10, <1>12, <2>2 DEF Asking
  <2>. HIDE DEF n
  <2>4. elapsed' = elapsed + 1
    BY <1>1, <1>4, <1>7, <1>8, <1>9, <2>1, <2>3
  <2>. QED  BY <1>1, <1>7, <1>8, <2>1, <2>3, <2>4
<1>13. ASSUME request.phase = "wait"
       PROVE  /\ n > 0 /\ Waited[n] <= elapsed' + request'.timer
              /\ elapsed' + request'.timer <= Tries(n) + Waited[n]
  <2>1. /\ n > 0 /\ Waited[n] <= elapsed + request.timer
        /\ elapsed + request.timer <= Tries(n) + Waited[n]
    BY <1>13 DEF GadgetInv, TimeHeld
  <2>2. request.timer # 0
    BY <1>13 DEF Tick
  <2>3. request'.timer = request.timer - 1 /\ view.open
    BY <1>3, <1>7, <1>10, <1>13, <2>2 DEF Asking
  <2>. HIDE DEF n
  <2>4. elapsed' = elapsed + 1
    BY <1>1, <1>4, <1>7, <1>8, <1>9, <2>1, <2>3
  <2>. QED  BY <1>1, <1>7, <1>8, <2>1, <2>3, <2>4
<1>14. TimeHeld'
  BY <1>1, <1>3, <1>11, <1>12, <1>13 DEF TimeHeld
<1>. QED  BY <1>5, <1>6, <1>14 DEF GadgetInv

LEMMA GadgetStep ==
    ASSUME SettlesFirst, GadgetInv, [Next]_vars
    PROVE  GadgetInv'
<1>1. ASSUME Serve PROVE GadgetInv'
  BY <1>1 DEF Serve, GadgetInv, TypeOK, ArticleHeld, HistoryHeld, OtherHeld, RequestHeld,
              TimeHeld, Asking, Settled, Outcome
<1>2. ASSUME UNCHANGED vars PROVE GadgetInv'
  BY <1>2 DEF vars, GadgetInv, TypeOK, ArticleHeld, HistoryHeld, OtherHeld, RequestHeld,
              TimeHeld, Asking, Settled, Outcome
<1>3. ASSUME Next PROVE GadgetInv'
  <2>1. ASSUME NEW b \in BOOLEAN, OpenArticle(b) PROVE GadgetInv'
    BY <2>1, OpenArticleHolds
  <2>2. ASSUME NEW b \in BOOLEAN, OpenHistory(b) PROVE GadgetInv'
    BY <2>2, OpenHistoryHolds
  <2>3. ASSUME NEW data \in Data, Ready(data) PROVE GadgetInv'
    BY <2>3, ReadyHolds
  <2>. QED  BY <1>1, <1>3, <2>1, <2>2, <2>3, LeaveHolds, PendingHolds, RetryHolds, FailedHolds,
               StopHoldingHolds, TickHolds DEF Next
<1>. QED  BY <1>2, <1>3

LEMMA GadgetStarts ==
    ASSUME Init
    PROVE  GadgetInv
<1>1. /\ view.kind = "other" /\ ~view.open /\ view.box = "none" /\ request = NoRequest
      /\ holder = "off" /\ elapsed = 0 /\ view \in View /\ cache = NoCache
      /\ server \in {"unsupported", "pending", "ready"}
  BY DEF Init, View, Kinds, Boxes
<1>2. TypeOK
  BY <1>1, Idle, TypeShort
<1>. QED  BY <1>1, <1>2, Idle DEF GadgetInv, ArticleHeld, HistoryHeld, OtherHeld, RequestHeld, TimeHeld

LEMMA GadgetAlways ==
    ASSUME SettlesFirst
    PROVE  Spec => []GadgetInv
<1>1. Init => GadgetInv
  BY GadgetStarts
<1>2. GadgetInv /\ [Next]_vars => GadgetInv'
  BY GadgetStep
<1>. QED  BY <1>1, <1>2, PTL DEF Spec

\* States and ages stay in range, whatever the API answers and however long it
\* takes: an article view asks again at most once for every delay of
\* PENDING_RETRY_DELAYS_MS, a history view never (contributionData, loadContributionData).
THEOREM GadgetTyped ==
    ASSUME SettlesFirst
    PROVE  Spec => []TypeOK
<1>1. GadgetInv => TypeOK
  BY DEF GadgetInv
<1>. QED  BY <1>1, GadgetAlways, PTL

\* addArticleSummary's box says in the end what became of the request, in whichever
\* order the request and runCountPlaceholder ended: nothing after a failure, the
\* sentence after an answer, the vague wording only when every retry was pending.
THEOREM BoxTold ==
    ASSUME SettlesFirst
    PROVE  Spec => []BoxTellsOutcome
<1>1. GadgetInv => BoxTellsOutcome
  BY DEF GadgetInv, ArticleHeld, BoxTellsOutcome, Outcome, Asking
<1>. QED  BY <1>1, GadgetAlways, PTL

\* No view shows the loading label longer than PENDING_SETTLE_MS, whatever the
\* request does meanwhile.
THEOREM LabelSettles ==
    ASSUME SettlesFirst
    PROVE  Spec => []LabelGivesUp
<1>1. ASSUME GadgetInv PROVE LabelGivesUp
  <2>1. view \in View
    BY <1>1, TypeShort DEF GadgetInv
  <2>2. view.box = "loading" => holder = "wait"
    BY <1>1, <2>1 DEF GadgetInv, ArticleHeld, HistoryHeld, OtherHeld, Settled, Outcome, View, Kinds
  <2>. QED  BY <1>1, <2>2 DEF GadgetInv, TimeHeld, LabelGivesUp
<1>. QED  BY <1>1, GadgetAlways, PTL

\* A view that is still open has not taken longer than its attempts' timeouts and
\* the delays between them add up to.
THEOREM ViewsBounded ==
    ASSUME SettlesFirst
    PROVE  Spec => []ViewsEnd
<1>1. ASSUME GadgetInv PROVE ViewsEnd
  <2>1. view \in View /\ request \in RequestType /\ elapsed \in Nat
    BY <1>1, TypeShort DEF GadgetInv
  <2>. DEFINE n == request.attempt
  <2>2. n \in 0..Steps /\ request.timer \in Nat
    BY <2>1 DEF RequestType
  <2>3. /\ Waited[n] \in Nat /\ Waited[Steps] \in Nat /\ Waited[n] <= Waited[Steps]
        /\ Tries(n) \in Nat /\ Tries(n + 1) \in Nat /\ Tries(n + 1) = Tries(n) + Timeout
        /\ Tries(n + 1) <= Tries(Steps + 1) /\ Tries(Steps + 1) \in Nat /\ Timeout \in Nat
        /\ Longest = Tries(Steps + 1) + Waited[Steps]
    <3>. HIDE DEF n
    <3>. QED  BY <2>2, BoundsTyped
  <2>4. view.open => holder = "wait" \/ Asking
    BY <1>1, <2>1 DEF GadgetInv, ArticleHeld, HistoryHeld, OtherHeld, View, Kinds, Asking
  <2>5. ASSUME holder = "wait" PROVE elapsed <= Longest
    <3>1. elapsed <= Settle
      BY <1>1, <2>5 DEF GadgetInv, TimeHeld
    <3>. HIDE DEF n
    <3>. QED  BY <2>1, <2>3, <3>1, NumbersTyped DEF SettlesFirst
  <2>6. ASSUME Asking PROVE elapsed <= Longest
    <3>1. \/ elapsed + request.timer <= Tries(n + 1) + Waited[n]
          \/ elapsed + request.timer <= Tries(n) + Waited[n]
      BY <1>1, <2>6 DEF GadgetInv, TimeHeld, Asking
    <3>. HIDE DEF n
    <3>. QED  BY <2>1, <2>2, <2>3, <3>1
  <2>. QED  BY <2>4, <2>5, <2>6 DEF ViewsEnd
<1>. QED  BY <1>1, GadgetAlways, PTL
=============================================================================
