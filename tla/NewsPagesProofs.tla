---------------------------- MODULE NewsPagesProofs ----------------------------
(* A user who flicks from page to page and waits sees the news of the       *)
(* channel on screen, for any number of channels and flicks.                *)
EXTENDS NewsPages, FiniteSets, TLAPS

-----------------------------------------------------------------------------
(* The theorems of the container and of the lists.                         *)

Arrays == INSTANCE PageViewControllerProofs WITH
    target <- offset \div 2, selected <- offset \div 2

Loading == INSTANCE NewsListProofs WITH
    VC <- 1 .. 3, Channels <- 0 .. TotalPages - 1, NoChannel <- -1,
    MaxCrashes <- 0

\* What the two modules assume of their constants.
LEMMA ConstantsFit ==
    /\ Arrays!TotalPagesAssumption
    /\ Loading!NewsListAssumption
    /\ TotalPages \in Nat \ {0}
  BY NewsPagesAssumption DEF Arrays!TotalPagesAssumption, Loading!NewsListAssumption, MaxLoads

-----------------------------------------------------------------------------
(* The definitions of NewsPages are those the theorems are about.          *)

\* The elements kept of a sequence.
LEMMA SameKept ==
    ASSUME NEW s, NEW S
    PROVE  Container!Kept(s, S) = Arrays!Kept(s, S)
  BY DEF Container!Kept, Arrays!Kept

\* Loading a page.
LEMMA SameLoadPage ==
    ASSUME NEW p, Container!LoadPage(p)
    PROVE  Arrays!LoadPage(p)
  <1>1. Container!WindowFrames(p) = Arrays!WindowFrames(p)
    BY DEF Container!WindowFrames, Arrays!WindowFrames
  <1>2. \A v : Container!Leaves(v, p) <=> Arrays!Leaves(v, p)
    BY <1>1 DEF Container!Leaves, Arrays!Leaves, Container!Range, Arrays!Range
  <1>3. Container!Leaving(p) = Arrays!Leaving(p)
    BY <1>2, SameKept DEF Container!Leaving, Arrays!Leaving, Container!Range, Arrays!Range
  <1>4. Container!Staying(p) = Arrays!Staying(p)
    BY <1>2, SameKept DEF Container!Staying, Arrays!Staying, Container!Range, Arrays!Range
  <1>5. Container!Wanted(p) = Arrays!Wanted(p)
    BY <1>1, <1>4, SameKept DEF Container!Wanted, Arrays!Wanted, Container!Range,
       Arrays!Range, Container!Pages, Arrays!Pages
  <1>6. \A pool, n : Container!Dequeued(pool, n) = Arrays!Dequeued(pool, n)
    BY DEF Container!Dequeued, Arrays!Dequeued
  <1>7. \A served, pages : Container!Placed(served, pages) = Arrays!Placed(served, pages)
    BY DEF Container!Placed, Arrays!Placed, Container!Range, Arrays!Range
  <1>8. CASE currentPage = p
    BY <1>8 DEF Container!LoadPage, Arrays!LoadPage, Container!containerVars,
       Arrays!containerVars
  <1>9. CASE currentPage # p
    <2> DEFINE pool   == reuse \o Arrays!Leaving(p)
               wanted == Arrays!Wanted(p)
               served == Arrays!Dequeued(pool, Len(wanted))
    <2>1. /\ currentPage' = p
          /\ visible' = Arrays!Staying(p) \o served
          /\ reuse' = SubSeq(pool, Len(wanted) + 1, Len(pool))
          /\ frame' = Arrays!Placed(served, wanted)
      BY <1>3, <1>4, <1>5, <1>6, <1>7, <1>9 DEF Container!LoadPage
    <2>. QED  BY <1>9, <2>1 DEF Arrays!LoadPage
  <1>. QED  BY <1>8, <1>9

\* The delegate calls of a handler ...
LEMMA SameCalls ==
    \A p : Container!DelegateCalls(p) = Arrays!DelegateCalls(p)
  <1>1. \A S : Container!SetToSeq(S) = Arrays!SetToSeq(S)
    <2>1. \A S : Container!Cardinality(S) = Arrays!Cardinality(S)
      BY Zenon DEF Container!Cardinality, Arrays!Cardinality
    <2>2. \A f : Container!IsInjective(f) <=> Arrays!IsInjective(f)
      BY DEF Container!IsInjective, Arrays!IsInjective
    <2>. QED  BY <2>1, <2>2 DEF Container!SetToSeq, Arrays!SetToSeq
  <1>2. Container!OnScreen = Arrays!OnScreen
    BY SameKept DEF Container!OnScreen, Arrays!OnScreen, Container!Range, Arrays!Range
  <1>3. \A s : Container!LastOf(s) = Arrays!LastOf(s)
    BY DEF Container!LastOf, Arrays!LastOf, Container!Last, Arrays!Last
  <1>4. \A v : /\ Container!BeforeVC(v) = Arrays!BeforeVC(v)
              /\ Container!AfterVC(v) = Arrays!AfterVC(v)
    BY <1>3, SameKept DEF Container!BeforeVC, Arrays!BeforeVC, Container!AfterVC,
       Arrays!AfterVC, Container!Range, Arrays!Range
  <1>5. \A v : Container!PreLoads(v) = Arrays!PreLoads(v)
    BY <1>4 DEF Container!PreLoads, Arrays!PreLoads
  <1>. QED  BY <1>1, <1>2, <1>5 DEF Container!DelegateCalls, Arrays!DelegateCalls

\* ... and in the state the handler leaves behind.
LEMMA SameCallsPrimed ==
    (\A p : Container!DelegateCalls(p) = Arrays!DelegateCalls(p))'
  <1>1. \A p : Container!DelegateCalls(p) = Arrays!DelegateCalls(p)
    BY SameCalls
  <1>. QED  BY <1>1, PTL

\* Loading channels into controllers.
LEMMA SameLoadAll ==
    ASSUME NEW calls, Lists!LoadAll(calls)
    PROVE  Loading!LoadAll(calls)
  BY DEF Lists!LoadAll, Loading!LoadAll, Lists!Renamed, Loading!Renamed, Lists!GetBlock,
         Loading!GetBlock, Lists!Elements, Loading!Elements

\* The lists' other steps.
LEMMA SameListSteps ==
    /\ Lists!RunGet => Loading!RunGet
    /\ Lists!RunDelete => Loading!RunDelete
    /\ Lists!RunInsert => Loading!RunInsert
    /\ Lists!DeliverRows => Loading!DeliverRows
    /\ Lists!SomeResponse => Loading!SomeResponse
  <1>1. Lists!RunGet => Loading!RunGet
    BY DEF Lists!RunGet, Loading!RunGet, Lists!Deliver, Loading!Deliver, Lists!Throws,
           Loading!Throws, Lists!StoredRows, Loading!StoredRows, Lists!vcVars,
           Loading!vcVars, Lists!history, Loading!history
  <1>2. Lists!RunDelete => Loading!RunDelete
    BY DEF Lists!RunDelete, Loading!RunDelete, Lists!DeleteRuns, Loading!DeleteRuns,
           Lists!DeleteFails, Loading!DeleteFails, Lists!InsertBlock, Loading!InsertBlock,
           Lists!Throws, Loading!Throws, Lists!Unknown, Loading!Unknown,
           Lists!vcVars, Loading!vcVars
  <1>3. Lists!RunInsert => Loading!RunInsert
    BY DEF Lists!RunInsert, Loading!RunInsert, Lists!InsertRuns, Loading!InsertRuns,
           Lists!InsertFails, Loading!InsertFails, Lists!Throws, Loading!Throws,
           Lists!Unknown, Loading!Unknown, Lists!vcVars, Loading!vcVars
  <1>4. Lists!DeliverRows => Loading!DeliverRows
    BY DEF Lists!DeliverRows, Loading!DeliverRows, Lists!SendRequest, Loading!SendRequest,
           Lists!Unsettled, Loading!Unsettled, Lists!Elements, Loading!Elements,
           Lists!counters, Loading!counters
  <1>5. Lists!SomeResponse => Loading!SomeResponse
    BY DEF Lists!SomeResponse, Loading!SomeResponse, Lists!Respond, Loading!Respond,
           Lists!Answered, Loading!Answered, Lists!DeleteBlock, Loading!DeleteBlock,
           Lists!Unknown, Loading!Unknown, Lists!counters, Loading!counters
  <1>. QED  BY <1>1, <1>2, <1>3, <1>4, <1>5

-----------------------------------------------------------------------------
(* The inductive invariant.                                                *)

Channels == 0 .. TotalPages - 1

\* Every controller on screen or beside it shows news of its page's channel,
\* or is about to.
Served ==
    \A v \in 1 .. 3, c \in Channels :
        v \in Arrays!Range(visible) /\ frame[v] = c => Loading!Serving(v, c)

\* Nothing is loaded before the view is.
NotLoaded ==
    /\ currentPage = -1 /\ offset = 0 /\ direction = "right"
    /\ Idle /\ \A v \in 1 .. 3 : news[v] = <<>>

\* The page on screen is the one loaded last, but for page 0, which a flick
\* back from page 1 shows without a load.  No controller is parked before the
\* first flick.
Resting ==
    /\ \E p \in Channels : offset = 2 * p /\ currentPage \in {p, IF p = 0 THEN 1 ELSE p}
    /\ currentPage = 0 => reuse = <<>>
    /\ Served

Watching ==
    /\ Arrays!ArrayInv /\ Arrays!DirectionType /\ Loading!Inv
    /\ motion \in {"unloaded", "rest"}
    /\ motion = "unloaded" => NotLoaded
    /\ motion = "rest" => Resting

\* What holds of a user who waits and only flicks.
PatientInv == user \in Users /\ (~user.hasty => Watching)

-----------------------------------------------------------------------------
(* The lists' steps.                                                       *)

\* The database and the server keep what the lists promise, and keep serving
\* every controller its channel.
LEMMA NewsStepServes ==
    ASSUME Outcomes = {"ok"}, Loading!Inv, NewsStep
    PROVE  /\ Loading!Inv'
           /\ \A v \in 1 .. 3, c \in Channels :
                 Loading!Serving(v, c) => Loading!Serving(v, c)'
  <1>1. CASE Loading!RunGet
    BY <1>1, ConstantsFit, Loading!RunGetInv, Loading!RunGetServes
  <1>2. CASE Loading!RunDelete
    BY <1>2, ConstantsFit, Loading!RunDeleteInv, Loading!WritesServe
  <1>3. CASE Loading!RunInsert
    BY <1>3, ConstantsFit, Loading!RunInsertInv, Loading!WritesServe
  <1>4. CASE Loading!DeliverRows
    BY <1>4, ConstantsFit, Loading!DeliverRowsInv, Loading!DeliverRowsServes
  <1>5. CASE Loading!SomeResponse
    <2>1. PICK r \in requests, outcome \in Outcomes \ {"fail"} : Loading!Respond(r, outcome)
      BY <1>5 DEF Loading!SomeResponse
    <2>2. Loading!Respond(r, "ok")
      BY <2>1
    <2>. QED  BY <2>2, ConstantsFit, Loading!RespondInv, Loading!RespondServes
  <1>. QED  BY <1>1, <1>2, <1>3, <1>4, <1>5, SameListSteps DEF NewsStep

\* Lists that do nothing serve as before.
LEMMA ListsUnchanged ==
    ASSUME Loading!Inv, UNCHANGED listVars
    PROVE  /\ Loading!Inv'
           /\ \A v \in 1 .. 3, c \in Channels :
                 Loading!Serving(v, c) => Loading!Serving(v, c)'
  <1>1. UNCHANGED Loading!vars
    BY DEF listVars, Loading!vars, Loading!vcVars, Loading!counters, Loading!history
  <1>2. Loading!Inv'
    BY <1>1, ConstantsFit, Loading!StepInv
  <1>3. ASSUME NEW v \in 1 .. 3, NEW c \in Channels, Loading!Serving(v, c)
        PROVE  Loading!Serving(v, c)'
    <2>1. /\ channelName'[v] = channelName[v] /\ shown'[v] = shown[v]
          /\ Loading!Reads(v)' = Loading!Reads(v) /\ Loading!Results(v)' = Loading!Results(v)
          /\ Loading!Asks(v)' = Loading!Asks(v)
      BY DEF listVars, Loading!Reads, Loading!Results, Loading!Asks, Loading!Elements
    <2>. QED  BY <1>3, <2>1, ConstantsFit, Loading!ServedAlongside
  <1>. QED  BY <1>2, <1>3

-----------------------------------------------------------------------------
(* What the delegate loads.                                                *)

\* The calls made on page p name visible controllers and their pages: the
\* controller of p, and the neighbour on the side of the last flick.
CallsOn(p) ==
    LET calls == Arrays!DelegateCalls(p)
    IN  /\ calls \in Seq(Arrays!Range(calls))
        /\ \A d \in Arrays!Range(calls) :
              /\ d.to \in {"PreLoad", "DidChange"}
              /\ d.vc \in Arrays!Range(visible) /\ d.page = frame[d.vc]
        /\ \E d \in Arrays!Range(calls) : d.to = "DidChange" /\ d.page = p
        /\ Arrays!Side \in Channels =>
              \E d \in Arrays!Range(calls) : d.to = "PreLoad" /\ d.page = Arrays!Side

\* The container at rest on the page it has loaded makes such calls.
LEMMA CallsAreOn ==
    Arrays!OnItsPage => \A p \in Channels : currentPage = p => CallsOn(p)
  <1>1. Arrays!Pages = Channels
    BY DEF Arrays!Pages, Channels
  <1>. QED  BY <1>1, ConstantsFit, Arrays!CallsNamePages DEF CallsOn

\* The same of the state a handler leaves behind.
LEMMA CallsAreOnPrimed ==
    (Arrays!OnItsPage => \A p \in Channels : currentPage = p => CallsOn(p))'
  BY CallsAreOn, PTL

\* The visible controllers are three at most, each on a channel's page.
LEMMA VisibleControllers ==
    Arrays!ArrayInv =>
        \A v \in Arrays!Range(visible) :
            v \in 1 .. 3 /\ frame[v] \in Channels
            /\ \A w \in Arrays!Range(visible) : frame[v] = frame[w] => v = w
  <1> SUFFICES ASSUME Arrays!ArrayInv, NEW v \in Arrays!Range(visible)
               PROVE  v \in 1 .. 3 /\ frame[v] \in Channels
                      /\ \A w \in Arrays!Range(visible) : frame[v] = frame[w] => v = w
    OBVIOUS
  <1>1. frame \in Seq(Channels) /\ visible \in Seq(DOMAIN frame) /\ Len(frame) <= 3
    BY DEF Arrays!ArrayInv, Arrays!ArrayTypes, Arrays!FewControllers, Arrays!Pages, Channels
  <1>2. v \in DOMAIN frame
    BY <1>1 DEF Arrays!Range
  <1>3. \A w \in Arrays!Range(visible) : frame[v] = frame[w] => v = w
    BY DEF Arrays!ArrayInv, Arrays!WindowIsServed
  <1>. QED  BY <1>1, <1>2, <1>3

\* The loads that answer a sequence of calls are those of the calls that
\* the delegate answers.
LEMMA LoadsForFacts ==
    ASSUME NEW calls, calls \in Seq(Arrays!Range(calls)),
           \A d \in Arrays!Range(calls) : d.vc \in 1 .. 3 /\ d.page \in Channels
    PROVE  /\ LoadsFor(calls) \in Seq(Loading!Load)
           /\ \A l \in Loading!Elements(LoadsFor(calls)) :
                 \E d \in Arrays!Range(calls) : l.vc = d.vc /\ l.channel = d.page
           /\ \A d \in Arrays!Range(calls) : Answers(d) =>
                 /\ LoadsFor(calls) # <<>>
                 /\ \E l \in Loading!Elements(LoadsFor(calls)) : l.vc = d.vc
  <1> DEFINE S     == {call \in Range(calls) : Answers(call)}
             heard == Arrays!Kept(calls, S)
  <1>1. Range(calls) = Arrays!Range(calls)
    BY DEF Range, Arrays!Range
  <1>2. heard \in Seq(Arrays!Range(calls)) /\ Arrays!Range(heard) = Arrays!Range(calls) \cap S
    BY ConstantsFit, Arrays!KeptFacts
  <1>3. LoadsFor(calls) =
           [i \in DOMAIN heard |-> [vc |-> heard[i].vc, channel |-> heard[i].page]]
    BY SameKept DEF LoadsFor
  <1> HIDE DEF heard
  <1>4. \A i \in DOMAIN heard : heard[i] \in Arrays!Range(calls)
    BY <1>2
  <1>5. DOMAIN heard = 1 .. Len(heard) /\ Len(heard) \in Nat
    BY <1>2
  <1>6. \A i \in DOMAIN heard :
           [vc |-> heard[i].vc, channel |-> heard[i].page] \in Loading!Load
    BY <1>4 DEF Loading!Load, Channels
  <1>7. LoadsFor(calls) \in Seq(Loading!Load)
    BY <1>3, <1>5, <1>6
  <1>8. ASSUME NEW d \in Arrays!Range(calls), Answers(d)
        PROVE  /\ LoadsFor(calls) # <<>>
               /\ \E l \in Loading!Elements(LoadsFor(calls)) : l.vc = d.vc
    <2>1. d \in Arrays!Range(heard)
      BY <1>1, <1>2, <1>8
    <2>2. PICK i \in DOMAIN heard : heard[i] = d
      BY <2>1 DEF Arrays!Range
    <2>3. DOMAIN LoadsFor(calls) = DOMAIN heard /\ LoadsFor(calls)[i].vc = d.vc
      BY <1>3, <2>2
    <2>4. DOMAIN LoadsFor(calls) # {}
      BY <2>2, <2>3
    <2>. QED  BY <2>2, <2>3, <2>4 DEF Loading!Elements
  <1>9. \A l \in Loading!Elements(LoadsFor(calls)) :
           \E d \in Arrays!Range(calls) : l.vc = d.vc /\ l.channel = d.page
    BY <1>3, <1>4 DEF Loading!Elements
  <1>. QED  BY <1>7, <1>8, <1>9

\* A handler's loads serve every controller of the new window: those that
\* kept their page are served already, the one on the side of the flick is
\* loaded, and so is the one of the page itself while it has no news.
LEMMA DelegateServes ==
    ASSUME NEW p \in Channels, Loading!Inv, Idle, Arrays!OnItsPage', currentPage' = p,
           Delegate(Container!DelegateCalls(p)'),
           \A v \in 1 .. 3, c \in Channels :
              v \in Arrays!Range(visible)' /\ frame'[v] = c =>
                 Loading!Serving(v, c) \/ c = Arrays!Side' \/ (c = p /\ news[v] = <<>>)
    PROVE  Loading!Inv' /\ Served'
  <1> DEFINE calls  == Arrays!DelegateCalls(p)'
             loaded == LoadsFor(calls)
  <1>1. Delegate(calls)
    BY SameCallsPrimed
  <1>2. CallsOn(p)'
    BY CallsAreOnPrimed
  <1>3. /\ calls \in Seq(Arrays!Range(calls))
        /\ \A d \in Arrays!Range(calls) :
              /\ d.to \in {"PreLoad", "DidChange"}
              /\ d.vc \in Arrays!Range(visible)' /\ d.page = frame'[d.vc]
        /\ \E d \in Arrays!Range(calls) : d.to = "DidChange" /\ d.page = p
        /\ Arrays!Side' \in Channels =>
              \E d \in Arrays!Range(calls) : d.to = "PreLoad" /\ d.page = Arrays!Side'
    BY <1>2 DEF CallsOn, Channels
  <1> HIDE DEF calls
  <1>4. \A v \in Arrays!Range(visible)' :
            v \in 1 .. 3 /\ frame'[v] \in Channels
            /\ \A w \in Arrays!Range(visible)' : frame'[v] = frame'[w] => v = w
    <2>1. Arrays!ArrayInv'
      BY DEF Arrays!OnItsPage
    <2>2. (\A v \in Arrays!Range(visible) :
              v \in 1 .. 3 /\ frame[v] \in Channels
              /\ \A w \in Arrays!Range(visible) : frame[v] = frame[w] => v = w)'
      BY <2>1, VisibleControllers, PTL
    <2>. QED  BY <2>2 DEF Channels
  <1>5. \A d \in Arrays!Range(calls) : d.vc \in 1 .. 3 /\ d.page \in Channels
    BY <1>3, <1>4
  <1>6. /\ loaded \in Seq(Loading!Load)
        /\ \A l \in Loading!Elements(loaded) :
              \E d \in Arrays!Range(calls) : l.vc = d.vc /\ l.channel = d.page
        /\ \A d \in Arrays!Range(calls) : Answers(d) =>
              /\ loaded # <<>>
              /\ \E l \in Loading!Elements(loaded) : l.vc = d.vc
    BY <1>3, <1>5, LoadsForFacts
  <1>7. ASSUME NEW v \in 1 .. 3, NEW c \in Channels,
               v \in Arrays!Range(visible)', frame'[v] = c
        PROVE  \/ Loading!Serving(v, c)
               \/ \E d \in Arrays!Range(calls) : Answers(d) /\ d.vc = v
    <2>1. CASE c = Arrays!Side'
      <3>1. PICK d \in Arrays!Range(calls) : d.to = "PreLoad" /\ d.page = c
        BY <1>3, <2>1
      <3>. QED  BY <1>3, <1>4, <1>7, <3>1 DEF Answers
    <2>2. CASE c = p /\ news[v] = <<>>
      <3>1. PICK d \in Arrays!Range(calls) : d.to = "DidChange" /\ d.page = c
        BY <1>3, <2>2
      <3>2. d.vc = v
        BY <1>3, <1>4, <1>7, <3>1
      <3>. QED  BY <2>2, <3>1, <3>2, ConstantsFit DEF Answers, Channels
    <2>. QED  BY <1>7, <2>1, <2>2
  <1>8. \A v \in 1 .. 3, c \in Channels :
            v \in Arrays!Range(visible)' /\ frame'[v] = c =>
               \/ Loading!Serving(v, c)
               \/ loaded # <<>> /\ \E l \in Loading!Elements(loaded) : l.vc = v
    BY SMTT(30), <1>6, <1>7
  <1>9. \A l \in Loading!Elements(loaded) :
            l.vc \in Arrays!Range(visible)' /\ l.channel = frame'[l.vc]
    BY <1>3, <1>6
  <1> HIDE DEF loaded
  <1>10. CASE loaded = <<>>
    <2>1. UNCHANGED listVars
      BY <1>1, <1>10 DEF Delegate, loaded
    <2>2. Loading!Elements(loaded) = {}
      BY <1>10 DEF Loading!Elements
    <2>3. \A v \in 1 .. 3, c \in Channels :
             v \in Arrays!Range(visible)' /\ frame'[v] = c => Loading!Serving(v, c)
      BY <1>8, <1>10
    <2>. QED  BY <2>1, <2>3, ListsUnchanged DEF Served, Channels
  <1>11. CASE loaded # <<>>
    <2>1. Loading!LoadAll(loaded)
      BY <1>1, <1>11, SameLoadAll DEF Delegate, loaded
    <2>2. Loading!Inv'
      BY <1>6, <2>1, ConstantsFit, Loading!LoadAllInv
    <2>3. ASSUME NEW v \in 1 .. 3, NEW c \in Channels,
                 v \in Arrays!Range(visible)', frame'[v] = c
          PROVE  Loading!Serving(v, c)'
      <3>1. \A l \in Loading!Elements(loaded) : l.vc = v => l.channel = c
        BY <1>9, <2>3
      <3>2. Loading!Serving(v, c) \/ \E l \in Loading!Elements(loaded) : l.vc = v
        BY <1>8, <2>3
      <3>3. dbQueue = <<>> /\ mainQueue = <<>> /\ requests = {}
        BY DEF Idle
      <3>4. c \in 0 .. TotalPages - 1
        BY DEF Channels
      <3>. QED  BY <1>6, <2>1, <3>1, <3>2, <3>3, <3>4, ConstantsFit, Loading!LoadAllServes
    <2>. QED  BY <2>2, <2>3 DEF Served, Channels
  <1>. QED  BY <1>10, <1>11

-----------------------------------------------------------------------------
(* The window moves by one page.                                           *)

\* The container's assumptions hold of every channel's page.
LEMMA LoadsAreEffective ==
    ASSUME Arrays!ArrayInv, NEW p \in Channels, Arrays!LoadPage(p)
    PROVE  /\ Arrays!ArrayInv' /\ currentPage' = p
           /\ currentPage # p => Arrays!LoadEffect(p)
  <1>1. Arrays!Pages = Channels
    BY DEF Arrays!Pages, Channels
  <1>2. currentPage # p => Arrays!LoadEffect(p)
    BY <1>1, ConstantsFit, Arrays!LoadPageEffect DEF Arrays!ArrayInv
  <1>3. currentPage' = p
    BY <1>2 DEF Arrays!LoadEffect, Arrays!LoadPage, Arrays!containerVars
  <1>. QED  BY <1>1, <1>2, <1>3, ConstantsFit, Arrays!LoadKeepsArrays

\* After a flick every controller of the new window was on the same page
\* before, except the one of the neighbour on the side of the flick.  Page 0
\* is no exception, although every load takes its controller down: either it
\* is that neighbour, or this was the first flick and it is put back.
LEMMA WindowMoves ==
    ASSUME Arrays!ArrayInv, NEW p \in Channels, p # 0, Arrays!LoadPage(p),
           currentPage \in {p - 1, p, p + 1},
           currentPage = p - 1 => direction' = "right",
           currentPage = p + 1 => direction' = "left",
           currentPage = 0 => reuse = <<>>,
           NEW v \in Arrays!Range(visible)', frame'[v] # Arrays!Side'
    PROVE  v \in Arrays!Range(visible) /\ frame'[v] = frame[v]
  <1>1. CASE currentPage = p
    BY <1>1 DEF Arrays!LoadPage, Arrays!containerVars, Arrays!Range
  <1>2. CASE currentPage # p
    <2> DEFINE q == frame'[v]
    <2>1. currentPage' = p /\ Arrays!LoadEffect(p)
      BY <1>2, LoadsAreEffective
    <2>2. /\ q \in Arrays!Near(p)
          /\ \A w \in Arrays!Range(visible)' : frame'[w] = q => w = v
      BY <2>1 DEF Arrays!LoadEffect, Arrays!PagesOf, Arrays!Range
    <2>3. q \in Channels /\ q \in {p, currentPage}
      BY <1>2, <2>1, <2>2 DEF Arrays!Near, Arrays!Pages, Arrays!Side, Channels
    <2>4. q \in Arrays!Near(currentPage)
      BY <1>2, <2>3, ConstantsFit DEF Arrays!Near, Arrays!Pages, Channels
    <2>5. Arrays!PagesOf(Arrays!Range(visible)) = Arrays!Near(currentPage)
      BY ConstantsFit DEF Arrays!ArrayInv, Arrays!WindowIsServed, Channels
    <2>6. PICK w \in Arrays!Range(visible) : frame[w] = q
      BY <2>4, <2>5 DEF Arrays!PagesOf
    <2>7. CASE q # 0
      <3>1. w \in Arrays!Keeps(p)
        BY <2>2, <2>6, <2>7 DEF Arrays!Keeps
      <3>2. w \in Arrays!Range(visible)' /\ frame'[w] = q
        BY <2>1, <2>6, <3>1 DEF Arrays!LoadEffect, Arrays!Range
      <3>. QED  BY <2>2, <2>6, <3>2
    <2>8. CASE q = 0
      <3>1. currentPage = 0 /\ p = 1
        BY <1>2, <2>3, <2>8 DEF Channels
      <3>2. 1 \in Arrays!Pages /\ Arrays!LoadPage(1) /\ reuse = <<>>
        BY <3>1 DEF Arrays!Pages, Channels
      <3>3. w \in Arrays!Range(visible') /\ frame'[w] = 0
        BY <2>6, <2>8, <3>1, <3>2, ConstantsFit, Arrays!PageZeroIsPutBack
      <3>. QED  BY <2>2, <2>6, <2>8, <3>3 DEF Arrays!Range
    <2>. QED  BY <2>7, <2>8
  <1>. QED  BY <1>1, <1>2

-----------------------------------------------------------------------------
(* The invariant holds initially, and every step keeps it.                 *)

\* Before the view is loaded nothing is under way.
LEMMA InitWatching == Init => PatientInv
  <1> SUFFICES ASSUME Init PROVE Watching
    BY DEF Init, PatientInv
  <1>1. Arrays!Init => Arrays!ArrayInv /\ Arrays!DirectionType
    BY ConstantsFit, Arrays!InitArrays DEF Arrays!Init, Arrays!DirectionType
  <1>2. Container!Init /\ Lists!Init
    BY DEF Init
  <1>3. Arrays!Init
    BY <1>2 DEF Container!Init, Arrays!Init
  <1>4. Loading!Init
    BY <1>2 DEF Lists!Init, Loading!Init, Lists!Unknown, Loading!Unknown
  <1>5. Loading!Inv
    BY <1>4, ConstantsFit, Loading!InitInv
  <1>6. motion = "unloaded" /\ NotLoaded
    BY <1>2 DEF Container!Init, Lists!Init, NotLoaded, Idle
  <1>. QED  BY <1>1, <1>3, <1>5, <1>6 DEF Watching

\* The lists' steps move nothing on the screen.
LEMMA NewsStepWatched ==
    ASSUME Outcomes = {"ok"}, Watching, NewsStep
    PROVE  Watching'
  <1>1. /\ Loading!Inv'
        /\ \A v \in 1 .. 3, c \in Channels :
              Loading!Serving(v, c) => Loading!Serving(v, c)'
    BY NewsStepServes DEF Watching
  <1>2. UNCHANGED containerVars
    BY DEF NewsStep
  <1>3. Arrays!ArrayInv' /\ Arrays!DirectionType'
    BY <1>2, ConstantsFit, Arrays!IdleArrays
       DEF Watching, containerVars, Arrays!containerVars, Arrays!DirectionType
  <1>4. motion # "unloaded"
    BY SameListSteps DEF Watching, NotLoaded, Idle, NewsStep, Loading!RunGet, Loading!RunDelete,
       Loading!RunInsert, Loading!DeliverRows, Loading!SomeResponse
  <1>5. motion = "rest" /\ Resting
    BY <1>4 DEF Watching
  <1>6. Served'
    BY <1>1, <1>2, <1>5 DEF Resting, Served, containerVars, Arrays!Range, Channels
  <1>7. Resting'
    BY <1>2, <1>5, <1>6 DEF Resting, containerVars, Channels
  <1>. QED  BY <1>1, <1>2, <1>3, <1>5, <1>7 DEF Watching, containerVars

\* The first load serves the controllers of page 0, which has no news yet, and
\* of page 1, the neighbour on the right.
LEMMA FirstLoadWatched ==
    ASSUME Watching, ViewDidLoad
    PROVE  Watching'
  <1>1. /\ motion = "unloaded" /\ motion' = "rest" /\ direction' = direction
        /\ offset' = offset
        /\ Arrays!LoadPage(0) /\ Delegate(Container!DelegateCalls(0)')
    BY SameLoadPage DEF ViewDidLoad, Container!ViewDidLoad
  <1>2. NotLoaded /\ Loading!Inv /\ Arrays!ArrayInv
    BY <1>1 DEF Watching
  <1>3. 0 \in Channels
    BY ConstantsFit DEF Channels
  <1>4. Arrays!ArrayInv' /\ currentPage' = 0 /\ Arrays!LoadEffect(0)
    <2>1. currentPage # 0
      BY <1>2 DEF NotLoaded
    <2>. QED  BY <1>1, <1>2, <1>3, <2>1, LoadsAreEffective
  <1>5. Arrays!DirectionType' /\ Arrays!Side' = 1
    BY <1>1, <1>2, <1>4 DEF NotLoaded, Arrays!DirectionType, Arrays!Side
  <1>6. Arrays!OnItsPage'
    BY <1>1, <1>2, <1>3, <1>4, <1>5 DEF NotLoaded, Arrays!OnItsPage, Arrays!Pages, Channels
  <1>7. \A v \in 1 .. 3, c \in Channels :
           v \in Arrays!Range(visible)' /\ frame'[v] = c =>
              c = Arrays!Side' \/ (c = 0 /\ news[v] = <<>>)
    <2>1. \A v \in Arrays!Range(visible)' : frame'[v] \in Arrays!Near(0)
      BY <1>4 DEF Arrays!LoadEffect, Arrays!PagesOf, Arrays!Range
    <2>. QED  BY <1>2, <1>5, <2>1 DEF NotLoaded, Arrays!Near, Arrays!Pages
  <1>8. Loading!Inv' /\ Served'
    BY <1>1, <1>2, <1>3, <1>4, <1>6, <1>7, DelegateServes DEF NotLoaded
  <1>9. reuse' = <<>>
    <2>1. DOMAIN frame = {}
      BY <1>2 DEF NotLoaded, Arrays!ArrayInv, Arrays!WindowIsServed
    <2>2. reuse' \in Seq(DOMAIN frame') /\ Arrays!Range(reuse') = {}
      BY <1>4, <2>1 DEF Arrays!LoadEffect
    <2>. QED  BY <2>2 DEF Arrays!Range
  <1>10. Resting'
    BY <1>1, <1>2, <1>3, <1>4, <1>8, <1>9 DEF NotLoaded, Resting, Channels
  <1>. QED  BY <1>1, <1>4, <1>5, <1>8, <1>10 DEF Watching

\* A flick moves the content by one page at most, and its direction is that of
\* the move: a finger that moves on as it is lifted never takes the content to
\* the page on the other side.
LEMMA FlicksGoTheirWay ==
    ASSUME ~user.hasty, ~user.still, NEW q \in Channels, offset = 2 * q,
           NEW lift \in Lifts
    PROVE  /\ lift.page \in Channels \cap {q - 1, q, q + 1}
           /\ lift.direction \in {"left", "right"}
           /\ lift.page = q + 1 => lift.direction = "right"
           /\ lift.page = q - 1 => lift.direction = "left"
           /\ ~lift.moves => lift.page = q
  <1>1. PICK off \in 2 * q - 1 .. 2 * q + 1, velocity \in {-1, 1} :
            lift = Lift(off, velocity)
    BY DEF Lifts
  <1>2. /\ lift.page = Container!TargetOf(off, velocity)
        /\ lift.direction = Container!DirectionOf(velocity)
        /\ lift.moves <=> off # 2 * lift.page
    BY <1>1 DEF Lift
  <1>3. /\ off = 2 * q - 1 => off \div 2 = q - 1 /\ (off + 1) \div 2 = q
        /\ off = 2 * q => off \div 2 = q /\ (off + 1) \div 2 = q
        /\ off = 2 * q + 1 => off \div 2 = q /\ (off + 1) \div 2 = q + 1
    BY <1>1 DEF Channels
  <1>4. off = 2 * q - 1 \/ off = 2 * q \/ off = 2 * q + 1
    BY <1>1 DEF Channels
  <1>5. CASE velocity = 1
    BY <1>2, <1>3, <1>4, <1>5, ConstantsFit
       DEF Container!TargetOf, Container!DirectionOf, Container!Clamp, Channels
  <1>6. CASE velocity = -1
    BY <1>2, <1>3, <1>4, <1>6, ConstantsFit
       DEF Container!TargetOf, Container!DirectionOf, Container!Clamp, Channels
  <1>. QED  BY <1>1, <1>5, <1>6

\* A flick to the next page keeps the controllers that were there and loads
\* one anew; one that falls back to its page loads a neighbour again; one back
\* to page 0 loads nothing, and so does a finger lifted on the page itself.
LEMMA DragWatched ==
    ASSUME Watching, Idle, ~user.hasty, ~user.still, NEW lift \in Lifts, Drag(lift)
    PROVE  Watching'
  <1> DEFINE p == lift.page
  <1>1. /\ motion = "rest" /\ motion' = motion /\ offset' = 2 * p
        /\ direction' = lift.direction
        /\ IF lift.moves THEN SettlesOn(p) ELSE RestsOn(p)
    BY DEF Drag, Gesture, SettlesOn, RestsOn
  <1>2. Resting /\ Loading!Inv /\ Arrays!ArrayInv
    BY <1>1 DEF Watching
  <1>3. PICK q \in Channels : offset = 2 * q /\ currentPage \in {q, IF q = 0 THEN 1 ELSE q}
    BY <1>2 DEF Resting
  <1>4. p \in Channels /\ p \in {q - 1, q, q + 1} /\ (~lift.moves => p = q)
    BY <1>3, FlicksGoTheirWay
  <1>5. /\ direction' \in {"left", "right"}
        /\ p = q + 1 => direction' = "right"
        /\ p = q - 1 => direction' = "left"
    BY <1>1, <1>3, FlicksGoTheirWay
  <1> HIDE DEF p
  <1>6. CASE p = 0 \/ ~lift.moves
    <2>1. UNCHANGED <<visible, reuse, frame, currentPage>> /\ UNCHANGED listVars
      BY <1>1, <1>6 DEF SettlesOn, RestsOn, Container!Handles
    <2>2. currentPage \in {p, IF p = 0 THEN 1 ELSE p}
      BY <1>3, <1>4, <1>6 DEF Channels
    <2>3. Arrays!ArrayInv' /\ Arrays!DirectionType'
      BY <1>2, <1>5, <2>1, ConstantsFit, Arrays!IdleArrays
         DEF Arrays!containerVars, Arrays!DirectionType
    <2>4. Loading!Inv' /\ Served'
      BY <1>2, <2>1, ListsUnchanged DEF Resting, Served, Arrays!Range, Channels
    <2>5. currentPage = 0 => reuse = <<>>
      BY <1>2 DEF Resting
    <2>6. Resting'
      BY <1>1, <1>4, <2>1, <2>2, <2>4, <2>5 DEF Resting, Channels
    <2>. QED  BY <1>1, <2>3, <2>4, <2>6 DEF Watching
  <1>7. CASE p # 0 /\ lift.moves
    <2>1. Arrays!LoadPage(p) /\ Delegate(Container!DelegateCalls(p)')
      <3>1. Container!Handles(2 * p)
        BY <1>4, <1>7, ConstantsFit DEF Container!Handles, Channels
      <3>. QED  BY <1>1, <1>7, <3>1, SameLoadPage DEF SettlesOn
    <2>2. Arrays!ArrayInv' /\ currentPage' = p
      BY <1>2, <1>4, <2>1, LoadsAreEffective
    <2>3. Arrays!DirectionType' /\ Arrays!OnItsPage'
      BY <1>1, <1>4, <1>5, <2>2 DEF Arrays!DirectionType, Arrays!OnItsPage, Arrays!Pages, Channels
    <2>4. /\ currentPage \in {p - 1, p, p + 1}
          /\ currentPage = p - 1 => direction' = "right"
          /\ currentPage = p + 1 => direction' = "left"
      BY <1>3, <1>4, <1>5, <1>7 DEF Channels
    <2>5. currentPage = 0 => reuse = <<>>
      BY <1>2 DEF Resting
    <2>6. \A v \in 1 .. 3, c \in Channels :
             v \in Arrays!Range(visible)' /\ frame'[v] = c =>
                Loading!Serving(v, c) \/ c = Arrays!Side'
      BY <1>2, <1>4, <1>7, <2>1, <2>4, <2>5, WindowMoves DEF Resting, Served
    <2>7. Loading!Inv' /\ Served'
      BY <1>2, <1>4, <2>1, <2>2, <2>3, <2>6, DelegateServes
    <2>8. Resting'
      BY <1>1, <1>4, <1>7, <2>2, <2>7 DEF Resting, Channels
    <2>. QED  BY <1>1, <2>2, <2>3, <2>7, <2>8 DEF Watching
  <1>. QED  BY <1>6, <1>7

\* A user who waits neither taps nor lifts a finger still, so that no step but
\* these is taken.
LEMMA NextWatching ==
    ASSUME Outcomes = {"ok"}, \A u \in Users : u.jumps \/ u.still => u.hasty,
           PatientInv, [Next]_vars
    PROVE  PatientInv'
  <1> SUFFICES ASSUME ~user.hasty, user' = user
               PROVE  Watching'
    <2>1. user' = user
      BY DEF Next, ViewDidLoad, Drag, Jump, Gesture, NewsStep, vars
    <2>. QED  BY <2>1 DEF PatientInv
  <1>1. Watching /\ ~user.jumps /\ ~user.still
    BY DEF PatientInv
  <1>2. CASE ViewDidLoad
    BY <1>1, <1>2, FirstLoadWatched
  <1>3. ASSUME NEW lift \in Lifts, Drag(lift)
        PROVE  Watching'
    <2>1. Idle
      BY <1>3 DEF Drag, Gesture
    <2>. QED  BY <1>1, <1>3, <2>1, DragWatched
  <1>4. CASE NewsStep
    BY <1>1, <1>4, NewsStepWatched
  <1>5. CASE UNCHANGED vars
    <2>1. UNCHANGED containerVars /\ UNCHANGED listVars
      BY <1>5 DEF vars
    <2>2. Arrays!ArrayInv' /\ Arrays!DirectionType'
      BY <1>1, <2>1, ConstantsFit, Arrays!IdleArrays
         DEF Watching, containerVars, Arrays!containerVars, Arrays!DirectionType
    <2>3. /\ Loading!Inv'
          /\ \A v \in 1 .. 3, c \in Channels :
                Loading!Serving(v, c) => Loading!Serving(v, c)'
      BY <1>1, <2>1, ListsUnchanged DEF Watching
    <2>4. NotLoaded => NotLoaded'
      BY <2>1 DEF NotLoaded, Idle, containerVars, listVars
    <2>5. Served => Served'
      BY <2>1, <2>3 DEF Served, containerVars, Arrays!Range, Channels
    <2>6. Resting => Resting'
      BY <2>1, <2>5 DEF Resting, containerVars, Channels
    <2>. QED  BY <1>1, <2>1, <2>2, <2>3, <2>4, <2>6 DEF Watching, containerVars
  <1>. QED  BY <1>1, <1>2, <1>3, <1>4, <1>5 DEF Next

-----------------------------------------------------------------------------
(* What the user sees.                                                     *)

\* Once everything that was started has finished, the controller of the page
\* at rest shows that page's channel.
LEMMA SettledPageShows ==
    ASSUME PatientInv, ~user.hasty, motion = "rest", Idle
    PROVE  /\ OnPage(offset \div 2) # {}
           /\ LET rows == shown[ControllerOn(offset \div 2)]
              IN  /\ rows # <<>>
                  /\ \A i \in DOMAIN rows : rows[i].channel = offset \div 2
  <1>1. Resting /\ Arrays!ArrayInv
    BY DEF PatientInv, Watching
  <1>2. PICK p \in Channels : offset = 2 * p /\ currentPage \in {p, IF p = 0 THEN 1 ELSE p}
    BY <1>1 DEF Resting
  <1>3. offset \div 2 = p
    BY <1>2 DEF Channels
  <1>4. visible \in Seq(DOMAIN frame) /\ currentPage \in Channels
    BY <1>1, <1>2, ConstantsFit
       DEF Arrays!ArrayInv, Arrays!ArrayTypes, Arrays!Pages, Channels
  <1>5. p \in Arrays!Near(currentPage)
    BY <1>2 DEF Arrays!Near, Arrays!Pages, Channels
  <1>6. Arrays!PagesOf(Arrays!Range(visible)) = Arrays!Near(currentPage)
    BY <1>1, <1>4 DEF Arrays!ArrayInv, Arrays!WindowIsServed, Channels
  <1>7. PICK w \in Arrays!Range(visible) : frame[w] = p
    BY <1>5, <1>6 DEF Arrays!PagesOf
  <1>8. OnPage(p) # {} /\ OnPage(p) \subseteq DOMAIN visible
    BY <1>4, <1>7 DEF OnPage, Arrays!Range
  <1> DEFINE v == ControllerOn(p)
  <1>9. v \in Arrays!Range(visible) /\ frame[v] = p
    <2>1. (CHOOSE i \in OnPage(p) : TRUE) \in OnPage(p)
      BY <1>8
    <2>. QED  BY <1>8, <2>1 DEF ControllerOn, OnPage, Arrays!Range
  <1>10. v \in 1 .. 3
    BY <1>1, <1>9, VisibleControllers
  <1>11. Loading!Serving(v, p)
    BY <1>1, <1>9, <1>10 DEF Resting, Served
  <1>12. Loading!Shows(v, p)
    BY <1>11, ConstantsFit, Loading!IdleServes DEF Idle
  <1> HIDE DEF v
  <1>13. shown[v] # <<>> /\ \A i \in DOMAIN shown[v] : shown[v][i].channel = p
    BY <1>12 DEF Loading!Shows, Loading!Elements
  <1>. QED  BY <1>3, <1>8, <1>13 DEF v

\* PageShowsItsChannel for any number of channels, flicks and failing
\* statements: whoever neither taps on titles nor lifts a finger that has
\* stopped moving, and waits until the news of a page are there, sees news on
\* every page and none of another channel, although three controllers share
\* the pages.  The server answers every request with news that decode; without
\* an answer the page on screen stays empty.
THEOREM FlicksShowTheirChannel ==
    ASSUME Outcomes = {"ok"}, \A u \in Users : u.jumps \/ u.still => u.hasty
    PROVE  Spec => []PageShowsItsChannel
  <1>1. Init => PatientInv
    BY InitWatching
  <1>2. PatientInv /\ [Next]_vars => PatientInv'
    BY NextWatching
  <1>3. PatientInv => PageShowsItsChannel
    BY SettledPageShows DEF PageShowsItsChannel
  <1>. QED  BY <1>1, <1>2, <1>3, PTL DEF Spec
=============================================================================
