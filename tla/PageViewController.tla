------------------------- MODULE PageViewController -------------------------
(***************************************************************************)
(* The paging container of Component/PageViewController.swift with the     *)
(* title bar of Modules/Channel/View/ChannelView.swift, driven by one      *)
(* finger on a UIScrollView with paging enabled.                           *)
(*                                                                         *)
(* List controllers are numbered in the order the data source creates      *)
(* them.  Content offsets are counted in half pages, which is what the     *)
(* rounding in scrollViewDidScroll tells apart; a drag may pull the        *)
(* content half a page beyond either end.                                  *)
(***************************************************************************)
EXTENDS Integers, Sequences, SequencesExt

CONSTANTS TotalPages    \* totalPages: one page per channel title

ASSUME TotalPagesAssumption == TotalPages \in Nat \ {0}

VARIABLES
    visible,      \* visibleViewController: controllers on a page, in order
    reuse,        \* reuseViewControllers: parked controllers, first out first
    frame,        \* frame[v]: the page at which controller v was placed last
    currentPage,  \* currentPage: the page of the last load, -1 before any
    direction,    \* direction of the last drag
    offset,       \* contentOffset.x of pageScrollView, in half pages
    motion,       \* what moves the scroll view
    target,       \* the page the scroll view is moving to
    selected      \* the title ChannelView shows as selected

containerVars == <<visible, reuse, frame, currentPage>>
scrollVars == <<offset, motion, target>>
vars == <<containerVars, direction, scrollVars, selected>>

Pages == 0 .. TotalPages - 1
HalfPages == -1 .. 2 * TotalPages - 1

Init ==
    /\ visible = <<>> /\ reuse = <<>> /\ frame = <<>>
    /\ currentPage = -1
    /\ direction = "right"
    /\ offset = 0 /\ motion = "unloaded" /\ target = 0
    /\ selected = 0

-----------------------------------------------------------------------------
(* loadPage and the reuse pool.                                            *)

\* The elements of s that are in S, in order: SelectSeq, whose definition
\* the provers do not see.
Kept(s, S) ==
    LET kept[i \in 0 .. Len(s)] ==
            IF i = 0 THEN <<>>
            ELSE IF s[i] \in S THEN Append(kept[i - 1], s[i]) ELSE kept[i - 1]
    IN  kept[Len(s)]

WindowFrames(page) == <<page, page - 1, page + 1>>

\* Mutant: a controller one page behind the window is kept.
LeavesLate(v, page) == frame[v] = 0 \/ frame[v] \notin page - 2 .. page + 1

\* The loop over visibleViewController: a controller leaves if it is on page
\* 0, outside the window, or on a page an earlier controller already covers.
Leaves(v, page) ==
    \/ frame[v] = 0
    \/ frame[v] \notin Range(WindowFrames(page))
    \/ \E i, j \in DOMAIN visible :
          i < j /\ visible[j] = v /\ frame[visible[i]] = frame[v]

Leaving(page) == Kept(visible, {v \in Range(visible) : Leaves(v, page)})
Staying(page) == Kept(visible, {v \in Range(visible) : ~Leaves(v, page)})

\* pagesFrames after the loop, without the pages addChildViewController
\* turns down.
Wanted(page) ==
    Kept(WindowFrames(page), Pages \ {frame[v] : v \in Range(Staying(page))})

\* dequeueReuseViewController once per wanted page: the first parked
\* controller, or a new one when none is left.
Dequeued(pool, n) ==
    [i \in 1 .. n |-> IF i <= Len(pool) THEN pool[i]
                      ELSE Len(frame) + i - Len(pool)]

\* Places controller served[i] on page pages[i].
Placed(served, pages) ==
    [v \in DOMAIN frame \cup Range(served) |->
        IF v \in Range(served)
        THEN pages[CHOOSE i \in DOMAIN served : served[i] = v]
        ELSE frame[v]]

\* Mutant: the controllers that leave are parked once the pages are served.
LoadPageParksLate(page) ==
    IF currentPage = page THEN UNCHANGED containerVars
    ELSE \E wanted \in {Wanted(page)} :
         LET served == Dequeued(reuse, Len(wanted))
         IN  /\ currentPage' = page
             /\ visible' = Staying(page) \o served
             /\ reuse' = SubSeq(reuse, Len(wanted) + 1, Len(reuse)) \o Leaving(page)
             /\ frame' = Placed(served, wanted)

\* currentPage is set first; a page already loaded is left alone.
LoadPage(page) ==
    IF currentPage = page THEN UNCHANGED containerVars
    ELSE \E pool \in {reuse \o Leaving(page)}, wanted \in {Wanted(page)} :
         LET served == Dequeued(pool, Len(wanted))
         IN  /\ currentPage' = page
             /\ visible' = Staying(page) \o served
             /\ reuse' = SubSeq(pool, Len(wanted) + 1, Len(pool))
             /\ frame' = Placed(served, wanted)

-----------------------------------------------------------------------------
(* pageDidChange: the calls the delegate receives, in order.  They are     *)
(* read off the state the handler leaves behind.                           *)

LastOf(s) == IF s = <<>> THEN {} ELSE {Last(s)}

\* Mutant: the neighbours are taken from the wrong sides.
AfterVCSwapped(vc) ==
    LastOf(Kept(visible, {v \in Range(visible) : frame[v] < frame[vc]}))

BeforeVC(vc) ==
    LastOf(Kept(visible, {v \in Range(visible) : frame[v] < frame[vc]}))
AfterVC(vc) ==
    LastOf(Kept(visible, {v \in Range(visible) : frame[v] > frame[vc]}))

PreLoads(vc) == IF direction = "left" THEN BeforeVC(vc) ELSE AfterVC(vc)

OnScreen == Kept(visible, {v \in Range(visible) : 2 * frame[v] = offset})

DelegateCalls(page) ==
    IF OnScreen = <<>> THEN <<>>
    ELSE LET vc == Head(OnScreen)
         IN  SetToSeq({[to |-> "PreLoad", vc |-> v, page |-> frame[v]] :
                          v \in PreLoads(vc)})
               \o <<[to |-> "DidChange", vc |-> vc, page |-> page]>>

-----------------------------------------------------------------------------
(* Handlers.                                                               *)

\* Mutants: the upper bound is forgotten; the last page is never selected.
ClampBelowOnly(p) == IF p < 0 THEN 0 ELSE p
ClampShort(p) == IF p < 0 THEN 0 ELSE IF p > TotalPages - 2 THEN TotalPages - 2 ELSE p

Clamp(p) == IF p < 0 THEN 0 ELSE IF p > TotalPages - 1 THEN TotalPages - 1 ELSE p

\* roundf: halves go away from zero.
PageAt(off) == Clamp(IF off < 0 THEN off \div 2 ELSE (off + 1) \div 2)

\* Mutant: the second page is taken for the first.
HandlesFromThird(off) == off > 2 /\ off < 2 * TotalPages

\* Where the settling handlers do anything at all.
Handles(off) == off > 0 /\ off < 2 * TotalPages

\* viewDidLoad: page 0 is loaded and reported.
ViewDidLoad ==
    /\ motion = "unloaded"
    /\ motion' = "rest"
    /\ LoadPage(0)
    /\ UNCHANGED <<direction, offset, target, selected>>

\* scrollViewDidEndDecelerating and scrollViewDidEndScrollingAnimation have
\* the same body; pageDidChange is DelegateCalls in the new state.
Settle ==
    /\ motion' = "rest"
    /\ IF Handles(offset) THEN LoadPage(PageAt(offset))
                          ELSE UNCHANGED containerVars
    /\ UNCHANGED <<direction, offset, target, selected>>

DidEndDecelerating ==
    /\ motion = "decelerating" /\ offset = 2 * target
    /\ Settle

DidEndScrollingAnimation ==
    /\ motion = "animating" /\ offset = 2 * target
    /\ Settle

\* The calls of the handler that leads from the old state to the new one.
SettleCalls == IF Handles(offset) THEN DelegateCalls(PageAt(offset)) ELSE <<>>

-----------------------------------------------------------------------------
(* The user and UIScrollView.                                              *)

\* Every change of the offset calls scrollViewDidScroll, which selects the
\* title of the nearest page.
MoveTo(off) ==
    /\ off \in HalfPages
    /\ offset' = off
    /\ selected' = PageAt(off)

\* didBtnClick: the content is animated to the page of the title, then the
\* title is selected.  From rest, without a distance to cover, there is no
\* animation and no callback; a motion under way turns into the animation.
TapTitle(i) ==
    /\ motion \in {"rest", "decelerating", "animating"}
    /\ target' = i
    /\ motion' = IF motion = "rest" /\ offset = 2 * i THEN "rest" ELSE "animating"
    /\ selected' = i
    /\ UNCHANGED <<containerVars, direction, offset>>

\* One half page of a running animation or deceleration.
Glide ==
    /\ motion \in {"decelerating", "animating"}
    /\ offset # 2 * target
    /\ MoveTo(IF offset < 2 * target THEN offset + 1 ELSE offset - 1)
    /\ UNCHANGED <<containerVars, direction, motion, target>>

\* A drag begins once the finger has moved; it stops whatever moved the
\* content before.
BeginDrag ==
    /\ motion \in {"rest", "decelerating", "animating"}
    /\ motion' = "dragging"
    /\ \E off \in {offset - 1, offset + 1} : MoveTo(off)
    /\ UNCHANGED <<containerVars, direction, target>>

Drag ==
    /\ motion = "dragging"
    /\ \E off \in {offset - 1, offset + 1} : MoveTo(off)
    /\ UNCHANGED <<containerVars, direction, motion, target>>

\* scrollViewWillEndDragging: a finger lifted still counts as a drag to the
\* left.
DirectionOf(velocity) == IF velocity > 0 THEN "right" ELSE "left"

\* Paging picks the next page in the direction of the velocity, or the
\* nearest one.
TargetOf(off, velocity) ==
    CASE velocity > 0 -> Clamp((off \div 2) + 1)
      [] velocity < 0 -> Clamp(((off + 1) \div 2) - 1)
      [] velocity = 0 -> PageAt(off)

\* A finger lifted exactly on the page picked leaves nothing to decelerate and
\* no callback.
WillEndDragging(velocity) ==
    /\ motion = "dragging"
    /\ direction' = DirectionOf(velocity)
    /\ target' = TargetOf(offset, velocity)
    /\ motion' = IF offset = 2 * target' THEN "rest" ELSE "decelerating"
    /\ UNCHANGED <<containerVars, offset, selected>>

-----------------------------------------------------------------------------
Next ==
    \/ ViewDidLoad
    \/ DidEndDecelerating
    \/ DidEndScrollingAnimation
    \/ \E i \in Pages : TapTitle(i)
    \/ Glide
    \/ BeginDrag
    \/ Drag
    \/ \E velocity \in {-1, 0, 1} : WillEndDragging(velocity)

\* UIKit completes the motions it has started and reports their end.
Fairness ==
    /\ WF_vars(Glide)
    /\ WF_vars(DidEndDecelerating)
    /\ WF_vars(DidEndScrollingAnimation)

Spec == Init /\ [][Next]_vars /\ Fairness

-----------------------------------------------------------------------------
(* Properties.                                                             *)

\* Every controller has a frame, and every index handed to the title bar or
\* to the channel list is that of a page: titleButtons[index] and
\* viewModel.channels[page] never trap.
TypeOK ==
    /\ Range(visible) \cup Range(reuse) = DOMAIN frame
    /\ Range(visible) \cap Range(reuse) = {}
    /\ IsInjective(visible) /\ IsInjective(reuse)
    /\ Range(frame) \subseteq Pages
    /\ currentPage \in Pages \cup {-1}
    /\ direction \in {"left", "right"}
    /\ offset \in HalfPages
    /\ motion \in {"unloaded", "rest", "dragging", "decelerating", "animating"}
    /\ target \in Pages /\ selected \in Pages

\* When nothing moves, the selected title is the one of the page on screen,
\* whatever mix of taps, drags and interrupted animations led there (the
\* selection is changed both by the tap and by every scroll event).
TitleFollowsPage == motion = "rest" => offset = 2 * selected

\* A handler that runs past page 0 reports to the delegate the controller on
\* the very page that settled, and asks for the neighbour in the direction of
\* the last drag, if there is one (pageDidChange finds both by frame).
SettleReachesDelegate ==
    [][(DidEndDecelerating \/ DidEndScrollingAnimation) /\ offset > 0 =>
         LET calls == SettleCalls'
             p     == offset \div 2
             side  == IF direction = "left" THEN p - 1 ELSE p + 1
         IN  /\ calls # <<>>
             /\ Last(calls).to = "DidChange"
             /\ Last(calls).page = p /\ frame'[Last(calls).vc] = p
             /\ {c.page : c \in {d \in Range(calls) : d.to = "PreLoad"}}
                  = {side} \cap Pages]_vars

\* A tapped title other than the first is eventually answered by a
\* controller on its page, unless the user drags or taps elsewhere first.
TapIsServed ==
    \A i \in Pages \ {0} :
        (motion = "animating" /\ target = i)
            ~> \/ motion = "dragging" \/ target # i
               \/ \E v \in Range(visible) : frame[v] = i

\* The comment over scrollViewDidEndScrollingAnimation says that it handles
\* page jumps: a jump that ends should leave a controller on the page shown.
JumpIsHandled ==
    [][DidEndScrollingAnimation =>
         \E v \in Range(visible') : 2 * frame'[v] = offset']_vars

-----------------------------------------------------------------------------
(* The arrays implement the pool of PagePool.tla.                          *)

MaxControllers == 4

place == [v \in 1 .. MaxControllers |->
             IF v \notin DOMAIN frame THEN -2
             ELSE IF v \in Range(reuse) THEN -1 ELSE frame[v]]

Pool == INSTANCE PagePool WITH
    NumPages <- TotalPages,
    VC       <- 1 .. MaxControllers,
    current  <- currentPage

\* Every load the arrays perform is one the abstract pool allows.
ImplementsPool == Pool!Spec

\* However the user drags and jumps, the container never creates a fourth
\* list controller: loadPage parks before it dequeues, also the controller
\* on page 0 that it takes down on every load.
AtMostThree == Pool!AtMostThree
=============================================================================
