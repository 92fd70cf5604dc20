------------------------------ MODULE NewsPages ------------------------------
(***************************************************************************)
(* MainContainVC: the paging container, its delegate and the news lists    *)
(* together.  Every settled gesture makes the container move its list      *)
(* controllers (PageViewController.tla) and call the delegate, which loads *)
(* channels into them (NewsList.tla) while database blocks and server      *)
(* answers run in between.                                                 *)
(*                                                                         *)
(* Scrolling itself touches no controller, so that a gesture is one step   *)
(* here: the finger is lifted, or a title tapped, the content comes to     *)
(* rest on a page, and the handler runs if there is one.                   *)
(* Channel categories are pages: viewModel.channels[page].category = page. *)
(***************************************************************************)
EXTENDS Integers, Sequences, FiniteSets, SequencesExt

CONSTANTS
    TotalPages,   \* number of channels
    Outcomes, MaxFailures,    \* as in NewsList
    MaxGestures,  \* bound on the gestures
    Users         \* who uses it: whether titles are tapped, whether a finger may be
                  \* lifted still, whether gestures come while the content moves
                  \* or loads are running, and bounds on what a gesture may find
                  \* running, the pages visited, the gestures and the failing
                  \* statements

ASSUME NewsPagesAssumption ==
    /\ TotalPages \in Nat \ {0}
    /\ Outcomes \subseteq {"ok", "lastBad", "none", "fail"}
    /\ MaxFailures \in Nat /\ MaxGestures \in Nat
    /\ Users \subseteq [jumps : BOOLEAN, still : BOOLEAN, hasty : BOOLEAN,
                        unfinished : Nat, reach : 0 .. TotalPages,
                        gestures : 0 .. MaxGestures, failures : 0 .. MaxFailures]

VARIABLES
    visible, reuse, frame, currentPage, direction,    \* PageViewController
    offset, motion,
    channelName, news, shown, dbQueue, mainQueue, requests,    \* NewsList
    table, lastId, loads, failures, crashes, asked, answer, overlapped,
    gestures,   \* counter for the bound
    user        \* one of Users

\* A handler loads two controllers at most.
MaxLoads == 2 * (MaxGestures + 1)

Container == INSTANCE PageViewController WITH
    target <- offset \div 2, selected <- offset \div 2

Lists == INSTANCE NewsList WITH
    VC <- 1 .. 3, Channels <- 0 .. TotalPages - 1, NoChannel <- -1,
    MaxCrashes <- 0

containerVars == <<visible, reuse, frame, currentPage, direction, offset, motion>>
listVars == <<channelName, news, shown, dbQueue, mainQueue, requests, table,
              lastId, loads, failures, crashes, asked, answer, overlapped>>
vars == <<containerVars, listVars, gestures, user>>

Init == Container!Init /\ Lists!Init /\ gestures = 0 /\ user \in Users

-----------------------------------------------------------------------------
(* The delegate.                                                           *)

\* Mutants: the current controller is never loaded; a neighbour that still
\* has the news of an earlier page is not loaded again.
AnswersPreLoad(call) == call.to = "PreLoad"
AnswersWhenEmpty(call) == news[call.vc] = <<>>

\* pageViewControllerPreLoad always loads; pageViewControllerDidChange only
\* loads a controller without news.  Both index viewModel.channels.
Answers(call) ==
    \/ call.to = "PreLoad"
    \/ /\ call.to = "DidChange"
       /\ call.page >= 0 /\ call.page <= TotalPages
       /\ news[call.vc] = <<>>

\* The loads that a handler's delegate calls amount to.
LoadsFor(calls) ==
    LET answered == Container!Kept(calls, {call \in Range(calls) : Answers(call)})
    IN  [i \in DOMAIN answered |->
            [vc |-> answered[i].vc, channel |-> answered[i].page]]

Delegate(calls) ==
    \E heard \in {calls} : \E answered \in {LoadsFor(heard)} :
        IF answered = <<>> THEN UNCHANGED listVars ELSE Lists!LoadAll(answered)

-----------------------------------------------------------------------------
(* Steps.                                                                  *)

\* setupUI adds the container's view, which loads page 0 and reports it.
ViewDidLoad ==
    /\ Container!ViewDidLoad
    /\ Delegate(Container!DelegateCalls(0)')
    /\ UNCHANGED <<gestures, user>>

\* The blocks and requests still to come.
Unfinished == Len(dbQueue) + Len(mainQueue) + Cardinality(requests)

Idle == dbQueue = <<>> /\ mainQueue = <<>> /\ requests = {}

\* The content settles on page p and a settling handler runs.
SettlesOn(p) ==
    /\ offset' = 2 * p
    /\ IF Container!Handles(2 * p)
       THEN Container!LoadPage(p) /\ Delegate(Container!DelegateCalls(p)')
       ELSE UNCHANGED <<visible, reuse, frame, currentPage, listVars>>

\* The content is already there: nobody is told.
RestsOn(p) ==
    /\ offset' = 2 * p
    /\ UNCHANGED <<visible, reuse, frame, currentPage, listVars>>

Gesture ==
    /\ motion = "rest" /\ UNCHANGED motion
    /\ gestures < user.gestures /\ gestures' = gestures + 1
    /\ Idle \/ (user.hasty /\ Unfinished <= user.unfinished)
    /\ UNCHANGED user

\* What is left of a drag once the finger is lifted.
Lift(off, velocity) ==
    LET p == Container!TargetOf(off, velocity)
    IN  [direction |-> Container!DirectionOf(velocity), page |-> p, moves |-> off # 2 * p]

\* A drag takes the content less than a page away from where it rested,
\* unless the finger catches it again and again before it has settled.
Lifts ==
    {Lift(off, velocity) :
        off \in IF user.hasty THEN Container!HalfPages
                ELSE Container!HalfPages \cap (offset - 1 .. offset + 1),
        velocity \in IF user.still THEN {-1, 0, 1} ELSE {-1, 1}}

Drag(lift) ==
    /\ Gesture
    /\ lift.page < user.reach
    /\ direction' = lift.direction
    /\ IF lift.moves THEN SettlesOn(lift.page) ELSE RestsOn(lift.page)

\* A tapped title moves the content and leaves the direction alone; who is
\* hasty may have dragged before, and may tap on the title of the page left.
Jump(p) ==
    /\ Gesture
    /\ IF user.hasty THEN direction' \in {"left", "right"}
                     ELSE 2 * p # offset /\ UNCHANGED direction
    /\ SettlesOn(p)

NewsStep ==
    /\ \/ Lists!RunGet \/ Lists!RunDelete \/ Lists!RunInsert
       \/ Lists!DeliverRows \/ Lists!SomeResponse
    /\ failures' <= user.failures
    /\ UNCHANGED <<containerVars, gestures, user>>

Next ==
    \/ ViewDidLoad
    \/ \E lift \in Lifts : Drag(lift)
    \/ user.jumps /\ \E p \in 0 .. user.reach - 1 : Jump(p)
    \/ NewsStep

\* The queues keep running and the server answers; the user owes nothing.
Fairness == WF_vars(NewsStep)

Spec == Init /\ [][Next]_vars /\ Fairness

-----------------------------------------------------------------------------
(* Properties.                                                             *)

OnPage(p) == {v \in 1 .. Len(visible) : frame[visible[v]] = p}

ControllerOn(p) == visible[CHOOSE i \in OnPage(p) : TRUE]

\* Once everything that was started has finished, the page on screen shows
\* news, and all of them are of its own channel.  It holds for a user who
\* flicks from page to page and waits, although controllers move between
\* pages with the news of earlier ones.  A tapped title breaks it, and so does
\* a page moved to the right by a finger that is still when it is lifted.
PageShowsItsChannel ==
    ~user.hasty /\ motion = "rest" /\ Idle =>
        /\ OnPage(offset \div 2) # {}
        /\ LET rows == shown[ControllerOn(offset \div 2)]
           IN  /\ rows # <<>>
               /\ \A i \in DOMAIN rows : rows[i].channel = offset \div 2

\* However hastily the user drags and taps, a page that stays on screen
\* eventually has news in its table view, if it is the one the container was
\* last told of.  (It is not told of page 0 but at the start, nor of a page on
\* which the finger was lifted exactly.)
PageEventuallyShowsNews ==
    \A p \in 0 .. TotalPages - 1 :
        (motion = "rest" /\ offset = 2 * p /\ currentPage = p)
            ~> \/ offset # 2 * p \/ currentPage # p
               \/ \E i \in OnPage(p) : shown[visible[i]] # <<>>
=============================================================================
