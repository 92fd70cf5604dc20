------------------------------ MODULE PagePool ------------------------------
(***************************************************************************)
(* What the paging container of Component/PageViewController.swift         *)
(* promises about its list controllers, whatever the order of its arrays:  *)
(* loading a page leaves exactly one controller on each page of the        *)
(* window {p-1, p, p+1} that exists, parks the controllers that left the   *)
(* window, and asks the data source for a new one only when nothing is     *)
(* parked.  PageViewController.tla is the array-level description that     *)
(* implements this one.                                                    *)
(***************************************************************************)
EXTENDS Integers, FiniteSets

CONSTANTS
    NumPages,   \* totalPages, the number of channels (0 when all are filtered)
    VC          \* the list controllers the data source can hand out

NumPagesAssumption == NumPages \in Nat

Parked == -1    \* in reuseViewControllers
Unborn == -2    \* not asked for yet

VARIABLES
    place,     \* where each controller is: a page, parked, or not created
    current    \* currentPage: the page of the last load, -1 before the first

vars == <<place, current>>

Pages == 0 .. NumPages - 1
Places == Pages \cup {Unborn, Parked}

\* The pages that hold a controller once page p has been loaded.
Window(p) == {p - 1, p, p + 1} \cap Pages

OnPages == {v \in VC : place[v] \in Pages}
Born    == {v \in VC : place[v] # Unborn}

Init ==
    /\ place = [v \in VC |-> Unborn]
    /\ current = -1

-----------------------------------------------------------------------------
(* Loading a page.                                                         *)

\* The controllers loadPage leaves where they are: those in the new window,
\* except the one on page 0, which the code always takes down and puts back
\* (its frame's origin is that of a controller never placed).
Stay(p) == {v \in VC : place[v] \in Window(p) \ {0}}

\* Every other controller on a page is parked; one of the parked ones may
\* then serve a page of the window that is left without a controller.
Available(p) == {v \in VC : place[v] # Unborn} \ Stay(p)

\* Only the window's pages hold controllers afterwards...
Clears(p) == \A v \in VC : place'[v] \in Pages => place'[v] \in Window(p)

\* ... each of them at least one ...
Fills(p) == \A q \in Window(p) : \E v \in VC : place'[v] = q

\* ... and at most one.
Exclusive(p) ==
    \A v, w \in VC : place'[v] \in Pages /\ place'[v] = place'[w] => v = w

\* A controller is created only once every parked one serves a page, and
\* always to serve one.
ReusesFirst(p) ==
    /\ \A v \in Available(p) : place'[v] # Unborn
    /\ \A v \in VC : place[v] = Unborn => place'[v] # Parked
    /\ (\E v \in VC : place[v] = Unborn /\ place'[v] # Unborn)
         => \A v \in VC : place'[v] # Parked

LoadPage(p) ==
    /\ current # p
    /\ current' = p
    /\ place' \in [VC -> Places]
    /\ \A v \in Stay(p) : place'[v] = place[v]
    /\ Clears(p) /\ Fills(p) /\ Exclusive(p) /\ ReusesFirst(p)

\* viewDidLoad loads page 0 even when there is no page; the settling
\* handlers load an existing page.
Next == \E p \in Pages \cup {0} : LoadPage(p)

Spec == Init /\ [][Next]_vars

-----------------------------------------------------------------------------
(* Properties.                                                             *)

\* Every controller has a place, and the current page is a page or -1.
TypeOK ==
    /\ place \in [VC -> Places]
    /\ current \in Pages \cup {-1, 0}

\* Between loads the pages that hold a controller are the current page and
\* its existing neighbours, no more and no fewer (loadPage, lines 95-124).
WindowServed ==
    current # -1 => {place[v] : v \in OnPages} = Window(current)

\* No two controllers share a page, so that "the" controller of a page is
\* well defined (pageDidChange and getBeforAndAfterVC look it up by frame).
OnePerPage ==
    \A v, w \in OnPages : place[v] = place[w] => v = w

\* However many channels there are and however the user jumps between them,
\* the container never creates a fourth list controller: reuse works
\* (dequeueReuseViewController, lines 138-154).
AtMostThree == IsFiniteSet(Born) /\ Cardinality(Born) <= 3
=============================================================================
