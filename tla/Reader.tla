------------------------------- MODULE Reader -------------------------------
(***************************************************************************)
(* Reading: the table of a list screen, the detail pushed by a tap on one  *)
(* of its rows, and the network activity indicator that the requests of    *)
(* both of them share (ActivityPlugin).  The list goes on loading while a  *)
(* detail covers it.                                                       *)
(***************************************************************************)
EXTENDS NewsTable

CONSTANTS URIs, Picture, Contents, ImageDetails, MaxScreens

VARIABLES screen, motion, bars, opened, detailAsked

Detail == INSTANCE DetailScreen

screenVars == <<screen, motion, bars, opened, detailAsked>>
readerVars == <<tableVars, screenVars, indicator>>

ReaderInit == Init /\ Detail!Init

\* The user opens the news of a row.  A row that the news no longer reach
\* makes the subscript trap: the application ends, and so does the model.
SelectRow(r) ==
    /\ r \in Visible /\ r <= Len(news)
    /\ Detail!Open(news[r])
    /\ UNCHANGED tableVars

\* Nothing scrolls under a detail or during a transition.
TableStep ==
    /\ \/ motion = "rest" /\ ~Detail!OnTop /\ Scroll
       \/ Arrive
    /\ UNCHANGED screenVars

ReaderNext ==
    \/ TableStep
    \/ \E r \in 1 .. MaxRows : SelectRow(r)
    \/ Detail!Next /\ UNCHANGED tableVars

Spec == ReaderInit /\ [][ReaderNext]_readerVars

-----------------------------------------------------------------------------
(* Properties.                                                             *)

\* Without a request in flight the indicator is off, however the requests of
\* the list and of several details overlapped and ended: one that never
\* reported its end would leave it spinning for good.
IndicatorOffWhenIdle == asked = {} /\ detailAsked = {} => ~indicator

\* The bars match the screen on top: see DetailScreen.
BarsMatchTop == Detail!BarsMatchTop

\* Pictures take the place of their placeholders: see DetailScreen.
ImagesAreShown == Detail!ImagesAreShown
=============================================================================
