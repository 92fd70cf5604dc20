---------------------------- MODULE DetailScreen ----------------------------
(***************************************************************************)
(* The navigation from the list to a news and back: MainContainVC and      *)
(* DetailVC as UIKit calls them, the bars they colour in passing, and the  *)
(* request of DetailViewModel, whose answer may find its screen gone.      *)
(*                                                                         *)
(* UIKit (external) calls viewWillAppear of the incoming controller at     *)
(* once, and viewDidDisappear of the outgoing one and viewDidAppear of the *)
(* incoming one when the transition ends, in that order.  The user may     *)
(* drag the detail aside and let it go again, which cancels the pop.       *)
(* Touches are ignored during a transition.                                *)
(***************************************************************************)
EXTENDS DetailText

CONSTANTS
    Contents,      \* the texts the server may send
    ImageDetails,  \* the sequences of image URIs it may send with them
    MaxScreens     \* bound: how many details are opened

VARIABLES
    screen,        \* the detail on the navigation stack, or NoScreen
    motion,        \* "rest", "pushing" or "popping"
    bars,          \* statusBarStyle and the colour of the navigation bar
    opened,        \* counter for the bound, and the number of the last screen
    detailAsked,   \* screens whose request has not been answered
    indicator      \* isNetworkActivityIndicatorVisible

screenVars == <<screen, motion, bars, opened, detailAsked>>
detailVars == <<screenVars, indicator>>

NoScreen == [id |-> 0]
OnTop == screen # NoScreen
Gone(id) == screen.id # id
Blank == <<>>    \* a web view that has loaded nothing

\* didFinishLaunching and MainContainVC's first viewDidAppear.
Init ==
    /\ screen = NoScreen /\ motion = "rest"
    /\ bars = [status |-> "light", colour |-> "red"]
    /\ opened = 0 /\ detailAsked = {}
    /\ indicator = FALSE

-----------------------------------------------------------------------------
(* What the controllers do when they appear and disappear.                 *)

MainDidAppear(b)       == [b EXCEPT !.colour = "red"]
MainDidDisappear(b)    == [b EXCEPT !.colour = "white"]
DetailWillAppear(b)    == [status |-> "dark", colour |-> "white"]

\* Mutant: the style is left to the screen that appears.
DetailDidDisappearPlain(b) == b
DetailDidDisappear(b)  == [b EXCEPT !.status = "light"]

\* The order in which UIKit calls them.
PushBegins(b)   == DetailWillAppear(b)
PushEnds(b)     == MainDidDisappear(b)
PopEnds(b)      == MainDidAppear(DetailDidDisappear(b))
PopCancelled(b) == MainDidDisappear(DetailWillAppear(b))

\* didSelectRow: a new DetailVC for the tapped news; viewDidLoad sends its
\* request, and the plugin turns the indicator on.
Open(news) ==
    /\ motion = "rest" /\ ~OnTop
    /\ opened < MaxScreens /\ opened' = opened + 1
    /\ screen' = [id |-> opened', news |-> news, page |-> Blank, due |-> Blank]
    /\ detailAsked' = detailAsked \cup {opened'}
    /\ indicator' = TRUE
    /\ bars' = PushBegins(bars)
    /\ motion' = "pushing"

PushDone ==
    /\ motion = "pushing" /\ motion' = "rest"
    /\ bars' = PushEnds(bars)
    /\ UNCHANGED <<screen, opened, detailAsked, indicator>>

\* MainContainVC has no viewWillAppear.
BeginPop ==
    /\ motion = "rest" /\ OnTop /\ motion' = "popping"
    /\ UNCHANGED <<screen, bars, opened, detailAsked, indicator>>

\* The screen is released, and with it the subscription, not the request.
PopDone ==
    /\ motion = "popping" /\ motion' = "rest"
    /\ bars' = PopEnds(bars)
    /\ screen' = NoScreen
    /\ UNCHANGED <<opened, detailAsked, indicator>>

CancelPop ==
    /\ motion = "popping" /\ motion' = "rest"
    /\ bars' = PopCancelled(bars)
    /\ UNCHANGED <<screen, opened, detailAsked, indicator>>

-----------------------------------------------------------------------------
(* The request.                                                            *)

Answered(id) ==
    /\ id \in detailAsked
    /\ detailAsked' = detailAsked \ {id}
    /\ indicator' = FALSE
    /\ UNCHANGED <<motion, bars, opened>>

\* Mutant: the answer is shown by whichever screen there is.
ShownByAny(id, content, images) ==
    IF ~OnTop THEN screen
    ELSE [screen EXCEPT !.page = Rewritten(content, images),
                        !.due  = IF Gone(id) THEN @ ELSE Expected(content, images)]

\* The view model and the screen are weak references of their closures.
Shown(id, content, images) ==
    IF Gone(id) THEN screen
    ELSE [screen EXCEPT !.page = Rewritten(content, images),
                        !.due  = Expected(content, images)]

\* A news that can be decoded is rewritten and loaded into the web view.
DetailArrives(id, content, images) ==
    /\ Answered(id)
    /\ screen' = Shown(id, content, images)

\* Any other answer is printed; Network.request reports no failure at all.
DetailFails(id) == Answered(id) /\ UNCHANGED screen

Next ==
    \/ PushDone \/ BeginPop \/ PopDone \/ CancelPop
    \/ \E id \in detailAsked :
          \/ \E content \in Contents, images \in ImageDetails :
                DetailArrives(id, content, images)
          \/ DetailFails(id)

-----------------------------------------------------------------------------
(* Properties.                                                             *)

\* However often the user goes to a news, back, or half the way back, the
\* bars at rest are those of the screen on top: four methods of two
\* controllers each set a part of them and rely on UIKit's order.
BarsMatchTop ==
    motion = "rest" =>
        bars = IF OnTop THEN [status |-> "dark", colour |-> "white"]
               ELSE [status |-> "light", colour |-> "red"]

\* Every placeholder of a known image is shown as its picture ("placeholders
\* are replaced by displayable <img> tags"), whatever else is in the text;
\* and a screen shows no text but its own, although the requests of former
\* screens may be answered while it is there.
ImagesAreShown == OnTop => Unpacked(screen.page) = screen.due
=============================================================================
