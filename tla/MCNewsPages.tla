---------------------------- MODULE MCNewsPages ----------------------------
(* NewsPages with users of several temperaments.                            *)
EXTENDS NewsPages

\* Flicks and waits, and sees statements fail.
Patient == [jumps |-> FALSE, still |-> FALSE, hasty |-> FALSE, unfinished |-> 0,
            reach |-> 4, gestures |-> 8, failures |-> 2]

\* Drag in every way, tap on titles and do not wait: for the content, and for
\* all but the given number of blocks and requests.
Hasty(left, pages, times) ==
    [jumps |-> TRUE, still |-> TRUE, hasty |-> TRUE, unfinished |-> left,
     reach |-> pages, gestures |-> times, failures |-> 0]

\* Taps and waits.
Jumping == [jumps |-> TRUE, still |-> FALSE, hasty |-> FALSE, unfinished |-> 0,
            reach |-> 5, gestures |-> 2, failures |-> 0]

MCUsers == {Patient, Hasty(0, 4, 4), Hasty(1, 3, 3), Hasty(2, 3, 2)}
MCJumpingUsers == {Jumping}
=============================================================================
