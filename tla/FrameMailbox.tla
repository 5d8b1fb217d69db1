---------------------------- MODULE FrameMailbox ----------------------------
(***************************************************************************)
(* What urx::Robot promises the callers of state() about the frames the    *)
(* robot controller sends: a mailbox with one place.  A newer frame        *)
(* replaces the one in it; a frame that was fetched is no longer new; a    *)
(* caller that insists on a new frame gets one that nobody fetched before, *)
(* or an empty state when it gave up waiting.                              *)
(*                                                                         *)
(* The promise is worded in include/urx/robot.hpp:173-203; module          *)
(* RobotState is shown to implement it.                                    *)
(***************************************************************************)
EXTENDS Integers

CONSTANTS Clients,   \* the threads that call state()
          MaxFrames, \* frames are numbered 1..MaxFrames as the controller sends them
          Replays    \* TRUE: the latest frame may be published once more

VARIABLES latest,    \* the number of the newest frame published, 0 before the first
          fresh,     \* TRUE while nobody fetched the latest frame
          got        \* got[c] is the frame c fetched last, 0 for an empty state

vars == <<latest, fresh, got>>

Init == /\ latest = 0
        /\ fresh = FALSE
        /\ got = [c \in Clients |-> 0]

\* The receiver publishes a frame that is newer than every frame before it, or
\* not older if frames are replayed.
Publish == /\ latest' \in 1 .. MaxFrames
           /\ latest' >= latest
           /\ ~Replays => latest' > latest
           /\ fresh' = TRUE
           /\ UNCHANGED got

\* A caller fetches a frame that nobody fetched before.
FetchNew(c) == /\ fresh
               /\ fresh' = FALSE
               /\ got' = [got EXCEPT ![c] = latest]
               /\ UNCHANGED latest

\* A caller that does not insist on news fetches a frame again.
FetchAgain(c) == /\ ~fresh
                 /\ got' = [got EXCEPT ![c] = latest]
                 /\ UNCHANGED <<latest, fresh>>

\* A caller gave up waiting for a new frame: there was none.
GiveUp(c) == /\ ~fresh
             /\ got' = [got EXCEPT ![c] = 0]
             /\ UNCHANGED <<latest, fresh>>

Next == \/ Publish
        \/ \E c \in Clients : FetchNew(c) \/ FetchAgain(c) \/ GiveUp(c)

Spec == Init /\ [][Next]_vars
=============================================================================
