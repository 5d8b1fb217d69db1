----------------------------- MODULE FrameReader -----------------------------
(***************************************************************************)
(* What urx::RTDE_Handler::recv() promises about the frames on its         *)
(* connection: what it parses is the oldest frame nobody has touched, so   *)
(* that frames are parsed in the order they were sent and at most once.    *)
(* Frames may be lost, many at a time.                                     *)
(*                                                                         *)
(* Module PackageStream implements this with packages that are cut by the  *)
(* reads, and module RobotState is built on it.                            *)
(***************************************************************************)
EXTENDS Integers

CONSTANT MaxFrames  \* frames are numbered 1..MaxFrames as the controller sends them

VARIABLES sent,     \* frames sent
          taken,    \* frames of which bytes were taken from the connection
          parsed    \* the frame that was parsed last, 0 for none

vars == <<sent, taken, parsed>>

Init == sent = 0 /\ taken = 0 /\ parsed = 0

Send == /\ sent < MaxFrames
        /\ sent' = sent + 1
        /\ UNCHANGED <<taken, parsed>>

\* A frame is parsed; others behind it may be taken with it.
Accept == /\ taken' \in (taken + 1) .. sent
          /\ parsed' = taken + 1
          /\ UNCHANGED sent

\* Bytes are taken, nothing is parsed.
Lose == /\ taken' \in taken .. sent
        /\ UNCHANGED <<sent, parsed>>

Next == Send \/ Accept \/ Lose

Spec == Init /\ [][Next]_vars
=============================================================================
