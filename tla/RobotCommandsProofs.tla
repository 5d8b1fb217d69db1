------------------------- MODULE RobotCommandsProofs -------------------------
(***************************************************************************)
(* What holds of RobotCommands for every set of callers, every number of   *)
(* calls and of restarts, and every number of packages under way.          *)
(***************************************************************************)
EXTENDS RobotCommands, TLAPS

Busy == {"read", "assign", "command", "send", "sent"}

Requests == [seqnr : Nat, cmd : Kinds, arg : Nat]
Inputs   == [seqnr : Nat, cmd : Kinds, qd : Nat, pose : Nat]
Results  == [echo : Nat, seqnr : Nat, q : Nat]

\* What the proofs need of the types: the numbers are not bounded.
ThreadTypes ==
    /\ pc \in [Threads -> Busy \cup {"idle", "wait"}]
    /\ req \in [Threads -> Requests]
    /\ bottleneck \in Callers \cup {NoThread}

MemberTypes ==
    /\ calls \in Nat
    /\ m \in [last_seqnr : Nat, in_seqnr : Nat, cmd : Kinds, set_qd : Nat, TCP_pose_ref : Nat]
    /\ sent \subseteq Requests

ControlTypes ==
    /\ wire \in Seq(Inputs)
    /\ input \in Inputs
    /\ old_seqnr \in Nat
    /\ tTCP_pose \in [updated : BOOLEAN, seqnr : Nat, pose : Nat]
    /\ output \in Results /\ frame \in Results /\ q_ref \in Results
    /\ executed \in Seq(Requests)

Types == ThreadTypes /\ MemberTypes /\ ControlTypes

-----------------------------------------------------------------------------
(* Sequences: where the elements of a longer and of a shorter one are.      *)

\* One element more at the end.
LEMMA AppendElements ==
    ASSUME NEW S, NEW s \in Seq(S), NEW e \in S
    PROVE  /\ Append(s, e) \in Seq(S)
           /\ Len(Append(s, e)) = Len(s) + 1
           /\ \A i \in 1 .. Len(s) : Append(s, e)[i] = s[i]
           /\ Append(s, e)[Len(s) + 1] = e
  OBVIOUS

\* The first element less.
LEMMA TailElements ==
    ASSUME NEW S, NEW s \in Seq(S), s # << >>
    PROVE  /\ Head(s) \in S /\ Head(s) = s[1] /\ 1 \in 1 .. Len(s)
           /\ Tail(s) \in Seq(S)
           /\ \A i \in 1 .. Len(Tail(s)) : Tail(s)[i] = s[i + 1] /\ i + 1 \in 1 .. Len(s)
           /\ Len(Tail(s)) = Len(s) - 1
  OBVIOUS

\* What the elements are.
LEMMA Elements ==
    ASSUME NEW S, NEW s \in Seq(S)
    PROVE  Len(s) \in Nat /\ DOMAIN s = 1 .. Len(s) /\ \A i \in 1 .. Len(s) : s[i] \in S
  OBVIOUS

-----------------------------------------------------------------------------
(* Types. *)

\* At first.
LEMMA TypesInit == Init => Types
  BY ThreadsAssumption
  DEF Init, Types, ThreadTypes, MemberTypes, ControlTypes, Threads, Busy, Kinds, Requests, Inputs, Results, NoRequests, NoCommand,
      NoAnswer, NoPose, Command, Members, Package

\* What the controller makes of torn bytes has the type of a package.
LEMMA GarblesTyped == Garbles \subseteq Inputs
<1>1. MaxCalls \in Nat
  BY BoundsAssumption
<1>2. Packages \subseteq Inputs
  BY <1>1 DEF Packages, Inputs, Seqnrs, Args
<1> QED
  BY <1>2, GarblesAssumption

\* Every step keeps them.
LEMMA TypesStep == ASSUME Types, [Next]_vars PROVE Types'
<1> USE ThreadsAssumption
    DEF Types, ThreadTypes, MemberTypes, ControlTypes, Threads, Busy, Kinds, Requests, Inputs, Results, NoRequests, NoCommand,
        NoAnswer, NoPose, Command, Members, Asks,
        Move, At, Free, threads, flags, robot, link, loop, workers, control
<1>1. CASE UNCHANGED vars
  BY <1>1 DEF vars
<1>2. ASSUME NEW t \in Callers, NEW kind \in {"speed", "pose"}, Call(t, kind) PROVE Types'
  <2> HIDE DEF Types, ThreadTypes, MemberTypes, ControlTypes, Requests, Inputs, Results, Command
  <2>1. calls' \in Nat /\ kind \in Kinds
    BY <1>2 DEF Call, Types, MemberTypes
  <2>2. Command(0, kind, calls') \in Requests
    BY <2>1 DEF Command, Requests
  <2>3. ThreadTypes'
    BY <1>2, <2>2 DEF Call, Types, ThreadTypes
  <2>4. m' = [m EXCEPT !.set_qd = calls'] \/ m' = [m EXCEPT !.TCP_pose_ref = calls']
    BY <1>2 DEF Call
  <2>5. MemberTypes'
    BY <1>2, <2>1, <2>4 DEF Call, Types, MemberTypes
  <2>6. ControlTypes'
    BY <1>2 DEF Call, Types, ControlTypes
  <2> QED
    BY <2>3, <2>5, <2>6 DEF Types
<1>3. CASE CallStop
  BY <1>3 DEF CallStop
<1>4. ASSUME NEW t \in Threads, ReadSeqnr(t) PROVE Types'
  <2> HIDE DEF Types, ThreadTypes, MemberTypes, ControlTypes, Requests, Inputs, Results
  <2>1. m.last_seqnr + 1 \in Nat
    BY DEF Types, MemberTypes
  <2>2. req[t] \in Requests
    BY DEF Types, ThreadTypes
  <2>3. [req[t] EXCEPT !.seqnr = m.last_seqnr + 1] \in Requests
    BY <2>1, <2>2 DEF Requests
  <2>4. ThreadTypes'
    BY <1>4, <2>3 DEF ReadSeqnr, Types, ThreadTypes
  <2> QED
    BY <1>4, <2>4 DEF ReadSeqnr, Types, MemberTypes, ControlTypes
<1>5. ASSUME NEW t \in Threads, AssignSeqnr(t) PROVE Types'
  BY <1>5 DEF AssignSeqnr, Assign
<1>6. ASSUME NEW t \in Threads, AssignCommand(t) PROVE Types'
  BY <1>6 DEF AssignCommand
<1>7. ASSUME NEW t \in Threads, Send(t) PROVE Types'
  <2>1. Package \in Inputs /\ Asks(Package) \in Requests
    BY DEF Package
  <2> HIDE DEF Requests, Inputs, Results, Asks, Package
  <2>2. ThreadTypes'
    BY <1>7 DEF Send
  <2>3. MemberTypes'
    BY <1>7, <2>1 DEF Send
  <2>4. wire' = Append(wire, Package) \/ wire' = wire
    BY <1>7 DEF Send
  <2>5. wire' \in Seq(Inputs)
    <3>1. wire \in Seq(Inputs)
      OBVIOUS
    <3>2. Append(wire, Package) \in Seq(Inputs)
      BY ONLY <2>1, <3>1, AppendElements
    <3> QED
      BY ONLY <2>4, <3>1, <3>2
  <2>6. ControlTypes'
    BY <1>7, <2>5 DEF Send
  <2> QED
    BY <2>2, <2>3, <2>6
<1>8. ASSUME NEW t \in Threads, Reset(t) PROVE Types'
  <2> HIDE DEF Types, ThreadTypes, MemberTypes, ControlTypes, Requests, Inputs, Results,
               NoCommand, Members
  <2>1. m.in_seqnr \in Nat /\ req[t] \in Requests
    BY DEF Types, ThreadTypes, MemberTypes
  <2>2. [req[t] EXCEPT !.seqnr = m.in_seqnr] \in Requests
    BY <2>1 DEF Requests
  <2>3. NoCommand \in Requests
    BY DEF NoCommand, Command, Requests
  <2>4. \/ req' = [req EXCEPT ![t] = [req[t] EXCEPT !.seqnr = m.in_seqnr]]
        \/ req' = [req EXCEPT ![t] = NoCommand]
    BY <1>8 DEF Reset, Returns, Types, ThreadTypes
  <2>5. ThreadTypes'
    BY <1>8, <2>2, <2>3, <2>4 DEF Reset, Returns, Types, ThreadTypes
  <2>6. MemberTypes'
    BY <1>8 DEF Reset, Returns, Types, MemberTypes
  <2>7. ControlTypes'
    BY <1>8 DEF Reset, Returns, Types, ControlTypes
  <2> QED
    BY <2>5, <2>6, <2>7 DEF Types
<1>9. ASSUME NEW t \in Threads, SendFails(t) PROVE Types'
  BY <1>9 DEF SendFails
<1>10. ASSUME NEW t \in Callers, WaitSees(t) PROVE Types'
  BY <1>10 DEF WaitSees, WaitEnds
<1>11. ASSUME NEW t \in Callers, WaitExpires(t) PROVE Types'
  BY <1>11 DEF WaitExpires, WaitEnds
<1>12. CASE StopLowers
  BY <1>12 DEF StopLowers
<1>13. CASE Upload
  BY <1>13 DEF Upload
<1>14. CASE Restart
  BY <1>14 DEF Restart
<1>15. CASE Deliver
  <2> HIDE DEF Requests, Inputs, Results
  <2>1. Head(wire) \in Inputs /\ Tail(wire) \in Seq(Inputs)
    BY <1>15, TailElements DEF Deliver
  <2> QED
    BY <1>15, <2>1 DEF Deliver
<1>16. CASE ScriptStarts
  BY <1>16 DEF ScriptStarts
<1>17. CASE ScriptLoop
  <2> HIDE DEF Types, ThreadTypes, MemberTypes, ControlTypes, Requests, Inputs, Results, Asks
  <2>1. input.seqnr \in Nat /\ input.pose \in Nat
    BY DEF Types, ControlTypes, Inputs
  <2>2. Asks(input) \in Requests
    BY DEF Types, ControlTypes, Inputs, Requests, Asks, Command
  <2>3. output' \in Results
    BY <1>17, <2>1 DEF ScriptLoop, Execute, Iterate, Types, ControlTypes, Results
  <2>4. executed' = executed \/ executed' = Append(executed, Asks(input))
    BY <1>17 DEF ScriptLoop, Execute, Iterate
  <2>5. executed' \in Seq(Requests)
    <3>1. executed \in Seq(Requests)
      BY DEF Types, ControlTypes
    <3>2. Append(executed, Asks(input)) \in Seq(Requests)
      BY <2>2, <3>1, AppendElements
    <3> QED
      BY <2>4, <3>1, <3>2
  <2>6. CASE tTCP_pose' = tTCP_pose
    BY <1>17, <2>1, <2>3, <2>5, <2>6
    DEF ScriptLoop, Execute, Iterate, Types, ThreadTypes, MemberTypes, ControlTypes
  <2>7. CASE tTCP_pose' = [updated |-> TRUE, seqnr |-> input.seqnr, pose |-> input.pose]
    <3>1. tTCP_pose' \in [updated : BOOLEAN, seqnr : Nat, pose : Nat]
      BY <2>1, <2>7
    <3> QED
      BY <1>17, <2>1, <2>3, <2>5, <3>1
      DEF ScriptLoop, Execute, Iterate, Types, ThreadTypes, MemberTypes, ControlTypes
  <2> QED
    BY <1>17, <2>6, <2>7 DEF ScriptLoop, Execute, Iterate, Stops, Moves, Computes, Ignores
<1>18. CASE SpeedTakes
  BY <1>18 DEF SpeedTakes
<1>19. CASE SpeedStops
  BY <1>19 DEF SpeedStops
<1>20. CASE InverseKinematics
  BY <1>20 DEF InverseKinematics, Solve
<1>21. CASE Sample
  BY <1>21 DEF Sample
<1>22. CASE Publish
  BY <1>22 DEF Publish
<1>23. CASE DeliverGarbled
  <2> HIDE DEF Requests, Inputs, Results
  <2>1. input' \in Inputs
    BY <1>23, GarblesTyped DEF DeliverGarbled
  <2> QED
    BY <1>23, <2>1 DEF DeliverGarbled
<1> HIDE DEF Types, ThreadTypes, MemberTypes, ControlTypes, Requests, Inputs, Results,
             Move, At, Free, threads, flags, robot, link, loop, workers, control
<1> QED
  BY <1>1, <1>2, <1>3, <1>4, <1>5, <1>6, <1>7, <1>8, <1>9, <1>10, <1>11, <1>12, <1>13,
     <1>14, <1>15, <1>16, <1>17, <1>18, <1>19, <1>20, <1>21, <1>22, <1>23
  DEF Next, CallStep

\* In every reachable state.
LEMMA TypesHold == Spec => []Types
<1>1. Types /\ [Next]_vars => Types'
  BY TypesStep
<1> QED
  BY TypesInit, <1>1, PTL DEF Spec

-----------------------------------------------------------------------------
(* Calls that do not overlap with stop() send what they were asked to.      *)

\* One thread at a time is between its call and the reset of the command.
OneIssuer ==
    /\ \A t \in Callers : pc[t] \in Busy <=> bottleneck = t
    /\ ~At(Owner, "idle") => \A t \in Callers : At(t, "idle")

\* The members hold what this thread asks for, as far as it has come.
Prepared(t) ==
    /\ pc[t] \in Busy => /\ t = Owner => req[t].cmd = "stop" /\ req[t].arg = 0
                         /\ t # Owner => req[t].cmd \in {"speed", "pose"}
                         /\ req[t].cmd = "speed" => m.set_qd = req[t].arg
                         /\ req[t].cmd = "pose" => m.TCP_pose_ref = req[t].arg
    /\ At(t, "assign") => req[t].seqnr = m.last_seqnr + 1
    /\ pc[t] \in {"command", "send", "sent"} =>
           /\ m.last_seqnr = req[t].seqnr /\ m.in_seqnr = req[t].seqnr
           /\ req[t].seqnr > 0
    /\ pc[t] \in {"send", "sent"} => m.cmd = req[t].cmd
    /\ pc[t] \in {"command", "send"} => /\ req[t] \in issued
                                        /\ \A s \in sent : s.seqnr < m.last_seqnr

\* The numbers that have gone out are used up, each by one command.
Numbered == /\ \A s \in sent : s.seqnr \in 1 .. m.last_seqnr
            /\ sent \subseteq issued
            /\ DistinctSeqnrs

Issuing == OneIssuer /\ (\A t \in Threads : Prepared(t)) /\ Numbered /\ SentAsRequested

\* The invariant holds at first.
LEMMA IssuingInit == Init => Issuing
  BY ThreadsAssumption
  DEF Init, Issuing, OneIssuer, Prepared, Numbered, DistinctSeqnrs, SentAsRequested,
      Threads, Busy, NoRequests, NoCommand, Command, Members, At

\* A thread that is in its call has the members for itself.
LEMMA Alone ==
    ASSUME Issuing, NEW t \in Threads, pc[t] \in Busy
    PROVE  \A u \in Threads : u # t => pc[u] \notin Busy
  BY ThreadsAssumption DEF Issuing, OneIssuer, Threads, Busy, At

\* What is sent is what the thread that sends asks for.
LEMMA SendsRequest ==
    ASSUME Types, Issuing, NEW t \in Threads, Send(t)
    PROVE  Asks(Package) = req[t] /\ sent' = sent \cup {req[t]}
  BY DEF Types, ThreadTypes, MemberTypes, Issuing, Prepared, Send, Move, At, Busy, Requests, Kinds, Asks, Package, Command

\* No step breaks the invariant, as long as stop() and the other calls exclude each
\* other.
LEMMA IssuingStep == ASSUME ~Concurrent, Types, Issuing, [Next]_vars PROVE Issuing'
<1> USE ThreadsAssumption
    DEF Issuing, Types, ThreadTypes, MemberTypes, OneIssuer, Prepared, Numbered, DistinctSeqnrs, SentAsRequested,
        Threads, Busy, Kinds, Requests, NoRequests, NoCommand, Command, Members,
        Move, At, Free, threads, flags, robot, link, loop, workers, control
<1>1. CASE UNCHANGED vars
  BY <1>1 DEF vars
<1>2. ASSUME NEW t \in Callers, NEW kind \in {"speed", "pose"}, Call(t, kind) PROVE Issuing'
  BY <1>2 DEF Call
<1>3. CASE CallStop
  BY <1>3 DEF CallStop
<1>4. ASSUME NEW t \in Threads, ReadSeqnr(t) PROVE Issuing'
  BY <1>4 DEF ReadSeqnr
<1>5. ASSUME NEW t \in Threads, AssignSeqnr(t) PROVE Issuing'
  <2>1. \A u \in Threads : u # t => pc[u] \notin Busy
    BY <1>5, Alone DEF AssignSeqnr, Assign
  <2>2. OneIssuer'
    BY <1>5 DEF AssignSeqnr, Assign
  <2>3. Prepared(t)'
    BY <1>5 DEF AssignSeqnr, Assign
  <2>4. ASSUME NEW u \in Threads, u # t PROVE Prepared(u)'
    BY <1>5, <2>1, <2>4 DEF AssignSeqnr, Assign
  <2>5. Numbered' /\ SentAsRequested'
    BY <1>5 DEF AssignSeqnr, Assign
  <2> QED
    BY <2>2, <2>3, <2>4, <2>5
<1>6. ASSUME NEW t \in Threads, AssignCommand(t) PROVE Issuing'
  BY <1>6 DEF AssignCommand
<1>7. ASSUME NEW t \in Threads, Send(t) PROVE Issuing'
  <2>1. \A u \in Threads : u # t => pc[u] \notin Busy
    BY <1>7, Alone DEF Send
  <2>2. sent' = sent \cup {req[t]}
    BY <1>7, SendsRequest
  <2>3. /\ req' = req /\ m' = m /\ issued' = issued /\ bottleneck' = bottleneck
        /\ pc' = [pc EXCEPT ![t] = "sent"]
    BY <1>7 DEF Send
  <2>4. OneIssuer'
    BY <1>7, <2>2, <2>3 DEF Send
  <2>5. Prepared(t)'
    BY <1>7, <2>2, <2>3 DEF Send
  <2>6. ASSUME NEW u \in Threads, u # t PROVE Prepared(u)'
    BY <2>1, <2>3, <2>6
  <2>7. Numbered' /\ SentAsRequested'
    BY <1>7, <2>1, <2>2, <2>3 DEF Send
  <2> QED
    BY <2>4, <2>5, <2>6, <2>7
<1>8. ASSUME NEW t \in Threads, Reset(t) PROVE Issuing'
  BY <1>8 DEF Reset, Returns
<1>9. ASSUME NEW t \in Threads, SendFails(t) PROVE Issuing'
  BY <1>9 DEF SendFails
<1>10. ASSUME NEW t \in Callers, WaitSees(t) PROVE Issuing'
  BY <1>10 DEF WaitSees, WaitEnds
<1>11. ASSUME NEW t \in Callers, WaitExpires(t) PROVE Issuing'
  BY <1>11 DEF WaitExpires, WaitEnds
<1>12. CASE StopLowers
  BY <1>12 DEF StopLowers
<1>13. CASE Upload
  BY <1>13 DEF Upload
<1>14. CASE Restart
  BY <1>14 DEF Restart
<1>15. CASE Deliver
  BY <1>15 DEF Deliver
<1>16. CASE ScriptStarts
  BY <1>16 DEF ScriptStarts
<1>17. CASE ScriptLoop
  BY <1>17 DEF ScriptLoop, Execute, Iterate, Stops, Moves, Computes, Ignores
<1>18. CASE SpeedTakes
  BY <1>18 DEF SpeedTakes
<1>19. CASE SpeedStops
  BY <1>19 DEF SpeedStops
<1>20. CASE InverseKinematics
  BY <1>20 DEF InverseKinematics, Solve
<1>21. CASE Sample
  BY <1>21 DEF Sample
<1>22. CASE Publish
  BY <1>22 DEF Publish
<1>23. CASE DeliverGarbled
  BY <1>23 DEF DeliverGarbled
<1> HIDE DEF Issuing, OneIssuer, Prepared, Numbered, DistinctSeqnrs, SentAsRequested,
             Types, ThreadTypes, MemberTypes, Requests, Move, At, Free,
             threads, flags, robot, link, loop, workers, control
<1> QED
  BY <1>1, <1>2, <1>3, <1>4, <1>5, <1>6, <1>7, <1>8, <1>9, <1>10, <1>11, <1>12, <1>13,
     <1>14, <1>15, <1>16, <1>17, <1>18, <1>19, <1>20, <1>21, <1>22, <1>23
  DEF Next, CallStep

\* In every reachable state of a program whose calls do not overlap with stop().
LEMMA IssuingHolds == ASSUME ~Concurrent PROVE Spec => []Issuing
<1>1. Types /\ Issuing /\ [Next]_vars => Issuing'
  BY IssuingStep
<1> QED
  BY IssuingInit, TypesHold, <1>1, PTL DEF Spec

(* update_w() and calculate_q_ref() send the command, the number and the    *)
(* argument they were called with (robot.hpp:213, 221), for any number of   *)
(* threads that call them, unless stop() is called meanwhile.               *)
THEOREM SentCorrect == ASSUME ~Concurrent PROVE Spec => []SentAsRequested
<1>1. Issuing => SentAsRequested
  BY DEF Issuing
<1> QED
  BY IssuingHolds, <1>1, PTL

(* No number is used for two commands (robot.cpp:335, 396, 413), although   *)
(* sends fail and a failed call leaves its command behind.                  *)
THEOREM NumbersDistinct == ASSUME ~Concurrent PROVE Spec => []DistinctSeqnrs
<1>1. Issuing => DistinctSeqnrs
  BY DEF Issuing, Numbered
<1> QED
  BY IssuingHolds, <1>1, PTL

-----------------------------------------------------------------------------
(* The answers. *)

Asked(seqnr, pose) == Command(seqnr, "pose", pose) \in sent \cup earlier
Answered(r) == r.seqnr > 0 => Asked(r.seqnr, r.q)
AsksFor(p) == p.cmd = "pose" => Asked(p.seqnr, p.pose)

\* A pose and its number stay together, wherever they are on their way.
Sourced ==
    /\ \A i \in 1 .. Len(wire) : AsksFor(wire[i])
    /\ AsksFor(input)
    /\ tTCP_pose.updated => Asked(tTCP_pose.seqnr, tTCP_pose.pose)
    /\ Answered(output) /\ Answered(frame) /\ Answered(q_ref)

\* At first.
LEMMA SourcedInit == Init => Sourced
  BY DEF Init, Sourced, Answered, AsksFor, Asked, Package, Members, NoAnswer, NoPose

\* What the controller has taken cannot be taken back.
LEMMA GarbledStays == ASSUME garbled, [Next]_vars PROVE garbled'
  BY DEF Next, CallStep, Call, CallStop, ReadSeqnr, AssignSeqnr, Assign, AssignCommand, Send, Reset,
      Returns, SendFails, WaitSees, WaitExpires, WaitEnds, StopLowers, Upload, Restart, Deliver,
      DeliverGarbled, ScriptStarts, ScriptLoop, Execute, Iterate, SpeedTakes, SpeedStops,
      InverseKinematics, Solve, Sample, Publish, link, vars

\* No step separates them, whether stop() overlaps with other calls or not, as long as
\* the controller takes no garbled package.
LEMMA SourcedStep == ASSUME Types, Sourced, [Next]_vars, ~garbled' PROVE Sourced'
<1> USE DEF Types, ThreadTypes, MemberTypes, ControlTypes, Sourced, Answered, AsksFor, Asked, Command, Requests, Inputs, Results, Kinds,
        NoRequests, NoCommand, NoAnswer, NoPose,
        Move, At, Free, threads, flags, robot, link, loop, workers, control
<1>1. CASE UNCHANGED vars
  BY <1>1 DEF vars
<1>2. ASSUME NEW t \in Callers, NEW kind \in {"speed", "pose"}, Call(t, kind) PROVE Sourced'
  BY <1>2 DEF Call
<1>3. CASE CallStop
  BY <1>3 DEF CallStop
<1>4. ASSUME NEW t \in Threads, ReadSeqnr(t) PROVE Sourced'
  BY <1>4 DEF ReadSeqnr
<1>5. ASSUME NEW t \in Threads, AssignSeqnr(t) PROVE Sourced'
  BY <1>5 DEF AssignSeqnr, Assign
<1>6. ASSUME NEW t \in Threads, AssignCommand(t) PROVE Sourced'
  BY <1>6 DEF AssignCommand
<1>7. ASSUME NEW t \in Threads, Send(t) PROVE Sourced'
  <2>1. /\ wire' = wire \/ wire' = Append(wire, Package)
        /\ sent' = sent \cup {Asks(Package)}
        /\ UNCHANGED <<earlier, input, tTCP_pose, output, frame, q_ref>>
    BY <1>7 DEF Send
  <2>2. Package \in Inputs
    BY DEF Package
  <2> HIDE DEF Requests, Inputs, Results, Command
  <2>3. wire' = Append(wire, Package) =>
        /\ \A i \in 1 .. Len(wire) : wire'[i] = wire[i]
        /\ Len(wire') = Len(wire) + 1 /\ wire'[Len(wire')] = Package /\ Len(wire) \in Nat
    BY <2>1, <2>2, AppendElements
  <2>4. Package.cmd = "pose" => Command(Package.seqnr, "pose", Package.pose) \in sent'
    BY <2>1, <1>7 DEF Send, Asks, Package, Command
  <2> HIDE DEF Types, ThreadTypes, MemberTypes, ControlTypes, Package, Command
  <2>5. ASSUME NEW i \in 1 .. Len(wire'), wire' = Append(wire, Package)
        PROVE  AsksFor(wire[i])'
    <3>1. CASE i = Len(wire')
      BY <2>3, <2>4, <2>5, <3>1
    <3>2. CASE i # Len(wire')
      <4>1. i \in 1 .. Len(wire)
        BY <2>3, <2>5, <3>2
      <4>2. AsksFor(wire[i]) /\ wire'[i] = wire[i]
        BY <2>3, <2>5, <4>1
      <4> QED
        BY <2>1, <4>2
    <3> QED
      BY <3>1, <3>2
  <2>6. ASSUME wire' = wire, NEW i \in 1 .. Len(wire') PROVE AsksFor(wire[i])'
    BY <2>1, <2>6
  <2> QED
    BY <2>1, <2>5, <2>6
<1>8. ASSUME NEW t \in Threads, Reset(t) PROVE Sourced'
  BY <1>8 DEF Reset, Returns
<1>9. ASSUME NEW t \in Threads, SendFails(t) PROVE Sourced'
  BY <1>9 DEF SendFails
<1>10. ASSUME NEW t \in Callers, WaitSees(t) PROVE Sourced'
  BY <1>10 DEF WaitSees, WaitEnds
<1>11. ASSUME NEW t \in Callers, WaitExpires(t) PROVE Sourced'
  BY <1>11 DEF WaitExpires, WaitEnds
<1>12. CASE StopLowers
  BY <1>12 DEF StopLowers
<1>13. CASE Upload
  BY <1>13 DEF Upload
<1>14. CASE Restart
  <2> DEFINE first == [seqnr |-> 1, cmd |-> "none", qd |-> 0, pose |-> 0]
  <2>1. /\ earlier' = earlier \cup sent /\ sent' = {}
        /\ UNCHANGED <<input, tTCP_pose, output, frame>> /\ q_ref' = NoAnswer
        /\ wire' = Append(wire, first)
    BY <1>14 DEF Restart
  <2>2. first \in Inputs /\ first.cmd = "none"
    OBVIOUS
  <2> HIDE DEF Requests, Inputs, Results, Command, first
  <2>3. /\ \A i \in 1 .. Len(wire) : wire'[i] = wire[i]
        /\ Len(wire') = Len(wire) + 1 /\ wire'[Len(wire')] = first /\ Len(wire) \in Nat
    BY <2>1, <2>2, AppendElements
  <2>4. ASSUME NEW i \in 1 .. Len(wire') PROVE AsksFor(wire[i])'
    BY <2>1, <2>2, <2>3, <2>4
  <2> HIDE DEF Types, ThreadTypes, MemberTypes, ControlTypes
  <2> QED
    BY <2>1, <2>4
<1>15. CASE Deliver
  <2>1. /\ input' = Head(wire) /\ wire' = Tail(wire) /\ wire # << >>
        /\ UNCHANGED <<sent, earlier, tTCP_pose, output, frame, q_ref>>
    BY <1>15 DEF Deliver
  <2> HIDE DEF Requests, Inputs, Results, Command
  <2>2. AsksFor(wire[1]) /\ Head(wire) = wire[1]
    BY <2>1, TailElements
  <2>3. \A i \in 1 .. Len(wire') : wire'[i] = wire[i + 1] /\ i + 1 \in 1 .. Len(wire)
    BY <2>1, TailElements
  <2> QED
    BY <2>1, <2>2, <2>3
<1>16. CASE ScriptStarts
  BY <1>16 DEF ScriptStarts
<1>17. CASE ScriptLoop
  <2>1. tTCP_pose' = tTCP_pose \/ /\ input.cmd = "pose"
                                  /\ tTCP_pose' = [updated |-> TRUE, seqnr |-> input.seqnr,
                                                   pose |-> input.pose]
    BY <1>17 DEF ScriptLoop, Execute, Iterate, Stops, Moves, Computes, Ignores
  <2>2. /\ output' = [output EXCEPT !.echo = input.seqnr]
        /\ UNCHANGED <<wire, sent, earlier, input, frame, q_ref>>
    BY <1>17 DEF ScriptLoop, Execute, Iterate
  <2>3. Answered(output)'
    BY <2>2
  <2> HIDE DEF Types, ThreadTypes, MemberTypes, ControlTypes
  <2>4. tTCP_pose'.updated => Asked(tTCP_pose.seqnr, tTCP_pose.pose)'
    <3>1. CASE tTCP_pose' = tTCP_pose
      BY <2>2, <3>1
    <3>2. CASE tTCP_pose' # tTCP_pose
      <4>1. tTCP_pose'.seqnr = input.seqnr /\ tTCP_pose'.pose = input.pose
        BY <2>1, <3>2
      <4>2. Asked(input.seqnr, input.pose)
        BY <2>1, <3>2
      <4> QED
        BY <2>2, <4>1, <4>2
    <3> QED
      BY <3>1, <3>2
  <2> QED
    BY <2>2, <2>3, <2>4
<1>18. CASE SpeedTakes
  BY <1>18 DEF SpeedTakes
<1>19. CASE SpeedStops
  BY <1>19 DEF SpeedStops
<1>20. CASE InverseKinematics
  BY <1>20 DEF InverseKinematics, Solve
<1>21. CASE Sample
  BY <1>21 DEF Sample
<1>22. CASE Publish
  BY <1>22 DEF Publish
<1>23. CASE DeliverGarbled
  BY <1>23 DEF DeliverGarbled
<1> HIDE DEF Sourced, Answered, AsksFor, Asked, Types, ThreadTypes, MemberTypes, ControlTypes,
             Requests, Move, At, Free, threads, flags, robot, link, loop, workers, control
<1> QED
  BY <1>1, <1>2, <1>3, <1>4, <1>5, <1>6, <1>7, <1>8, <1>9, <1>10, <1>11, <1>12, <1>13,
     <1>14, <1>15, <1>16, <1>17, <1>18, <1>19, <1>20, <1>21, <1>22, <1>23
  DEF Next, CallStep

(* The reference a caller gets with a number is the solution for a pose     *)
(* that was sent under this number (robot.cpp:221-223, 368,                 *)
(* tcp_pose.script:77-95), by this program or one before, also when stop()  *)
(* overlaps with other calls, and until the controller takes a package that *)
(* a cut send has garbled.                                                  *)
THEOREM ReferenceCorrect == Spec => []ReferenceOfSeqnr
<1>1. Types /\ (garbled \/ Sourced) /\ [Next]_vars => (garbled \/ Sourced)'
  BY SourcedStep, GarbledStays
<1>2. garbled \/ Sourced => ReferenceOfSeqnr
  BY DEF Sourced, Answered, Asked, ReferenceOfSeqnr
<1> QED
  BY SourcedInit, TypesHold, <1>1, <1>2, PTL DEF Spec
-----------------------------------------------------------------------------
(* The script executes what was asked for. *)

\* No first package of a program is under way at or behind place i.
Clear(w, i) == \A j \in i .. Len(w) : w[j].cmd # "none"

\* Behind the first package comes what this program has sent, in order; the registers
\* are not ahead of it, unless they hold a garbled package.
InOrder ==
    /\ \A i \in 1 .. Len(wire) : Clear(wire, i) => Asks(wire[i]) \in sent
    /\ \A i, j \in 1 .. Len(wire) : Clear(wire, i) /\ i < j => wire[i].seqnr < wire[j].seqnr
    /\ \A i \in 1 .. Len(wire) : wire[i].cmd = "none" => wire[i].seqnr = 1
    /\ stream # "torn" /\ Clear(wire, 1) =>
           /\ \/ input.cmd = "none" /\ input.seqnr <= 1
              \/ Asks(input) \in sent
           /\ \A i \in 1 .. Len(wire) : input.seqnr <= wire[i].seqnr

\* A script of this program runs or has run, and has seen its first package.
Started == /\ uploaded /\ clean /\ stream # "torn"
           /\ script # "absent" \/ executed # << >>

\* The script is not ahead of the registers, and what it executed is behind it; what the
\* scripts before executed is behind the registers.
Execution ==
    /\ ~uploaded => executed = << >>
    /\ uploaded /\ script = "absent" => old_seqnr = 0 /\ (again \/ executed = << >>)
    /\ Started => /\ Clear(wire, 1)
                  /\ old_seqnr <= input.seqnr
                  /\ \A i \in 1 .. Len(executed) : /\ executed[i] \in issued
                                                   /\ executed[i].seqnr <= input.seqnr
                                                   /\ again \/ executed[i].seqnr <= old_seqnr
                  /\ \A i, j \in 1 .. Len(executed) :
                        i < j => \/ executed[i].seqnr < executed[j].seqnr
                                 \/ again /\ executed[i].seqnr = executed[j].seqnr

\* At first.
LEMMA OrderInit == Init => InOrder /\ Execution
  BY DEF Init, InOrder, Execution, Started, Clear, Package, Members

\* A package that is put behind the others is not in front of them.
LEMMA ClearAppend ==
    ASSUME NEW w \in Seq(Inputs), NEW e \in Inputs, NEW i \in 1 .. Len(w) + 1,
           Clear(Append(w, e), i)
    PROVE  e.cmd # "none" /\ Clear(w, i)
<1>1. /\ Len(Append(w, e)) = Len(w) + 1 /\ Append(w, e)[Len(w) + 1] = e /\ Len(w) \in Nat
      /\ \A j \in 1 .. Len(w) : Append(w, e)[j] = w[j]
  BY AppendElements
<1> QED
  BY <1>1 DEF Clear

\* What is in front leaves, the others keep their places to each other.
LEMMA ClearTail ==
    ASSUME NEW w \in Seq(Inputs), w # << >>, NEW i \in 1 .. Len(w), Clear(Tail(w), i)
    PROVE  Clear(w, i + 1)
<1>1. /\ Len(Tail(w)) = Len(w) - 1 /\ Len(w) \in Nat
      /\ \A j \in 1 .. Len(Tail(w)) : Tail(w)[j] = w[j + 1]
  BY TailElements
<1> QED
  BY <1>1 DEF Clear

\* Steps that touch neither what is under way nor what the script has done.
LEMMA OrderKept ==
    ASSUME InOrder, Execution, issued \subseteq issued',
           UNCHANGED <<wire, input, sent, old_seqnr, executed, clean, again, uploaded>>,
           stream' = stream \/ stream # "torn" \/ stream' = "torn",
           script' = "absent" <=> script = "absent"
    PROVE  InOrder' /\ Execution'
<1>1. stream' # "torn" => stream # "torn"
  OBVIOUS
<1>2. InOrder'
  BY <1>1 DEF InOrder, Clear
<1>3. Started' => Started
  BY <1>1 DEF Started
<1> QED
  BY <1>2, <1>3 DEF Execution, Clear

\* A command that is sent behind a part of another does not count.
LEMMA OrderTorn ==
    ASSUME InOrder, Execution, stream' = "torn", sent \subseteq sent',
           UNCHANGED <<wire, input, old_seqnr, executed, clean, again, uploaded, script>>
    PROVE  InOrder' /\ Execution'
  BY DEF InOrder, Execution, Started, Clear

\* A command that is sent comes behind those before it.
LEMMA OrderSend ==
    ASSUME Types, Issuing, InOrder, Execution, NEW t \in Threads, Send(t), stream = "aligned"
    PROVE  InOrder' /\ Execution'
<1>1. /\ wire' = Append(wire, Package) /\ sent' = sent \cup {Asks(Package)}
      /\ UNCHANGED <<input, old_seqnr, executed, clean, again, uploaded, script, issued>>
      /\ stream = "aligned" /\ stream' = stream
  BY DEF Send, control, loop, robot, flags
<1>2. Package \in Inputs /\ wire \in Seq(Inputs) /\ Len(wire) \in Nat
  BY DEF Types, MemberTypes, ControlTypes, Package, Inputs
<1>3. /\ wire' \in Seq(Inputs) /\ Len(wire') = Len(wire) + 1
      /\ \A i \in 1 .. Len(wire) : wire'[i] = wire[i]
      /\ wire'[Len(wire) + 1] = Package
  BY <1>1, <1>2, AppendElements
<1>4. /\ Package.seqnr = m.last_seqnr /\ m.last_seqnr \in Nat /\ m.last_seqnr > 0
      /\ \A s \in sent : s.seqnr < m.last_seqnr
  BY DEF Types, MemberTypes, Issuing, Prepared, Send, Move, At, Package
<1>5. \A w \in Inputs : Asks(w).seqnr = w.seqnr
  BY DEF Asks, Command
<1>6. \A i \in 1 .. Len(wire') : Clear(wire', i) => /\ Package.cmd # "none"
                                                    /\ Clear(wire, i)
  BY <1>1, <1>2, <1>3, ClearAppend
<1>7. input \in Inputs /\ input.seqnr \in Nat
  BY DEF Types, ControlTypes, Inputs
<1>8. ASSUME NEW i \in 1 .. Len(wire'), Clear(wire', i) PROVE Asks(wire'[i]) \in sent'
  <2>1. CASE i = Len(wire) + 1
    BY <1>1, <1>3, <2>1
  <2>2. CASE i # Len(wire) + 1
    BY <1>1, <1>2, <1>3, <1>6, <1>8, <2>2 DEF InOrder
  <2> QED
    BY <2>1, <2>2
<1>9. ASSUME NEW i \in 1 .. Len(wire'), NEW j \in 1 .. Len(wire'), Clear(wire', i), i < j
      PROVE  wire'[i].seqnr < wire'[j].seqnr
  <2>1. i \in 1 .. Len(wire) /\ wire'[i] = wire[i] /\ Clear(wire, i)
    BY <1>2, <1>3, <1>6, <1>9
  <2>2. CASE j = Len(wire) + 1
    <3>1. Asks(wire[i]) \in sent
      BY <2>1 DEF InOrder
    <3> QED
      BY <1>2, <1>3, <1>4, <1>5, <2>1, <2>2, <3>1, Elements
  <2>3. CASE j # Len(wire) + 1
    BY <1>2, <1>3, <1>9, <2>1, <2>3 DEF InOrder
  <2> QED
    BY <2>2, <2>3
<1>10. \A i \in 1 .. Len(wire') : wire'[i].cmd = "none" => wire'[i].seqnr = 1
  <2>1. Package.cmd # "none"
    BY DEF Issuing, Prepared, Send, Move, At, Busy, Package, Kinds
  <2> QED
    BY <1>2, <1>3, <2>1 DEF InOrder
<1>11. ASSUME Clear(wire', 1)
       PROVE  /\ \/ input.cmd = "none" /\ input.seqnr <= 1
                 \/ Asks(input) \in sent'
              /\ \A i \in 1 .. Len(wire') : input.seqnr <= wire'[i].seqnr
  <2>1. Clear(wire, 1)
    BY <1>2, <1>3, <1>6, <1>11
  <2>2. /\ \/ input.cmd = "none" /\ input.seqnr <= 1
           \/ Asks(input) \in sent
        /\ \A i \in 1 .. Len(wire) : input.seqnr <= wire[i].seqnr
    BY <1>1, <2>1 DEF InOrder
  <2>3. input.seqnr <= m.last_seqnr
    BY <1>4, <1>5, <1>7, <2>2
  <2> QED
    BY <1>1, <1>2, <1>3, <1>4, <2>2, <2>3
<1>12. InOrder'
  BY <1>1, <1>8, <1>9, <1>10, <1>11 DEF InOrder
<1>13. Clear(wire, 1) => Clear(wire', 1)
  <2>1. Package.cmd # "none"
    BY DEF Issuing, Prepared, Send, Move, At, Busy, Package, Kinds
  <2> QED
    BY <1>2, <1>3, <2>1 DEF Clear
<1> QED
  BY <1>1, <1>12, <1>13 DEF Execution, Started

\* The first package of the next program comes behind all others.
LEMMA OrderRestart ==
    ASSUME Types, InOrder, Restart
    PROVE  InOrder' /\ Execution'
<1> DEFINE first == [seqnr |-> 1, cmd |-> "none", qd |-> 0, pose |-> 0]
<1>1. wire' = Append(wire, first) /\ executed' = << >> /\ uploaded' = FALSE
  BY DEF Restart
<1>2. first \in Inputs /\ wire \in Seq(Inputs) /\ Len(wire) \in Nat
      /\ first.cmd = "none" /\ first.seqnr = 1
  BY DEF Types, ControlTypes, Inputs, Kinds
<1> HIDE DEF first
<1>3. /\ Len(wire') = Len(wire) + 1
      /\ \A i \in 1 .. Len(wire) : wire'[i] = wire[i]
      /\ wire'[Len(wire) + 1] = first
  BY <1>1, <1>2, AppendElements
<1>4. \A i \in 1 .. Len(wire') : ~Clear(wire', i)
  BY <1>2, <1>3 DEF Clear
<1>5. 1 \in 1 .. Len(wire')
  BY <1>2, <1>3
<1>6. \A i \in 1 .. Len(wire') : wire'[i].cmd = "none" => wire'[i].seqnr = 1
  BY <1>2, <1>3 DEF InOrder
<1>7. InOrder'
  BY <1>4, <1>5, <1>6 DEF InOrder
<1> QED
  BY <1>1, <1>7 DEF Execution, Started

\* A package that arrives leaves the others in order, and the registers move on.
LEMMA OrderDeliver ==
    ASSUME Types, Issuing, InOrder, Execution, Deliver
    PROVE  InOrder' /\ Execution'
<1>1. /\ wire # << >> /\ input' = Head(wire) /\ wire' = Tail(wire)
      /\ UNCHANGED <<stream, sent, old_seqnr, executed, clean, again, uploaded, script, issued>>
  BY DEF Deliver, threads, robot, flags, loop
<1>2. wire \in Seq(Inputs) /\ Len(wire) \in Nat
  BY DEF Types, ControlTypes
<1>3. /\ input' = wire[1] /\ 1 \in 1 .. Len(wire) /\ Len(wire') = Len(wire) - 1
      /\ \A i \in 1 .. Len(wire') : wire'[i] = wire[i + 1] /\ i + 1 \in 1 .. Len(wire)
  BY <1>1, <1>2, TailElements
<1>4. \A i \in 1 .. Len(wire) : /\ wire[i] \in Inputs /\ wire[i].seqnr \in Nat
                                 /\ Asks(wire[i]).seqnr = wire[i].seqnr
  <2>1. \A w \in Inputs : w.seqnr \in Nat /\ Asks(w).seqnr = w.seqnr
    BY DEF Inputs, Asks, Command
  <2> QED
    BY <1>2, <2>1, Elements
<1>5. \A i \in 1 .. Len(wire) : Clear(wire', i) => Clear(wire, i + 1)
  BY <1>1, <1>2, ClearTail
<1>6. \A i \in 1 .. Len(wire) : Clear(wire, i) => wire[i].seqnr >= 1
  <2>1. \A s \in sent : s.seqnr >= 1
    BY DEF Issuing, Numbered, Types, MemberTypes
  <2> QED
    BY <1>4, <2>1 DEF InOrder
<1>7. ASSUME NEW i \in 1 .. Len(wire'), Clear(wire', i) PROVE Asks(wire'[i]) \in sent'
  BY <1>1, <1>3, <1>5, <1>7 DEF InOrder
<1>8. ASSUME NEW i \in 1 .. Len(wire'), NEW j \in 1 .. Len(wire'), Clear(wire', i), i < j
      PROVE  wire'[i].seqnr < wire'[j].seqnr
  BY <1>2, <1>3, <1>5, <1>8 DEF InOrder
<1>9. \A i \in 1 .. Len(wire') : wire'[i].cmd = "none" => wire'[i].seqnr = 1
  BY <1>3 DEF InOrder
<1>10. wire[1].cmd # "none" /\ Clear(wire', 1) => Clear(wire, 1)
  <2>1. Clear(wire', 1) => Clear(wire, 2)
    BY <1>3, <1>5
  <2> QED
    BY <1>2, <2>1 DEF Clear
<1>11. ASSUME Clear(wire', 1)
       PROVE  /\ \/ input'.cmd = "none" /\ input'.seqnr <= 1
                 \/ Asks(input') \in sent'
              /\ \A i \in 1 .. Len(wire') : input'.seqnr <= wire'[i].seqnr
  <2>1. CASE wire[1].cmd = "none"
    <3>1. wire[1].seqnr = 1
      BY <1>3, <2>1 DEF InOrder
    <3>2. \A i \in 1 .. Len(wire') : Clear(wire', i)
      BY <1>2, <1>3, <1>11 DEF Clear
    <3> QED
      BY <1>3, <1>4, <1>5, <1>6, <2>1, <3>1, <3>2
  <2>2. CASE wire[1].cmd # "none"
    <3>1. Clear(wire, 1)
      BY <1>10, <1>11, <2>2
    <3>2. Asks(wire[1]) \in sent
      BY <1>3, <3>1 DEF InOrder
    <3>3. \A i \in 1 .. Len(wire') : wire[1].seqnr < wire[i + 1].seqnr
      BY <1>2, <1>3, <3>1 DEF InOrder
    <3> QED
      BY <1>1, <1>3, <1>4, <3>2, <3>3
  <2> QED
    BY <2>1, <2>2
<1>12. InOrder'
  BY <1>7, <1>8, <1>9, <1>11 DEF InOrder
<1>13. stream # "torn" /\ Clear(wire, 1) => Clear(wire', 1) /\ input.seqnr <= input'.seqnr
  BY <1>2, <1>3 DEF Clear, InOrder
<1>14. input.seqnr \in Nat /\ input'.seqnr \in Nat /\ old_seqnr \in Nat
  BY <1>3, <1>4 DEF Types, ControlTypes, Inputs
<1>15. Started' => Started
  BY <1>1 DEF Started
<1>16. \A i \in 1 .. Len(executed) : executed[i].seqnr \in Nat
  <2>1. executed \in Seq(Requests)
    BY DEF Types, ControlTypes
  <2>2. \A i \in 1 .. Len(executed) : executed[i] \in Requests
    BY ONLY <2>1, Elements
  <2> QED
    BY <2>2 DEF Requests
<1>17. Started' => /\ Clear(wire', 1)
                   /\ old_seqnr' <= input'.seqnr
                   /\ \A i \in 1 .. Len(executed) : executed[i].seqnr <= input'.seqnr
  <2> SUFFICES ASSUME Started
               PROVE  /\ Clear(wire', 1)
                      /\ old_seqnr' <= input'.seqnr
                      /\ \A i \in 1 .. Len(executed) : executed[i].seqnr <= input'.seqnr
    BY <1>15
  <2>1. Clear(wire', 1) /\ input.seqnr <= input'.seqnr
    BY <1>13 DEF Execution, Started
  <2>2. /\ old_seqnr <= input.seqnr
        /\ \A i \in 1 .. Len(executed) : executed[i].seqnr <= input.seqnr
    BY DEF Execution
  <2> QED
    BY <1>1, <1>14, <1>16, <2>1, <2>2
<1> QED
  BY <1>1, <1>12, <1>15, <1>17 DEF Execution

\* A script that starts has nothing behind it, and if the first package has arrived
\* the registers hold what this program has sent.
LEMMA OrderStarts ==
    ASSUME Types, InOrder, Execution, ScriptStarts
    PROVE  InOrder' /\ Execution'
<1>1. /\ uploaded /\ script = "absent" /\ script' = "running"
      /\ clean' = (clean /\ \A i \in DOMAIN wire : wire[i].cmd # "none")
      /\ UNCHANGED <<wire, stream, input, sent, issued, old_seqnr, executed, again, uploaded>>
  BY DEF ScriptStarts, threads, robot, flags, link
<1>2. old_seqnr = 0
  BY <1>1 DEF Execution
<1>3. InOrder'
  BY <1>1 DEF InOrder, Clear
<1>4. clean' => Clear(wire', 1)
  <2>1. DOMAIN wire = 1 .. Len(wire)
    BY Elements DEF Types, ControlTypes
  <2> QED
    BY <1>1, <2>1 DEF Clear
<1>5. input.seqnr \in Nat
  BY DEF Types, ControlTypes, Inputs
<1>6. CASE executed = << >>
  BY <1>1, <1>2, <1>3, <1>4, <1>5, <1>6 DEF Execution, Started
<1>7. CASE executed # << >>
  <2>1. Started' => Started
    BY <1>1, <1>7 DEF Started
  <2> QED
    BY <1>1, <1>2, <1>3, <1>4, <2>1 DEF Execution
<1> QED
  BY <1>6, <1>7

\* The script executes what the registers hold if it is newer than all before.
LEMMA OrderLoop ==
    ASSUME Types, Issuing, InOrder, Execution, ScriptLoop
    PROVE  InOrder' /\ Execution'
<1>1. /\ input.seqnr # old_seqnr /\ old_seqnr' = input.seqnr
      /\ script = "running" /\ script' \in {"running", "ending"}
      /\ executed' = IF uploaded /\ input.cmd # "none" THEN Append(executed, Asks(input))
                                                       ELSE executed
      /\ UNCHANGED <<wire, stream, input, sent, issued, clean, again, uploaded>>
  BY DEF ScriptLoop, Execute, Iterate, Stops, Moves, Computes, Ignores, threads, robot,
         flags, link
<1>2. InOrder'
  BY <1>1 DEF InOrder, Clear
<1>3. CASE ~uploaded
  BY <1>1, <1>2, <1>3 DEF Execution, Started
<1>4. CASE uploaded /\ (~clean \/ stream = "torn")
  BY <1>1, <1>2, <1>4 DEF Execution, Started
<1>5. CASE uploaded /\ clean /\ stream # "torn"
  <2>1. /\ Started /\ Clear(wire, 1) /\ old_seqnr <= input.seqnr
        /\ \A i \in 1 .. Len(executed) : /\ executed[i] \in issued
                                         /\ executed[i].seqnr <= input.seqnr
                                         /\ again \/ executed[i].seqnr <= old_seqnr
        /\ \A i, j \in 1 .. Len(executed) :
              i < j => \/ executed[i].seqnr < executed[j].seqnr
                       \/ again /\ executed[i].seqnr = executed[j].seqnr
    BY <1>1, <1>5 DEF Started, Execution
  <2>2. /\ input.seqnr \in Nat /\ old_seqnr \in Nat
        /\ executed \in Seq(Requests) /\ Len(executed) \in Nat
        /\ Asks(input).seqnr = input.seqnr /\ Asks(input) \in Requests
    BY DEF Types, ControlTypes, Inputs, Requests, Asks, Command
  <2>3. \A i \in 1 .. Len(executed) : executed[i].seqnr \in Nat
    <3>1. \A i \in 1 .. Len(executed) : executed[i] \in Requests
      BY <2>2, Elements
    <3> QED
      BY <3>1 DEF Requests
  <2>4. old_seqnr < input.seqnr
    BY <1>1, <2>1, <2>2
  <2>5. CASE input.cmd = "none"
    BY <1>1, <1>2, <1>5, <2>1, <2>2, <2>3, <2>4, <2>5 DEF Execution, Started
  <2>6. CASE input.cmd # "none"
    <3>1. Asks(input) \in issued
      BY <1>5, <2>1, <2>6 DEF InOrder, Issuing, Numbered
    <3>2. /\ Len(executed') = Len(executed) + 1
          /\ \A i \in 1 .. Len(executed) : executed'[i] = executed[i]
          /\ executed'[Len(executed) + 1] = Asks(input)
      BY <1>1, <1>5, <2>2, <2>6, AppendElements
    <3>3. ASSUME NEW i \in 1 .. Len(executed')
          PROVE  /\ executed'[i] \in issued'
                 /\ executed'[i].seqnr <= input'.seqnr /\ executed'[i].seqnr <= old_seqnr'
      BY <1>1, <2>1, <2>2, <2>3, <2>4, <3>1, <3>2
    <3>4. ASSUME NEW i \in 1 .. Len(executed'), NEW j \in 1 .. Len(executed'), i < j
          PROVE  \/ executed'[i].seqnr < executed'[j].seqnr
                 \/ again' /\ executed'[i].seqnr = executed'[j].seqnr
      BY <1>1, <2>1, <2>2, <2>3, <2>4, <3>2, <3>4
    <3>5. Clear(wire', 1) /\ old_seqnr' <= input'.seqnr
      BY <1>1, <2>1, <2>2
    <3> QED
      BY <1>1, <1>2, <1>5, <3>3, <3>4, <3>5 DEF Execution, Started
  <2> QED
    BY <2>5, <2>6
<1> QED
  BY <1>3, <1>4, <1>5

\* No step breaks the order.
LEMMA OrderStep ==
    ASSUME Types, Issuing, InOrder, Execution, [Next]_vars
    PROVE  InOrder' /\ Execution'
<1> USE DEF threads, flags, robot, link, loop, workers, control
<1>1. CASE UNCHANGED vars
  BY <1>1, OrderKept DEF vars
<1>2. ASSUME NEW t \in Callers, NEW kind \in {"speed", "pose"}, Call(t, kind)
      PROVE  InOrder' /\ Execution'
  BY <1>2, OrderKept DEF Call
<1>3. CASE CallStop
  BY <1>3, OrderKept DEF CallStop
<1>4. ASSUME NEW t \in Threads, ReadSeqnr(t) PROVE InOrder' /\ Execution'
  BY <1>4, OrderKept DEF ReadSeqnr
<1>5. ASSUME NEW t \in Threads, AssignSeqnr(t) PROVE InOrder' /\ Execution'
  BY <1>5, OrderKept DEF AssignSeqnr, Assign
<1>6. ASSUME NEW t \in Threads, AssignCommand(t) PROVE InOrder' /\ Execution'
  BY <1>6, OrderKept DEF AssignCommand
<1>7. ASSUME NEW t \in Threads, Send(t) PROVE InOrder' /\ Execution'
  <2>1. CASE stream = "aligned"
    BY <1>7, <2>1, OrderSend
  <2>2. CASE stream # "aligned"
    <3>1. /\ stream' = "torn" /\ sent \subseteq sent'
          /\ UNCHANGED <<wire, input, old_seqnr, executed, clean, again, uploaded, script>>
      BY <1>7, <2>2 DEF Send
    <3>2. UNCHANGED issued
      BY <1>7 DEF Send
    <3> QED
      BY <3>1, <3>2, OrderTorn
  <2> QED
    BY <2>1, <2>2
<1>8. ASSUME NEW t \in Threads, Reset(t) PROVE InOrder' /\ Execution'
  BY <1>8, OrderKept DEF Reset, Returns
<1>9. ASSUME NEW t \in Threads, SendFails(t) PROVE InOrder' /\ Execution'
  <2>1. stream' = stream \/ stream # "torn" \/ stream' = "torn"
    BY <1>9 DEF SendFails
  <2> QED
    BY <1>9, <2>1, OrderKept DEF SendFails
<1>10. ASSUME NEW t \in Callers, WaitSees(t) PROVE InOrder' /\ Execution'
  BY <1>10, OrderKept DEF WaitSees, WaitEnds
<1>11. ASSUME NEW t \in Callers, WaitExpires(t) PROVE InOrder' /\ Execution'
  BY <1>11, OrderKept DEF WaitExpires, WaitEnds
<1>12. CASE StopLowers
  BY <1>12, OrderKept DEF StopLowers
<1>13. CASE Upload
  <2>1. /\ script' = "absent" /\ old_seqnr' = 0 /\ uploaded' = TRUE /\ again' = uploaded
        /\ UNCHANGED <<wire, stream, input, sent, issued, executed, clean>>
    BY <1>13 DEF Upload
  <2>2. InOrder'
    BY <2>1 DEF InOrder, Clear
  <2>3. CASE ~uploaded
    BY <2>1, <2>2, <2>3 DEF Execution, Started
  <2>4. CASE uploaded
    <3>1. Started' => Started
      BY <2>1, <2>4 DEF Started
    <3>2. input.seqnr \in Nat
      BY DEF Types, ControlTypes, Inputs
    <3>3. Clear(wire, 1)' <=> Clear(wire, 1)
      BY <2>1 DEF Clear
    <3> QED
      BY <2>1, <2>2, <2>4, <3>1, <3>2, <3>3 DEF Execution
  <2> QED
    BY <2>3, <2>4
<1>14. CASE Restart
  BY <1>14, OrderRestart
<1>15. CASE Deliver
  BY <1>15, OrderDeliver
<1>16. CASE ScriptStarts
  BY <1>16, OrderStarts
<1>17. CASE ScriptLoop
  BY <1>17, OrderLoop
<1>18. CASE SpeedTakes
  BY <1>18, OrderKept DEF SpeedTakes
<1>19. CASE SpeedStops
  BY <1>19, OrderKept DEF SpeedStops
<1>20. CASE InverseKinematics
  BY <1>20, OrderKept DEF InverseKinematics, Solve
<1>21. CASE Sample
  BY <1>21, OrderKept DEF Sample
<1>22. CASE Publish
  BY <1>22, OrderKept DEF Publish
<1>23. CASE DeliverGarbled
  <2>1. /\ stream = "torn"
        /\ UNCHANGED <<wire, stream, sent, issued, old_seqnr, executed, clean, again, uploaded,
                       script>>
    BY <1>23 DEF DeliverGarbled
  <2> QED
    BY <2>1 DEF InOrder, Execution, Started, Clear
<1> HIDE DEF threads, flags, robot, link, loop, workers, control
<1> QED
  BY <1>1, <1>2, <1>3, <1>4, <1>5, <1>6, <1>7, <1>8, <1>9, <1>10, <1>11, <1>12, <1>13,
     <1>14, <1>15, <1>16, <1>17, <1>18, <1>19, <1>20, <1>21, <1>22, <1>23
  DEF Next, CallStep

(* The script executes what this program asked for, each command at most    *)
(* once and in the order of the calls (tcp_pose.script:115-164), through    *)
(* any number of restarts, if the first package arrived before the script   *)
(* started, nothing was sent behind a cut send and stop() does not overlap  *)
(* with other calls; a script that is uploaded once more may begin with the *)
(* command the one before ended with.                                       *)
THEOREM ExecutionCorrect == ASSUME ~Concurrent PROVE Spec => []ExecutedAsIssued
<1>1. Types /\ Issuing /\ InOrder /\ Execution /\ [Next]_vars => InOrder' /\ Execution'
  BY OrderStep
<1>2. Execution => ExecutedAsIssued
  BY DEF Execution, Started, ExecutedAsIssued
<1> QED
  BY OrderInit, TypesHold, IssuingHolds, <1>1, <1>2, PTL DEF Spec

-----------------------------------------------------------------------------
(* The joints follow the commands. *)

\* The last control input among the commands of e.
IsLatest(e, i) ==
    /\ i \in 1 .. Len(e)
    /\ e[i].cmd = "speed"
    /\ \A j \in 1 .. Len(e) : e[j].cmd = "speed" => j <= i

\* What the speed thread has not yet taken is the latest speed; once the script is to
\* end, it is none.
Motion ==
    /\ tqd \in [updated : BOOLEAN, qd : Nat]
    /\ uploaded => /\ script = "absent" => ~tqd.updated
                   /\ script = "running" /\ tqd.updated =>
                          \E i : IsLatest(executed, i) /\ executed[i].arg = tqd.qd
                   /\ script = "ending" => tqd.qd = 0

\* The latest one is the only one.
LEMMA LatestOne ==
    ASSUME NEW i, IsLatest(executed, i), executed \in Seq(Requests)
    PROVE  LatestSpeed = executed[i].arg
<1> DEFINE inputs == {k \in 1 .. Len(executed) : executed[k].cmd = "speed"}
           last == CHOOSE k \in inputs : \A j \in inputs : j <= k
<1>1. i \in inputs /\ \A j \in inputs : j <= i
  BY DEF IsLatest
<1>2. last \in inputs /\ \A j \in inputs : j <= last
  BY <1>1
<1>3. inputs \subseteq Int
  OBVIOUS
<1>4. LatestSpeed = executed[last].arg
  BY DEF LatestSpeed
<1> HIDE DEF inputs, last
<1>5. last = i
  BY <1>1, <1>2, <1>3
<1> QED
  BY <1>4, <1>5

\* A command behind the others is the latest speed, or leaves it as it was.
LEMMA LatestAppend ==
    ASSUME NEW e \in Seq(Requests), NEW c \in Requests
    PROVE  /\ c.cmd = "speed" => /\ IsLatest(Append(e, c), Len(e) + 1)
                                 /\ Append(e, c)[Len(e) + 1] = c
           /\ c.cmd # "speed" =>
                  \A i : IsLatest(e, i) => IsLatest(Append(e, c), i) /\ Append(e, c)[i] = e[i]
<1>1. /\ Len(Append(e, c)) = Len(e) + 1 /\ Len(e) \in Nat
      /\ Append(e, c)[Len(e) + 1] = c
      /\ \A i \in 1 .. Len(e) : Append(e, c)[i] = e[i]
  BY AppendElements
<1>2. CASE c.cmd = "speed"
  BY <1>1, <1>2 DEF IsLatest
<1>3. CASE c.cmd # "speed"
  BY <1>1, <1>3 DEF IsLatest
<1> QED
  BY <1>2, <1>3

LEMMA MotionInit == Init => Motion
  BY DEF Init, Motion, NoSpeed

\* Steps that touch neither the script nor its speed.
LEMMA MotionKept ==
    ASSUME Motion, UNCHANGED <<tqd, uploaded, script, executed, speed>>
    PROVE  Motion' /\ speed' = speed
  BY DEF Motion

\* The main loop hands a new speed over.
LEMMA MotionLoop == ASSUME Types, Motion, ScriptLoop PROVE Motion' /\ speed' = speed
<1>1. /\ script = "running" /\ UNCHANGED <<uploaded, speed>>
      /\ executed' = IF uploaded /\ input.cmd # "none" THEN Append(executed, Asks(input))
                                                       ELSE executed
  BY DEF ScriptLoop, Execute, Iterate, robot, flags
<1>2. /\ executed \in Seq(Requests) /\ input \in Inputs /\ Asks(input) \in Requests
      /\ Asks(input).cmd = input.cmd /\ input.qd \in Nat
      /\ input.cmd = "speed" => Asks(input).arg = input.qd
  BY DEF Types, ControlTypes, Inputs, Requests, Asks, Command
<1>3. CASE Stops(input, 0)
  <2>1. tqd' \in [updated : BOOLEAN, qd : Nat] /\ tqd'.qd = 0 /\ script' = "ending"
    BY <1>3 DEF Stops, Motion
  <2> QED
    BY <1>1, <2>1 DEF Motion
<1>4. CASE Moves(input, TRUE)
  <2>1. /\ tqd' \in [updated : BOOLEAN, qd : Nat] /\ tqd'.qd = input.qd
        /\ script' = "running" /\ input.cmd = "speed"
    BY <1>1, <1>2, <1>4 DEF Moves
  <2>2. uploaded => /\ IsLatest(executed', Len(executed) + 1)
                    /\ executed'[Len(executed) + 1].arg = input.qd
    BY <1>1, <1>2, <2>1, LatestAppend
  <2> QED
    BY <1>1, <2>1, <2>2 DEF Motion
<1>5. CASE Computes(input) \/ Ignores(input)
  <2>1. UNCHANGED <<script, tqd>> /\ input.cmd # "speed"
    BY <1>5 DEF Computes, Ignores
  <2>2. \A i : IsLatest(executed, i) => /\ IsLatest(executed', i)
                                        /\ executed'[i] = executed[i]
    <3>1. CASE uploaded /\ input.cmd # "none"
      <4>1. executed' = Append(executed, Asks(input)) /\ Asks(input).cmd # "speed"
        BY <1>1, <1>2, <2>1, <3>1
      <4>2. \A i : IsLatest(executed, i) =>
                       /\ IsLatest(Append(executed, Asks(input)), i)
                       /\ Append(executed, Asks(input))[i] = executed[i]
        BY <1>2, <4>1, LatestAppend
      <4> QED
        BY <4>1, <4>2
    <3>2. CASE ~(uploaded /\ input.cmd # "none")
      <4>1. executed' = executed
        BY <1>1, <3>2
      <4> QED
        BY <4>1
    <3> QED
      BY <3>1, <3>2
  <2> QED
    BY <1>1, <2>1, <2>2 DEF Motion
<1> QED
  BY <1>1, <1>3, <1>4, <1>5 DEF ScriptLoop, Execute, Iterate

\* The speed thread takes the latest speed, unless the script is to end.
LEMMA MotionTakes ==
    ASSUME Types, Motion, SpeedTakes
    PROVE  /\ Motion'
           /\ uploaded => speed' = 0 \/ (script = "running" /\ speed' = LatestSpeed)
<1>1. /\ script \in {"running", "ending"} /\ tqd.updated /\ speed' = tqd.qd
      /\ tqd' = [tqd EXCEPT !.updated = FALSE]
      /\ UNCHANGED <<uploaded, script, executed>>
  BY DEF SpeedTakes, loop, robot, flags
<1>2. tqd' \in [updated : BOOLEAN, qd : Nat] /\ ~tqd'.updated /\ tqd'.qd = tqd.qd
  BY <1>1 DEF Motion
<1>3. Motion'
  BY <1>1, <1>2 DEF Motion
<1>4. ASSUME uploaded, script = "running" PROVE speed' = LatestSpeed
  BY <1>1, <1>4, LatestOne DEF Motion, Types, ControlTypes
<1>5. ASSUME uploaded, script = "ending" PROVE speed' = 0
  BY <1>1, <1>5 DEF Motion
<1> QED
  BY <1>1, <1>3, <1>4, <1>5

LEMMA MotionStep ==
    ASSUME Types, Motion, [Next]_vars
    PROVE  /\ Motion'
           /\ uploaded /\ speed' # speed =>
                  speed' = 0 \/ (script = "running" /\ speed' = LatestSpeed)
<1> USE DEF threads, flags, robot, link, loop, workers, control
<1>1. CASE UNCHANGED vars
  BY <1>1, MotionKept DEF vars
<1>2. CASE \/ \E t \in Callers : \E kind \in {"speed", "pose"} : Call(t, kind)
           \/ CallStop
           \/ \E t \in Threads : CallStep(t) \/ SendFails(t)
           \/ \E t \in Callers : WaitSees(t) \/ WaitExpires(t)
           \/ StopLowers
  <2>1. UNCHANGED <<tqd, uploaded, script, executed, speed>>
    BY <1>2 DEF Call, CallStop, CallStep, ReadSeqnr, AssignSeqnr, Assign, AssignCommand, Send,
                Reset, Returns, SendFails, WaitSees, WaitExpires, WaitEnds, StopLowers
  <2> QED
    BY <2>1, MotionKept
<1>3. CASE Upload
  <2>1. /\ tqd' = NoSpeed /\ script' = "absent" /\ speed' = 0
    BY <1>3 DEF Upload
  <2>2. tqd' \in [updated : BOOLEAN, qd : Nat] /\ ~tqd'.updated
    BY <2>1 DEF NoSpeed
  <2>3. Motion'
    BY <2>1, <2>2 DEF Motion
  <2> QED
    BY <2>1, <2>3
<1>4. CASE Restart
  <2>1. ~uploaded' /\ UNCHANGED <<tqd, speed>>
    BY <1>4 DEF Restart
  <2> QED
    BY <2>1 DEF Motion
<1>5. CASE ScriptStarts
  <2>1. script = "absent" /\ uploaded /\ script' = "running" /\ UNCHANGED <<tqd, speed>>
    BY <1>5 DEF ScriptStarts
  <2> QED
    BY <2>1 DEF Motion
<1>6. CASE ScriptLoop
  BY <1>6, MotionLoop
<1>7. CASE SpeedTakes
  BY <1>7, MotionTakes
<1>8. CASE SpeedStops
  <2>1. script' = "ended" /\ speed' = 0 /\ UNCHANGED tqd
    BY <1>8 DEF SpeedStops
  <2>2. tqd' \in [updated : BOOLEAN, qd : Nat]
    BY <2>1 DEF Motion
  <2>3. Motion'
    BY <2>1, <2>2 DEF Motion
  <2> QED
    BY <2>1, <2>3
<1>9. CASE Deliver \/ DeliverGarbled \/ InverseKinematics \/ Sample \/ Publish
  <2>1. UNCHANGED <<tqd, uploaded, script, executed, speed>>
    BY <1>9 DEF Deliver, DeliverGarbled, InverseKinematics, Solve, Sample, Publish
  <2> QED
    BY <2>1, MotionKept
<1> HIDE DEF threads, flags, robot, link, loop, workers, control
<1> QED
  BY <1>1, <1>2, <1>3, <1>4, <1>5, <1>6, <1>7, <1>8, <1>9 DEF Next

(* The joints only go to rest, or to the speed of the latest control input  *)
(* that the script of this program has executed (tcp_pose.script:54-67,     *)
(* 123-143), however stop(), restarts and the speed thread come together.   *)
THEOREM MotionCorrect == Spec => MotionFollowsCommands
<1>1. Types /\ Motion /\ [Next]_vars => Motion'
  BY MotionStep
<1>2. Types /\ Motion /\ [Next]_vars =>
          [uploaded /\ speed' # speed =>
               speed' = 0 \/ (script = "running" /\ speed' = LatestSpeed)]_vars
  BY MotionStep
<1> QED
  BY MotionInit, TypesHold, <1>1, <1>2, PTL DEF Spec, MotionFollowsCommands

-----------------------------------------------------------------------------
(* Types with their bounds: how far the numbers get.                        *)

\* A thread between its call and its use of a number, and the calls that have used theirs.
Numbering(t) == pc[t] \in {"read", "assign"}
Assigned == IF \E t \in Callers : Numbering(t) THEN calls - 1 ELSE calls

\* stop() does so once in a program, as it lowers running_.
StopAssigned == uploaded /\ (~running \/ pc[Owner] \in {"command", "send", "sent"})
Used == IF StopAssigned THEN Assigned + 1 ELSE Assigned

\* There are no more numbers than calls, however the increments of in_seqnr and last_seqnr
\* interleave: the mutex keeps callers apart, and stop() comes once.
Counting ==
    /\ \A t \in Callers : pc[t] \in Busy <=> bottleneck = t
    /\ pc[Owner] # "wait" /\ (pc[Owner] # "idle" => running)
    /\ running => uploaded
    /\ m.last_seqnr <= Used
    /\ \A t \in Threads : pc[t] = "assign" => req[t].seqnr <= Used + 1

\* At first.
LEMMA CountingInit == Init => Counting
  BY ThreadsAssumption
  DEF Init, Counting, Used, StopAssigned, Assigned, Numbering, Members, Threads, Busy

\* Steps that change no number and no thread.
LEMMA CountingKept ==
    ASSUME Counting, UNCHANGED <<pc, req, bottleneck, calls, m, running, uploaded>>
    PROVE  Counting'
  BY DEF Counting, Used, StopAssigned, Assigned, Numbering

\* No step spoils this.
LEMMA CountingStep == ASSUME Types, Counting, [Next]_vars PROVE Counting'
<1> USE ThreadsAssumption
    DEF Types, ThreadTypes, MemberTypes, Counting, Used, StopAssigned, Assigned, Numbering,
        Threads, Busy, Requests, Move, At, Free
<1>1. CASE UNCHANGED vars
  BY <1>1, CountingKept DEF vars
<1>2. ASSUME NEW t \in Callers, NEW kind \in {"speed", "pose"}, Call(t, kind) PROVE Counting'
  BY <1>2 DEF Call, Command, flags
<1>3. CASE CallStop
  BY <1>3 DEF CallStop, robot, flags, Command
<1>4. ASSUME NEW t \in Threads, ReadSeqnr(t) PROVE Counting'
  BY <1>4 DEF ReadSeqnr, robot, flags
<1>5. ASSUME NEW t \in Threads, AssignSeqnr(t) PROVE Counting'
  BY <1>5 DEF AssignSeqnr, Assign, flags
<1>6. ASSUME NEW t \in Threads, AssignCommand(t) PROVE Counting'
  BY <1>6 DEF AssignCommand, flags
<1>7. ASSUME NEW t \in Threads, Send(t) PROVE Counting'
  BY <1>7 DEF Send, robot, flags
<1>8. ASSUME NEW t \in Threads, Reset(t) PROVE Counting'
  BY <1>8 DEF Reset, Returns, flags
<1>9. ASSUME NEW t \in Threads, SendFails(t) PROVE Counting'
  BY <1>9 DEF SendFails, robot, flags
<1>10. ASSUME NEW t \in Callers, WaitEnds(t) PROVE Counting'
  BY <1>10 DEF WaitEnds, flags
<1>11. CASE StopLowers
  BY <1>11 DEF StopLowers
<1>12. CASE Upload
  BY <1>12 DEF Upload, threads
<1>13. CASE Restart
  BY <1>13 DEF Restart, Members
<1>14. CASE Deliver \/ DeliverGarbled \/ ScriptStarts \/ ScriptLoop \/ SpeedTakes \/ SpeedStops
            \/ InverseKinematics \/ Sample \/ Publish
  BY <1>14, CountingKept
  DEF Deliver, DeliverGarbled, ScriptStarts, ScriptLoop, Execute, Iterate, SpeedTakes, SpeedStops,
      InverseKinematics, Solve, Sample, Publish, threads, robot, flags
<1> HIDE DEF Types, ThreadTypes, MemberTypes, Counting, Used, StopAssigned, Assigned, Numbering,
        Threads, Busy, Requests, Move, At, Free
<1> QED
  BY <1>1, <1>2, <1>3, <1>4, <1>5, <1>6, <1>7, <1>8, <1>9, <1>10, <1>11, <1>12, <1>13, <1>14
  DEF Next, CallStep, WaitSees, WaitExpires

\* TypeOK in parts.
ThreadsOK ==
    /\ pc \in [Threads -> {"idle", "read", "assign", "command", "send", "sent", "wait"}]
    /\ req \in [Threads -> Commands]
    /\ bottleneck \in Callers \cup {NoThread}

MembersOK ==
    /\ calls \in 0 .. MaxCalls
    /\ m \in [last_seqnr : Seqnrs, in_seqnr : Seqnrs, cmd : Kinds, set_qd : Args,
              TCP_pose_ref : Args]
    /\ restarts \in 0 .. MaxRestarts
    /\ issued \subseteq Commands /\ sent \subseteq Commands /\ earlier \subseteq Commands

ControlOK ==
    /\ q_ref \in Answers /\ output \in Answers /\ frame \in Answers
    /\ wire \in Seq(Packages)
    /\ stream \in {"aligned", "short", "torn"}
    /\ input \in Packages
    /\ script \in {"absent", "running", "ending", "ended"}
    /\ old_seqnr \in Seqnrs
    /\ tTCP_pose \in [updated : BOOLEAN, seqnr : Seqnrs, pose : Args]
    /\ tqd \in [updated : BOOLEAN, qd : Args]
    /\ speed \in Args
    /\ executed \in Seq(Commands)

FlagsOK ==
    /\ q_ref_initialized \in BOOLEAN
    /\ running \in BOOLEAN /\ uploaded \in BOOLEAN
    /\ garbled \in BOOLEAN /\ again \in BOOLEAN /\ clean \in BOOLEAN

Holding == \A t \in Callers : bottleneck = t <=> pc[t] \notin {"idle", "wait"}

\* The numbers that a program begins with.
LEMMA SmallNumbers ==
    /\ MaxCalls \in Nat /\ MaxRestarts \in Nat
    /\ 0 \in Seqnrs /\ 1 \in Seqnrs /\ 0 \in Args
  BY BoundsAssumption DEF Seqnrs, Args

\* At first.
LEMMA PartsInit == Init => ThreadsOK /\ MembersOK /\ ControlOK /\ FlagsOK
<1> SUFFICES ASSUME Init PROVE ThreadsOK /\ MembersOK /\ ControlOK /\ FlagsOK
  OBVIOUS
<1> USE SmallNumbers
<1>1. NoCommand \in Commands /\ NoAnswer \in Answers
  BY DEF NoCommand, Command, Commands, NoAnswer, Answers, Kinds
<1>2. ThreadsOK
  BY <1>1 DEF Init, ThreadsOK, NoRequests
<1>3. MembersOK
  BY DEF Init, MembersOK, Members, Kinds
<1>4. Package \in Packages
  BY DEF Init, Package, Packages, Members, Kinds
<1>5. ControlOK
  BY <1>1, <1>4 DEF Init, ControlOK, NoPose, NoSpeed, Packages, Kinds
<1>6. FlagsOK
  BY DEF Init, FlagsOK
<1> QED
  BY <1>2, <1>3, <1>5, <1>6

\* The next number is one of those that TypeOK allows.
LEMMA NumbersBounded ==
    ASSUME Types, Counting, MembersOK PROVE m.last_seqnr + 1 \in Seqnrs
<1>1. m.last_seqnr \in Nat /\ calls \in Nat /\ calls <= MaxCalls
  BY SmallNumbers DEF Types, MemberTypes, MembersOK
<1>2. Used <= calls + 1
  BY <1>1 DEF Used, Assigned
<1> QED
  BY <1>1, <1>2, SmallNumbers DEF Counting, Seqnrs, Used, Assigned

\* No step of the program spoils the types of threads and members.
LEMMA ThreadsStep ==
    ASSUME Types, Counting, ThreadsOK, MembersOK, [Next]_vars PROVE ThreadsOK'
<1> USE ThreadsAssumption, SmallNumbers DEF ThreadsOK, Threads, Move, Free
<1>1. NoCommand \in Commands
  BY DEF NoCommand, Command, Commands, Kinds
<1>2. \A t \in Threads : req[t] \in Commands
  OBVIOUS
<1>3. ASSUME NEW t \in Callers, NEW kind \in {"speed", "pose"}, Call(t, kind) PROVE ThreadsOK'
  <2>1. calls' \in Args
    BY <1>3 DEF Call, MembersOK, Args
  <2>2. Command(0, kind, calls') \in Commands
    BY <2>1 DEF Command, Commands, Kinds
  <2> QED
    BY <1>3, <2>2 DEF Call
<1>4. CASE CallStop
  <2>1. Command(0, "stop", 0) \in Commands
    BY DEF Command, Commands, Kinds
  <2> QED
    BY <1>4, <2>1 DEF CallStop
<1>5. ASSUME NEW t \in Threads, ReadSeqnr(t) PROVE ThreadsOK'
  <2>1. [req[t] EXCEPT !.seqnr = m.last_seqnr + 1] \in Commands
    BY <1>2, NumbersBounded DEF Commands
  <2> QED
    BY <1>5, <2>1 DEF ReadSeqnr
<1>6. ASSUME NEW t \in Threads, AssignSeqnr(t) \/ AssignCommand(t) \/ Send(t) PROVE ThreadsOK'
  BY <1>6 DEF AssignSeqnr, Assign, AssignCommand, Send
<1>7. ASSUME NEW t \in Threads, Reset(t) PROVE ThreadsOK'
  <2>1. [req[t] EXCEPT !.seqnr = m.in_seqnr] \in Commands
    BY <1>2 DEF Commands, MembersOK
  <2>2. \/ req' = [req EXCEPT ![t] = [req[t] EXCEPT !.seqnr = m.in_seqnr]]
        \/ req' = [req EXCEPT ![t] = NoCommand]
    BY <1>7 DEF Reset, Returns
  <2>3. req' \in [Threads -> Commands]
    BY <1>1, <2>1, <2>2
  <2> QED
    BY <1>7, <2>3 DEF Reset, Returns
<1>8. ASSUME NEW t \in Threads, SendFails(t) PROVE ThreadsOK'
  BY <1>1, <1>8 DEF SendFails
<1>9. ASSUME NEW t \in Callers, WaitEnds(t) PROVE ThreadsOK'
  BY <1>1, <1>9 DEF WaitEnds
<1>10. CASE StopLowers
  BY <1>1, <1>10 DEF StopLowers
<1>11. CASE Restart
  BY <1>1, <1>11 DEF Restart, NoRequests
<1>12. CASE UNCHANGED <<pc, req, bottleneck>>
  BY <1>12
<1> HIDE DEF ThreadsOK, Threads, Move, Free
<1> QED
  BY <1>3, <1>4, <1>5, <1>6, <1>7, <1>8, <1>9, <1>10, <1>11, <1>12
  DEF Next, CallStep, WaitSees, WaitExpires, Upload, Deliver, DeliverGarbled, ScriptStarts, ScriptLoop, Execute,
      Iterate, SpeedTakes, SpeedStops, InverseKinematics, Solve, Sample, Publish, threads, vars

\* What is sent, and what the script makes of it.
LEMMA PackageTypes ==
    /\ MembersOK => Package \in Packages
    /\ \A p \in Packages : Asks(p) \in Commands
  BY SmallNumbers
  DEF MembersOK, Package, Packages, Asks, Command, Commands, Kinds

\* The members.
LEMMA MembersStep ==
    ASSUME Types, Counting, ThreadsOK, MembersOK, [Next]_vars PROVE MembersOK'
<1> USE SmallNumbers DEF MembersOK
<1>1. ASSUME NEW t \in Callers, NEW kind \in {"speed", "pose"}, Call(t, kind) PROVE MembersOK'
  <2>1. calls' \in Args
    BY <1>1 DEF Call, Args
  <2>2. m' = [m EXCEPT !.set_qd = calls'] \/ m' = [m EXCEPT !.TCP_pose_ref = calls']
    BY <1>1 DEF Call
  <2> QED
    BY <1>1, <2>1, <2>2 DEF Call, Args, flags, link
<1>2. ASSUME NEW t \in Threads, AssignSeqnr(t) PROVE MembersOK'
  <2>1. req[t] \in Commands /\ req[t].seqnr \in Seqnrs
    BY DEF ThreadsOK, Commands
  <2> QED
    BY <1>2, <2>1 DEF AssignSeqnr, Assign, flags, link
<1>3. ASSUME NEW t \in Threads, AssignCommand(t) PROVE MembersOK'
  <2>1. req[t].cmd \in Kinds
    BY DEF ThreadsOK, Commands
  <2> QED
    BY <1>3, <2>1 DEF AssignCommand, flags, link
<1>4. ASSUME NEW t \in Threads, Send(t) PROVE MembersOK'
  BY <1>4, PackageTypes DEF Send, robot, flags
<1>5. ASSUME NEW t \in Threads, Reset(t) PROVE MembersOK'
  BY <1>5 DEF Reset, Returns, Kinds, flags, link
<1>6. CASE Restart
  BY <1>6 DEF Restart, Members, Kinds
<1>7. CASE UNCHANGED <<calls, m, restarts, issued, sent, earlier>>
  BY <1>7
<1>8. CASE Upload
  BY <1>8 DEF Upload, threads, link
<1> HIDE DEF MembersOK
<1> QED
  BY <1>1, <1>2, <1>3, <1>4, <1>5, <1>6, <1>7, <1>8
  DEF Next, CallStep, CallStop, ReadSeqnr, SendFails, WaitSees, WaitExpires, WaitEnds, StopLowers,
      Deliver, DeliverGarbled, ScriptStarts, ScriptLoop, Execute, Iterate, SpeedTakes, SpeedStops,
      InverseKinematics, Solve, Sample, Publish, threads, robot, flags, link, vars

\* The controller and the script.
LEMMA ControlStep == ASSUME MembersOK, ControlOK, [Next]_vars PROVE ControlOK'
<1> USE SmallNumbers DEF ControlOK
<1>1. ASSUME NEW t \in Threads, Send(t) PROVE ControlOK'
  <2>1. Append(wire, Package) \in Seq(Packages)
    BY PackageTypes, AppendElements
  <2>2. wire' \in Seq(Packages) /\ stream' \in {"aligned", "short", "torn"}
    BY <1>1, <2>1 DEF Send
  <2> QED
    BY <1>1, <2>2 DEF Send, robot, control, loop, workers
<1>2. CASE Upload
  BY <1>2 DEF Upload, NoPose, NoSpeed, link
<1>3. CASE Restart
  <2>1. [seqnr |-> 1, cmd |-> "none", qd |-> 0, pose |-> 0] \in Packages
    BY DEF Packages, Kinds
  <2>2. wire' \in Seq(Packages)
    BY <1>3, <2>1, AppendElements DEF Restart
  <2>3. q_ref' \in Answers
    BY <1>3 DEF Restart, NoAnswer, Answers
  <2>4. executed' \in Seq(Commands)
    BY <1>3 DEF Restart
  <2> QED
    BY <1>3, <2>2, <2>3, <2>4 DEF Restart, workers
<1>4. CASE Deliver
  <2>1. Head(wire) \in Packages /\ Tail(wire) \in Seq(Packages)
    BY <1>4, TailElements DEF Deliver
  <2> QED
    BY <1>4, <2>1 DEF Deliver, robot, loop, workers
<1>5. CASE ScriptStarts
  BY <1>5 DEF ScriptStarts, robot, link, workers
<1>6. CASE ScriptLoop
  <2>1. input.seqnr \in Seqnrs /\ input.qd \in Args /\ input.pose \in Args
    BY DEF Packages
  <2>2. output' \in Answers
    BY <1>6, <2>1 DEF ScriptLoop, Execute, Iterate, Answers
  <2>3. executed' \in Seq(Commands)
    <3>1. Asks(input) \in Commands
      BY PackageTypes
    <3>2. Append(executed, Asks(input)) \in Seq(Commands)
      BY <3>1, AppendElements
    <3>3. executed' = executed \/ executed' = Append(executed, Asks(input))
      BY <1>6 DEF ScriptLoop, Execute, Iterate
    <3> QED
      BY <3>2, <3>3
  <2>4. /\ script' \in {"absent", "running", "ending", "ended"}
        /\ tqd' \in [updated : BOOLEAN, qd : Args]
        /\ tTCP_pose' \in [updated : BOOLEAN, seqnr : Seqnrs, pose : Args]
    <3>1. CASE Stops(input, 0)
      BY <3>1 DEF Stops
    <3>2. CASE Moves(input, TRUE)
      BY <2>1, <3>2 DEF Moves
    <3>3. CASE Computes(input)
      BY <2>1, <3>3 DEF Computes
    <3>4. CASE Ignores(input)
      BY <1>6, <3>4 DEF Ignores, ScriptLoop, Execute, Iterate
    <3> QED
      BY <1>6, <3>1, <3>2, <3>3, <3>4 DEF ScriptLoop, Execute, Iterate
  <2>5. /\ old_seqnr' = input.seqnr
        /\ UNCHANGED <<q_ref, frame, wire, stream, input, speed>>
    BY <1>6 DEF ScriptLoop, Execute, Iterate, robot, link
  <2> QED
    BY <2>1, <2>2, <2>3, <2>4, <2>5
<1>7. CASE SpeedTakes
  BY <1>7 DEF SpeedTakes, robot, link, loop
<1>8. CASE SpeedStops
  BY <1>8 DEF SpeedStops, robot, link
<1>9. CASE InverseKinematics
  <2>1. output' \in Answers
    BY <1>9 DEF InverseKinematics, Solve, Answers
  <2> QED
    BY <1>9, <2>1 DEF InverseKinematics, Solve, robot, link, loop
<1>10. CASE Sample
  BY <1>10 DEF Sample, robot, link, loop, workers
<1>11. CASE Publish
  BY <1>11 DEF Publish, link, control, loop, workers
<1>12. CASE UNCHANGED <<q_ref, wire, stream, control>>
  BY <1>12 DEF control, loop, workers
<1>13. ASSUME NEW t \in Threads, SendFails(t) PROVE ControlOK'
  <2>1. stream' \in {"aligned", "short", "torn"}
    BY <1>13 DEF SendFails
  <2>2. UNCHANGED <<q_ref, wire, control>>
    BY <1>13 DEF SendFails, robot
  <2> QED
    BY <2>1, <2>2 DEF control, loop, workers
<1>14. CASE DeliverGarbled
  <2>1. input' \in Packages
    BY <1>14, GarblesAssumption DEF DeliverGarbled
  <2> QED
    BY <1>14, <2>1 DEF DeliverGarbled, robot, loop, workers
<1> HIDE DEF ControlOK
<1> QED
  BY <1>1, <1>2, <1>3, <1>4, <1>5, <1>6, <1>7, <1>8, <1>9, <1>10, <1>11, <1>12,
     <1>13, <1>14
  DEF Next, CallStep, Call, CallStop, ReadSeqnr, AssignSeqnr, Assign, AssignCommand, Reset,
      Returns, WaitSees, WaitExpires, WaitEnds, StopLowers, robot, link, vars, control,
      loop, workers

\* What is true or false.
LEMMA FlagsStep == ASSUME FlagsOK, [Next]_vars PROVE FlagsOK'
<1> USE DEF FlagsOK
<1>1. ASSUME NEW t \in Callers, WaitEnds(t) PROVE FlagsOK'
  BY <1>1 DEF WaitEnds, flags, link, control, loop
<1>2. CASE StopLowers
  BY <1>2 DEF StopLowers, link, control, loop
<1>3. CASE Upload
  BY <1>3 DEF Upload, link
<1>4. CASE Restart
  BY <1>4 DEF Restart
<1>5. CASE ScriptStarts
  <2>1. clean' \in BOOLEAN
    BY <1>5 DEF ScriptStarts
  <2>2. UNCHANGED <<q_ref_initialized, running, uploaded, garbled, again>>
    BY <1>5 DEF ScriptStarts, robot, flags, link
  <2> QED
    BY <2>1, <2>2
<1>6. CASE UNCHANGED <<q_ref_initialized, running, uploaded, garbled, again, clean>>
  BY <1>6
<1>7. CASE DeliverGarbled
  BY <1>7 DEF DeliverGarbled, robot, flags, loop
<1> HIDE DEF FlagsOK
<1> QED
  BY <1>1, <1>2, <1>3, <1>4, <1>5, <1>6, <1>7
  DEF Next, CallStep, Call, CallStop, ReadSeqnr, AssignSeqnr, Assign, AssignCommand, Send, Reset,
      Returns, SendFails, WaitSees, WaitExpires, Deliver, ScriptLoop, Execute, Iterate,
      SpeedTakes, SpeedStops, InverseKinematics, Solve, Sample, Publish, robot, flags, link, vars,
      control, loop

\* A caller holds the mutex while it is busy.
LEMMA Holds == ThreadsOK /\ Counting => Holding
  BY DEF ThreadsOK, Counting, Holding, Busy, Threads

(* The variables keep their types, for any number of calls and restarts and *)
(* also if stop() comes between the read and the write of a counter: a      *)
(* program never gets further than one number more than it has made calls.  *)
(* A caller holds the mutex from its call to the reset of the command       *)
(* (robot.cpp:317-345, 378).                                                *)
THEOREM TypesKept == Spec => []TypeOK
<1> DEFINE Bounded == Counting /\ ThreadsOK /\ MembersOK /\ ControlOK /\ FlagsOK
<1>1. Init => Bounded
  BY CountingInit, PartsInit
<1>2. Types /\ Bounded /\ [Next]_vars => Bounded'
  BY CountingStep, ThreadsStep, MembersStep, ControlStep, FlagsStep
<1>3. Bounded => TypeOK
  <2> SUFFICES ASSUME Counting, ThreadsOK, MembersOK, ControlOK, FlagsOK PROVE TypeOK
    OBVIOUS
  <2>1. {q_ref, output, frame} \subseteq Answers /\ {running, uploaded, garbled, again, clean} \subseteq BOOLEAN
        /\ issued \cup sent \cup earlier \subseteq Commands
    BY Zenon DEF MembersOK, ControlOK, FlagsOK
  <2>2. Holding
    BY Holds
  <2> QED
    BY <2>1, <2>2, Zenon DEF ThreadsOK, MembersOK, ControlOK, FlagsOK, Holding, TypeOK
<1> HIDE DEF Bounded
<1> QED
  BY TypesHold, <1>1, <1>2, <1>3, PTL DEF Spec
=============================================================================
