---------------------------- MODULE RobotCommands ----------------------------
(***************************************************************************)
(* The commands of urx::Robot, from the call to the script that executes   *)
(* them and back: update_w(), calculate_q_ref(), wait_for_q_ref() and the  *)
(* command half of stop() (src/robot.cpp), the package RTDE_Handler::send()*)
(* builds from the robot's members, and scripts/tcp_pose.script, which     *)
(* polls the input registers, moves the joints and writes the output       *)
(* registers.  A program may end or crash at any point and be started      *)
(* again (Restart): the controller keeps its registers, and the script of  *)
(* the program before runs until the next one uploads its own.  A send may *)
(* be cut short: the bytes that are out stay in front of what the program  *)
(* sends next, until its connection is closed.                             *)
(*                                                                         *)
(* Every call gets a number; that number is the argument it passes (joint  *)
(* speeds or a pose) and also the solution the inverse kinematics finds    *)
(* for it, so that it shows whose data ends up where.  The steps between   *)
(* two calls of sync() in the script are one action, as URScript runs      *)
(* them; what the frames carry back is sampled between such steps.         *)
(* The calls that return false before they change anything (wrong size,    *)
(* input recipe not registered) are left out.                              *)
(***************************************************************************)
EXTENDS Integers, Sequences

CONSTANTS Callers,    \* the threads that call update_w() and calculate_q_ref()
          Owner,      \* the thread that calls stop()
          NoThread,   \* "bottleneck" is free
          MaxCalls,   \* bound: commands issued besides stop()
          MaxRestarts,\* bound: times the program, or its script, is started again
          MaxWire,    \* bound: packages under way to the controller
          Garbles,    \* what the controller may make of bytes behind those of a cut send
          Concurrent  \* TRUE: stop() may be called while other calls are in progress

ASSUME ThreadsAssumption ==
    /\ Owner \notin Callers
    /\ NoThread \notin Callers \cup {Owner}

ASSUME BoundsAssumption ==
    /\ {MaxCalls, MaxRestarts, MaxWire} \subseteq Nat
    /\ Concurrent \in BOOLEAN

Threads  == Callers \cup {Owner}
Seqnrs   == 0 .. MaxCalls + 2
Args     == 0 .. MaxCalls
Kinds    == {"none", "speed", "pose", "stop"}
Commands == [seqnr : Seqnrs, cmd : Kinds, arg : Args]
Packages == [seqnr : Seqnrs, cmd : Kinds, qd : Args, pose : Args]
Answers  == [echo : Seqnrs, seqnr : Seqnrs, q : Args]

ASSUME GarblesAssumption == Garbles \subseteq Packages

VARIABLES
    pc, req,       \* where each thread is, and the command it issues
    bottleneck,    \* the thread that holds the mutex
    calls,         \* calls made so far
    m,             \* the members last_seqnr, in_seqnr, cmd, set_qd, TCP_pose_ref
    q_ref_initialized,
    q_ref,         \* ur_state.seqnr, q_ref_out_seqnr and ur_state.jq_ref, as recv()
                   \* updates them
    running,       \* running_: frames are received
    uploaded,      \* the program has uploaded its script
    restarts,      \* times the program, or its script, was started again
    wire,          \* packages under way to the controller
    stream,        \* behind them: "aligned" (nothing), "short" (the bytes of a cut
                   \* send) or "torn" (those, and what was sent after them)
    input,         \* the controller's input registers
    script,        \* tcp_pose.script: "absent", "running", "ending" (its threads
                   \* have not seen that it ended) or "ended"
    old_seqnr,     \* its variable
    tTCP_pose,     \* its variables updated_tTCP_pose, tTCP_pose_seqnr, tTCP_pose
    tqd,           \* its variables updated_tqd, tqd
    speed,         \* the joint speed in force
    output, frame, \* the output registers: the seqnr of the latest update, and of the
                   \* latest solution and itself; what the frame under way has of them
    issued, sent, executed, \* history: what was asked for, sent, and executed in order
    earlier,       \* history: what the programs before have sent
    garbled,       \* history: the controller took a package that nobody has sent
    again,         \* history: this program has uploaded its script more than once
    clean          \* history: each time its script started with its first package, or a
                   \* later one, in the registers

threads == <<pc, req, bottleneck, calls, issued>>
flags   == <<running, uploaded, restarts>>
robot   == <<m, q_ref_initialized, q_ref, flags>>
link    == <<wire, stream, garbled, sent, earlier>>
loop    == <<script, old_seqnr, executed, again, clean>>
workers == <<tTCP_pose, tqd, speed>>
control == <<input, loop, workers, output, frame>>
vars    == <<pc, req, bottleneck, calls, issued, m, q_ref_initialized, q_ref, running, uploaded,
             restarts, wire, stream, garbled, sent, earlier, script, old_seqnr, executed, again,
             clean, tTCP_pose, tqd, speed, input, output, frame>>

Command(seqnr, c, arg) == [seqnr |-> seqnr, cmd |-> c, arg |-> arg]

\* What RTDE_Handler::send() gathers from the members, and what the script does with it.
Package == [seqnr |-> m.in_seqnr, cmd |-> m.cmd, qd |-> m.set_qd, pose |-> m.TCP_pose_ref]
Asks(p) == Command(p.seqnr, p.cmd, CASE p.cmd = "speed" -> p.qd
                                     [] p.cmd = "pose"  -> p.pose
                                     [] OTHER -> 0)

NoCommand  == Command(0, "none", 0)
NoRequests == [t \in Threads |-> NoCommand]
Members    == [last_seqnr |-> 0, in_seqnr |-> 1, cmd |-> "none", set_qd |-> 0,
               TCP_pose_ref |-> 0]
NoPose     == [updated |-> FALSE, seqnr |-> 0, pose |-> 0]
NoSpeed    == [updated |-> FALSE, qd |-> 0]
NoAnswer   == [echo |-> 0, seqnr |-> 0, q |-> 0]

(* init_input_TCP_pose() has registered the input recipe and sent the first *)
(* package: seqnr 1 and no command.  No program ran on the controller       *)
(* before: its registers are 0.                                             *)
Init ==
    /\ pc = [t \in Threads |-> "idle"] /\ req = NoRequests
    /\ bottleneck = NoThread
    /\ calls = 0
    /\ m = Members
    /\ q_ref_initialized = FALSE /\ q_ref = NoAnswer
    /\ running = FALSE /\ uploaded = FALSE
    /\ restarts = 0
    /\ wire = << Package >>
    /\ input = [seqnr |-> 0, cmd |-> "none", qd |-> 0, pose |-> 0]
    /\ script = "absent"
    /\ old_seqnr = 0
    /\ tTCP_pose = NoPose /\ tqd = NoSpeed /\ speed = 0
    /\ output = NoAnswer /\ frame = NoAnswer
    /\ issued = {} /\ sent = {} /\ executed = << >>
    /\ stream = "aligned" /\ garbled = FALSE
    /\ earlier = {} /\ again = FALSE /\ clean = TRUE

At(t, label) == pc[t] = label
Move(t, from, to) == At(t, from) /\ pc' = [pc EXCEPT ![t] = to]
Free == bottleneck = NoThread

-----------------------------------------------------------------------------
(* The program: init_input_TCP_pose() comes first, then upload_script() and *)
(* start() (robot.hpp:228-230, tools/tcp_pose.cpp:82-88).                   *)

\* The controller stops the script that runs, if any, and takes the new one, also when
\* it is uploaded once more.
Upload ==
    /\ uploaded => restarts < MaxRestarts
    /\ restarts' = IF uploaded THEN restarts + 1 ELSE restarts
    /\ uploaded' = TRUE /\ again' = uploaded
    /\ running' = (uploaded => running)
    /\ script' = "absent"
    /\ old_seqnr' = 0
    /\ tTCP_pose' = NoPose /\ tqd' = NoSpeed /\ speed' = 0
    /\ UNCHANGED <<threads, m, q_ref_initialized, q_ref, link, executed, clean, input, output,
                   frame>>

\* The program is gone at any point, and the next one has called
\* init_input_TCP_pose(): the controller accepts this once the connection before is
\* closed, so that what was sent on it comes first; torn bytes end with it.
Restart ==
    /\ restarts < MaxRestarts
    /\ Len(wire) < MaxWire
    /\ restarts' = restarts + 1
    /\ pc' = [t \in Threads |-> "idle"] /\ req' = NoRequests
    /\ bottleneck' = NoThread
    /\ m' = Members
    /\ q_ref_initialized' = FALSE /\ q_ref' = NoAnswer
    /\ running' = FALSE /\ uploaded' = FALSE
    /\ wire' = Append(wire, [seqnr |-> 1, cmd |-> "none", qd |-> 0, pose |-> 0])
    /\ stream' = "aligned"
    /\ earlier' = earlier \cup sent
    /\ issued' = {} /\ sent' = {} /\ executed' = << >>
    /\ again' = FALSE /\ clean' = TRUE
    /\ UNCHANGED <<calls, garbled, script, old_seqnr, workers, input, output, frame>>

-----------------------------------------------------------------------------
(* update_w() and calculate_q_ref() under the mutex; stop() without it.     *)

\* The mutex is taken and the argument copied to the registered members.
Call(t, kind) ==
    /\ Move(t, "idle", "read")
    /\ uploaded
    /\ Free
    /\ Concurrent \/ At(Owner, "idle")
    /\ calls < MaxCalls
    /\ calls' = calls + 1
    /\ bottleneck' = t
    /\ req' = [req EXCEPT ![t] = Command(0, kind, calls')]
    /\ m' = IF kind = "speed" THEN [m EXCEPT !.set_qd = calls']
                              ELSE [m EXCEPT !.TCP_pose_ref = calls']
    /\ UNCHANGED <<issued, q_ref_initialized, q_ref, flags, link, control>>

\* stop() looks at running_ only.
CallStop ==
    /\ Move(Owner, "idle", "read")
    /\ running
    /\ Concurrent \/ \A c \in Callers : At(c, "idle")
    /\ req' = [req EXCEPT ![Owner] = Command(0, "stop", 0)]
    /\ UNCHANGED <<bottleneck, calls, issued, robot, link, control>>

\* in_seqnr = ++last_seqnr; is a read and two writes.
ReadSeqnr(t) ==
    /\ Move(t, "read", "assign")
    /\ req' = [req EXCEPT ![t].seqnr = m.last_seqnr + 1]
    /\ UNCHANGED <<bottleneck, calls, issued, robot, link, control>>

Assign(t, last) ==
    /\ Move(t, "assign", "command")
    /\ m' = [m EXCEPT !.last_seqnr = last, !.in_seqnr = req[t].seqnr]
    /\ issued' = issued \cup {req[t]}
    /\ UNCHANGED <<req, bottleneck, calls, q_ref_initialized, q_ref, flags, link, control>>

\* The mutant forgets to advance the counter.
AssignSeqnr_Same(t) == Assign(t, m.last_seqnr)
AssignSeqnr(t)      == Assign(t, req[t].seqnr)

\* The mutant leaves the command of the call before.
AssignCommand_Missing(t) ==
    /\ Move(t, "command", "send")
    /\ UNCHANGED <<req, bottleneck, calls, issued, robot, link, control>>

AssignCommand(t) ==
    /\ Move(t, "command", "send")
    /\ m' = [m EXCEPT !.cmd = req[t].cmd]
    /\ UNCHANGED <<req, bottleneck, calls, issued, q_ref_initialized, q_ref, flags, link,
                   control>>

\* Behind the bytes of a cut send the controller does not see where a package begins.
Send(t) ==
    /\ Move(t, "send", "sent")
    /\ sent' = sent \cup {Asks(Package)}
    /\ IF stream = "aligned"
       THEN Len(wire) < MaxWire /\ wire' = Append(wire, Package) /\ stream' = stream
       ELSE wire' = wire /\ stream' = "torn"
    /\ UNCHANGED <<req, bottleneck, calls, issued, robot, garbled, earlier, control>>

\* do_send() fails, with none or some of the bytes sent: update_w() and
\* calculate_q_ref() return false, cmd keeps the command; stop() goes on.
SendFails(t) ==
    /\ Move(t, "send", IF t = Owner THEN "sent" ELSE "idle")
    /\ stream' \in {stream, IF stream = "aligned" THEN "short" ELSE "torn"}
    /\ bottleneck' = IF t = Owner THEN bottleneck ELSE NoThread
    /\ req' = IF t = Owner THEN req ELSE [req EXCEPT ![t] = NoCommand]
    /\ UNCHANGED <<calls, issued, robot, wire, garbled, sent, earlier, control>>

Returns(t, seqnr, holder) ==
    /\ t # Owner
    /\ Move(t, "sent", IF req[t].cmd = "pose" THEN "wait" ELSE "idle")
    /\ m' = [m EXCEPT !.cmd = "none"]
    /\ req' = [req EXCEPT ![t] = IF @.cmd = "pose" THEN [@ EXCEPT !.seqnr = seqnr]
                                                  ELSE NoCommand]
    /\ bottleneck' = holder
    /\ UNCHANGED <<calls, issued, q_ref_initialized, q_ref, flags, link, control>>

\* The mutants keep the mutex, and wait for the number after the one sent.
Reset_Locked(t) == Returns(t, m.in_seqnr, t)
Reset_Next(t)   == Returns(t, m.in_seqnr + 1, NoThread)

\* cmd = NO_COMMAND and the mutex is released.  calculate_q_ref() waits for the
\* seqnr it finds in the member: std::async() does not change that, because the
\* future it returns blocks in its destructor.
Reset(t) == Returns(t, m.in_seqnr, NoThread)

StopLowers ==
    /\ Move(Owner, "sent", "idle")
    /\ running' = FALSE
    /\ req' = [req EXCEPT ![Owner] = NoCommand]
    /\ UNCHANGED <<bottleneck, calls, issued, m, q_ref_initialized, q_ref, uploaded, restarts,
                   link, control>>

\* wait_for_q_ref() ends: the seqnr of the latest solution is the one awaited, or
\* 500 attempts of 20ms have passed.  Either way the reference counts as initialized.
WaitEnds(t) ==
    /\ Move(t, "wait", "idle")
    /\ Free
    /\ q_ref_initialized' = TRUE
    /\ req' = [req EXCEPT ![t] = NoCommand]
    /\ UNCHANGED <<bottleneck, calls, issued, m, q_ref, flags, link, control>>

WaitSees(t)    == q_ref.seqnr = req[t].seqnr /\ WaitEnds(t)
WaitExpires(t) == q_ref.seqnr # req[t].seqnr /\ WaitEnds(t)

-----------------------------------------------------------------------------
(* The controller and the script. *)

\* A package overwrites all registers of the recipe.
Deliver ==
    /\ wire # << >>
    /\ input' = Head(wire)
    /\ wire' = Tail(wire)
    /\ UNCHANGED <<threads, robot, stream, garbled, sent, earlier, loop, workers, output, frame>>

\* What the controller makes of torn bytes.
DeliverGarbled ==
    /\ wire = << >> /\ stream = "torn"
    /\ input' \in Garbles
    /\ garbled' = TRUE
    /\ UNCHANGED <<threads, robot, wire, stream, sent, earlier, loop, workers, output, frame>>

\* When the controller runs the script is up to the controller: the script and the
\* first package travel on different connections.
ScriptStarts ==
    /\ uploaded
    /\ script = "absent"
    /\ script' = "running"
    /\ clean' = (clean /\ \A i \in DOMAIN wire : wire[i].cmd # "none")
    /\ UNCHANGED <<threads, robot, link, input, old_seqnr, executed, again, workers, output,
                   frame>>

\* One iteration of the main loop that does not stop at the comparison.  What the
\* script of an earlier program executes is not part of the history.
Stops(p, zero) ==
    /\ p.cmd = "stop"
    /\ script' = "ending"
    /\ tqd' = [tqd EXCEPT !.qd = zero]
    /\ UNCHANGED tTCP_pose

Moves(p, updated) ==
    /\ p.cmd = "speed"
    /\ tqd' = [updated |-> updated, qd |-> p.qd]
    /\ UNCHANGED <<script, tTCP_pose>>

Computes(p) ==
    /\ p.cmd = "pose"
    /\ tTCP_pose' = [updated |-> TRUE, seqnr |-> p.seqnr, pose |-> p.pose]
    /\ UNCHANGED <<script, tqd>>

Ignores(p) == p.cmd = "none" /\ UNCHANGED <<script, tqd, tTCP_pose>>

Iterate(effect, echo) ==
    /\ script = "running"
    /\ effect
    /\ old_seqnr' = input.seqnr
    /\ output' = [output EXCEPT !.echo = echo]
    /\ executed' = IF uploaded /\ input.cmd # "none" THEN Append(executed, Asks(input))
                                                     ELSE executed
    /\ UNCHANGED <<threads, robot, link, input, again, clean, speed, frame>>

\* The mutants leave the speed as it is when they stop, do not tell the speed thread
\* of a new speed, and echo the number of the command before.
Execute_KeepsSpeed == Iterate(\/ Stops(input, tqd.qd) \/ Moves(input, TRUE) \/ Computes(input)
                              \/ Ignores(input), input.seqnr)
Execute_NoUpdate   == Iterate(\/ Stops(input, 0) \/ Moves(input, FALSE) \/ Computes(input)
                              \/ Ignores(input), input.seqnr)
Execute_EchoesOld  == Iterate(\/ Stops(input, 0) \/ Moves(input, TRUE) \/ Computes(input)
                              \/ Ignores(input), old_seqnr)

Execute == Iterate(\/ Stops(input, 0) \/ Moves(input, TRUE) \/ Computes(input)
                   \/ Ignores(input), input.seqnr)

\* The mutants do not compare the sequence numbers, and do not know command 1.
ScriptLoop_Repeats == Execute
ScriptLoop_NoStop  == input.seqnr # old_seqnr /\ input.cmd # "stop" /\ Execute

ScriptLoop == input.seqnr # old_seqnr /\ Execute

\* speed_thread: a new speed is taken under the lock and put in force.  A loop that
\* began before the script ended is finished.
SpeedTakes ==
    /\ script \in {"running", "ending"}
    /\ tqd.updated
    /\ speed' = tqd.qd
    /\ tqd' = [tqd EXCEPT !.updated = FALSE]
    /\ UNCHANGED <<threads, robot, link, input, loop, tTCP_pose, output, frame>>

\* stopj()
SpeedStops ==
    /\ script = "ending"
    /\ script' = "ended"
    /\ speed' = 0
    /\ UNCHANGED <<threads, robot, link, input, old_seqnr, executed, again, clean, tTCP_pose,
                   tqd, output, frame>>

Solve(seqnr) ==
    /\ tTCP_pose.updated
    /\ output' = [output EXCEPT !.seqnr = seqnr, !.q = tTCP_pose.pose]
    /\ tTCP_pose' = [tTCP_pose EXCEPT !.updated = FALSE]
    /\ UNCHANGED <<threads, robot, link, input, loop, tqd, speed, frame>>

\* The mutant answers with the seqnr of the latest command.
InverseKinematics_Latest == Solve(old_seqnr)

\* inverse_kinematics_thread, which also finishes a loop it has begun.
InverseKinematics == Solve(tTCP_pose.seqnr)

\* A frame leaves the controller ...
Sample ==
    /\ frame # output
    /\ frame' = output
    /\ UNCHANGED <<threads, robot, link, input, loop, workers, output>>

\* ... and recv() publishes it (module RobotState).
Publish ==
    /\ running
    /\ Free
    /\ q_ref # frame
    /\ q_ref' = frame
    /\ UNCHANGED <<threads, m, q_ref_initialized, flags, link, control>>

-----------------------------------------------------------------------------

CallStep(t) == ReadSeqnr(t) \/ AssignSeqnr(t) \/ AssignCommand(t) \/ Send(t) \/ Reset(t)

Next == \/ \E t \in Callers : \E kind \in {"speed", "pose"} : Call(t, kind)
        \/ CallStop
        \/ \E t \in Threads : CallStep(t) \/ SendFails(t)
        \/ \E t \in Callers : WaitSees(t) \/ WaitExpires(t)
        \/ StopLowers
        \/ Upload \/ Restart
        \/ Deliver \/ DeliverGarbled \/ ScriptStarts \/ ScriptLoop \/ SpeedTakes \/ SpeedStops
        \/ InverseKinematics
        \/ Sample \/ Publish

Spec == Init /\ [][Next]_vars

(* The connection delivers, the controller runs the script and sends frames *)
(* at its rate, and the threads of the program go on.  Neither do calls     *)
(* have to be made, nor does a wait have to expire.                         *)
FairSpec ==
    /\ Spec
    /\ \A t \in Threads : WF_vars(CallStep(t))
    /\ \A t \in Callers : WF_vars(WaitSees(t))
    /\ WF_vars(StopLowers)
    /\ WF_vars(Deliver)
    /\ WF_vars(ScriptStarts)
    /\ WF_vars(ScriptLoop)
    /\ WF_vars(SpeedTakes)
    /\ WF_vars(SpeedStops)
    /\ WF_vars(InverseKinematics)
    /\ WF_vars(Sample)
    /\ WF_vars(Publish)

-----------------------------------------------------------------------------
(* Properties. *)

(* Every variable keeps its type, and update_w() and calculate_q_ref() hold *)
(* the mutex until they have reset the command.                             *)
TypeOK ==
    /\ pc \in [Threads -> {"idle", "read", "assign", "command", "send", "sent", "wait"}]
    /\ req \in [Threads -> Commands]
    /\ bottleneck \in Callers \cup {NoThread}
    /\ \A t \in Callers : bottleneck = t <=> pc[t] \notin {"idle", "wait"}
    /\ calls \in 0 .. MaxCalls
    /\ m \in [last_seqnr : Seqnrs, in_seqnr : Seqnrs, cmd : Kinds, set_qd : Args,
              TCP_pose_ref : Args]
    /\ q_ref_initialized \in BOOLEAN
    /\ {q_ref, output, frame} \subseteq Answers
    /\ {running, uploaded, garbled, again, clean} \subseteq BOOLEAN
    /\ restarts \in 0 .. MaxRestarts
    /\ wire \in Seq(Packages)
    /\ stream \in {"aligned", "short", "torn"}
    /\ input \in Packages
    /\ script \in {"absent", "running", "ending", "ended"}
    /\ old_seqnr \in Seqnrs
    /\ tTCP_pose \in [updated : BOOLEAN, seqnr : Seqnrs, pose : Args]
    /\ tqd \in [updated : BOOLEAN, qd : Args]
    /\ speed \in Args
    /\ issued \cup sent \cup earlier \subseteq Commands
    /\ executed \in Seq(Commands)

(* "return true if valid and successfully sent to remote" (robot.hpp:213,   *)
(* 221): when update_w() or calculate_q_ref() is past its send, a package   *)
(* with its command, its seqnr and its argument has gone out.               *)
SentAsRequested == \A t \in Callers : At(t, "sent") => req[t] \in sent

(* Two different commands never go out under one sequence number, whoever   *)
(* issued them: the script tells commands apart by nothing else             *)
(* (tcp_pose.script:116-121).                                               *)
DistinctSeqnrs == \A a, b \in sent : a.seqnr = b.seqnr => a = b

(* The script executes what this program asked for, each command at most    *)
(* once and in the order of the calls, although it polls registers that are *)
(* overwritten at any time (tcp_pose.script:115-164) and that hold commands *)
(* of the program before: init_input() comes "before upload_script()", so   *)
(* that the script does not "perform unexpected actions" (robot.hpp:228-230)*)
(* - if its package also arrives before the script is started, and nothing  *)
(* was sent behind the bytes of a cut send (con.cpp:58-61).  A script that  *)
(* is uploaded once more may execute the latest command once more.          *)
ExecutedAsIssued ==
    clean /\ stream # "torn" =>
        /\ \A i \in 1 .. Len(executed) : executed[i] \in issued
        /\ \A i, j \in 1 .. Len(executed) :
              i < j => \/ executed[i].seqnr < executed[j].seqnr
                       \/ again /\ executed[i].seqnr = executed[j].seqnr

(* The joint reference that goes with a sequence number is the solution for *)
(* a pose that was sent under this number: the reference in the snapshot    *)
(* and the number the waiting caller compares never drift apart, unless the *)
(* controller took a garbled package for a pose (robot.cpp:221-223, 368,    *)
(* tcp_pose.script:77-95).                                                  *)
ReferenceOfSeqnr ==
    q_ref.seqnr > 0 /\ ~garbled => Command(q_ref.seqnr, "pose", q_ref.q) \in sent \cup earlier

(* The joints move as the script was told last: they go to the speed of the *)
(* latest control input, also when several arrive between two loops of the  *)
(* speed thread, and after a stop no speed that was still to be taken is    *)
(* put in force (tcp_pose.script:54-67, 123-143).                           *)
LatestSpeed ==
    LET inputs == {i \in 1 .. Len(executed) : executed[i].cmd = "speed"}
    IN  executed[CHOOSE i \in inputs : \A j \in inputs : j <= i].arg

MotionFollowsCommands ==
    [][uploaded /\ speed' # speed =>
           \/ speed' = 0
           \/ script = "running" /\ speed' = LatestSpeed]_vars

(* calculate_q_ref() "triggers inverse kinematic calculations in URScript"  *)
(* (robot.hpp:208): the pose a caller waits for is executed by the script,  *)
(* unless a later command or the end of the script takes its place, or a    *)
(* send is cut short.                                                       *)
Stopped == script \in {"ending", "ended"}
Superseded(s) == \/ Stopped
                 \/ stream # "aligned"
                 \/ m.last_seqnr > s
                 \/ ~running
Triggers(t, s) == At(t, "wait") /\ req[t].seqnr = s
                    ~> \/ \E i \in 1 .. Len(executed) : executed[i].seqnr = s
                       \/ Superseded(s)
CalculationTriggered == \A t \in Callers : \A s \in 1 .. MaxCalls : Triggers(t, s)

(* From the second command on this holds, and the caller that waits gets    *)
(* the reference it asked for unless it gave up.                            *)
LaterCalculationsAnswered ==
    \A t \in Callers :
        At(t, "wait") /\ req[t].seqnr > 1
            ~> ~At(t, "wait") \/ q_ref.seqnr = req[t].seqnr \/ Superseded(req[t].seqnr)

(* update_w() sets the "new target joint speed" (robot.hpp:219): from the   *)
(* second command on the joints get to the speed that was sent, unless      *)
(* something is sent after it or the script has been stopped.               *)
SpeedReached ==
    \A s \in 2 .. MaxCalls :
        (\E w \in Args : Command(s, "speed", w) \in sent)
            ~> (\E w \in Args : Command(s, "speed", w) \in sent /\ speed = w) \/ Superseded(s)

(* The sequence number in the state is that of the "latest update"          *)
(* (tcp_pose.script:4): a program that sends a command sees its number come *)
(* back, unless something is sent after it.  What measures round trips      *)
(* waits for this (tools/measure_roundtrip.cpp:154-166).                    *)
CommandEchoed ==
    \A s \in 2 .. MaxCalls :
        (\E command \in sent : command.seqnr = s) ~> q_ref.echo = s \/ Superseded(s)

(* stop() stops the robot ("1: stop robot", tcp_pose.script:8): once it has *)
(* sent the command and nothing is sent after it, the script ends and the   *)
(* joints are at rest; it must not be the first command, nor come behind a  *)
(* cut send.                                                                *)
StopReachesScript ==
    (\E c \in sent : c.cmd = "stop" /\ c.seqnr > 1)
        ~> \/ script = "ended" /\ speed = 0
           \/ stream # "aligned"
           \/ \E c \in sent : c.cmd = "stop" /\ c.seqnr > 1 /\ m.last_seqnr > c.seqnr
=============================================================================
