----------------------------- MODULE RobotState -----------------------------
(***************************************************************************)
(* urx::Robot as its threads see it (src/robot.cpp, include/urx/robot.hpp):*)
(* the receiver thread that run() keeps in recv(), the owner thread that   *)
(* calls init_output(), start(), stop() (and recv() while no receiver      *)
(* exists), and the client threads that call state().  They share the      *)
(* mutex "bottleneck", the condition variables "cv" and "start_cv", the    *)
(* snapshot ur_state and the flags updated_state_ and running_.            *)
(*                                                                         *)
(* A frame is its number in the order the controller sent it.  Two of the  *)
(* fields it carries, seqnr and jq, stand for all of them: they are        *)
(* parsed, published and copied out one after the other, so that a mix of  *)
(* two frames would show.                                                  *)
(*                                                                         *)
(* RTDE_Handler::recv() appears by its outcome, as module FrameReader has  *)
(* it and module PackageStream shows: it takes bytes from the connection   *)
(* and parses the oldest whole frame in them, or rejects them.             *)
(***************************************************************************)
EXTENDS Integers

CONSTANTS Clients,      \* the threads that call state()
          Owner,        \* the thread that calls init_output(), start() and stop()
          Receiver,     \* the thread start_() creates
          NoThread,     \* "bottleneck" is free
          MaxFrames,    \* bound: the controller sends at most this many frames
          MaxPending,   \* bound: frames the connection holds before they are read
          EofReplays,   \* TRUE: after EOF a stale frame still passes the size check
          Junk          \* an indeterminate local_ts_us

ASSUME ThreadsAssumption ==
    /\ Owner \notin Clients
    /\ Receiver \notin Clients
    /\ Owner # Receiver
    /\ NoThread \notin Clients \cup {Owner, Receiver}

ASSUME BoundsAssumption ==
    /\ MaxFrames \in Nat
    /\ MaxPending \in Nat
    /\ EofReplays \in BOOLEAN
    /\ Junk \notin Nat

Threads == Clients \cup {Owner, Receiver}
Writers == {Owner, Receiver}       \* the threads that run Robot::recv()
Frames  == 0 .. MaxFrames          \* 0: no frame yet

VARIABLES
    pc,              \* where each thread is
    bottleneck,      \* the thread that holds the mutex
    out_initialized, \* out_initialized_
    sized,           \* the recipe's expected_bytes() is the size of its frames
    running,         \* running_
    updated_state,   \* updated_state_
    buf,             \* out_seqnr, target_q, ...: what the output recipe parses into
    ur_state,        \* the snapshot under the mutex
    ret,             \* ret[c]: the Robot_State that state() returned to c last
    sent,            \* frames the controller sent
    taken,           \* frames do_recv() took from the connection
    streaming,       \* the controller accepted START and no PAUSE since
    pausing,         \* a PAUSE is under way to it
    replied,         \* an answer to START or PAUSE lies unread on the connection
    closed,          \* the controller closed the connection
    terminated       \* std::terminate() was called

thread == <<pc, bottleneck>>
flags  == <<out_initialized, sized, running, terminated>>
data   == <<updated_state, buf, ur_state, ret>>
link   == <<sent, taken, streaming, pausing, replied, closed>>
vars   == <<pc, bottleneck, out_initialized, sized, running, updated_state, buf,
            ur_state, ret, sent, taken, streaming, pausing, replied, closed, terminated>>

Default == [seqnr |-> 0, jq |-> 0, ts |-> Junk]   \* Robot_State()

Init ==
    /\ pc = [t \in Threads |-> IF t = Receiver THEN "none" ELSE "idle"]
    /\ bottleneck = NoThread
    /\ out_initialized = FALSE
    /\ sized = TRUE
    /\ running = FALSE
    /\ updated_state = FALSE
    /\ buf = [seqnr |-> 0, jq |-> 0]
    /\ ur_state = Default
    /\ ret = [c \in Clients |-> Default]
    /\ sent = 0
    /\ taken = 0
    /\ streaming = FALSE
    /\ pausing = FALSE
    /\ replied = FALSE
    /\ closed = FALSE
    /\ terminated = FALSE

At(t, label) == pc[t] = label
Goto(t, label) == pc' = [pc EXCEPT ![t] = label]
Move(t, from, to) == At(t, from) /\ Goto(t, to)
Free == bottleneck = NoThread

-----------------------------------------------------------------------------
(* The controller and the connection. *)

SendFrame ==
    /\ streaming
    /\ sent < MaxFrames
    /\ sent - taken < MaxPending
    /\ sent' = sent + 1
    /\ UNCHANGED <<thread, flags, data, taken, streaming, pausing, replied, closed>>

PauseArrives ==
    /\ pausing
    /\ pausing' = FALSE
    /\ streaming' = FALSE
    /\ replied' = TRUE
    /\ UNCHANGED <<thread, flags, data, sent, taken, closed>>

PeerCloses ==
    /\ ~closed
    /\ closed' = TRUE
    /\ streaming' = FALSE
    /\ pausing' = FALSE
    /\ UNCHANGED <<thread, flags, data, sent, taken, replied>>

\* A read returns if there is something to read, or will be, or the connection is
\* gone.
Readable == streaming \/ closed \/ replied \/ taken < sent

\* One into the whole buffer takes all that is there: frames and answers.
Reads ==
    /\ \E upto \in taken .. sent : taken' = upto
    /\ replied' = FALSE
    /\ UNCHANGED <<sent, streaming, pausing, closed>>

-----------------------------------------------------------------------------
(* Robot::recv(), by the receiver or by the owner.  Done(t) is where the   *)
(* thread goes when recv() returns.                                        *)

Done(t) == IF t = Receiver THEN "loop" ELSE "idle"

\* The first field of frame n is parsed into its buffer; no lock is held.
ParseFirst(t, n) == /\ buf' = [buf EXCEPT !.seqnr = n]
                    /\ Goto(t, "recv_parse")

\* rtdeh_->recv(): one read returns one or more pending frames, of which the
\* oldest is parsed and the others are lost.
RecvAccept(t) ==
    /\ At(t, "recv_io")
    /\ sized
    /\ Reads /\ taken' > taken
    /\ ParseFirst(t, taken + 1)
    /\ UNCHANGED <<bottleneck, flags, updated_state, ur_state, ret>>

\* rtdeh_->recv() fails: the bytes it took are no data package of the expected
\* recipe and size, or the read failed.
RecvReject(t) ==
    /\ Move(t, "recv_io", Done(t))
    /\ Readable
    /\ Reads
    /\ UNCHANGED <<bottleneck, flags, data>>

\* At end of file recvfrom() returns 0, which is no error for do_recv() and
\* recv(): what buffer_ holds from before is parsed once more.
RecvEof(t) ==
    /\ At(t, "recv_io")
    /\ closed /\ taken = sent /\ ~replied
    /\ EofReplays /\ sized /\ buf.seqnr > 0
    /\ ParseFirst(t, buf.seqnr)
    /\ UNCHANGED <<bottleneck, flags, updated_state, ur_state, ret, link>>

ParseRest(t) ==
    /\ Move(t, "recv_parse", "recv_lock")
    /\ buf' = [buf EXCEPT !.jq = buf.seqnr]
    /\ UNCHANGED <<bottleneck, flags, updated_state, ur_state, ret, link>>

\* The mutant copies without the lock_guard.
PublishFirst_NoLock(t) ==
    /\ Move(t, "recv_lock", "recv_copy")
    /\ ur_state' = [ur_state EXCEPT !.ts = buf.seqnr, !.seqnr = buf.seqnr]
    /\ UNCHANGED <<bottleneck, flags, updated_state, buf, ret, link>>

\* Under the mutex the buffers are copied to ur_state, field by field; the last
\* assignment raises updated_state_.  (No frame is accepted before the recipe
\* was registered: the branch for ~out_initialized is never taken.)
PublishFirst(t) ==
    /\ Move(t, "recv_lock", "recv_copy")
    /\ Free
    /\ out_initialized
    /\ bottleneck' = t
    /\ ur_state' = [ur_state EXCEPT !.ts = buf.seqnr, !.seqnr = buf.seqnr]
    /\ UNCHANGED <<flags, updated_state, buf, ret, link>>

PublishRest(t) ==
    /\ Move(t, "recv_copy", "recv_notify")
    /\ ur_state' = [ur_state EXCEPT !.jq = buf.jq]
    /\ updated_state' = TRUE
    /\ bottleneck' = NoThread
    /\ UNCHANGED <<flags, buf, ret, link>>

\* The mutant publishes silently.
Notify_Forgotten(t) ==
    /\ Move(t, "recv_notify", Done(t))
    /\ UNCHANGED <<bottleneck, flags, data, link>>

\* cv.notify_all(), after the mutex was released
Notify(t) ==
    /\ At(t, "recv_notify")
    /\ pc' = [u \in Threads |-> IF u = t THEN Done(t)
                                ELSE IF At(u, "state_wait") THEN "state_woken"
                                ELSE pc[u]]
    /\ UNCHANGED <<bottleneck, flags, data, link>>

Recv(t) == \/ RecvAccept(t) \/ RecvReject(t) \/ RecvEof(t) \/ ParseRest(t)
           \/ PublishFirst(t) \/ PublishRest(t) \/ Notify(t)

-----------------------------------------------------------------------------
(* The receiver thread: Robot::run(). *)

RunEntry ==
    /\ Move(Receiver, "entry", "ready")
    /\ running' = TRUE
    /\ UNCHANGED <<bottleneck, out_initialized, sized, terminated, data, link>>

RunNotify ==
    /\ At(Receiver, "ready")
    /\ pc' = [pc EXCEPT ![Receiver] = "loop",
                        ![Owner] = IF @ = "start_wait" THEN "start_woken" ELSE @]
    /\ UNCHANGED <<bottleneck, flags, data, link>>

RunLoop ==
    /\ Move(Receiver, "loop", IF running THEN "recv_io" ELSE "exited")
    /\ UNCHANGED <<bottleneck, flags, data, link>>

Run == RunEntry \/ RunNotify \/ RunLoop

-----------------------------------------------------------------------------
(* The owner: init_output(), start_(), stop() and a recv() of its own.     *)
(* "started" is an idle owner whose last start() returned true.            *)

OwnerIdle == pc[Owner] \in {"idle", "started"}

\* init_output() holds the mutex throughout.  Once it succeeded it returns true.
\* A registration that fails clears the fields but not the byte count of the
\* recipe, so that the recipe a later call registers no longer expects frames
\* of their real size.
InitOutput ==
    /\ OwnerIdle
    /\ Free
    /\ ~out_initialized
    /\ \/ ~closed /\ out_initialized' = TRUE /\ UNCHANGED sized
       \/ sized' = FALSE /\ UNCHANGED out_initialized
    /\ UNCHANGED <<thread, running, terminated, data, link>>

\* start_() with the recipe registered: START is sent, its result ignored.  It may
\* not get to the controller; if it does, so does a PAUSE in front of it.  The read
\* of the reply gets a part of a frame or an earlier answer if there is one.
StartThread ==
    /\ OwnerIdle
    /\ out_initialized
    /\ At(Receiver, "none")
    /\ pc' = [pc EXCEPT ![Owner] = "start_lock", ![Receiver] = "entry"]
    /\ \/ /\ streaming' = ~closed /\ pausing' = FALSE
          /\ replied' = (replied \/ pausing \/ taken < sent)
       \/ UNCHANGED <<streaming, pausing, replied>>
    /\ \E upto \in taken .. sent : taken' = upto
    /\ UNCHANGED <<bottleneck, flags, data, sent, closed>>

\* Move-assigning to a std::thread that is joinable terminates the program.
StartOverJoinable ==
    /\ OwnerIdle
    /\ out_initialized
    /\ ~At(Receiver, "none")
    /\ terminated' = TRUE
    /\ UNCHANGED <<thread, out_initialized, sized, running, data, link>>

\* start_cv.wait_for(lk, 100ms, updated_state_): the predicate comes first ...
StartSeesUpdate ==
    /\ pc[Owner] \in {"start_lock", "start_woken", "start_timeout"}
    /\ Free
    /\ updated_state
    /\ Goto(Owner, "started")
    /\ UNCHANGED <<bottleneck, flags, data, link>>

\* The mutant waits once more when its time is up.
StartWaits_Untimed ==
    /\ pc[Owner] \in {"start_lock", "start_woken", "start_timeout"}
    /\ Free
    /\ ~updated_state
    /\ Goto(Owner, "start_wait")
    /\ UNCHANGED <<bottleneck, flags, data, link>>

\* ... then the thread waits, or returns false when its time is up.
StartWaits ==
    /\ pc[Owner] \in {"start_lock", "start_woken", "start_timeout"}
    /\ Free
    /\ ~updated_state
    /\ Goto(Owner, IF At(Owner, "start_timeout") THEN "idle" ELSE "start_wait")
    /\ UNCHANGED <<bottleneck, flags, data, link>>

StartExpires ==
    /\ Move(Owner, "start_wait", "start_timeout")
    /\ UNCHANGED <<bottleneck, flags, data, link>>

\* The mutants join without lowering running_, and whether the robot runs or not.
StopLowers_Kept ==
    /\ OwnerIdle
    /\ running
    /\ Goto(Owner, "stop_join")
    /\ UNCHANGED <<bottleneck, flags, data, link>>

StopLowers_Unguarded ==
    /\ OwnerIdle
    /\ running' = FALSE
    /\ Goto(Owner, "stop_join")
    /\ UNCHANGED <<bottleneck, out_initialized, sized, terminated, data, link>>

\* stop() of a robot that runs sends STOP (module RobotCommands), lowers
\* running_ and joins the receiver.
StopLowers ==
    /\ OwnerIdle
    /\ running
    /\ running' = FALSE
    /\ Goto(Owner, "stop_join")
    /\ UNCHANGED <<bottleneck, out_initialized, sized, terminated, data, link>>

StopJoins ==
    /\ At(Owner, "stop_join")
    /\ At(Receiver, "exited")
    /\ pc' = [pc EXCEPT ![Owner] = "stop_pause", ![Receiver] = "none"]
    /\ UNCHANGED <<bottleneck, flags, data, link>>

\* rtdeh_->stop(): PAUSE is sent.  If that fails, no reply is waited for, and the
\* controller goes on sending.
StopPauses ==
    /\ \/ Move(Owner, "stop_pause", "stop_reply") /\ pausing' = ~closed
       \/ Move(Owner, "stop_pause", "idle") /\ UNCHANGED pausing
    /\ UNCHANGED <<bottleneck, flags, data, sent, taken, streaming, replied, closed>>

\* The four bytes read as the reply may be a part of a frame, the beginning or what
\* another read has left of it; then the reply stays.
StopReads ==
    /\ Move(Owner, "stop_reply", "idle")
    /\ Readable
    /\ IF taken < sent THEN taken' \in {taken, taken + 1} /\ UNCHANGED replied
       ELSE replied' = FALSE /\ UNCHANGED taken
    /\ UNCHANGED <<bottleneck, flags, data, sent, streaming, pausing, closed>>

\* stop() of a robot whose receiver did not raise running_ (yet) returns false,
\* whatever start() returned.
StopNotRunning ==
    /\ Move(Owner, "started", "idle")
    /\ ~running
    /\ UNCHANGED <<bottleneck, flags, data, link>>

\* recv() is public; it is only called while no receiver runs
\* (test/robot_test.cpp:224).
OwnerRecv ==
    /\ OwnerIdle
    /\ At(Receiver, "none")
    /\ Goto(Owner, "recv_io")
    /\ UNCHANGED <<bottleneck, flags, data, link>>

OwnerStep == \/ StartSeesUpdate \/ StartWaits \/ StartExpires
             \/ StopJoins \/ StopPauses \/ StopReads

OwnerCall == \/ InitOutput \/ StartThread \/ StartOverJoinable
             \/ StopLowers \/ StopNotRunning \/ OwnerRecv

-----------------------------------------------------------------------------
(* The clients: state(true), state(false). *)

\* The mutant leaves the flag up.
CopyFirst_StillNew(c) ==
    /\ bottleneck' = c
    /\ ret' = [ret EXCEPT ![c].seqnr = ur_state.seqnr, ![c].ts = Junk]
    /\ Goto(c, "state_copy")
    /\ UNCHANGED <<flags, updated_state, buf, ur_state, link>>

\* loc_state() under the mutex: the flag is lowered, then the snapshot copied
\* field by field.  The copy constructor leaves local_ts_us indeterminate.
CopyFirst(c) ==
    /\ bottleneck' = c
    /\ updated_state' = FALSE
    /\ ret' = [ret EXCEPT ![c].seqnr = ur_state.seqnr, ![c].ts = Junk]
    /\ Goto(c, "state_copy")
    /\ UNCHANGED <<flags, buf, ur_state, link>>

\* state(true): the predicate of the wait holds.
StateNew(c) ==
    /\ pc[c] \in {"idle", "state_woken", "state_timeout"}
    /\ Free
    /\ updated_state
    /\ CopyFirst(c)

\* state(true): no news; the caller waits on cv.
StateWaits(c) ==
    /\ pc[c] \in {"idle", "state_woken"}
    /\ Free
    /\ ~updated_state
    /\ Goto(c, "state_wait")
    /\ UNCHANGED <<bottleneck, flags, data, link>>

\* The 100ms are over.
StateExpires(c) ==
    /\ Move(c, "state_wait", "state_timeout")
    /\ UNCHANGED <<bottleneck, flags, data, link>>

\* state(true) gives up and returns the default Robot_State.
StateGivesUp(c) ==
    /\ Move(c, "state_timeout", "idle")
    /\ Free
    /\ ~updated_state
    /\ ret' = [ret EXCEPT ![c] = Default]
    /\ UNCHANGED <<bottleneck, flags, updated_state, buf, ur_state, link>>

\* state(false), deprecated: the snapshot as it is.
StateAsync(c) ==
    /\ At(c, "idle")
    /\ Free
    /\ CopyFirst(c)

\* The mutant forgets bottleneck.unlock().
StateReturns_StillLocked(c) ==
    /\ Move(c, "state_copy", "idle")
    /\ ret' = [ret EXCEPT ![c].jq = ur_state.jq]
    /\ UNCHANGED <<bottleneck, flags, updated_state, buf, ur_state, link>>

StateReturns(c) ==
    /\ Move(c, "state_copy", "idle")
    /\ ret' = [ret EXCEPT ![c].jq = ur_state.jq]
    /\ bottleneck' = NoThread
    /\ UNCHANGED <<flags, updated_state, buf, ur_state, link>>

ClientStep(c) == \/ StateNew(c) \/ StateWaits(c) \/ StateExpires(c)
                 \/ StateGivesUp(c) \/ StateAsync(c) \/ StateReturns(c)

-----------------------------------------------------------------------------

Step == \/ SendFrame \/ PauseArrives \/ PeerCloses
        \/ \E t \in Writers : Recv(t)
        \/ Run
        \/ OwnerStep
        \/ OwnerCall
        \/ \E c \in Clients : ClientStep(c)

\* A terminated program stays as it is.
Terminated == terminated /\ UNCHANGED vars

Next == \/ ~terminated /\ Step
        \/ Terminated

Spec == Init /\ [][Next]_vars

(* Every thread that is inside a call goes on, the receiver too: none of   *)
(* them is starved of the processor (WF) or of the mutex, which other      *)
(* threads may take and release infinitely often (SF).  Whether a call is  *)
(* made is left open, and so is whether the controller sends; but it       *)
(* answers a PAUSE that is under way to it.  (Only one of the two writers  *)
(* is in recv() at a time, so that they share their fairness.)  A wait that*)
(* expires is a fair step of its own, WaitsExpire, so that a property can  *)
(* be asked for without leaning on the time-outs.                          *)
LocksOfOwner == StartSeesUpdate \/ StartWaits
LocksOfClient(c) == ~At(c, "idle") /\ (StateNew(c) \/ StateWaits(c) \/ StateGivesUp(c))

ThreadFairness ==
    /\ WF_vars(~terminated /\ \E t \in Writers : Recv(t))
    /\ SF_vars(~terminated /\ \E t \in Writers : PublishFirst(t))
    /\ WF_vars(~terminated /\ Run)
    /\ WF_vars(~terminated /\ (StopJoins \/ StopPauses \/ StopReads))
    /\ SF_vars(~terminated /\ LocksOfOwner)
    /\ \A c \in Clients : /\ WF_vars(~terminated /\ StateReturns(c))
                          /\ SF_vars(~terminated /\ LocksOfClient(c))

WaitsExpire ==
    /\ WF_vars(~terminated /\ StartExpires)
    /\ \A c \in Clients : WF_vars(~terminated /\ StateExpires(c))

ControllerFairness == WF_vars(~terminated /\ PauseArrives)

FairSpec == Spec /\ ThreadFairness /\ ControllerFairness

-----------------------------------------------------------------------------
(* Properties. *)

RecvLabels     == {"recv_io", "recv_parse", "recv_lock", "recv_copy", "recv_notify"}
ReceiverLabels == RecvLabels \cup {"none", "entry", "ready", "loop", "exited"}
OwnerLabels    == RecvLabels \cup {"idle", "started", "start_lock", "start_wait",
                                   "start_woken", "start_timeout",
                                   "stop_join", "stop_pause", "stop_reply"}
ClientLabels   == {"idle", "state_wait", "state_woken", "state_timeout", "state_copy"}

Snapshot == [seqnr : Frames, jq : Frames, ts : Frames \cup {Junk}]

(* Every variable keeps its type, every thread runs only the functions that *)
(* are its own, and the mutex is held by exactly the thread that copies to  *)
(* or from ur_state.                                                        *)
TypeOK ==
    /\ pc \in [Threads -> ReceiverLabels \cup OwnerLabels \cup ClientLabels]
    /\ pc[Receiver] \in ReceiverLabels
    /\ pc[Owner] \in OwnerLabels
    /\ \A c \in Clients : pc[c] \in ClientLabels
    /\ bottleneck \in Threads \cup {NoThread}
    /\ \A t \in Threads : bottleneck = t <=> pc[t] \in {"recv_copy", "state_copy"}
    /\ out_initialized \in BOOLEAN
    /\ sized \in BOOLEAN
    /\ running \in BOOLEAN
    /\ updated_state \in BOOLEAN
    /\ buf \in [seqnr : Frames, jq : Frames]
    /\ ur_state \in Snapshot
    /\ ret \in [Clients -> Snapshot]
    /\ sent \in Frames
    /\ taken \in 0 .. sent
    /\ streaming \in BOOLEAN
    /\ pausing \in BOOLEAN
    /\ replied \in BOOLEAN
    /\ closed \in BOOLEAN
    /\ terminated \in BOOLEAN

(* The state() a caller holds comes from one frame: its fields are never a  *)
(* mix of two frames, whatever the receiver did meanwhile.  The two-step    *)
(* copy of robot.cpp:41-44 exists for this.                                 *)
NoTornState ==
    \A c \in Clients : ~At(c, "state_copy") => ret[c].seqnr = ret[c].jq

(* The receiver thread leaves run() only when stop() waits to join it, and  *)
(* running() is true only while it is inside its loop: no receiver is left  *)
(* behind and none is joined twice (robot.cpp:408-422, 474-486).  A start() *)
(* that returned true left one to join, although what it waited for may     *)
(* have been an update of before (robot.cpp:441).                           *)
ReceiverLifecycle ==
    /\ running => pc[Receiver] \notin {"none", "entry", "exited"}
    /\ At(Receiver, "exited") => At(Owner, "stop_join")
    /\ At(Owner, "stop_join") => ~running /\ ~At(Receiver, "none")
    /\ pc[Owner] \in {"stop_pause", "stop_reply"} => At(Receiver, "none")
    /\ At(Owner, "started") => ~At(Receiver, "none")

(* state(true) hands out what was published at most once as new, newer      *)
(* frames after older ones, and gives up only when there is nothing new     *)
(* (robot.hpp:173-203): this component implements FrameMailbox.  A frame is *)
(* published twice only at the end of the connection (con.cpp:74-89).       *)
Mailbox == INSTANCE FrameMailbox WITH
    Replays <- EofReplays,
    latest <- ur_state.jq,
    fresh  <- updated_state,
    got    <- [c \in Clients |-> IF At(c, "state_copy") THEN ur_state.jq ELSE ret[c].jq]

MailboxSpec == Mailbox!Spec

(* stop() returns as long as the controller streams or the connection is    *)
(* closed: the read the receiver is blocked in returns, the loop sees       *)
(* running_ lowered and the thread can be joined (robot.cpp:418-420).       *)
StopReturns ==
    At(Owner, "stop_join") /\ (streaming \/ closed) ~> At(Owner, "idle")

(* No wake-up is lost: a caller that waits in state(true) while there is    *)
(* news is woken, or another caller fetches the news, without its time-out  *)
(* (robot.cpp:230-235, 258).                                                *)
NoLostWakeup ==
    \A c \in Clients :
        At(c, "state_wait") /\ updated_state
            ~> ~At(c, "state_wait") \/ ~updated_state \/ terminated

(* start() and state() return: if time passes, a frame or the time-out ends *)
(* every wait (robot.cpp:258, 441).                                         *)
CallsReturn ==
    WaitsExpire => /\ \A c \in Clients : ~At(c, "idle") ~> At(c, "idle") \/ terminated
                   /\ At(Owner, "start_lock") ~> OwnerIdle
=============================================================================
