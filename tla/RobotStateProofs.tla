-------------------------- MODULE RobotStateProofs --------------------------
(***************************************************************************)
(* What holds of RobotState for every set of clients and every number of   *)
(* frames.                                                                 *)
(***************************************************************************)
EXTENDS RobotState, TLAPS

\* The owner and the receiver are never in recv() together.
OneWriter == pc[Owner] \in RecvLabels => At(Receiver, "none")

\* The receiver is inside its loop exactly while running_ is up or stop() waits.
Lifecycle ==
    /\ running => pc[Receiver] \in {"ready", "loop"} \cup RecvLabels
    /\ pc[Receiver] \in {"ready", "loop"} \cup RecvLabels => running \/ At(Owner, "stop_join")
    /\ At(Receiver, "exited") => At(Owner, "stop_join")
    /\ At(Owner, "stop_join") => ~running /\ pc[Receiver] \notin {"none", "entry"}
    /\ pc[Owner] \in {"stop_pause", "stop_reply"} => At(Receiver, "none")
    /\ pc[Owner] \in {"started", "start_lock", "start_wait", "start_woken", "start_timeout"}
          => ~At(Receiver, "none")

\* The buffers are mixed only while they are parsed into, the snapshot only
\* while it is copied to.
Buffers ==
    /\ (\A t \in Writers : ~At(t, "recv_parse")) => buf.jq = buf.seqnr
    /\ (\A t \in Writers : ~At(t, "recv_copy")) => ur_state.jq = ur_state.seqnr
    /\ \A t \in Writers : At(t, "recv_copy") => ur_state.seqnr = buf.seqnr

\* A caller holds one frame, or is about to.
Returned ==
    \A c \in Clients : ret[c].seqnr = IF At(c, "state_copy") THEN ur_state.seqnr ELSE ret[c].jq

IInv == TypeOK /\ OneWriter /\ Lifecycle /\ Buffers /\ Returned

\* The frame in the buffers is newer than the published one until it is
\* published itself, or the same one at the end of a connection that replays.
Writing(t) == pc[t] \in {"recv_parse", "recv_lock", "recv_copy"}

NewerFrames ==
    /\ buf.seqnr <= taken
    /\ (\A t \in Writers : ~Writing(t)) => ur_state.jq = buf.seqnr
    /\ \A t \in Writers : Writing(t) => /\ 0 < buf.seqnr
                                        /\ ur_state.jq <= buf.seqnr
                                        /\ ~EofReplays => ur_state.jq < buf.seqnr

-----------------------------------------------------------------------------
(* The invariant is inductive.  Each part has its lemma, with one step per  *)
(* action of the specification.                                             *)

\* The invariant holds of a robot that was just constructed.
LEMMA Initially == Init => IInv
<1> SUFFICES ASSUME Init PROVE IInv
  OBVIOUS
<1> USE ThreadsAssumption, BoundsAssumption
    DEF Init, Default, Threads, Writers, At, RecvLabels, ReceiverLabels, OwnerLabels,
        ClientLabels
<1>1. TypeOK
  <2>1. pc \in [Threads -> ReceiverLabels \cup OwnerLabels \cup ClientLabels]
    OBVIOUS
  <2>2. pc[Receiver] \in ReceiverLabels /\ pc[Owner] \in OwnerLabels
    OBVIOUS
  <2>3. \A c \in Clients : pc[c] \in ClientLabels
    OBVIOUS
  <2>4. \A t \in Threads : bottleneck = t <=> pc[t] \in {"recv_copy", "state_copy"}
    OBVIOUS
  <2>5. buf \in [seqnr : Frames, jq : Frames] /\ sent \in Frames /\ taken \in 0 .. sent
    BY DEF Frames
  <2>6. ur_state \in Snapshot /\ ret \in [Clients -> Snapshot]
    BY DEF Frames, Snapshot
  <2> QED
    BY <2>1, <2>2, <2>3, <2>4, <2>5, <2>6 DEF TypeOK
<1>2. OneWriter /\ Lifecycle
  BY DEF OneWriter, Lifecycle
<1>3. Buffers /\ Returned
  BY DEF Buffers, Returned
<1> QED
  BY <1>1, <1>2, <1>3 DEF IInv

\* Types, the roles of the threads, and who holds the mutex.
LEMMA TypeOKStep == ASSUME IInv, [Next]_vars PROVE TypeOK'
<1> USE ThreadsAssumption, BoundsAssumption
    DEF IInv, TypeOK, Snapshot, Default, Frames,
        Move, At, Goto, Free, Done, Threads, Writers,
             flags, data, link, thread, OwnerIdle,
        RecvLabels, ReceiverLabels, OwnerLabels, ClientLabels
<1>1. CASE UNCHANGED vars
  BY <1>1 DEF vars
<1>2. CASE SendFrame
  BY <1>2 DEF SendFrame
<1>3. CASE PeerCloses
  <2>1. /\ closed' \in BOOLEAN /\ streaming' \in BOOLEAN
        /\ pausing' \in BOOLEAN /\ replied' \in BOOLEAN
    BY <1>3 DEF PeerCloses
  <2> QED
    BY <2>1, <1>3 DEF PeerCloses
<1>4. ASSUME NEW t \in Writers, RecvAccept(t) PROVE TypeOK'
  <2>1. /\ closed' \in BOOLEAN /\ streaming' \in BOOLEAN
        /\ pausing' \in BOOLEAN /\ replied' \in BOOLEAN
        /\ UNCHANGED <<out_initialized, sized, running, terminated, updated_state>>
    BY <1>4 DEF RecvAccept, Reads, ParseFirst
  <2>2. taken' \in 0 .. sent'
    BY <1>4 DEF RecvAccept, Reads, ParseFirst
  <2> QED
    BY <2>1, <2>2, <1>4 DEF RecvAccept, Reads, ParseFirst
<1>5. ASSUME NEW t \in Writers, RecvReject(t) PROVE TypeOK'
  <2>1. /\ closed' \in BOOLEAN /\ streaming' \in BOOLEAN
        /\ pausing' \in BOOLEAN /\ replied' \in BOOLEAN
        /\ UNCHANGED <<out_initialized, sized, running, terminated, updated_state>>
    BY <1>5 DEF RecvReject, Reads
  <2>2. taken' \in 0 .. sent'
    BY <1>5 DEF RecvReject, Reads
  <2> QED
    BY <2>1, <2>2, <1>5 DEF RecvReject, Reads
<1>6. ASSUME NEW t \in Writers, RecvEof(t) PROVE TypeOK'
  <2>1. /\ closed' \in BOOLEAN /\ streaming' \in BOOLEAN
        /\ pausing' \in BOOLEAN /\ replied' \in BOOLEAN
        /\ UNCHANGED <<out_initialized, sized, running, terminated, updated_state>>
    BY <1>6 DEF RecvEof, ParseFirst
  <2>2. taken' \in 0 .. sent'
    BY <1>6 DEF RecvEof, ParseFirst
  <2> QED
    BY <2>1, <2>2, <1>6 DEF RecvEof, ParseFirst
<1>7. ASSUME NEW t \in Writers, ParseRest(t) PROVE TypeOK'
  <2>1. UNCHANGED <<out_initialized, sized, running, terminated, updated_state, link>>
    BY <1>7 DEF ParseRest
  <2> QED
    BY <2>1, <1>7 DEF ParseRest
<1>8. ASSUME NEW t \in Writers, PublishFirst(t) PROVE TypeOK'
  <2>1. UNCHANGED <<flags, updated_state, buf, ret, link>>
    BY <1>8 DEF PublishFirst
  <2>2. ur_state' \in Snapshot
    BY <1>8 DEF PublishFirst
  <2> QED
    BY <2>1, <2>2, <1>8 DEF PublishFirst
<1>9. ASSUME NEW t \in Writers, PublishRest(t) PROVE TypeOK'
  <2>1. UNCHANGED <<flags, buf, ret, link>> /\ updated_state' = TRUE
    BY <1>9 DEF PublishRest
  <2>2. ur_state' \in Snapshot
    BY <1>9 DEF PublishRest
  <2> QED
    BY <2>1, <2>2, <1>9 DEF PublishRest
<1>10. ASSUME NEW t \in Writers, Notify(t) PROVE TypeOK'
  BY <1>10 DEF Notify
<1>11. CASE RunEntry
  BY <1>11 DEF RunEntry
<1>12. CASE RunNotify
  BY <1>12 DEF RunNotify
<1>13. CASE RunLoop
  BY <1>13 DEF RunLoop
<1>14. CASE StartSeesUpdate
  BY <1>14 DEF StartSeesUpdate
<1>15. CASE StartWaits
  BY <1>15 DEF StartWaits
<1>16. CASE StartExpires
  BY <1>16 DEF StartExpires
<1>17. CASE StopJoins
  BY <1>17 DEF StopJoins
<1>18. CASE StopPauses
  <2>1. /\ closed' \in BOOLEAN /\ streaming' \in BOOLEAN
        /\ pausing' \in BOOLEAN /\ replied' \in BOOLEAN
    BY <1>18 DEF StopPauses
  <2> QED
    BY <2>1, <1>18 DEF StopPauses
<1>19. CASE InitOutput
  <2>1. out_initialized' \in BOOLEAN /\ sized' \in BOOLEAN
    BY <1>19 DEF InitOutput
  <2> QED
    BY <2>1, <1>19 DEF InitOutput
<1>20. CASE StartThread
  <2>1. /\ closed' \in BOOLEAN /\ streaming' \in BOOLEAN
        /\ pausing' \in BOOLEAN /\ replied' \in BOOLEAN
    BY <1>20 DEF StartThread
  <2> QED
    BY <2>1, <1>20 DEF StartThread
<1>21. CASE StartOverJoinable
  BY <1>21 DEF StartOverJoinable
<1>22. CASE StopLowers
  <2>1. /\ running' \in BOOLEAN
        /\ UNCHANGED <<bottleneck, updated_state, buf, ur_state, ret, sent, taken, streaming,
                       pausing, replied, closed, out_initialized, sized, terminated>>
    BY <1>22 DEF StopLowers
  <2>2. pc' = [pc EXCEPT ![Owner] = "stop_join"] /\ pc[Owner] \in {"idle", "started"}
    BY <1>22 DEF StopLowers
  <2> HIDE DEF OwnerIdle, Goto, flags, data, link, thread
  <2> QED
    BY <2>1, <2>2
<1>23. CASE StopNotRunning
  BY <1>23 DEF StopNotRunning
<1>24. CASE OwnerRecv
  BY <1>24 DEF OwnerRecv
<1>25. ASSUME NEW c \in Clients, StateNew(c) PROVE TypeOK'
  <2>1. CopyFirst(c) /\ pc[c] \in ClientLabels /\ Free
    BY <1>25 DEF StateNew
  <2>2. ret' \in [Clients -> Snapshot] /\ updated_state' = FALSE
    BY <2>1 DEF CopyFirst
  <2>3. /\ pc' = [pc EXCEPT ![c] = "state_copy"] /\ bottleneck' = c
        /\ UNCHANGED <<buf, ur_state, sent, taken, streaming, pausing, replied, closed, running,
                       out_initialized, sized, terminated>>
    BY <2>1 DEF CopyFirst
  <2> HIDE DEF Goto, flags, data, link, thread, Snapshot
  <2>4. /\ pc' \in [Threads -> ReceiverLabels \cup OwnerLabels \cup ClientLabels]
        /\ pc'[Receiver] \in ReceiverLabels /\ pc'[Owner] \in OwnerLabels
        /\ \A d \in Clients : pc'[d] \in ClientLabels
    BY <2>1, <2>3
  <2>5. /\ bottleneck' \in Threads \cup {NoThread}
        /\ \A t \in Threads : bottleneck' = t <=> pc'[t] \in {"recv_copy", "state_copy"}
    BY <2>1, <2>3
  <2> QED
    BY <2>2, <2>3, <2>4, <2>5
<1>26. ASSUME NEW c \in Clients, StateWaits(c) PROVE TypeOK'
  BY <1>26 DEF StateWaits
<1>27. ASSUME NEW c \in Clients, StateExpires(c) PROVE TypeOK'
  BY <1>27 DEF StateExpires
<1>28. ASSUME NEW c \in Clients, StateGivesUp(c) PROVE TypeOK'
  BY <1>28 DEF StateGivesUp
<1>29. ASSUME NEW c \in Clients, StateAsync(c) PROVE TypeOK'
  <2>1. CopyFirst(c) /\ pc[c] \in ClientLabels /\ Free
    BY <1>29 DEF StateAsync
  <2>2. ret' \in [Clients -> Snapshot] /\ updated_state' = FALSE
    BY <2>1 DEF CopyFirst
  <2>3. /\ pc' = [pc EXCEPT ![c] = "state_copy"] /\ bottleneck' = c
        /\ UNCHANGED <<buf, ur_state, sent, taken, streaming, pausing, replied, closed, running,
                       out_initialized, sized, terminated>>
    BY <2>1 DEF CopyFirst
  <2> HIDE DEF Goto, flags, data, link, thread, Snapshot
  <2>4. /\ pc' \in [Threads -> ReceiverLabels \cup OwnerLabels \cup ClientLabels]
        /\ pc'[Receiver] \in ReceiverLabels /\ pc'[Owner] \in OwnerLabels
        /\ \A d \in Clients : pc'[d] \in ClientLabels
    BY <2>1, <2>3
  <2>5. /\ bottleneck' \in Threads \cup {NoThread}
        /\ \A t \in Threads : bottleneck' = t <=> pc'[t] \in {"recv_copy", "state_copy"}
    BY <2>1, <2>3
  <2> QED
    BY <2>2, <2>3, <2>4, <2>5
<1>30. ASSUME NEW c \in Clients, StateReturns(c) PROVE TypeOK'
  BY <1>30 DEF StateReturns
<1>31. CASE PauseArrives
  <2>1. /\ closed' \in BOOLEAN /\ streaming' \in BOOLEAN
        /\ pausing' \in BOOLEAN /\ replied' \in BOOLEAN
        /\ UNCHANGED <<out_initialized, sized, running, terminated, updated_state>>
    BY <1>31 DEF PauseArrives
  <2>2. taken' \in 0 .. sent'
    BY <1>31 DEF PauseArrives
  <2> QED
    BY <2>1, <2>2, <1>31 DEF PauseArrives
<1>32. CASE StopReads
  <2>1. /\ closed' \in BOOLEAN /\ streaming' \in BOOLEAN
        /\ pausing' \in BOOLEAN /\ replied' \in BOOLEAN
        /\ UNCHANGED <<out_initialized, sized, running, terminated, updated_state>>
    BY <1>32 DEF StopReads
  <2>2. taken' \in 0 .. sent'
    BY <1>32 DEF StopReads
  <2> QED
    BY <2>1, <2>2, <1>32 DEF StopReads
<1> HIDE DEF TypeOK
<1> QED
  BY <1>1, <1>2, <1>3, <1>4, <1>5, <1>6, <1>7, <1>8, <1>9, <1>10, <1>11, 
     <1>12, <1>13, <1>14, <1>15, <1>16, <1>17, <1>18, <1>19, <1>20, <1>21, 
     <1>22, <1>23, <1>24, <1>25, <1>26, <1>27, <1>28, <1>29, <1>30, <1>31, <1>32
  DEF Next, Step, Terminated, Recv, Run, OwnerStep, OwnerCall, ClientStep

\* One receiver at a time, and it is joined by the stop() that ended it.
LEMMA LifecycleStep == ASSUME IInv, [Next]_vars PROVE (OneWriter /\ Lifecycle)'
<1> USE ThreadsAssumption
    DEF IInv, TypeOK, OneWriter, Lifecycle,
        Move, At, Goto, Free, Done, Threads, Writers,
             flags, data, link, thread, OwnerIdle,
        RecvLabels, ReceiverLabels, OwnerLabels, ClientLabels
<1>1. CASE UNCHANGED vars
  BY <1>1 DEF vars
<1>2. CASE SendFrame
  BY <1>2 DEF SendFrame
<1>3. CASE PeerCloses
  BY <1>3 DEF PeerCloses
<1>4. ASSUME NEW t \in Writers, RecvAccept(t) PROVE (OneWriter /\ Lifecycle)'
  BY <1>4 DEF RecvAccept, Reads, ParseFirst
<1>5. ASSUME NEW t \in Writers, RecvReject(t) PROVE (OneWriter /\ Lifecycle)'
  BY <1>5 DEF RecvReject, Reads
<1>6. ASSUME NEW t \in Writers, RecvEof(t) PROVE (OneWriter /\ Lifecycle)'
  BY <1>6 DEF RecvEof, ParseFirst
<1>7. ASSUME NEW t \in Writers, ParseRest(t) PROVE (OneWriter /\ Lifecycle)'
  BY <1>7 DEF ParseRest
<1>8. ASSUME NEW t \in Writers, PublishFirst(t) PROVE (OneWriter /\ Lifecycle)'
  BY <1>8 DEF PublishFirst
<1>9. ASSUME NEW t \in Writers, PublishRest(t) PROVE (OneWriter /\ Lifecycle)'
  BY <1>9 DEF PublishRest
<1>10. ASSUME NEW t \in Writers, Notify(t) PROVE (OneWriter /\ Lifecycle)'
  BY <1>10 DEF Notify
<1>11. CASE RunEntry
  BY <1>11 DEF RunEntry
<1>12. CASE RunNotify
  BY <1>12 DEF RunNotify
<1>13. CASE RunLoop
  BY <1>13 DEF RunLoop
<1>14. CASE StartSeesUpdate
  BY <1>14 DEF StartSeesUpdate
<1>15. CASE StartWaits
  BY <1>15 DEF StartWaits
<1>16. CASE StartExpires
  BY <1>16 DEF StartExpires
<1>17. CASE StopJoins
  BY <1>17 DEF StopJoins
<1>18. CASE StopPauses
  BY <1>18 DEF StopPauses
<1>19. CASE InitOutput
  BY <1>19 DEF InitOutput
<1>20. CASE StartThread
  BY <1>20 DEF StartThread
<1>21. CASE StartOverJoinable
  BY <1>21 DEF StartOverJoinable
<1>22. CASE StopLowers
  BY <1>22 DEF StopLowers
<1>23. CASE StopNotRunning
  BY <1>23 DEF StopNotRunning
<1>24. CASE OwnerRecv
  BY <1>24 DEF OwnerRecv
<1>25. ASSUME NEW c \in Clients, StateNew(c) PROVE (OneWriter /\ Lifecycle)'
  BY <1>25 DEF StateNew, CopyFirst
<1>26. ASSUME NEW c \in Clients, StateWaits(c) PROVE (OneWriter /\ Lifecycle)'
  BY <1>26 DEF StateWaits
<1>27. ASSUME NEW c \in Clients, StateExpires(c) PROVE (OneWriter /\ Lifecycle)'
  BY <1>27 DEF StateExpires
<1>28. ASSUME NEW c \in Clients, StateGivesUp(c) PROVE (OneWriter /\ Lifecycle)'
  BY <1>28 DEF StateGivesUp
<1>29. ASSUME NEW c \in Clients, StateAsync(c) PROVE (OneWriter /\ Lifecycle)'
  BY <1>29 DEF StateAsync, CopyFirst
<1>30. ASSUME NEW c \in Clients, StateReturns(c) PROVE (OneWriter /\ Lifecycle)'
  BY <1>30 DEF StateReturns
<1>31. CASE PauseArrives
  BY <1>31 DEF PauseArrives
<1>32. CASE StopReads
  BY <1>32 DEF StopReads
<1> QED
  BY <1>1, <1>2, <1>3, <1>4, <1>5, <1>6, <1>7, <1>8, <1>9, <1>10, <1>11, 
     <1>12, <1>13, <1>14, <1>15, <1>16, <1>17, <1>18, <1>19, <1>20, <1>21, 
     <1>22, <1>23, <1>24, <1>25, <1>26, <1>27, <1>28, <1>29, <1>30, <1>31, <1>32
  DEF Next, Step, Terminated, Recv, Run, OwnerStep, OwnerCall, ClientStep

\* Buffers and snapshot change only under the hands of the one writer.
LEMMA BuffersStep == ASSUME IInv, [Next]_vars PROVE Buffers'
<1> USE ThreadsAssumption
    DEF IInv, TypeOK, OneWriter, Buffers, Snapshot,
        Move, At, Goto, Free, Done, Threads, Writers,
             flags, data, link, thread, OwnerIdle,
        RecvLabels, ReceiverLabels, OwnerLabels, ClientLabels
<1>1. CASE UNCHANGED vars
  BY <1>1 DEF vars
<1>2. CASE SendFrame
  BY <1>2 DEF SendFrame
<1>3. CASE PeerCloses
  BY <1>3 DEF PeerCloses
<1>4. ASSUME NEW t \in Writers, RecvAccept(t) PROVE Buffers'
  BY <1>4 DEF RecvAccept, Reads, ParseFirst
<1>5. ASSUME NEW t \in Writers, RecvReject(t) PROVE Buffers'
  BY <1>5 DEF RecvReject, Reads
<1>6. ASSUME NEW t \in Writers, RecvEof(t) PROVE Buffers'
  BY <1>6 DEF RecvEof, ParseFirst
<1>7. ASSUME NEW t \in Writers, ParseRest(t) PROVE Buffers'
  BY <1>7 DEF ParseRest
<1>8. ASSUME NEW t \in Writers, PublishFirst(t) PROVE Buffers'
  BY <1>8 DEF PublishFirst
<1>9. ASSUME NEW t \in Writers, PublishRest(t) PROVE Buffers'
  BY <1>9 DEF PublishRest
<1>10. ASSUME NEW t \in Writers, Notify(t) PROVE Buffers'
  BY <1>10 DEF Notify
<1>11. CASE RunEntry
  BY <1>11 DEF RunEntry
<1>12. CASE RunNotify
  BY <1>12 DEF RunNotify
<1>13. CASE RunLoop
  BY <1>13 DEF RunLoop
<1>14. CASE StartSeesUpdate
  BY <1>14 DEF StartSeesUpdate
<1>15. CASE StartWaits
  BY <1>15 DEF StartWaits
<1>16. CASE StartExpires
  BY <1>16 DEF StartExpires
<1>17. CASE StopJoins
  BY <1>17 DEF StopJoins
<1>18. CASE StopPauses
  BY <1>18 DEF StopPauses
<1>19. CASE InitOutput
  BY <1>19 DEF InitOutput
<1>20. CASE StartThread
  BY <1>20 DEF StartThread
<1>21. CASE StartOverJoinable
  BY <1>21 DEF StartOverJoinable
<1>22. CASE StopLowers
  BY <1>22 DEF StopLowers
<1>23. CASE StopNotRunning
  BY <1>23 DEF StopNotRunning
<1>24. CASE OwnerRecv
  BY <1>24 DEF OwnerRecv
<1>25. ASSUME NEW c \in Clients, StateNew(c) PROVE Buffers'
  BY <1>25 DEF StateNew, CopyFirst
<1>26. ASSUME NEW c \in Clients, StateWaits(c) PROVE Buffers'
  BY <1>26 DEF StateWaits
<1>27. ASSUME NEW c \in Clients, StateExpires(c) PROVE Buffers'
  BY <1>27 DEF StateExpires
<1>28. ASSUME NEW c \in Clients, StateGivesUp(c) PROVE Buffers'
  BY <1>28 DEF StateGivesUp
<1>29. ASSUME NEW c \in Clients, StateAsync(c) PROVE Buffers'
  BY <1>29 DEF StateAsync, CopyFirst
<1>30. ASSUME NEW c \in Clients, StateReturns(c) PROVE Buffers'
  BY <1>30 DEF StateReturns
<1>31. CASE PauseArrives
  BY <1>31 DEF PauseArrives
<1>32. CASE StopReads
  BY <1>32 DEF StopReads
<1> QED
  BY <1>1, <1>2, <1>3, <1>4, <1>5, <1>6, <1>7, <1>8, <1>9, <1>10, <1>11, 
     <1>12, <1>13, <1>14, <1>15, <1>16, <1>17, <1>18, <1>19, <1>20, <1>21, 
     <1>22, <1>23, <1>24, <1>25, <1>26, <1>27, <1>28, <1>29, <1>30, <1>31, <1>32
  DEF Next, Step, Terminated, Recv, Run, OwnerStep, OwnerCall, ClientStep

\* The mutex keeps the snapshot in place while a client copies it.
LEMMA ReturnedStep == ASSUME IInv, [Next]_vars PROVE Returned'
<1> USE ThreadsAssumption
    DEF IInv, TypeOK, Buffers, Returned, Snapshot, Default,
        Move, At, Goto, Free, Done, Threads, Writers,
             flags, data, link, thread, OwnerIdle,
        RecvLabels, ReceiverLabels, OwnerLabels, ClientLabels
<1>1. CASE UNCHANGED vars
  BY <1>1 DEF vars
<1>2. CASE SendFrame
  BY <1>2 DEF SendFrame
<1>3. CASE PeerCloses
  BY <1>3 DEF PeerCloses
<1>4. ASSUME NEW t \in Writers, RecvAccept(t) PROVE Returned'
  BY <1>4 DEF RecvAccept, Reads, ParseFirst
<1>5. ASSUME NEW t \in Writers, RecvReject(t) PROVE Returned'
  BY <1>5 DEF RecvReject, Reads
<1>6. ASSUME NEW t \in Writers, RecvEof(t) PROVE Returned'
  BY <1>6 DEF RecvEof, ParseFirst
<1>7. ASSUME NEW t \in Writers, ParseRest(t) PROVE Returned'
  BY <1>7 DEF ParseRest
<1>8. ASSUME NEW t \in Writers, PublishFirst(t) PROVE Returned'
  BY <1>8 DEF PublishFirst
<1>9. ASSUME NEW t \in Writers, PublishRest(t) PROVE Returned'
  BY <1>9 DEF PublishRest
<1>10. ASSUME NEW t \in Writers, Notify(t) PROVE Returned'
  BY <1>10 DEF Notify
<1>11. CASE RunEntry
  BY <1>11 DEF RunEntry
<1>12. CASE RunNotify
  BY <1>12 DEF RunNotify
<1>13. CASE RunLoop
  BY <1>13 DEF RunLoop
<1>14. CASE StartSeesUpdate
  BY <1>14 DEF StartSeesUpdate
<1>15. CASE StartWaits
  BY <1>15 DEF StartWaits
<1>16. CASE StartExpires
  BY <1>16 DEF StartExpires
<1>17. CASE StopJoins
  BY <1>17 DEF StopJoins
<1>18. CASE StopPauses
  BY <1>18 DEF StopPauses
<1>19. CASE InitOutput
  BY <1>19 DEF InitOutput
<1>20. CASE StartThread
  BY <1>20 DEF StartThread
<1>21. CASE StartOverJoinable
  BY <1>21 DEF StartOverJoinable
<1>22. CASE StopLowers
  BY <1>22 DEF StopLowers
<1>23. CASE StopNotRunning
  BY <1>23 DEF StopNotRunning
<1>24. CASE OwnerRecv
  BY <1>24 DEF OwnerRecv
<1>25. ASSUME NEW c \in Clients, StateNew(c) PROVE Returned'
  BY <1>25 DEF StateNew, CopyFirst
<1>26. ASSUME NEW c \in Clients, StateWaits(c) PROVE Returned'
  BY <1>26 DEF StateWaits
<1>27. ASSUME NEW c \in Clients, StateExpires(c) PROVE Returned'
  BY <1>27 DEF StateExpires
<1>28. ASSUME NEW c \in Clients, StateGivesUp(c) PROVE Returned'
  BY <1>28 DEF StateGivesUp
<1>29. ASSUME NEW c \in Clients, StateAsync(c) PROVE Returned'
  BY <1>29 DEF StateAsync, CopyFirst
<1>30. ASSUME NEW c \in Clients, StateReturns(c) PROVE Returned'
  BY <1>30 DEF StateReturns
<1>31. CASE PauseArrives
  BY <1>31 DEF PauseArrives
<1>32. CASE StopReads
  BY <1>32 DEF StopReads
<1> QED
  BY <1>1, <1>2, <1>3, <1>4, <1>5, <1>6, <1>7, <1>8, <1>9, <1>10, <1>11, 
     <1>12, <1>13, <1>14, <1>15, <1>16, <1>17, <1>18, <1>19, <1>20, <1>21, 
     <1>22, <1>23, <1>24, <1>25, <1>26, <1>27, <1>28, <1>29, <1>30, <1>31, <1>32
  DEF Next, Step, Terminated, Recv, Run, OwnerStep, OwnerCall, ClientStep

\* The lemmas together: no step breaks the invariant.
LEMMA Inductive == ASSUME IInv, [Next]_vars PROVE IInv'
BY TypeOKStep, LifecycleStep, BuffersStep, ReturnedStep DEF IInv

\* The invariant holds in every reachable state.
LEMMA Invariant == Spec => []IInv
<1>1. IInv /\ [Next]_vars => IInv'
  BY Inductive
<1> QED
  BY Initially, <1>1, PTL DEF Spec

(* Types, the roles of the threads and mutual exclusion on ur_state, for   *)
(* any number of clients and frames (robot.hpp:345, robot.cpp:210-233).    *)
THEOREM TypeCorrect == Spec => []TypeOK
<1>1. IInv => TypeOK
  BY DEF IInv
<1> QED
  BY Invariant, <1>1, PTL

(* No caller of state() ever holds a mix of two frames (robot.cpp:41-44,   *)
(* 203-244), whatever the owner, the receiver and the other callers do.    *)
THEOREM NeverTorn == Spec => []NoTornState
<1>1. IInv => NoTornState
  BY DEF IInv, Returned, NoTornState
<1> QED
  BY Invariant, <1>1, PTL

(* The receiver thread leaves run() only for the stop() that joins it, and *)
(* running() is true only inside its loop (robot.cpp:408-422, 474-486).    *)
THEOREM LifecycleCorrect == Spec => []ReceiverLifecycle
<1>1. IInv => ReceiverLifecycle
  BY ThreadsAssumption DEF IInv, Lifecycle, ReceiverLifecycle, RecvLabels, At
<1> QED
  BY Invariant, <1>1, PTL

-----------------------------------------------------------------------------
(* Refinement: the component implements the one-place mailbox.              *)

\* The order of the buffered and the published frame is kept.
LEMMA NewerFramesStep ==
    ASSUME IInv, NewerFrames, [Next]_vars PROVE NewerFrames'
<1> USE ThreadsAssumption, BoundsAssumption
    DEF IInv, TypeOK, OneWriter, NewerFrames, Writing, Buffers, Snapshot, Frames,
        Move, At, Goto, Free, Done, Threads, Writers,
             flags, data, link, thread, OwnerIdle,
        RecvLabels, ReceiverLabels, OwnerLabels, ClientLabels
<1>1. CASE UNCHANGED vars
  BY <1>1 DEF vars
<1>2. CASE SendFrame
  BY <1>2 DEF SendFrame
<1>3. CASE PeerCloses
  BY <1>3 DEF PeerCloses
<1>4. ASSUME NEW t \in Writers, RecvAccept(t) PROVE NewerFrames'
  BY <1>4 DEF RecvAccept, Reads, ParseFirst
<1>5. ASSUME NEW t \in Writers, RecvReject(t) PROVE NewerFrames'
  BY <1>5 DEF RecvReject, Reads
<1>6. ASSUME NEW t \in Writers, RecvEof(t) PROVE NewerFrames'
  BY <1>6 DEF RecvEof, ParseFirst
<1>7. ASSUME NEW t \in Writers, ParseRest(t) PROVE NewerFrames'
  BY <1>7 DEF ParseRest
<1>8. ASSUME NEW t \in Writers, PublishFirst(t) PROVE NewerFrames'
  BY <1>8 DEF PublishFirst
<1>9. ASSUME NEW t \in Writers, PublishRest(t) PROVE NewerFrames'
  BY <1>9 DEF PublishRest
<1>10. ASSUME NEW t \in Writers, Notify(t) PROVE NewerFrames'
  BY <1>10 DEF Notify
<1>11. CASE RunEntry
  BY <1>11 DEF RunEntry
<1>12. CASE RunNotify
  BY <1>12 DEF RunNotify
<1>13. CASE RunLoop
  BY <1>13 DEF RunLoop
<1>14. CASE StartSeesUpdate
  BY <1>14 DEF StartSeesUpdate
<1>15. CASE StartWaits
  BY <1>15 DEF StartWaits
<1>16. CASE StartExpires
  BY <1>16 DEF StartExpires
<1>17. CASE StopJoins
  BY <1>17 DEF StopJoins
<1>18. CASE StopPauses
  BY <1>18 DEF StopPauses
<1>19. CASE InitOutput
  BY <1>19 DEF InitOutput
<1>20. CASE StartThread
  BY <1>20 DEF StartThread
<1>21. CASE StartOverJoinable
  BY <1>21 DEF StartOverJoinable
<1>22. CASE StopLowers
  BY <1>22 DEF StopLowers
<1>23. CASE StopNotRunning
  BY <1>23 DEF StopNotRunning
<1>24. CASE OwnerRecv
  BY <1>24 DEF OwnerRecv
<1>25. ASSUME NEW c \in Clients, StateNew(c) PROVE NewerFrames'
  BY <1>25 DEF StateNew, CopyFirst
<1>26. ASSUME NEW c \in Clients, StateWaits(c) PROVE NewerFrames'
  BY <1>26 DEF StateWaits
<1>27. ASSUME NEW c \in Clients, StateExpires(c) PROVE NewerFrames'
  BY <1>27 DEF StateExpires
<1>28. ASSUME NEW c \in Clients, StateGivesUp(c) PROVE NewerFrames'
  BY <1>28 DEF StateGivesUp
<1>29. ASSUME NEW c \in Clients, StateAsync(c) PROVE NewerFrames'
  BY <1>29 DEF StateAsync, CopyFirst
<1>30. ASSUME NEW c \in Clients, StateReturns(c) PROVE NewerFrames'
  BY <1>30 DEF StateReturns
<1>31. CASE PauseArrives
  BY <1>31 DEF PauseArrives
<1>32. CASE StopReads
  BY <1>32 DEF StopReads
<1> QED
  BY <1>1, <1>2, <1>3, <1>4, <1>5, <1>6, <1>7, <1>8, <1>9, <1>10, <1>11, 
     <1>12, <1>13, <1>14, <1>15, <1>16, <1>17, <1>18, <1>19, <1>20, <1>21, 
     <1>22, <1>23, <1>24, <1>25, <1>26, <1>27, <1>28, <1>29, <1>30, <1>31, <1>32
  DEF Next, Step, Terminated, Recv, Run, OwnerStep, OwnerCall, ClientStep

\* PublishRest publishes, CopyFirst fetches, StateGivesUp gives up; every other
\* step leaves the mailbox alone.
LEMMA MailboxStep ==
    ASSUME IInv, NewerFrames, [Next]_vars PROVE [Mailbox!Next]_(Mailbox!vars)
<1> USE ThreadsAssumption, BoundsAssumption
    DEF IInv, TypeOK, OneWriter, NewerFrames, Writing, Buffers, Returned, Snapshot, Default, Frames,
        Mailbox!Next, Mailbox!vars, Mailbox!Publish, Mailbox!FetchNew, Mailbox!FetchAgain,
        Mailbox!GiveUp,
        Move, At, Goto, Free, Done, Threads, Writers,
             flags, data, link, thread, OwnerIdle,
        RecvLabels, ReceiverLabels, OwnerLabels, ClientLabels
<1>1. CASE UNCHANGED vars
  BY <1>1 DEF vars
<1>2. CASE SendFrame
  BY <1>2 DEF SendFrame
<1>3. CASE PeerCloses
  BY <1>3 DEF PeerCloses
<1>4. ASSUME NEW t \in Writers, RecvAccept(t) PROVE [Mailbox!Next]_(Mailbox!vars)
  BY <1>4 DEF RecvAccept, Reads, ParseFirst
<1>5. ASSUME NEW t \in Writers, RecvReject(t) PROVE [Mailbox!Next]_(Mailbox!vars)
  BY <1>5 DEF RecvReject, Reads
<1>6. ASSUME NEW t \in Writers, RecvEof(t) PROVE [Mailbox!Next]_(Mailbox!vars)
  BY <1>6 DEF RecvEof, ParseFirst
<1>7. ASSUME NEW t \in Writers, ParseRest(t) PROVE [Mailbox!Next]_(Mailbox!vars)
  BY <1>7 DEF ParseRest
<1>8. ASSUME NEW t \in Writers, PublishFirst(t) PROVE [Mailbox!Next]_(Mailbox!vars)
  BY <1>8 DEF PublishFirst
<1>9. ASSUME NEW t \in Writers, PublishRest(t) PROVE [Mailbox!Next]_(Mailbox!vars)
  <2>1. buf.jq = buf.seqnr
    BY <1>9 DEF PublishRest
  <2>2. ur_state'.jq = buf.seqnr /\ updated_state' = TRUE
    BY <2>1, <1>9 DEF PublishRest
  <2>3. /\ buf.seqnr \in 1 .. MaxFrames
        /\ buf.seqnr >= ur_state.jq
        /\ ~EofReplays => buf.seqnr > ur_state.jq
    BY <1>9 DEF PublishRest
  <2>4. \A c \in Clients : ~At(c, "state_copy") /\ ~At(c, "state_copy")' /\ ret' = ret
    BY <1>9 DEF PublishRest
  <2>5. [d \in Clients |-> IF At(d, "state_copy") THEN ur_state.jq ELSE ret[d].jq]' = [d \in Clients |-> IF At(d, "state_copy") THEN ur_state.jq ELSE ret[d].jq]
    BY <2>4
  <2>6. Mailbox!Publish
    BY <2>2, <2>3, <2>5
  <2> QED
    BY <2>6
<1>10. ASSUME NEW t \in Writers, Notify(t) PROVE [Mailbox!Next]_(Mailbox!vars)
  BY <1>10 DEF Notify
<1>11. CASE RunEntry
  BY <1>11 DEF RunEntry
<1>12. CASE RunNotify
  BY <1>12 DEF RunNotify
<1>13. CASE RunLoop
  BY <1>13 DEF RunLoop
<1>14. CASE StartSeesUpdate
  BY <1>14 DEF StartSeesUpdate
<1>15. CASE StartWaits
  BY <1>15 DEF StartWaits
<1>16. CASE StartExpires
  BY <1>16 DEF StartExpires
<1>17. CASE StopJoins
  BY <1>17 DEF StopJoins
<1>18. CASE StopPauses
  BY <1>18 DEF StopPauses
<1>19. CASE InitOutput
  BY <1>19 DEF InitOutput
<1>20. CASE StartThread
  BY <1>20 DEF StartThread
<1>21. CASE StartOverJoinable
  BY <1>21 DEF StartOverJoinable
<1>22. CASE StopLowers
  BY <1>22 DEF StopLowers
<1>23. CASE StopNotRunning
  BY <1>23 DEF StopNotRunning
<1>24. CASE OwnerRecv
  BY <1>24 DEF OwnerRecv
<1>25. ASSUME NEW c \in Clients, StateNew(c) PROVE [Mailbox!Next]_(Mailbox!vars)
  <2>1. [d \in Clients |-> IF At(d, "state_copy") THEN ur_state.jq ELSE ret[d].jq]' = [[d \in Clients |-> IF At(d, "state_copy") THEN ur_state.jq ELSE ret[d].jq] EXCEPT ![c] = ur_state.jq]
    BY <1>25 DEF StateNew, CopyFirst
  <2>2. ur_state'.jq = ur_state.jq /\ updated_state' = FALSE
    BY <1>25 DEF StateNew, CopyFirst
  <2>3. Mailbox!FetchNew(c)
    BY <2>1, <2>2, <1>25 DEF StateNew
  <2> QED
    BY <2>3
<1>26. ASSUME NEW c \in Clients, StateWaits(c) PROVE [Mailbox!Next]_(Mailbox!vars)
  BY <1>26 DEF StateWaits
<1>27. ASSUME NEW c \in Clients, StateExpires(c) PROVE [Mailbox!Next]_(Mailbox!vars)
  BY <1>27 DEF StateExpires
<1>28. ASSUME NEW c \in Clients, StateGivesUp(c) PROVE [Mailbox!Next]_(Mailbox!vars)
  <2>1. [d \in Clients |-> IF At(d, "state_copy") THEN ur_state.jq ELSE ret[d].jq]' = [[d \in Clients |-> IF At(d, "state_copy") THEN ur_state.jq ELSE ret[d].jq] EXCEPT ![c] = 0]
    BY <1>28 DEF StateGivesUp
  <2>2. ur_state'.jq = ur_state.jq /\ ~updated_state /\ updated_state' = updated_state
    BY <1>28 DEF StateGivesUp
  <2>3. Mailbox!GiveUp(c)
    BY <2>1, <2>2
  <2> QED
    BY <2>3
<1>29. ASSUME NEW c \in Clients, StateAsync(c) PROVE [Mailbox!Next]_(Mailbox!vars)
  <2>1. [d \in Clients |-> IF At(d, "state_copy") THEN ur_state.jq ELSE ret[d].jq]' = [[d \in Clients |-> IF At(d, "state_copy") THEN ur_state.jq ELSE ret[d].jq] EXCEPT ![c] = ur_state.jq]
    BY <1>29 DEF StateAsync, CopyFirst
  <2>2. ur_state'.jq = ur_state.jq /\ updated_state' = FALSE
    BY <1>29 DEF StateAsync, CopyFirst
  <2>3. CASE updated_state
    <3>1. Mailbox!FetchNew(c)
      BY <2>1, <2>2, <2>3
    <3> QED
      BY <3>1
  <2>4. CASE ~updated_state
    <3>1. Mailbox!FetchAgain(c)
      BY <2>1, <2>2, <2>4, <1>29
    <3> QED
      BY <3>1
  <2> QED
    BY <2>3, <2>4
<1>30. ASSUME NEW c \in Clients, StateReturns(c) PROVE [Mailbox!Next]_(Mailbox!vars)
  BY <1>30 DEF StateReturns
<1>31. CASE PauseArrives
  BY <1>31 DEF PauseArrives
<1>32. CASE StopReads
  BY <1>32 DEF StopReads
<1> HIDE DEF IInv, TypeOK, OneWriter, NewerFrames, Writing, Buffers, Returned, Snapshot,
             Default, Frames, Mailbox!Next, Mailbox!vars, Move, At, Goto, Free, Done,
             flags, data, link, thread, OwnerIdle
<1> QED
  BY <1>1, <1>2, <1>3, <1>4, <1>5, <1>6, <1>7, <1>8, <1>9, <1>10, <1>11, 
     <1>12, <1>13, <1>14, <1>15, <1>16, <1>17, <1>18, <1>19, <1>20, <1>21, 
     <1>22, <1>23, <1>24, <1>25, <1>26, <1>27, <1>28, <1>29, <1>30, <1>31, <1>32
  DEF Next, Step, Terminated, Recv, Run, OwnerStep, OwnerCall, ClientStep

(* What was published is handed out at most once as new, in the order the   *)
(* frames were sent, and state(true) gives up only when there is nothing    *)
(* new (robot.hpp:173-203): Spec implements FrameMailbox, the one without   *)
(* replays if the end of the connection replays nothing.                    *)
THEOREM ImplementsMailbox == Spec => MailboxSpec
<1>1. Init => Mailbox!Init /\ NewerFrames
  BY ThreadsAssumption, BoundsAssumption
  DEF Init, Mailbox!Init, NewerFrames, Writing, Default, Writers, Threads, At
<1>2. IInv /\ NewerFrames /\ [Next]_vars => NewerFrames'
  BY NewerFramesStep
<1>3. IInv /\ NewerFrames /\ [Next]_vars => [Mailbox!Next]_(Mailbox!vars)
  BY MailboxStep
<1> QED
  BY <1>1, <1>2, <1>3, Invariant, PTL DEF Spec, MailboxSpec, Mailbox!Spec
=============================================================================
