---------------------------- MODULE PackageStream ----------------------------
(***************************************************************************)
(* The stream of packages from the robot controller as Con::do_recv()      *)
(* (src/con.cpp) cuts it into reads, and what RTDE_Handler::recv(),        *)
(* start() and stop() (src/rtde_handler.cpp) make of the bytes, which all  *)
(* of them read into one buffer.                                           *)
(*                                                                         *)
(* The unit is four bytes: the header of a data package with its recipe id *)
(* (header.hpp:124-127) and a reply to START or PAUSE (header.hpp:135-138) *)
(* are one unit each.  A unit carries whose it is, so that it shows in the *)
(* buffer and in the storage what was put together from where.  Requests   *)
(* before START are part of RtdeHandler; the payload of a data package is  *)
(* assumed never to look like the header of one.                           *)
(***************************************************************************)
EXTENDS Integers, Sequences, SequencesExt, FiniteSetsExt

CONSTANTS FrameUnits,   \* units of a data package, with its header
          TextUnits,    \* units of a text message
          BufferUnits,  \* units of buffer_
          MaxPackages,  \* bound: packages the controller sends
          MaxCalls,     \* bound: calls of start() and stop()
          Segments,     \* TRUE: a read may end inside a package
          EofReplays    \* TRUE: a header whose first byte is cleared is still valid

ASSUME StreamAssumption ==
    /\ {FrameUnits, TextUnits, BufferUnits} \subseteq Nat \ {0, 1}
    /\ FrameUnits <= BufferUnits
    /\ {MaxPackages, MaxCalls} \subseteq Nat
    /\ {Segments, EofReplays} \subseteq BOOLEAN

VARIABLES
    packages,  \* packages sent so far
    sent,      \* data packages among them
    stream,    \* units sent and not read
    buffer,    \* buffer_, and one unit of what lies behind it
    storage,   \* what the output recipe parses into
    call,      \* start() or stop(), while it waits for its reply
    calls,     \* their number so far
    requests,  \* START and PAUSE under way to the controller
    streaming, \* the controller sends data packages
    closed,    \* it closed the connection
    misses     \* history: rejected reads in a row behind an accepted one

controller == <<packages, sent, requests, streaming, closed>>
vars == <<packages, sent, stream, buffer, storage, call, calls, requests, streaming, closed,
          misses>>

Unit(kind, frame, part) == [kind |-> kind, frame |-> frame, part |-> part]
Package(kind, frame, units) == [i \in 1 .. units |-> Unit(kind, frame, i)]

Unknown == -1    \* misses, once something else than data packages was read
Nothing == Unit("none", 0, 0)
Damaged == Unit("damaged", 0, 0)
Foreign == Unit("foreign", 0, 0)    \* what lies behind buffer_

Past == BufferUnits + 1             \* its place

Init ==
    /\ packages = 0 /\ sent = 0
    /\ stream = << >>
    /\ buffer = [i \in 1 .. Past |-> IF i = Past THEN Foreign ELSE Nothing]
    /\ storage = [i \in 1 .. FrameUnits - 1 |-> Nothing]
    /\ call = "none" /\ calls = 0
    /\ requests = << >>
    /\ streaming = FALSE
    /\ closed = FALSE
    /\ misses = Unknown

-----------------------------------------------------------------------------
(* The controller. *)

Emit(package) ==
    /\ ~closed
    /\ packages < MaxPackages
    /\ packages' = packages + 1
    /\ stream' = stream \o package
    /\ UNCHANGED <<buffer, storage, call, calls, closed, misses>>

SendData ==
    /\ streaming
    /\ sent' = sent + 1
    /\ Emit(Package("data", sent', FrameUnits))
    /\ UNCHANGED <<requests, streaming>>

SendText ==
    /\ Emit(Package("text", 0, TextUnits))
    /\ UNCHANGED <<sent, requests, streaming>>

Answer ==
    /\ requests # << >>
    /\ streaming' = (Head(requests) = "start")
    /\ requests' = Tail(requests)
    /\ Emit(Package("reply", 0, 1))
    /\ UNCHANGED sent

PeerCloses ==
    /\ ~closed
    /\ closed' = TRUE
    /\ streaming' = FALSE
    /\ UNCHANGED <<packages, sent, requests, stream, buffer, storage, call, calls, misses>>

-----------------------------------------------------------------------------
(* Con::do_recv(): a read of at most limit units. *)

\* What follows the units read is terminated by a 0 byte.  Cleared is the first
\* byte of a unit; in a header that is the high byte of the size.
Terminated(u) == CASE u = Nothing -> Nothing
                   [] u.part = 1 /\ EofReplays -> u
                   [] OTHER -> Damaged

\* The mutants terminate one byte too early, and also after a full buffer.
Filled_Early(n, limit) ==
    [i \in 1 .. Past |-> IF i = n /\ n < limit THEN Terminated(stream[i])
                         ELSE IF i <= n THEN stream[i]
                         ELSE buffer[i]]

Filled_Past(n, limit) ==
    [i \in 1 .. Past |-> IF i <= n THEN stream[i]
                         ELSE IF i = n + 1 THEN Terminated(buffer[i])
                         ELSE buffer[i]]

Filled(n, limit) ==
    [i \in 1 .. Past |-> IF i <= n THEN stream[i]
                         ELSE IF i = n + 1 /\ n < limit THEN Terminated(buffer[i])
                         ELSE buffer[i]]

EndsPackage(n) == n = Len(stream) \/ stream[n + 1].part = 1

\* How much a read may take: all that is there, up to a package that came later,
\* or the limit; and nothing at the end of the connection.
Chunks(limit) ==
    IF stream = << >> THEN IF closed THEN {0} ELSE {}
    ELSE {n \in 1 .. Min({limit, Len(stream)}) : n = limit \/ Segments \/ EndsPackage(n)}

Take(n, limit) ==
    /\ stream' = SubSeq(stream, n + 1, Len(stream))
    /\ buffer' = Filled(n, limit)

-----------------------------------------------------------------------------
(* RTDE_Handler. *)

CallControl(op) ==
    /\ call = "none"
    /\ calls < MaxCalls
    /\ ~closed
    /\ call' = op
    /\ calls' = calls + 1
    /\ requests' = Append(requests, op)
    /\ UNCHANGED <<packages, sent, stream, buffer, storage, streaming, closed, misses>>

\* start() and stop() read the four bytes of a reply, whatever they belong to.
ControlReplied ==
    /\ call # "none"
    /\ \E n \in Chunks(1) : Take(n, 1)
    /\ call' = "none"
    /\ misses' = Unknown
    /\ UNCHANGED <<controller, storage, calls>>

\* parse_incoming_data(): type, size and recipe id are those of a data package.
Accepts(u) == u.kind = "data" /\ u.part = 1

\* How many reads in a row were rejected, as long as only data packages are read.
Counted(n, hit) ==
    misses' = IF n = 0 \/ \E i \in 1 .. n : stream[i].kind # "data" THEN Unknown
              ELSE IF hit THEN 0
              ELSE IF misses = Unknown THEN Unknown
              ELSE misses + 1

\* A read of n units; the package at a place in "at" is parsed.  If there is none,
\* nothing is.
Parse(n, limit, at) ==
    /\ call = "none"
    /\ Take(n, limit)
    /\ storage' = IF at = {} THEN storage
                  ELSE SubSeq(buffer', Max(at) + 1, Max(at) + FrameUnits - 1)
    /\ Counted(n, at # {})
    /\ UNCHANGED <<controller, call, calls>>

\* The mutants keep a place for the 0 byte, and look for the newest package.
Recv_LeavesRoom ==
    \E n \in Chunks(BufferUnits - 1) :
        Parse(n, BufferUnits - 1, {i \in {1} : Accepts(buffer'[i])})
Recv_Newest ==
    \E n \in Chunks(BufferUnits) :
        Parse(n, BufferUnits, {i \in 1 .. n - FrameUnits + 1 : Accepts(buffer'[i])})

\* recv(): bytes are read into the buffer, and the package that begins there is
\* parsed if it is a data package of the recipe; whatever follows it is lost.
Recv == \E n \in Chunks(BufferUnits) : Parse(n, BufferUnits, {i \in {1} : Accepts(buffer'[i])})

-----------------------------------------------------------------------------

Next == \/ SendData \/ SendText \/ Answer \/ PeerCloses
        \/ \E op \in {"start", "stop"} : CallControl(op)
        \/ ControlReplied \/ Recv

Spec == Init /\ [][Next]_vars

-----------------------------------------------------------------------------
(* Properties. *)

Units == [kind : {"data", "text", "reply", "none", "damaged", "foreign"},
          frame : 0 .. MaxPackages, part : 0 .. Max({FrameUnits, TextUnits})]

(* The variables keep their types; in particular neither what was read nor  *)
(* the byte that terminates it ever lands behind the buffer, also when a    *)
(* read has filled it (con.cpp:84-87).                                      *)
TypeOK ==
    /\ packages \in 0 .. MaxPackages
    /\ sent \in 0 .. packages
    /\ stream \in Seq(Units)
    /\ buffer \in [1 .. Past -> Units]
    /\ buffer[Past] = Foreign
    /\ storage \in [1 .. FrameUnits - 1 -> Units]
    /\ call \in {"none", "start", "stop"}
    /\ calls \in 0 .. MaxCalls
    /\ requests \in Seq({"start", "stop"})
    /\ {streaming, closed} \subseteq BOOLEAN
    /\ misses \in Nat \cup {Unknown}

(* recv() returns "true if valid, parseable data was received"              *)
(* (rtde_handler.hpp:147): the payload that is parsed belongs to one frame, *)
(* although the buffer holds the end of other packages behind every short   *)
(* read, and although reads cut packages.                                   *)
WholeFrames ==
    \/ \A i \in DOMAIN storage : storage[i] = Nothing
    \/ \E frame \in 1 .. sent :
           \A i \in DOMAIN storage : storage[i] = Unit("data", frame, i + 1)

(* Frames are parsed in the order they were sent, at most once, and always  *)
(* the oldest of which no byte was taken: this component implements         *)
(* FrameReader, on which RobotState rests (rtde_handler.cpp:176-186).       *)
Untouched == Cardinality({i \in DOMAIN stream : Accepts(stream[i])})

Reader == INSTANCE FrameReader WITH
    MaxFrames <- MaxPackages,
    taken  <- sent - Untouched,
    parsed <- storage[1].frame

ReaderSpec == Reader!Spec

(* A receiver that is so far behind that reads fill the buffer gets a       *)
(* package cut and loses the next ones, but only so many in a row: while    *)
(* only data packages come, the cut moves on by what the buffer leaves of a *)
(* package and comes round to its beginning (con.cpp:74,                    *)
(* rtde_handler.cpp:179).                                                   *)
Stride == Max({d \in 1 .. FrameUnits : FrameUnits % d = 0 /\ BufferUnits % d = 0})

Resynchronises == misses < FrameUnits \div Stride
=============================================================================
