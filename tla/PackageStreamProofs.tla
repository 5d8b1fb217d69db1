-------------------------- MODULE PackageStreamProofs --------------------------
(***************************************************************************)
(* What holds of PackageStream for every size of the packages and of the   *)
(* buffer, and any number of packages and calls.  But for the types, as    *)
(* long as the connection delivers packages whole (~Segments).             *)
(***************************************************************************)
EXTENDS PackageStream, SequenceTheorems, WellFoundedInduction, TLAPS

AnyUnits == [kind : {"data", "text", "reply", "none", "damaged", "foreign"},
             frame : Nat, part : Nat]

Types ==
    /\ sent \in Nat
    /\ stream \in Seq(AnyUnits)
    /\ buffer \in [1 .. Past -> AnyUnits]
    /\ storage \in [1 .. FrameUnits - 1 -> AnyUnits]

\* A data package that was sent lies whole in s, its header at i.
IsWhole(s, i) ==
    /\ s[i].frame \in 1 .. sent
    /\ \A q \in 1 .. FrameUnits - 1 : s[i + q] = Unit("data", s[i].frame, q + 1)

\* Behind every header that was not read comes the rest of its package.
HeadersLead ==
    \A i \in 1 .. Len(stream) :
        Accepts(stream[i]) => i + FrameUnits - 1 <= Len(stream) /\ IsWhole(stream, i)

\* When all was read, a header in the buffer leads a package, which the end of the
\* connection may bring to light again.
BufferLeads == stream = << >> /\ Accepts(buffer[1]) => IsWhole(buffer, 1)

IInv == Types /\ HeadersLead /\ BufferLeads /\ WholeFrames

-----------------------------------------------------------------------------
(* Sequences and sets. *)

\* What is left when n elements were taken.
LEMMA Suffix ==
    ASSUME NEW S, NEW s \in Seq(S), NEW n \in 0 .. Len(s)
    PROVE  /\ SubSeq(s, n + 1, Len(s)) \in Seq(S)
           /\ Len(SubSeq(s, n + 1, Len(s))) = Len(s) - n
           /\ \A i \in 1 .. Len(s) - n : SubSeq(s, n + 1, Len(s))[i] = s[n + i]
  OBVIOUS

\* What is put behind a sequence.
LEMMA Behind ==
    ASSUME NEW S, NEW s \in Seq(S), NEW k \in Nat, NEW p \in [1 .. k -> S]
    PROVE  /\ s \o p \in Seq(S) /\ Len(s) \in Nat
           /\ Len(s \o p) = Len(s) + k
           /\ \A i \in 1 .. Len(s) : (s \o p)[i] = s[i]
           /\ \A i \in 1 .. k : (s \o p)[Len(s) + i] = p[i]
<1>1. p \in Seq(S) /\ Len(p) = k /\ Len(s) \in Nat
  OBVIOUS
<1>2. s \o p \in Seq(S) /\ Len(s \o p) = Len(s) + k
  BY <1>1
<1>3. \A i \in 1 .. Len(s) + k : (s \o p)[i] = IF i <= Len(s) THEN s[i] ELSE p[i - Len(s)]
  BY <1>1, ConcatProperties
<1>4. \A i \in 1 .. Len(s) : (s \o p)[i] = s[i]
  BY <1>1, <1>3
<1>5. ASSUME NEW i \in 1 .. k PROVE (s \o p)[Len(s) + i] = p[i]
  <2>1. /\ Len(s) + i \in 1 .. Len(s) + k /\ ~(Len(s) + i <= Len(s))
        /\ (Len(s) + i) - Len(s) = i
    BY <1>1
  <2> QED
    BY <1>3, <2>1
<1> QED
  BY <1>1, <1>2, <1>4, <1>5

\* A sequence is a function.
LEMMA AsFunction == ASSUME NEW S, NEW t \in Seq(S) PROVE t \in [1 .. Len(t) -> S]
  OBVIOUS

\* The elements of a sequence behind the first.
LEMMA Payload ==
    ASSUME NEW S, NEW k \in Nat, NEW m \in 1 .. k, NEW b \in [1 .. k -> S]
    PROVE  /\ SubSeq(b, 2, m) \in [1 .. m - 1 -> S]
           /\ \A i \in 1 .. m - 1 : SubSeq(b, 2, m)[i] = b[i + 1]
<1>1. 2 \in Int /\ m \in Int /\ \A i \in 2 .. m : b[i] \in S
  OBVIOUS
<1>2. /\ SubSeq(b, 2, m) \in Seq(S)
      /\ Len(SubSeq(b, 2, m)) = IF 2 <= m THEN m - 2 + 1 ELSE 0
      /\ \A i \in 1 .. m - 2 + 1 : SubSeq(b, 2, m)[i] = b[2 + i - 1]
  BY <1>1, SubSeqProperties
<1>3. Len(SubSeq(b, 2, m)) = m - 1
  BY <1>2
<1>4. SubSeq(b, 2, m) \in [1 .. m - 1 -> S]
  <2>1. SubSeq(b, 2, m) \in [1 .. Len(SubSeq(b, 2, m)) -> S]
    BY ONLY <1>2, AsFunction
  <2> QED
    BY <1>3, <2>1, Zenon
<1>5. ASSUME NEW i \in 1 .. m - 1 PROVE SubSeq(b, 2, m)[i] = b[i + 1]
  <2>1. i \in 1 .. m - 2 + 1 /\ 2 + i - 1 = i + 1
    OBVIOUS
  <2> QED
    BY <1>2, <2>1
<1> QED
  BY <1>4, <1>5

\* A number of units is within both its bounds.
LEMMA MinTwo ==
    ASSUME NEW a \in Int, NEW b \in Int
    PROVE  Min({a, b}) \in Int /\ Min({a, b}) <= a /\ Min({a, b}) <= b
<1>1. \E x \in {a, b} : \A y \in {a, b} : x <= y
  <2>1. CASE a <= b
    BY <2>1
  <2>2. CASE b <= a
    BY <2>2
  <2> QED
    BY <2>1, <2>2
<1> QED
  BY <1>1 DEF Min

\* The sizes.
LEMMA Sizes == /\ FrameUnits \in Nat /\ FrameUnits > 1
               /\ BufferUnits \in Nat /\ FrameUnits <= BufferUnits
  BY StreamAssumption

\* The place of a package that begins the buffer.
LEMMA MaxOne == Max({1}) = 1
  BY DEF Max

-----------------------------------------------------------------------------
(* The steps. *)

\* At first.
LEMMA InitIInv == Init => IInv
<1> SUFFICES ASSUME Init PROVE IInv
  OBVIOUS
<1>1. Nothing \in AnyUnits /\ ~Accepts(Nothing)
  BY DEF Nothing, Unit, AnyUnits, Accepts
<1>2. buffer[1] = Nothing
  BY StreamAssumption DEF Init, Past
<1>3. Foreign \in AnyUnits
  BY DEF Foreign, Unit, AnyUnits
<1>4. Types
  BY <1>1, <1>3 DEF Init, Types
<1> QED
  BY <1>1, <1>2, <1>4 DEF Init, IInv, HeadersLead, BufferLeads, WholeFrames

\* A package that is sent comes whole, and behind the others.
LEMMA EmitStep ==
    ASSUME IInv, NEW kind \in {"data", "text", "reply"}, NEW f \in Nat, NEW k \in Nat \ {0},
           Emit(Package(kind, f, k)),
           sent' \in Nat, sent' >= sent,
           kind = "data" => f = sent' /\ sent' > 0 /\ k = FrameUnits
    PROVE  IInv'
<1> DEFINE p == Package(kind, f, k)
<1>1. stream' = stream \o p /\ buffer' = buffer /\ storage' = storage
  BY DEF Emit
<1>2. p \in [1 .. k -> AnyUnits] /\ \A i \in 1 .. k : p[i] = Unit(kind, f, i)
  BY DEF Package, Unit, AnyUnits
<1> HIDE DEF p
<1>3. /\ stream' \in Seq(AnyUnits) /\ Len(stream) \in Nat /\ Len(stream') = Len(stream) + k
      /\ \A i \in 1 .. Len(stream) : stream'[i] = stream[i]
      /\ \A i \in 1 .. k : stream'[Len(stream) + i] = p[i]
  <2>1. stream \in Seq(AnyUnits)
    BY DEF IInv, Types
  <2>2. /\ stream \o p \in Seq(AnyUnits) /\ Len(stream) \in Nat
        /\ Len(stream \o p) = Len(stream) + k
        /\ \A i \in 1 .. Len(stream) : (stream \o p)[i] = stream[i]
        /\ \A i \in 1 .. k : (stream \o p)[Len(stream) + i] = p[i]
    BY <1>1, <1>2, <2>1, Behind
  <2> QED
    BY <1>1, <2>2
<1>4. Types'
  BY <1>1, <1>3 DEF IInv, Types
<1>5. ASSUME NEW i \in 1 .. Len(stream'), Accepts(stream'[i])
      PROVE  i + FrameUnits - 1 <= Len(stream') /\ IsWhole(stream, i)'
  <2>1. CASE i \in 1 .. Len(stream)
    <3>1. i + FrameUnits - 1 <= Len(stream) /\ IsWhole(stream, i) /\ Accepts(stream[i])
      BY <1>3, <1>5, <2>1 DEF IInv, HeadersLead
    <3>2. ASSUME NEW q \in 1 .. FrameUnits - 1 PROVE stream'[i + q] = stream[i + q]
      <4>1. i + q \in 1 .. Len(stream)
        BY <1>3, <2>1, <3>1, Sizes
      <4> QED
        BY <1>3, <4>1
    <3>3. stream'[i] = stream[i] /\ stream[i].frame \in 1 .. sent'
      BY <1>3, <2>1, <3>1 DEF IsWhole, IInv, Types
    <3>4. i + FrameUnits - 1 <= Len(stream')
      BY <1>3, <2>1, <3>1, Sizes
    <3> QED
      BY <3>1, <3>2, <3>3, <3>4 DEF IsWhole
  <2>2. CASE i \notin 1 .. Len(stream)
    <3>1. PICK j \in 1 .. k : i = Len(stream) + j
      BY <1>3, <2>2
    <3>2. stream'[i] = Unit(kind, f, j)
      BY <1>2, <1>3, <3>1
    <3>3. kind = "data" /\ j = 1 /\ stream'[i].frame = f
      BY <1>5, <3>2 DEF Accepts, Unit
    <3>4. ASSUME NEW q \in 1 .. FrameUnits - 1
          PROVE  stream'[i + q] = Unit("data", f, q + 1)
      <4>1. q + 1 \in 1 .. k /\ i + q = Len(stream) + (q + 1)
        BY <1>3, <3>1, <3>3, Sizes
      <4> QED
        BY <1>2, <1>3, <3>3, <4>1
    <3>5. i + FrameUnits - 1 <= Len(stream')
      BY <1>3, <3>1, <3>3, Sizes
    <3> QED
      BY <3>3, <3>4, <3>5 DEF IsWhole
  <2> QED
    BY <2>1, <2>2
<1>6. BufferLeads'
  <2>1. stream' # << >>
    BY <1>3
  <2> QED
    BY <2>1 DEF BufferLeads
<1>7. WholeFrames'
  BY <1>1, <1>4 DEF IInv, Types, WholeFrames
<1> QED
  BY <1>4, <1>5, <1>6, <1>7 DEF IInv, HeadersLead

\* How many units a read takes.
LEMMA ChunksBounds ==
    ASSUME Types, NEW limit \in Nat \ {0}, NEW n \in Chunks(limit)
    PROVE  /\ n \in 0 .. Len(stream) /\ n <= limit /\ Len(stream) \in Nat
           /\ n = 0 <=> stream = << >>
           /\ ~Segments => n = 0 \/ n = limit \/ EndsPackage(n)
<1>1. Len(stream) \in Nat /\ (stream = << >> <=> Len(stream) = 0)
  BY DEF Types
<1>2. Min({limit, Len(stream)}) \in Int /\ Min({limit, Len(stream)}) <= limit
      /\ Min({limit, Len(stream)}) <= Len(stream)
  <2>1. limit \in Int /\ Len(stream) \in Int
    BY <1>1
  <2> QED
    BY <2>1, MinTwo
<1> QED
  BY <1>1, <1>2 DEF Chunks

\* What a read leaves in the buffer and on the connection.
LEMMA TakeTypes ==
    ASSUME Types, NEW limit \in 1 .. BufferUnits, NEW n \in Chunks(limit), Take(n, limit)
    PROVE  /\ stream' \in Seq(AnyUnits) /\ Len(stream') = Len(stream) - n
           /\ \A i \in 1 .. Len(stream') : stream'[i] = stream[n + i]
           /\ buffer' \in [1 .. Past -> AnyUnits]
           /\ \A i \in 1 .. n : buffer'[i] = stream[i]
           /\ n = 0 => /\ buffer'[1] = Terminated(buffer[1])
                       /\ \A i \in 2 .. Past : buffer'[i] = buffer[i]
<1>1. /\ n \in 0 .. Len(stream) /\ n <= limit /\ Len(stream) \in Nat /\ BufferUnits \in Nat
  BY ChunksBounds, StreamAssumption
<1>2. \A u \in AnyUnits : Terminated(u) \in AnyUnits
  BY DEF Terminated, Nothing, Damaged, Unit, AnyUnits
<1>3. buffer' = [i \in 1 .. Past |->
                   IF i <= n THEN stream[i]
                   ELSE IF i = n + 1 /\ n < limit THEN Terminated(buffer[i]) ELSE buffer[i]]
  BY DEF Take, Filled
<1>4. \A i \in 1 .. Len(stream) : stream[i] \in AnyUnits
  BY DEF Types
<1>5. buffer' \in [1 .. Past -> AnyUnits]
  BY <1>1, <1>2, <1>3, <1>4 DEF Types, Past
<1>6. /\ stream' \in Seq(AnyUnits) /\ Len(stream') = Len(stream) - n
      /\ \A i \in 1 .. Len(stream) - n : stream'[i] = stream[n + i]
  BY <1>1, Suffix DEF Take, Types
<1> QED
  BY <1>1, <1>3, <1>5, <1>6 DEF Past

\* A read does not move headers and what is behind them apart.
LEMMA TakeLeads ==
    ASSUME IInv, NEW limit \in 1 .. BufferUnits, NEW n \in Chunks(limit), Take(n, limit),
           sent' = sent
    PROVE  HeadersLead'
<1>1. /\ n \in 0 .. Len(stream) /\ Len(stream) \in Nat
      /\ Len(stream') = Len(stream) - n
      /\ \A i \in 1 .. Len(stream') : stream'[i] = stream[n + i]
  BY ChunksBounds, TakeTypes, Sizes DEF IInv
<1>2. ASSUME NEW i \in 1 .. Len(stream'), Accepts(stream'[i])
      PROVE  i + FrameUnits - 1 <= Len(stream') /\ IsWhole(stream, i)'
  <2>1. n + i \in 1 .. Len(stream) /\ stream'[i] = stream[n + i]
    BY <1>1
  <2>2. n + i + FrameUnits - 1 <= Len(stream) /\ IsWhole(stream, n + i)
    BY <1>2, <2>1 DEF IInv, HeadersLead
  <2>3. ASSUME NEW q \in 1 .. FrameUnits - 1 PROVE stream'[i + q] = stream[n + i + q]
    <3>1. i + q \in 1 .. Len(stream') /\ n + (i + q) = n + i + q
      BY <1>1, <2>2, Sizes
    <3> QED
      BY <1>1, <3>1
  <2>4. i + FrameUnits - 1 <= Len(stream')
    BY <1>1, <2>2, Sizes
  <2> QED
    BY <2>1, <2>2, <2>3, <2>4 DEF IsWhole
<1> QED
  BY <1>2 DEF HeadersLead

\* A read into the whole buffer, or one that leaves nothing to be read, gets a package
\* whole if it gets its header.
LEMMA TakeWhole ==
    ASSUME ~Segments, IInv, NEW limit \in 1 .. BufferUnits, NEW n \in Chunks(limit),
           Take(n, limit), sent' = sent, limit = BufferUnits \/ stream' = << >>,
           Accepts(buffer'[1])
    PROVE  IsWhole(buffer, 1)'
<1>1. /\ n \in 0 .. Len(stream) /\ Len(stream) \in Nat /\ n <= limit
      /\ n = 0 <=> stream = << >>
      /\ n = 0 \/ n = limit \/ EndsPackage(n)
      /\ FrameUnits \in Nat /\ FrameUnits > 1 /\ BufferUnits \in Nat /\ FrameUnits <= BufferUnits
  BY ChunksBounds, Sizes DEF IInv
<1>2. /\ Len(stream') = Len(stream) - n
      /\ \A i \in 1 .. n : buffer'[i] = stream[i]
      /\ n = 0 => /\ buffer'[1] = Terminated(buffer[1])
                  /\ \A i \in 2 .. Past : buffer'[i] = buffer[i]
  BY TakeTypes DEF IInv
<1>3. CASE n = 0
  <2>1. buffer'[1] = buffer[1]
    BY <1>2, <1>3 DEF Terminated, Accepts, Damaged, Unit
  <2>2. IsWhole(buffer, 1)
    BY <1>1, <1>3, <2>1 DEF IInv, BufferLeads
  <2>3. \A q \in 1 .. FrameUnits - 1 : buffer'[1 + q] = buffer[1 + q]
    BY <1>1, <1>2, <1>3 DEF Past
  <2> QED
    BY <2>1, <2>2, <2>3 DEF IsWhole
<1>4. CASE n > 0
  <2>1. buffer'[1] = stream[1] /\ 1 \in 1 .. Len(stream)
    BY <1>1, <1>2, <1>4
  <2>2. FrameUnits <= Len(stream) /\ IsWhole(stream, 1)
    BY <1>1, <2>1 DEF IInv, HeadersLead
  <2>3. n >= FrameUnits
    <3>1. SUFFICES ASSUME n < FrameUnits PROVE FALSE
      BY <1>1
    <3>2. n + 1 \in 1 .. Len(stream) /\ stream[1 + n].part = n + 1
      <4>1. n \in 1 .. FrameUnits - 1 /\ n + 1 \in 1 .. Len(stream)
        BY <1>1, <1>4, <2>2, <3>1
      <4>2. stream[1 + n] = Unit("data", stream[1].frame, n + 1)
        BY <2>2, <4>1 DEF IsWhole
      <4> QED
        BY <4>1, <4>2 DEF Unit
    <3>3. n # Len(stream) /\ n # BufferUnits
      BY <1>1, <2>2, <3>1
    <3>4. stream' # << >>
      BY <1>1, <1>2, <3>3
    <3>5. EndsPackage(n)
      BY <1>1, <1>4, <3>3, <3>4
    <3> QED
      BY <1>1, <1>4, <3>2, <3>3, <3>5 DEF EndsPackage
  <2>4. \A q \in 1 .. FrameUnits - 1 : buffer'[1 + q] = stream[1 + q]
    BY <1>1, <1>2, <2>3
  <2> QED
    BY <2>1, <2>2, <2>4 DEF IsWhole
<1> QED
  BY <1>1, <1>3, <1>4

\* recv(): what is parsed is what the buffer leads with.
LEMMA RecvStep == ASSUME ~Segments, IInv, Recv PROVE IInv'
<1>1. PICK n \in Chunks(BufferUnits) :
          Parse(n, BufferUnits, {i \in {1} : Accepts(buffer'[i])})
  BY DEF Recv
<1>2. Take(n, BufferUnits) /\ sent' = sent /\ BufferUnits \in 1 .. BufferUnits
  BY <1>1, Sizes DEF Parse, controller
<1>3. HeadersLead'
  BY <1>2, TakeLeads
<1>4. Accepts(buffer'[1]) => IsWhole(buffer, 1)'
  BY <1>2, TakeWhole
<1>5. /\ stream' \in Seq(AnyUnits) /\ buffer' \in [1 .. Past -> AnyUnits]
      /\ sent' \in Nat
  BY <1>2, TakeTypes DEF IInv, Types
<1>6. CASE Accepts(buffer'[1])
  <2>1. {i \in {1} : Accepts(buffer'[i])} = {1}
    BY <1>6
  <2>2. storage' = SubSeq(buffer', 2, FrameUnits)
    <3>1. storage' = SubSeq(buffer', Max({1}) + 1, Max({1}) + FrameUnits - 1)
      BY <1>1, <2>1 DEF Parse
    <3>2. Max({1}) + 1 = 2 /\ Max({1}) + FrameUnits - 1 = FrameUnits
      BY MaxOne, Sizes
    <3> QED
      BY <3>1, <3>2
  <2>3. FrameUnits \in 1 .. Past /\ Past \in Nat
    BY Sizes DEF Past
  <2>4. /\ storage' \in [1 .. FrameUnits - 1 -> AnyUnits]
        /\ \A i \in 1 .. FrameUnits - 1 : storage'[i] = buffer'[i + 1]
    BY <1>5, <2>2, <2>3, Payload, Sizes
  <2>5. /\ buffer'[1].frame \in 1 .. sent'
        /\ \A i \in 1 .. FrameUnits - 1 :
              buffer'[i + 1] = Unit("data", buffer'[1].frame, i + 1)
    BY <1>4, <1>6, Sizes DEF IsWhole
  <2>6. WholeFrames'
    BY <2>4, <2>5 DEF WholeFrames
  <2> QED
    BY <1>3, <1>4, <1>5, <2>4, <2>6 DEF IInv, Types, BufferLeads
<1>7. CASE ~Accepts(buffer'[1])
  <2>1. {i \in {1} : Accepts(buffer'[i])} = {}
    BY <1>7
  <2>2. storage' = storage
    BY <1>1, <2>1 DEF Parse
  <2>3. WholeFrames'
    BY <1>2, <2>2 DEF IInv, WholeFrames
  <2> QED
    BY <1>3, <1>5, <1>7, <2>2, <2>3 DEF IInv, Types, BufferLeads
<1> QED
  BY <1>6, <1>7

\* start() and stop() may cut a package, but never leave the connection empty with a
\* header of one.
LEMMA ReplyStep == ASSUME ~Segments, IInv, ControlReplied PROVE IInv'
<1>1. PICK n \in Chunks(1) : Take(n, 1)
  BY DEF ControlReplied
<1>2. sent' = sent /\ storage' = storage /\ 1 \in 1 .. BufferUnits
  BY Sizes DEF ControlReplied, controller
<1>3. HeadersLead'
  BY <1>1, <1>2, TakeLeads
<1>4. BufferLeads'
  BY <1>1, <1>2, TakeWhole DEF BufferLeads
<1>5. /\ stream' \in Seq(AnyUnits) /\ buffer' \in [1 .. Past -> AnyUnits]
      /\ sent' \in Nat
  BY <1>1, <1>2, TakeTypes DEF IInv, Types
<1>6. WholeFrames'
  BY <1>2 DEF IInv, WholeFrames
<1> QED
  BY <1>2, <1>3, <1>4, <1>5, <1>6 DEF IInv, Types

\* Steps that leave the bytes alone.
LEMMA Kept ==
    ASSUME IInv, UNCHANGED <<sent, stream, buffer, storage>>
    PROVE  IInv'
  BY DEF IInv, Types, HeadersLead, BufferLeads, IsWhole, WholeFrames

\* No step breaks the invariant.
LEMMA InductiveStep == ASSUME ~Segments, IInv, [Next]_vars PROVE IInv'
<1>1. CASE UNCHANGED vars
  BY <1>1, Kept DEF vars
<1>2. CASE SendData
  <2>1. sent \in Nat /\ sent' = sent + 1 /\ Emit(Package("data", sent', FrameUnits))
    BY <1>2 DEF SendData, IInv, Types
  <2> QED
    BY <2>1, EmitStep, Sizes
<1>3. CASE SendText
  <2>1. sent' = sent /\ sent \in Nat /\ Emit(Package("text", 0, TextUnits))
        /\ TextUnits \in Nat \ {0}
    BY <1>3, StreamAssumption DEF SendText, IInv, Types
  <2> QED
    BY <2>1, EmitStep
<1>4. CASE Answer
  <2>1. sent' = sent /\ sent \in Nat /\ Emit(Package("reply", 0, 1))
    BY <1>4 DEF Answer, IInv, Types
  <2> QED
    BY <2>1, EmitStep
<1>5. CASE PeerCloses
  BY <1>5, Kept DEF PeerCloses
<1>6. ASSUME NEW op \in {"start", "stop"}, CallControl(op) PROVE IInv'
  BY <1>6, Kept DEF CallControl
<1>7. CASE ControlReplied
  BY <1>7, ReplyStep
<1>8. CASE Recv
  BY <1>8, RecvStep
<1> QED
  BY <1>1, <1>2, <1>3, <1>4, <1>5, <1>6, <1>7, <1>8 DEF Next

(* recv() returns "true if valid, parseable data was received"              *)
(* (rtde_handler.hpp:147), whatever the size of packages and of the buffer, *)
(* and however far the receiver falls behind: a frame that the buffer or a  *)
(* START or PAUSE reply has cut is never parsed, nor is one that the end of *)
(* the connection repeats put together from two.  The connection must       *)
(* deliver whole packages.                                                  *)
THEOREM FramesWhole == ASSUME ~Segments PROVE Spec => []WholeFrames
<1>1. IInv /\ [Next]_vars => IInv'
  BY InductiveStep
<1>2. IInv => WholeFrames
  BY DEF IInv
<1> QED
  BY InitIInv, <1>1, <1>2, PTL DEF Spec

-----------------------------------------------------------------------------
(* Types, also if reads end inside packages. *)

\* The larger of two sizes.
LEMMA MaxTwo ==
    ASSUME NEW a \in Int, NEW b \in Int
    PROVE  Max({a, b}) \in Int /\ a <= Max({a, b}) /\ b <= Max({a, b})
<1>1. \E x \in {a, b} : \A y \in {a, b} : y <= x
  <2>1. CASE a <= b
    BY <2>1
  <2>2. CASE b <= a
    BY <2>2
  <2> QED
    BY <2>1, <2>2
<1> QED
  BY <1>1 DEF Max

\* What bounds the parts of a package.
LEMMA Parts ==
    /\ Max({FrameUnits, TextUnits}) \in Int
    /\ FrameUnits <= Max({FrameUnits, TextUnits})
    /\ TextUnits <= Max({FrameUnits, TextUnits})
    /\ FrameUnits \in Nat /\ TextUnits \in Nat
    /\ FrameUnits > 1 /\ TextUnits > 1 /\ MaxPackages \in Nat
<1>1. FrameUnits \in Int /\ TextUnits \in Int
  BY StreamAssumption
<1> QED
  BY <1>1, MaxTwo, StreamAssumption

\* Units of any number are units.
LEMMA UnitsAreAny == Units \subseteq AnyUnits
  BY Parts DEF Units, AnyUnits

\* The types with bounds are types.
LEMMA TypeOKTypes == TypeOK => Types
<1> SUFFICES ASSUME TypeOK PROVE Types
  OBVIOUS
<1>1. stream \in Seq(AnyUnits)
  <2>1. stream \in Seq(Units) /\ \A i \in 1 .. Len(stream) : stream[i] \in AnyUnits
    BY UnitsAreAny DEF TypeOK
  <2> QED
    BY <2>1
<1> QED
  BY <1>1, UnitsAreAny DEF TypeOK, Types

\* Constant units.
LEMMA SomeUnits == {Nothing, Damaged, Foreign} \subseteq Units
  BY Parts DEF Nothing, Damaged, Foreign, Unit, Units

\* At first.
LEMMA TypeInit == Init => TypeOK
<1> SUFFICES ASSUME Init PROVE TypeOK
  OBVIOUS
<1>1. << >> \in Seq(Units) /\ << >> \in Seq({"start", "stop"})
  OBVIOUS
<1>2. {streaming, closed} \subseteq BOOLEAN
  BY DEF Init
<1> QED
  BY <1>1, <1>2, SomeUnits, StreamAssumption DEF Init, TypeOK, Unknown, Past

\* What the controller sends.
LEMMA EmitTypes ==
    ASSUME TypeOK, NEW kind \in {"data", "text", "reply"}, NEW f \in 0 .. MaxPackages,
           NEW k \in 1 .. Max({FrameUnits, TextUnits}),
           Emit(Package(kind, f, k)), sent' \in {sent, sent + 1},
           requests' \in Seq({"start", "stop"}), streaming' \in BOOLEAN
    PROVE  TypeOK'
<1> DEFINE p == Package(kind, f, k)
<1>1. k \in Nat
  BY Parts
<1>2. p \in [1 .. k -> Units]
  BY Parts DEF Package, Unit, Units
<1> HIDE DEF p
<1>3. stream' \in Seq(Units)
  BY <1>1, <1>2, Behind DEF Emit, TypeOK, p
<1>4. packages' \in 0 .. MaxPackages /\ sent' \in 0 .. packages'
  BY Parts DEF Emit, TypeOK
<1> QED
  BY <1>3, <1>4 DEF Emit, TypeOK

\* What a read leaves in the buffer and on the connection.
LEMMA TakeTypeOK ==
    ASSUME TypeOK, NEW limit \in 1 .. BufferUnits, NEW n \in Chunks(limit), Take(n, limit)
    PROVE  /\ stream' \in Seq(Units) /\ buffer' \in [1 .. Past -> Units]
           /\ buffer'[Past] = Foreign
<1>1. /\ n \in 0 .. Len(stream) /\ n <= limit /\ Len(stream) \in Nat /\ BufferUnits \in Nat
  BY ChunksBounds, StreamAssumption, TypeOKTypes
<1>2. \A u \in Units : Terminated(u) \in Units
  BY SomeUnits DEF Terminated
<1>3. \A i \in 1 .. Len(stream) : stream[i] \in Units
  BY DEF TypeOK
<1>4. buffer' \in [1 .. Past -> Units]
  BY <1>1, <1>2, <1>3 DEF Take, Filled, TypeOK, Past
<1>6. buffer'[Past] = Foreign
  BY <1>1 DEF Take, Filled, TypeOK, Past
<1>5. stream' \in Seq(Units)
  BY <1>1, Suffix DEF Take, TypeOK
<1> QED
  BY <1>4, <1>5, <1>6

\* recv() parses a part of the buffer.
LEMMA RecvTypes == ASSUME TypeOK, Recv PROVE TypeOK'
<1>1. PICK n \in Chunks(BufferUnits) :
          Parse(n, BufferUnits, {i \in {1} : Accepts(buffer'[i])})
  BY DEF Recv
<1>2. stream' \in Seq(Units) /\ buffer' \in [1 .. Past -> Units] /\ buffer'[Past] = Foreign
  BY <1>1, TakeTypeOK, Sizes DEF Parse
<1>3. storage' \in [1 .. FrameUnits - 1 -> Units]
  <2>1. CASE Accepts(buffer'[1])
    <3>1. {i \in {1} : Accepts(buffer'[i])} = {1}
      BY <2>1
    <3>2. storage' = SubSeq(buffer', Max({1}) + 1, Max({1}) + FrameUnits - 1)
      BY <1>1, <3>1 DEF Parse
    <3>3. Max({1}) + 1 = 2 /\ Max({1}) + FrameUnits - 1 = FrameUnits
      BY MaxOne, Sizes
    <3>4. FrameUnits \in 1 .. Past /\ Past \in Nat
      BY Sizes DEF Past
    <3> QED
      BY <1>2, <3>2, <3>3, <3>4, Payload, Sizes
  <2>2. CASE ~Accepts(buffer'[1])
    <3>1. {i \in {1} : Accepts(buffer'[i])} = {}
      BY <2>2
    <3> QED
      BY <1>1, <3>1 DEF Parse, TypeOK
  <2> QED
    BY <2>1, <2>2
<1>4. misses' \in Nat \cup {Unknown}
  BY <1>1 DEF Parse, Counted, TypeOK, Unknown
<1>5. UNCHANGED <<controller, call, calls>>
  BY <1>1 DEF Parse
<1> QED
  BY <1>2, <1>3, <1>4, <1>5 DEF TypeOK, controller

\* No step spoils the types.
LEMMA TypeStep == ASSUME TypeOK, [Next]_vars PROVE TypeOK'
<1>1. CASE UNCHANGED vars
  BY <1>1 DEF vars, TypeOK
<1>2. CASE SendData
  <2>1. /\ sent' = sent + 1 /\ Emit(Package("data", sent', FrameUnits))
        /\ requests' = requests /\ streaming' = streaming
    BY <1>2 DEF SendData
  <2>2. sent' \in 0 .. MaxPackages
    BY <2>1, Parts DEF Emit, TypeOK
  <2> QED
    BY <2>1, <2>2, EmitTypes, Parts DEF TypeOK
<1>3. CASE SendText
  <2>1. /\ Emit(Package("text", 0, TextUnits)) /\ sent' \in {sent, sent + 1}
        /\ requests' \in Seq({"start", "stop"}) /\ streaming' \in BOOLEAN
    BY <1>3 DEF SendText, TypeOK
  <2>2. 0 \in 0 .. MaxPackages /\ TextUnits \in 1 .. Max({FrameUnits, TextUnits})
    BY Parts
  <2> QED
    BY <2>1, <2>2, EmitTypes
<1>4. CASE Answer
  <2>1. requests' \in Seq({"start", "stop"}) /\ streaming' \in BOOLEAN
    BY <1>4 DEF Answer, TypeOK
  <2>2. Emit(Package("reply", 0, 1)) /\ sent' \in {sent, sent + 1}
    BY <1>4 DEF Answer
  <2>3. 0 \in 0 .. MaxPackages /\ 1 \in 1 .. Max({FrameUnits, TextUnits})
    BY Parts
  <2> QED
    BY <2>1, <2>2, <2>3, EmitTypes
<1>5. CASE PeerCloses
  BY <1>5 DEF PeerCloses, TypeOK
<1>6. ASSUME NEW op \in {"start", "stop"}, CallControl(op) PROVE TypeOK'
  <2>1. requests' \in Seq({"start", "stop"})
    BY <1>6 DEF CallControl, TypeOK
  <2> QED
    BY <1>6, <2>1, StreamAssumption DEF CallControl, TypeOK
<1>7. CASE ControlReplied
  <2>1. PICK n \in Chunks(1) : Take(n, 1)
    BY <1>7 DEF ControlReplied
  <2>2. stream' \in Seq(Units) /\ buffer' \in [1 .. Past -> Units] /\ buffer'[Past] = Foreign
    BY <2>1, TakeTypeOK, Sizes
  <2> QED
    BY <1>7, <2>2 DEF ControlReplied, controller, TypeOK, Unknown
<1>8. CASE Recv
  BY <1>8, RecvTypes
<1> QED
  BY <1>1, <1>2, <1>3, <1>4, <1>5, <1>6, <1>7, <1>8 DEF Next

(* The variables keep their types, whatever reads take; in particular the   *)
(* byte that terminates what was read never lands behind the buffer         *)
(* (con.cpp:84-87).                                                         *)
THEOREM TypesKept == Spec => []TypeOK
<1>1. TypeOK /\ [Next]_vars => TypeOK'
  BY TypeStep
<1> QED
  BY TypeInit, <1>1, PTL DEF Spec

-----------------------------------------------------------------------------
(* A receiver that fell behind finds its place again.                       *)

\* The largest of some numbers up to n.
LEMMA MaxElement ==
    ASSUME NEW n \in Nat, NEW S \in SUBSET (0 .. n), S # {}
    PROVE  Max(S) \in S /\ \A y \in S : y <= Max(S)
<1> DEFINE Less == {pair \in Nat \X Nat : pair[1] < pair[2]}
           Rest == {n - y : y \in S}
<1>1. IsWellFoundedOn(Less, Nat)
  BY NatLessThanWellFounded DEF OpToRel
<1>2. Rest # {} /\ Rest \subseteq Nat
  <2>1. \A y \in S : n - y \in Nat
    OBVIOUS
  <2> QED
    BY <2>1
<1> HIDE DEF Less, Rest
<1>3. PICK x \in Rest : \A y \in Rest : <<y, x>> \notin Less
  BY <1>1, <1>2, WFMin
<1>4. \A y \in Rest : x <= y
  <2>1. \A y \in Rest : y \in Nat /\ x \in Nat /\ ~(y < x)
    BY <1>2, <1>3 DEF Less
  <2> QED
    BY <2>1
<1>5. PICK m \in S : x = n - m
  BY <1>3 DEF Rest
<1>6. \A y \in S : y <= m
  <2> SUFFICES ASSUME NEW y \in S PROVE y <= m
    OBVIOUS
  <2>1. n - m <= n - y
    BY <1>4, <1>5 DEF Rest
  <2> QED
    BY <2>1
<1> QED
  BY <1>6 DEF Max

\* Packages and the buffer are multiples of what the cut moves in.
Turns == FrameUnits \div Stride

LEMMA Strides ==
    /\ Stride \in Nat /\ Turns \in Nat /\ Turns > 0
    /\ FrameUnits = Stride * Turns
    /\ \E b \in Nat : BufferUnits = Stride * b
<1> DEFINE S == {d \in 1 .. FrameUnits : FrameUnits % d = 0 /\ BufferUnits % d = 0}
<1>1. 1 \in S /\ S \subseteq 0 .. FrameUnits
  BY Sizes
<1>2. Stride \in S
  BY <1>1, MaxElement, Sizes DEF Stride
<1>3. Stride \in 1 .. FrameUnits /\ FrameUnits % Stride = 0 /\ BufferUnits % Stride = 0
  BY <1>2
<1>4. ASSUME NEW a \in Nat, a % Stride = 0 PROVE a \div Stride \in Nat /\ a = Stride * (a \div Stride)
  BY <1>3, <1>4, Sizes
<1>5. Turns \in Nat /\ FrameUnits = Stride * Turns
  BY <1>3, <1>4, Sizes DEF Turns
<1>6. Turns > 0
  <2>1. CASE Turns = 0
    BY <1>3, <1>5, <2>1, Sizes
  <2> QED
    BY <1>5, <2>1
<1> QED
  BY <1>3, <1>4, <1>5, <1>6, Sizes

\* A multiple is not one with a rest.
LEMMA NoRest ==
    ASSUME NEW f \in Nat, NEW a \in Nat, NEW b \in Nat, NEW r \in 1 .. f - 1
    PROVE  f * a # f * b + r
<1>1. CASE a <= b
  <2>1. f * a <= f * b
    BY <1>1
  <2> QED
    BY <2>1
<1>2. CASE a > b
  <2>1. PICK e \in Nat : a = b + 1 + e
    <3>1. a - b - 1 \in Nat /\ a = b + 1 + (a - b - 1)
      BY <1>2
    <3> QED
      BY <3>1
  <2>2. f * a = f * b + f + f * e /\ f * e \in Nat /\ f * b \in Nat
    BY <2>1
  <2> QED
    BY <2>2
<1> QED
  BY <1>1, <1>2

\* After that many full reads the cut is where it began.
LEMMA Round ==
    ASSUME NEW d \in Nat, NEW r \in 1 .. FrameUnits - 1
    PROVE  Turns * BufferUnits # FrameUnits * d + r
<1>1. PICK b \in Nat : BufferUnits = Stride * b
  BY Strides
<1>2. Turns * BufferUnits = FrameUnits * b
  <2>1. Turns * (Stride * b) = (Stride * Turns) * b
    BY Strides
  <2> QED
    BY <1>1, <2>1, Strides
<1> QED
  BY <1>2, NoRest, Sizes

\* On the connection, data packages follow each other whole.
Data(i, j) == \A k \in i .. j : stream[k].kind = "data"
Follows(i, j) == \E d \in Nat : stream[i].part + (j - i) = FrameUnits * d + stream[j].part

Chained ==
    /\ \A i \in 1 .. Len(stream) : stream[i].kind = "data" => stream[i].part \in 1 .. FrameUnits
    /\ \A i, j \in 1 .. Len(stream) : i < j /\ Data(i, j) => Follows(i, j)
    /\ \A i \in 1 .. Len(stream) - 1 :
          stream[i].kind = "data" /\ stream[i + 1].kind # "data" => stream[i + 1].part = 1
    /\ stream # << >> /\ stream[Len(stream)].kind = "data"
          => stream[Len(stream)].part = FrameUnits

\* Where a package is cut, the cut has moved on with every read that was rejected.
Shifted ==
    misses # Unknown =>
        /\ misses \in Nat /\ misses < Turns
        /\ stream # << >> /\ stream[1].part # 1 =>
              \E d \in Nat : (misses + 1) * BufferUnits = FrameUnits * d + (stream[1].part - 1)

Place == Types /\ Chained /\ Shifted

\* A package is sent.
LEMMA EmitPlace ==
    ASSUME Place, NEW kind \in {"data", "text", "reply"}, NEW f \in Nat, NEW k \in Nat \ {0},
           Emit(Package(kind, f, k)), sent' \in Nat, kind = "data" => k = FrameUnits
    PROVE  Place'
<1> DEFINE p == Package(kind, f, k)
           L == Len(stream)
<1>1. stream' = stream \o p /\ buffer' = buffer /\ storage' = storage /\ misses' = misses
  BY DEF Emit
<1>2. p \in [1 .. k -> AnyUnits] /\ \A i \in 1 .. k : p[i] = Unit(kind, f, i)
  BY DEF Package, Unit, AnyUnits
<1> HIDE DEF p
<1>3. /\ stream' \in Seq(AnyUnits) /\ L \in Nat /\ Len(stream') = L + k
      /\ \A i \in 1 .. L : stream'[i] = stream[i]
      /\ \A i \in 1 .. k : stream'[L + i] = p[i]
  <2>1. stream \in Seq(AnyUnits)
    BY DEF Place, Types
  <2>2. /\ stream \o p \in Seq(AnyUnits) /\ Len(stream) \in Nat
        /\ Len(stream \o p) = Len(stream) + k
        /\ \A i \in 1 .. Len(stream) : (stream \o p)[i] = stream[i]
        /\ \A i \in 1 .. k : (stream \o p)[Len(stream) + i] = p[i]
    BY <1>1, <1>2, <2>1, Behind
  <2> QED
    BY <1>1, <2>2
<1>4. Types'
  BY <1>1, <1>3 DEF Place, Types
<1>5. \A i \in 1 .. k : stream'[L + i].kind = kind /\ stream'[L + i].part = i
  BY <1>2, <1>3 DEF Unit
<1>6. \A i \in 1 .. L + k : i \in 1 .. L \/ \E q \in 1 .. k : i = L + q
  <2> SUFFICES ASSUME NEW i \in 1 .. L + k, i \notin 1 .. L PROVE \E q \in 1 .. k : i = L + q
    OBVIOUS
  <2>1. i - L \in 1 .. k /\ i = L + (i - L)
    BY <1>3
  <2> QED
    BY <2>1
<1>7. Chained'
  <2>1. ASSUME NEW i \in 1 .. L + k, stream'[i].kind = "data"
        PROVE  stream'[i].part \in 1 .. FrameUnits
    <3>1. CASE i \in 1 .. L
      BY <1>3, <2>1, <3>1 DEF Place, Chained
    <3>2. ASSUME NEW q \in 1 .. k, i = L + q PROVE stream'[i].part \in 1 .. FrameUnits
      BY <1>5, <2>1, <3>2
    <3> QED
      BY <1>6, <3>1, <3>2
  <2>2. ASSUME NEW i \in 1 .. L + k, NEW j \in 1 .. L + k, i < j, Data(i, j)'
        PROVE  Follows(i, j)'
    <3>1. CASE j \in 1 .. L
      <4>1. i \in 1 .. L /\ \A c \in i .. j : c \in 1 .. L
        BY <1>3, <2>2, <3>1
      <4>2. Data(i, j)
        BY <1>3, <2>2, <4>1 DEF Data
      <4>3. Follows(i, j)
        BY <2>2, <3>1, <4>1, <4>2 DEF Place, Chained
      <4> QED
        BY <1>3, <3>1, <4>1, <4>3 DEF Follows
    <3>2. ASSUME NEW q \in 1 .. k, j = L + q PROVE Follows(i, j)'
      <4>1. kind = "data" /\ k = FrameUnits /\ stream'[j].part = q
        <5>1. j \in i .. j
          BY <2>2
        <5>2. stream'[j].kind = "data"
          BY <2>2, <5>1 DEF Data
        <5> QED
          BY <1>5, <3>2, <5>2
      <4>2. CASE i \in 1 .. L
        <5>1. stream # << >> /\ L \in 1 .. L /\ \A c \in i .. L : c \in i .. j /\ c \in 1 .. L
          BY <1>3, <3>2, <4>2
        <5>2. Data(i, L)
          BY <1>3, <2>2, <5>1 DEF Data
        <5>3. L \in i .. L
          BY <4>2, <1>3
        <5>4. stream[L].part = FrameUnits
          BY <5>1, <5>2, <5>3 DEF Data, Place, Chained
        <5>5. PICK d \in Nat : stream[i].part + (L - i) = FrameUnits * d + FrameUnits
          <6>1. CASE i = L
            <7>1. stream[i].part + (L - i) = FrameUnits * 0 + FrameUnits
              BY <1>3, <5>4, <6>1, Sizes
            <7> QED
              BY <7>1
          <6>2. CASE i < L
            BY <4>2, <5>1, <5>2, <5>4, <6>2 DEF Follows, Place, Chained
          <6> QED
            BY <1>3, <4>2, <6>1, <6>2
        <5>6. stream[i].part \in Int
          <6>1. stream[i] \in AnyUnits
            BY <4>2 DEF Place, Types
          <6> QED
            BY <6>1 DEF AnyUnits
        <5>7. stream'[i].part + (j - i) = FrameUnits * (d + 1) + q
          <6>1. FrameUnits * (d + 1) = FrameUnits * d + FrameUnits
            BY Sizes
          <6>2. FrameUnits * d \in Nat
            BY Sizes
          <6>3. stream'[i].part = stream[i].part
            BY <1>3, <4>2
          <6>4. j - i = (L - i) + q
            BY <1>3, <3>2, <4>2
          <6>5. stream[i].part + ((L - i) + q) = (stream[i].part + (L - i)) + q
            BY <1>3, <5>6
          <6>6. (FrameUnits * d + FrameUnits) + q = FrameUnits * (d + 1) + q
            BY <6>1
          <6> QED
            BY <5>5, <6>3, <6>4, <6>5, <6>6
        <5>8. d + 1 \in Nat
          OBVIOUS
        <5> QED
          BY <4>1, <5>7, <5>8 DEF Follows
      <4>3. ASSUME NEW o \in 1 .. k, i = L + o PROVE Follows(i, j)'
        <5>1. stream'[i].part = o
          BY <1>5, <4>3
        <5>2. stream'[i].part + (j - i) = FrameUnits * 0 + stream'[j].part
          BY <1>3, <3>2, <4>1, <4>3, <5>1, Sizes
        <5> QED
          BY <5>2 DEF Follows
      <4> QED
        BY <1>6, <4>2, <4>3
    <3> QED
      BY <1>6, <3>1, <3>2
  <2>3. ASSUME NEW i \in 1 .. L + k - 1, stream'[i].kind = "data", stream'[i + 1].kind # "data"
        PROVE  stream'[i + 1].part = 1
    <3>1. CASE i + 1 \in 1 .. L
      <4>1. i \in 1 .. L - 1 /\ i \in 1 .. L
        BY <1>3, <3>1
      <4> QED
        BY <1>3, <2>3, <3>1, <4>1 DEF Place, Chained
    <3>2. ASSUME NEW q \in 1 .. k, i + 1 = L + q PROVE stream'[i + 1].part = 1
      <4>1. q = 1 \/ (q - 1 \in 1 .. k /\ i = L + (q - 1))
        BY <1>3, <3>2
      <4> QED
        BY <1>5, <2>3, <3>2, <4>1
    <3>3. i + 1 \in 1 .. L + k
      BY <1>3
    <3> QED
      BY <1>6, <3>1, <3>2, <3>3
  <2>4. stream'[L + k].kind = "data" => stream'[L + k].part = FrameUnits
    BY <1>5
  <2> QED
    BY <1>3, <2>1, <2>2, <2>3, <2>4 DEF Chained
<1>8. Shifted'
  <2>1. CASE stream = << >>
    <3>1. stream'[1].part = 1
      <4>1. L = 0 /\ 1 \in 1 .. k /\ L + 1 = 1
        BY <2>1
      <4> QED
        BY <1>5, <4>1
    <3> QED
      BY <1>1, <3>1 DEF Place, Shifted
  <2>2. CASE stream # << >>
    <3>1. 1 \in 1 .. L
      BY <2>2 DEF Place, Types
    <3> QED
      BY <1>1, <1>3, <2>2, <3>1 DEF Place, Shifted
  <2> QED
    BY <2>1, <2>2
<1> QED
  BY <1>4, <1>7, <1>8 DEF Place

\* What a read leaves on the connection is still a chain.
LEMMA TakeChained ==
    ASSUME Types, Chained, NEW limit \in 1 .. BufferUnits, NEW n \in Chunks(limit),
           Take(n, limit)
    PROVE  Chained'
<1>1. /\ n \in 0 .. Len(stream) /\ Len(stream) \in Nat
      /\ Len(stream') = Len(stream) - n
      /\ stream' \in Seq(AnyUnits)
      /\ \A i \in 1 .. Len(stream') : stream'[i] = stream[n + i]
  BY ChunksBounds, TakeTypes, Sizes
<1>2. \A i \in 1 .. Len(stream') : n + i \in 1 .. Len(stream)
  BY <1>1
<1>3. ASSUME NEW i \in 1 .. Len(stream'), stream'[i].kind = "data"
      PROVE  stream'[i].part \in 1 .. FrameUnits
  BY <1>1, <1>2, <1>3 DEF Chained
<1>4. ASSUME NEW i \in 1 .. Len(stream'), NEW j \in 1 .. Len(stream'), i < j, Data(i, j)'
      PROVE  Follows(i, j)'
  <2>1. ASSUME NEW k \in (n + i) .. (n + j) PROVE stream[k].kind = "data"
    <3>1. k - n \in i .. j /\ k - n \in 1 .. Len(stream') /\ n + (k - n) = k
      BY <1>1
    <3>2. stream'[k - n].kind = "data"
      BY <1>4, <3>1 DEF Data
    <3> QED
      BY <1>1, <3>1, <3>2
  <2>2. Follows(n + i, n + j)
    <3>1. n + i < n + j /\ Data(n + i, n + j)
      BY <1>1, <1>4, <2>1 DEF Data
    <3> QED
      BY <1>2, <3>1 DEF Chained
  <2>3. (n + j) - (n + i) = j - i
    BY <1>1
  <2> QED
    BY <1>1, <2>2, <2>3 DEF Follows
<1>5. ASSUME NEW i \in 1 .. Len(stream') - 1,
             stream'[i].kind = "data", stream'[i + 1].kind # "data"
      PROVE  stream'[i + 1].part = 1
  <2>1. /\ i \in 1 .. Len(stream') /\ i + 1 \in 1 .. Len(stream')
        /\ n + i \in 1 .. Len(stream) - 1 /\ n + (i + 1) = (n + i) + 1
    BY <1>1
  <2> QED
    BY <1>1, <1>5, <2>1 DEF Chained
<1>6. ASSUME stream' # << >>, stream'[Len(stream')].kind = "data"
      PROVE  stream'[Len(stream')].part = FrameUnits
  <2>1. Len(stream') \in 1 .. Len(stream') /\ n + Len(stream') = Len(stream) /\ stream # << >>
    BY <1>1, <1>6
  <2> QED
    BY <1>1, <1>6, <2>1 DEF Chained
<1> QED
  BY <1>3, <1>4, <1>5, <1>6 DEF Chained

\* A read of data packages that leaves a package cut has filled the buffer.
LEMMA CutFills ==
    ASSUME ~Segments, Types, Chained, NEW n \in Chunks(BufferUnits), Take(n, BufferUnits),
           n # 0, \A i \in 1 .. n : stream[i].kind = "data",
           stream' # << >>, stream'[1].part # 1
    PROVE  \E e \in Nat : stream[1].part + BufferUnits = FrameUnits * e + stream'[1].part
<1>1. /\ n \in 1 .. Len(stream) /\ Len(stream) \in Nat /\ n \in Nat
      /\ n = BufferUnits \/ EndsPackage(n)
      /\ Len(stream') = Len(stream) - n
      /\ stream' \in Seq(AnyUnits)
      /\ \A i \in 1 .. Len(stream') : stream'[i] = stream[n + i]
  BY ChunksBounds, TakeTypes, Sizes
<1>2. /\ 1 \in 1 .. Len(stream') /\ stream'[1] = stream[n + 1]
      /\ n + 1 \in 1 .. Len(stream) /\ n \in 1 .. Len(stream) - 1 /\ n # Len(stream)
      /\ 1 \in 1 .. Len(stream) /\ 1 < n + 1
  BY <1>1
<1>3. n = BufferUnits
  BY <1>1, <1>2 DEF EndsPackage
<1>4. stream[n + 1].kind = "data"
  BY <1>1, <1>2 DEF Chained
<1>5. Data(1, n + 1)
  <2>1. \A k \in 1 .. n + 1 : k \in 1 .. n \/ k = n + 1
    BY <1>1
  <2> QED
    BY <1>4, <2>1 DEF Data
<1>6. Follows(1, n + 1)
  BY <1>2, <1>5 DEF Chained
<1>7. (n + 1) - 1 = BufferUnits
  BY <1>1, <1>3
<1> QED
  BY <1>2, <1>6, <1>7 DEF Follows

\* A read that is rejected has not come round yet.
LEMMA RecvShifted == ASSUME ~Segments, Place, Recv PROVE Shifted'
<1>1. PICK n \in Chunks(BufferUnits) :
          Parse(n, BufferUnits, {i \in {1} : Accepts(buffer'[i])})
  BY DEF Recv
<1> DEFINE hit == {i \in {1} : Accepts(buffer'[i])} # {}
<1>2. Take(n, BufferUnits) /\ Counted(n, hit) /\ BufferUnits \in 1 .. BufferUnits
  BY <1>1, Sizes DEF Parse
<1>3. hit <=> Accepts(buffer'[1])
  OBVIOUS
<1> HIDE DEF hit
<1> SUFFICES ASSUME misses' # Unknown
             PROVE  /\ misses' \in Nat /\ misses' < Turns
                    /\ stream' # << >> /\ stream'[1].part # 1 =>
                          \E d \in Nat : (misses' + 1) * BufferUnits
                                            = FrameUnits * d + (stream'[1].part - 1)
  BY DEF Shifted
<1>4. n # 0 /\ \A i \in 1 .. n : stream[i].kind = "data"
  BY <1>2 DEF Counted
<1>5. /\ n \in 1 .. Len(stream) /\ Len(stream) \in Nat
      /\ 1 \in 1 .. n /\ 1 \in 1 .. Len(stream) /\ stream # << >>
      /\ buffer'[1] = stream[1]
      /\ stream' \in Seq(AnyUnits)
  BY <1>2, <1>4, ChunksBounds, TakeTypes DEF Place, Types
<1>6. stream[1].kind = "data" /\ stream[1].part \in 1 .. FrameUnits
  BY <1>4, <1>5 DEF Place, Chained
<1>7. stream' # << >> /\ stream'[1].part # 1 =>
          \E e \in Nat : stream[1].part + BufferUnits = FrameUnits * e + stream'[1].part
  BY <1>2, <1>4, CutFills DEF Place
<1>8. stream' # << >> => stream'[1].part \in Nat
  <2>1. stream' # << >> => stream'[1] \in AnyUnits
    BY <1>5
  <2> QED
    BY <2>1 DEF AnyUnits
<1>9. CASE hit
  <2>1. misses' = 0
    BY <1>2, <1>4, <1>9 DEF Counted
  <2>2. stream[1].part = 1
    BY <1>3, <1>5, <1>9 DEF Accepts
  <2>3. ASSUME stream' # << >>, stream'[1].part # 1
        PROVE  \E d \in Nat : (misses' + 1) * BufferUnits
                                 = FrameUnits * d + (stream'[1].part - 1)
    <3>1. PICK e \in Nat : stream[1].part + BufferUnits = FrameUnits * e + stream'[1].part
      BY <1>7, <2>3
    <3>2. FrameUnits * e \in Nat /\ stream'[1].part \in Nat /\ (misses' + 1) * BufferUnits = BufferUnits
      BY <1>8, <2>1, <2>3, Sizes
    <3>3. (misses' + 1) * BufferUnits = FrameUnits * e + (stream'[1].part - 1)
      BY <2>2, <3>1, <3>2, Sizes
    <3> QED
      BY <3>3
  <2> QED
    BY <2>1, <2>3, Strides
<1>10. CASE ~hit
  <2>1. misses # Unknown /\ misses' = misses + 1
    BY <1>2, <1>4, <1>10 DEF Counted
  <2>2. stream[1].part # 1
    BY <1>3, <1>5, <1>6, <1>10 DEF Accepts
  <2>3. misses \in Nat /\ misses < Turns
    BY <2>1 DEF Place, Shifted
  <2>4. PICK d \in Nat : (misses + 1) * BufferUnits = FrameUnits * d + (stream[1].part - 1)
    BY <1>5, <2>1, <2>2 DEF Place, Shifted
  <2>5. misses + 1 # Turns
    <3>1. stream[1].part - 1 \in 1 .. FrameUnits - 1
      BY <1>6, <2>2, Sizes
    <3> QED
      BY <2>4, <3>1, Round
  <2>6. misses' \in Nat /\ misses' < Turns
    BY <2>1, <2>3, <2>5, Strides
  <2>7. ASSUME stream' # << >>, stream'[1].part # 1
        PROVE  \E c \in Nat : (misses' + 1) * BufferUnits
                                 = FrameUnits * c + (stream'[1].part - 1)
    <3>1. PICK e \in Nat : stream[1].part + BufferUnits = FrameUnits * e + stream'[1].part
      BY <1>7, <2>7
    <3>2. (misses' + 1) * BufferUnits = (misses + 1) * BufferUnits + BufferUnits
      BY <2>1, <2>3, Sizes
    <3>3. FrameUnits * (d + e) = FrameUnits * d + FrameUnits * e
      BY Sizes
    <3>4. FrameUnits * d \in Nat /\ FrameUnits * e \in Nat /\ d + e \in Nat
      BY Sizes
    <3>5. stream'[1].part \in Nat /\ stream[1].part \in Nat
      BY <1>6, <1>8, <2>7, Sizes
    <3>6. (misses' + 1) * BufferUnits = FrameUnits * (d + e) + (stream'[1].part - 1)
      <4>1. (FrameUnits * d + (stream[1].part - 1)) + BufferUnits
              = (FrameUnits * d + FrameUnits * e) + (stream'[1].part - 1)
        BY <3>1, <3>4, <3>5, Sizes
      <4> QED
        BY <2>4, <3>2, <3>3, <4>1
    <3> QED
      BY <3>4, <3>6
  <2> QED
    BY <2>6, <2>7
<1> QED
  BY <1>9, <1>10

\* Steps that leave the connection alone.
LEMMA PlaceKept ==
    ASSUME Place, Types', stream' = stream, misses' = misses PROVE Place'
  BY DEF Place, Chained, Shifted, Data, Follows

\* No step breaks the invariant.
LEMMA PlaceStep == ASSUME ~Segments, TypeOK, Place, [Next]_vars PROVE Place'
<1>1. CASE UNCHANGED vars
  BY <1>1, PlaceKept DEF vars, Place, Types
<1>2. CASE SendData
  <2>1. sent' \in Nat /\ Emit(Package("data", sent', FrameUnits))
    BY <1>2 DEF SendData, Place, Types
  <2> QED
    BY <2>1, EmitPlace, Sizes
<1>3. CASE SendText
  <2>1. sent' \in Nat /\ Emit(Package("text", 0, TextUnits)) /\ TextUnits \in Nat \ {0}
    BY <1>3, StreamAssumption DEF SendText, Place, Types
  <2> QED
    BY <2>1, EmitPlace
<1>4. CASE Answer
  <2>1. sent' \in Nat /\ Emit(Package("reply", 0, 1))
    BY <1>4 DEF Answer, Place, Types
  <2> QED
    BY <2>1, EmitPlace
<1>5. CASE PeerCloses
  BY <1>5, PlaceKept DEF PeerCloses, Place, Types
<1>6. ASSUME NEW op \in {"start", "stop"}, CallControl(op) PROVE Place'
  BY <1>6, PlaceKept DEF CallControl, Place, Types
<1>7. CASE ControlReplied
  <2>1. PICK n \in Chunks(1) : Take(n, 1)
    BY <1>7 DEF ControlReplied
  <2>2. 1 \in 1 .. BufferUnits
    BY Sizes
  <2>3. Chained' /\ Types'
    BY <1>7, <2>1, <2>2, TakeChained, TakeTypes DEF ControlReplied, controller, Place, Types
  <2>4. Shifted'
    BY <1>7 DEF ControlReplied, Shifted
  <2> QED
    BY <2>3, <2>4 DEF Place
<1>8. CASE Recv
  <2>1. PICK n \in Chunks(BufferUnits) : Take(n, BufferUnits)
    BY <1>8 DEF Recv, Parse
  <2>2. BufferUnits \in 1 .. BufferUnits
    BY Sizes
  <2>3. Chained'
    BY <2>1, <2>2, TakeChained DEF Place
  <2>4. TypeOK'
    BY <1>8, RecvTypes
  <2>5. Types'
    BY <2>4, UnitsAreAny DEF TypeOK, Types
  <2> QED
    BY <1>8, <2>3, <2>5, RecvShifted DEF Place
<1> QED
  BY <1>1, <1>2, <1>3, <1>4, <1>5, <1>6, <1>7, <1>8 DEF Next

(* A receiver that is so far behind that reads fill the buffer gets a       *)
(* package cut and loses the next ones, but, whatever the sizes, no more in *)
(* a row than the cut needs to come round (con.cpp:74,                      *)
(* rtde_handler.cpp:179), as long as only data packages come.  The          *)
(* connection must deliver whole packages.                                  *)
THEOREM FindsItsPlace == ASSUME ~Segments PROVE Spec => []Resynchronises
<1>1. Init => Place
  BY TypeInit, TypeOKTypes DEF Init, Place, Chained, Shifted
<1>2. TypeOK /\ Place /\ [Next]_vars => Place'
  BY PlaceStep
<1>3. Place => Resynchronises
  BY Strides DEF Place, Shifted, Resynchronises, Turns, Unknown
<1> QED
  BY TypesKept, <1>1, <1>2, <1>3, PTL DEF Spec
=============================================================================
