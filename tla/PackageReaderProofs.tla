------------------------- MODULE PackageReaderProofs -------------------------
(***************************************************************************)
(* PackageStream implements FrameReader, for every size of the packages    *)
(* and of the buffer, as long as the connection delivers packages whole:   *)
(* frames are parsed in the order they were sent, and at most once.        *)
(***************************************************************************)
EXTENDS PackageStreamProofs, FiniteSetTheorems, FunctionTheorems

\* The frames of which no byte was taken, from place i of the stream on.
Headers == {i \in DOMAIN stream : Accepts(stream[i])}
From(i) == {j \in Headers : j >= i}

\* They are the newest ones, in the order they were sent.
Ordered == \A i \in Headers : stream[i].frame = sent - Cardinality(From(i)) + 1

\* When all was read, a header in the buffer is that of the frame parsed last.
Repeats == stream = << >> /\ Accepts(buffer[1]) => storage[1].frame = buffer[1].frame

Bounded == packages \in Nat /\ sent <= packages

OInv == IInv /\ Ordered /\ Repeats /\ Bounded

-----------------------------------------------------------------------------
(* Counting. *)

\* There are finitely many.
LEMMA HeadersFinite ==
    ASSUME Types
    PROVE  /\ Headers \in SUBSET Int
           /\ IsFiniteSet(Headers) /\ Cardinality(Headers) \in Nat
           /\ \A i : IsFiniteSet(From(i)) /\ Cardinality(From(i)) \in Nat
<1>1. DOMAIN stream = 1 .. Len(stream) /\ Len(stream) \in Nat
  BY DEF Types
<1>2. Headers \subseteq 1 .. Len(stream) /\ \A i : From(i) \subseteq 1 .. Len(stream)
  BY <1>1 DEF Headers, From
<1>3. IsFiniteSet(1 .. Len(stream))
  BY <1>1, FS_Interval
<1>4. IsFiniteSet(Headers) /\ \A i : IsFiniteSet(From(i))
  BY <1>2, <1>3, FS_Subset
<1>5. QED
  BY <1>2, <1>4, FS_CardinalityType

\* Places that are moved remain as many.
LEMMA Moved ==
    ASSUME NEW S \in SUBSET Int, NEW T \in SUBSET Int, NEW n \in Int, IsFiniteSet(S),
           \A i \in Int : i \in T <=> i + n \in S
    PROVE  Cardinality(T) = Cardinality(S)
<1> DEFINE f == [i \in S |-> i - n]
<1>1. \A i \in S : i - n \in T
  OBVIOUS
<1>2. \A k \in T : k + n \in S /\ (k + n) - n = k
  OBVIOUS
<1>3. f \in [S -> T] /\ \A i, j \in S : f[i] = f[j] => i = j
  BY <1>1
<1>4. \A k \in T : \E i \in S : f[i] = k
  BY <1>2
<1>5. f \in Bijection(S, T)
  BY <1>3, <1>4, Fun_IsBij
<1>6. QED
  BY <1>5, FS_Bijection DEF ExistsBijection

\* A read leaves the headers behind it, in their order.
LEMMA TakeOrder ==
    ASSUME OInv, NEW limit \in 1 .. BufferUnits, NEW n \in Chunks(limit), Take(n, limit),
           sent' = sent
    PROVE  /\ Ordered'
           /\ Untouched' \in Nat /\ Untouched \in Nat /\ Untouched' <= Untouched
           /\ 1 \in Headers => Untouched' < Untouched
<1>1. /\ n \in 0 .. Len(stream) /\ Len(stream) \in Nat
      /\ n = 0 <=> stream = << >>
      /\ stream' \in Seq(AnyUnits)
      /\ Len(stream') = Len(stream) - n
      /\ \A i \in 1 .. Len(stream') : stream'[i] = stream[n + i]
  BY ChunksBounds, TakeTypes, Sizes DEF OInv, IInv
<1>2. DOMAIN stream = 1 .. Len(stream) /\ DOMAIN stream' = 1 .. Len(stream')
  BY <1>1 DEF OInv, IInv, Types
<1>3. /\ Headers \in SUBSET Int /\ IsFiniteSet(Headers) /\ Cardinality(Headers) \in Nat
      /\ \A i : IsFiniteSet(From(i)) /\ Cardinality(From(i)) \in Nat
  BY HeadersFinite DEF OInv, IInv
<1>4. \A i \in Int : i \in Headers' <=> i + n \in From(n + 1)
  BY <1>1, <1>2 DEF Headers, From
<1>5. Headers' \in SUBSET Int /\ From(n + 1) \in SUBSET Int
  BY <1>1, <1>2, <1>3 DEF Headers, From
<1>6. Cardinality(Headers') = Cardinality(From(n + 1))
  <2> DEFINE S == From(n + 1)
             T == Headers'
  <2>1. n \in Int /\ IsFiniteSet(S)
    BY <1>1, <1>3
  <2>2. S \in SUBSET Int /\ T \in SUBSET Int /\ \A i \in Int : i \in T <=> i + n \in S
    BY <1>4, <1>5
  <2> HIDE DEF S, T
  <2>3. Cardinality(T) = Cardinality(S)
    BY <2>1, <2>2, Moved
  <2>4. QED
    BY <2>3 DEF S, T
<1>7. Untouched = Cardinality(Headers) /\ Untouched' = Cardinality(Headers')
  BY DEF Untouched, Headers
<1>8. From(n + 1) \in SUBSET Headers
  BY DEF From
<1>9. Untouched' <= Untouched
  BY <1>3, <1>6, <1>7, <1>8, FS_Subset
<1>10. ASSUME 1 \in Headers PROVE Untouched' < Untouched
  <2>1. n >= 1
    BY <1>1, <1>2, <1>10 DEF Headers
  <2>2. 1 \notin From(n + 1)
    BY <1>1, <2>1 DEF From
  <2>3. Cardinality(Headers) # Cardinality(From(n + 1))
    BY <1>3, <1>8, <1>10, <2>2, FS_Subset
  <2>4. QED
    BY <1>3, <1>6, <1>7, <1>9, <2>3
<1>11. ASSUME NEW i \in Headers'
       PROVE  stream'[i].frame = sent' - Cardinality(From(i)') + 1
  <2>1. i \in Int /\ n + i \in Headers /\ stream'[i] = stream[n + i] /\ i + n = n + i
    BY <1>1, <1>2, <1>4, <1>5, <1>11 DEF From, Headers
  <2>2. \A j \in Int : j \in From(i)' <=> j + n \in From(n + i)
    BY <1>1, <1>4, <1>5, <2>1 DEF From
  <2>3. From(i)' \in SUBSET Int /\ From(n + i) \in SUBSET Int
    BY <1>3, <1>5 DEF From
  <2>4. Cardinality(From(i)') = Cardinality(From(n + i))
    <3> DEFINE S == From(n + i)
               T == From(i)'
    <3>1. n \in Int /\ IsFiniteSet(S)
      BY <1>1, <1>3
    <3>2. S \in SUBSET Int /\ T \in SUBSET Int /\ \A j \in Int : j \in T <=> j + n \in S
      BY <2>2, <2>3
    <3> HIDE DEF S, T
    <3>3. Cardinality(T) = Cardinality(S)
      BY <3>1, <3>2, Moved
    <3>4. QED
      BY <3>3 DEF S, T
  <2>5. stream[n + i].frame = sent - Cardinality(From(n + i)) + 1
    BY <2>1 DEF OInv, Ordered
  <2>6. QED
    BY <2>1, <2>4, <2>5
<1>12. QED
  BY <1>3, <1>6, <1>7, <1>9, <1>10, <1>11 DEF Ordered

\* A package that is sent comes behind the others; if it is a frame, it is the newest.
LEMMA EmitOrder ==
    ASSUME OInv, NEW kind \in {"data", "text", "reply"}, NEW f \in Nat, NEW k \in Nat \ {0},
           Emit(Package(kind, f, k)),
           IF kind = "data" THEN sent' = sent + 1 /\ f = sent' ELSE sent' = sent
    PROVE  Ordered' /\ (sent - Untouched)' = sent - Untouched
<1> DEFINE p == Package(kind, f, k)
           last == Len(stream) + 1
<1>1. p \in [1 .. k -> AnyUnits] /\ \A i \in 1 .. k : p[i] = Unit(kind, f, i)
  BY DEF Package, Unit, AnyUnits
<1>2. stream' = stream \o p
  BY DEF Emit
<1> HIDE DEF p
<1>3. /\ stream \in Seq(AnyUnits) /\ Len(stream) \in Nat
      /\ stream' \in Seq(AnyUnits) /\ Len(stream') = Len(stream) + k
      /\ \A i \in 1 .. Len(stream) : stream'[i] = stream[i]
      /\ \A i \in 1 .. k : stream'[Len(stream) + i] = p[i]
  <2>1. stream \in Seq(AnyUnits)
    BY DEF OInv, IInv, Types
  <2>2. /\ stream \o p \in Seq(AnyUnits) /\ Len(stream) \in Nat
        /\ Len(stream \o p) = Len(stream) + k
        /\ \A i \in 1 .. Len(stream) : (stream \o p)[i] = stream[i]
        /\ \A i \in 1 .. k : (stream \o p)[Len(stream) + i] = p[i]
    BY <1>1, <2>1, Behind
  <2> QED
    BY <1>2, <2>1, <2>2
<1>4. DOMAIN stream = 1 .. Len(stream) /\ DOMAIN stream' = 1 .. Len(stream) + k
  BY <1>3
<1>5. /\ Headers \in SUBSET Int /\ IsFiniteSet(Headers) /\ Cardinality(Headers) \in Nat
      /\ \A i : IsFiniteSet(From(i)) /\ Cardinality(From(i)) \in Nat
  BY HeadersFinite DEF OInv, IInv
<1>6. \A i \in 1 .. k : Accepts(stream'[Len(stream) + i]) <=> kind = "data" /\ i = 1
  <2>1. \A i \in 1 .. k : stream'[Len(stream) + i] = Unit(kind, f, i)
    BY <1>1, <1>3
  <2>2. \A i \in 1 .. k : Accepts(Unit(kind, f, i)) <=> kind = "data" /\ i = 1
    BY DEF Accepts, Unit
  <2>3. QED
    BY <2>1, <2>2
<1>7. \A i \in 1 .. Len(stream) + k : i \in 1 .. Len(stream) \/ i - Len(stream) \in 1 .. k
  BY <1>3
<1>8. Headers' = IF kind = "data" THEN Headers \cup {last} ELSE Headers
  <2>1. \A i \in 1 .. Len(stream) : i \in Headers' <=> i \in Headers
    BY <1>3, <1>4 DEF Headers
  <2>2. \A i \in 1 .. k : Len(stream) + i \in Headers' <=> kind = "data" /\ i = 1
    <3>1. \A i \in 1 .. k : Len(stream) + i \in DOMAIN stream'
      BY <1>3, <1>4
    <3>2. QED
      BY <1>6, <3>1 DEF Headers
  <2>3. Headers \subseteq 1 .. Len(stream) /\ Headers' \subseteq 1 .. Len(stream) + k
    BY <1>4 DEF Headers
  <2>4. ASSUME NEW i \in 1 .. Len(stream) + k, i \notin 1 .. Len(stream)
        PROVE  i \in Headers' <=> kind = "data" /\ i = last
    <3>1. i - Len(stream) \in 1 .. k /\ Len(stream) + (i - Len(stream)) = i
      BY <1>3, <2>4
    <3>2. i \in Headers' <=> kind = "data" /\ i - Len(stream) = 1
      BY <2>2, <3>1
    <3>3. QED
      BY <1>3, <3>2
  <2>5. last \in 1 .. Len(stream) + k /\ last \notin 1 .. Len(stream)
    BY <1>3
  <2>6. QED
    BY <2>1, <2>3, <2>4, <2>5
<1>9. last \notin Headers /\ last \in Int
  BY <1>3, <1>4 DEF Headers
<1>10. Untouched = Cardinality(Headers) /\ Untouched' = Cardinality(Headers')
  BY DEF Untouched, Headers
<1>11. sent \in Nat
  BY DEF OInv, IInv, Types
<1>12. CASE kind = "data"
  <2>1. Cardinality(Headers') = Cardinality(Headers) + 1
    BY <1>5, <1>8, <1>9, <1>12, FS_AddElement
  <2>2. ASSUME NEW i \in Headers'
        PROVE  stream'[i].frame = sent' - Cardinality(From(i)') + 1
    <3>1. CASE i \in Headers
      <4>1. From(i)' = From(i) \cup {last} /\ last \notin From(i)
        BY <1>3, <1>4, <1>8, <1>9, <1>12, <3>1 DEF From, Headers
      <4>2. Cardinality(From(i)') = Cardinality(From(i)) + 1
        BY <1>5, <4>1, FS_AddElement
      <4>3. stream'[i] = stream[i]
        BY <1>3, <1>4, <3>1 DEF Headers
      <4>4. stream[i].frame = sent - Cardinality(From(i)) + 1
        BY <3>1 DEF OInv, Ordered
      <4>5. QED
        BY <1>5, <1>11, <1>12, <4>2, <4>3, <4>4
    <3>2. CASE i = last
      <4>1. From(i)' = {last}
        BY <1>3, <1>4, <1>8, <1>9, <1>12, <3>2 DEF From, Headers
      <4>2. Cardinality(From(i)') = 1
        BY <4>1, FS_Singleton
      <4>3. stream'[i] = Unit(kind, f, 1)
        BY <1>1, <1>3, <3>2
      <4>4. QED
        BY <1>11, <1>12, <4>2, <4>3 DEF Unit
    <3>3. QED
      BY <1>8, <1>12, <3>1, <3>2
  <2>3. QED
    BY <1>5, <1>10, <1>11, <1>12, <2>1, <2>2 DEF Ordered
<1>13. CASE kind # "data"
  <2>1. Headers' = Headers /\ sent' = sent
    BY <1>8, <1>13
  <2>2. ASSUME NEW i \in Headers' PROVE stream'[i] = stream[i] /\ From(i)' = From(i)
    BY <1>3, <1>4, <2>1 DEF From, Headers
  <2>3. QED
    BY <1>10, <2>1, <2>2 DEF OInv, Ordered
<1>14. QED
  BY <1>12, <1>13

-----------------------------------------------------------------------------
(* The steps. *)

\* At first.
LEMMA ReaderInit == Init => OInv /\ Reader!Init
<1> SUFFICES ASSUME Init PROVE OInv /\ Reader!Init
  OBVIOUS
<1>1. IInv
  BY InitIInv
<1>2. Headers = {} /\ {i \in DOMAIN stream : Accepts(stream[i])} = {}
  BY DEF Init, Headers
<1>3. Untouched = 0
  BY <1>2, FS_EmptySet DEF Untouched
<1>4. 1 \in 1 .. BufferUnits /\ 1 \in 1 .. FrameUnits - 1
  BY Sizes
<1>5. ~Accepts(buffer[1]) /\ storage[1].frame = 0
  <2>1. buffer[1] = Nothing /\ storage[1] = Nothing
    <3>1. 1 \in 1 .. Past /\ 1 # Past
      BY Sizes DEF Past
    <3>2. /\ buffer = [i \in 1 .. Past |-> IF i = Past THEN Foreign ELSE Nothing]
          /\ storage = [i \in 1 .. FrameUnits - 1 |-> Nothing]
      BY DEF Init
    <3> QED
      BY <1>4, <3>1, <3>2
  <2> QED
    BY <2>1 DEF Nothing, Unit, Accepts
<1>6. QED
  BY <1>1, <1>2, <1>3, <1>5 DEF Init, OInv, Ordered, Repeats, Bounded, Reader!Init

\* The fewer frames are untouched, the more have been taken.
LEMMA Rest ==
    ASSUME NEW all \in Nat, NEW before \in Nat, NEW after \in Nat, after <= before
    PROVE  /\ all - after \in (all - before) .. all
           /\ after < before => all - after \in (all - before + 1) .. all
  OBVIOUS

\* The steps that leave the connection alone.
LEMMA ReaderKept ==
    ASSUME OInv, UNCHANGED <<packages, sent, stream, buffer, storage>>
    PROVE  OInv' /\ UNCHANGED Reader!vars
<1>1. IInv'
  BY Kept DEF OInv
<1>2. Headers' = Headers /\ Untouched' = Untouched /\ \A i : From(i)' = From(i)
  BY DEF Headers, Untouched, From
<1>3. QED
  BY <1>1, <1>2 DEF OInv, Ordered, Repeats, Bounded, Reader!vars

\* What the controller sends.
LEMMA ReaderSends ==
    ASSUME ~Segments, OInv, NEW kind \in {"data", "text", "reply"}, NEW f \in Nat,
           NEW k \in Nat \ {0}, Emit(Package(kind, f, k)), IInv',
           IF kind = "data" THEN sent' = sent + 1 /\ f = sent' ELSE sent' = sent
    PROVE  OInv' /\ [Reader!Next]_(Reader!vars)
<1>1. Ordered' /\ (sent - Untouched)' = sent - Untouched
  BY EmitOrder
<1>2. /\ packages' = packages + 1 /\ packages < MaxPackages
      /\ stream' = stream \o Package(kind, f, k) /\ UNCHANGED <<buffer, storage>>
  BY DEF Emit
<1>3. sent \in Nat /\ packages \in Nat /\ sent <= packages /\ MaxPackages \in Nat
  BY StreamAssumption DEF OInv, IInv, Types, Bounded
<1>4. stream' # << >>
  <2>1. Package(kind, f, k) \in [1 .. k -> AnyUnits]
    BY DEF Package, Unit, AnyUnits
  <2>2. Len(stream') = Len(stream) + k /\ Len(stream) \in Nat
    BY <1>2, <2>1, Behind DEF OInv, IInv, Types
  <2>3. QED
    BY <2>2
<1>5. OInv'
  BY <1>1, <1>2, <1>3, <1>4 DEF OInv, Repeats, Bounded
<1>6. CASE kind = "data"
  <2>1. Reader!Send
    BY <1>1, <1>2, <1>3, <1>6 DEF Reader!Send
  <2>2. QED
    BY <1>5, <2>1 DEF Reader!Next
<1>7. CASE kind # "data"
  BY <1>1, <1>2, <1>5, <1>7 DEF Reader!vars
<1>8. QED
  BY <1>6, <1>7

\* A read that parses nothing touches frames, or none.
LEMMA ReaderLoses ==
    ASSUME OInv, NEW limit \in 1 .. BufferUnits, NEW n \in Chunks(limit), Take(n, limit),
           UNCHANGED <<packages, sent, storage>>, IInv', Repeats'
    PROVE  OInv' /\ [Reader!Next]_(Reader!vars)
<1>1. Ordered' /\ Untouched' \in Nat /\ Untouched \in Nat /\ Untouched' <= Untouched
  BY TakeOrder
<1>2. sent \in Nat
  BY DEF OInv, IInv, Types
<1>3. OInv'
  BY <1>1 DEF OInv, Bounded
<1>4. (sent - Untouched)' \in (sent - Untouched) .. sent
  BY <1>1, <1>2, Rest
<1>5. Reader!Lose
  BY <1>4 DEF Reader!Lose
<1>6. QED
  BY <1>3, <1>5 DEF Reader!Next

\* recv() parses the oldest untouched frame, the one it parsed last, or none.
LEMMA ReaderReceives == ASSUME ~Segments, OInv, Recv PROVE OInv' /\ [Reader!Next]_(Reader!vars)
<1>1. PICK n \in Chunks(BufferUnits) :
          Parse(n, BufferUnits, {i \in {1} : Accepts(buffer'[i])})
  BY DEF Recv
<1>2. /\ Take(n, BufferUnits) /\ UNCHANGED <<packages, sent>> /\ BufferUnits \in 1 .. BufferUnits
      /\ FrameUnits \in Nat /\ FrameUnits > 1 /\ FrameUnits <= BufferUnits
  BY <1>1, Sizes DEF Parse, controller
<1>3. IInv'
  BY RecvStep DEF OInv
<1>4. Ordered' /\ Untouched' \in Nat /\ Untouched \in Nat /\ Untouched' <= Untouched
      /\ (1 \in Headers => Untouched' < Untouched)
  BY <1>2, TakeOrder
<1>5. /\ n \in 0 .. Len(stream) /\ (n = 0 <=> stream = << >>) /\ Len(stream) \in Nat
      /\ \A i \in 1 .. n : buffer'[i] = stream[i]
      /\ n = 0 => buffer'[1] = Terminated(buffer[1])
      /\ buffer' \in [1 .. Past -> AnyUnits]
      /\ Len(stream') = Len(stream) - n /\ stream' \in Seq(AnyUnits)
  BY <1>2, ChunksBounds, TakeTypes DEF OInv, IInv
<1>6. CASE ~Accepts(buffer'[1])
  <2>1. storage' = storage
    BY <1>1, <1>6 DEF Parse
  <2>2. QED
    BY <1>2, <1>3, <1>6, <2>1, ReaderLoses DEF Repeats
<1>7. CASE Accepts(buffer'[1])
  <2>1. storage'[1] = buffer'[2]
    <3>1. {i \in {1} : Accepts(buffer'[i])} = {1}
      BY <1>7
    <3>2. storage' = SubSeq(buffer', Max({1}) + 1, Max({1}) + FrameUnits - 1)
      BY <1>1, <3>1 DEF Parse
    <3>3. Max({1}) + 1 = 2 /\ Max({1}) + FrameUnits - 1 = FrameUnits
      BY <1>2, MaxOne
    <3>4. storage' = SubSeq(buffer', 2, FrameUnits)
      BY <3>2, <3>3
    <3>5. \A i \in 1 .. FrameUnits - 1 : storage'[i] = buffer'[i + 1]
      BY <1>2, <1>5, <3>4, Payload DEF Past
    <3>6. QED
      BY <1>2, <3>5
  <2>2. IsWhole(buffer, 1)'
    BY <1>2, <1>7, TakeWhole DEF OInv
  <2>3. storage'[1].frame = buffer'[1].frame
    <3>1. 1 \in 1 .. FrameUnits - 1 /\ 1 + 1 = 2
      BY <1>2
    <3>2. buffer'[2] = Unit("data", buffer'[1].frame, 2)
      BY <2>2, <3>1 DEF IsWhole
    <3>3. QED
      BY <2>1, <3>2 DEF Unit
  <2>4. OInv'
    BY <1>2, <1>3, <1>4, <2>3 DEF OInv, Repeats, Bounded
  <2>5. sent \in Nat
    BY DEF OInv, IInv, Types
  <2>6. CASE n = 0
    <3>1. buffer'[1] = buffer[1]
      BY <1>5, <1>7, <2>6 DEF Terminated, Accepts, Damaged, Unit
    <3>2. storage'[1].frame = storage[1].frame
      BY <1>5, <1>7, <2>3, <2>6, <3>1 DEF OInv, Repeats
    <3>3. (sent - Untouched)' \in (sent - Untouched) .. sent
      BY <1>2, <1>4, <2>5, Rest
    <3>4. Reader!Lose
      BY <1>2, <3>2, <3>3 DEF Reader!Lose
    <3>5. QED
      BY <2>4, <3>4 DEF Reader!Next
  <2>7. CASE n # 0
    <3>1. buffer'[1] = stream[1] /\ 1 \in DOMAIN stream
      BY <1>5, <2>7 DEF OInv, IInv, Types
    <3>2. 1 \in Headers
      BY <1>7, <3>1 DEF Headers
    <3>3. From(1) = Headers
      BY DEF From, Headers, OInv, IInv, Types
    <3>4. stream[1].frame = sent - Untouched + 1
      BY <3>2, <3>3 DEF OInv, Ordered, Untouched, Headers
    <3>5. (sent - Untouched)' \in (sent - Untouched + 1) .. sent
      BY <1>2, <1>4, <2>5, <3>2, Rest
    <3>6. Reader!Accept
      BY <1>2, <2>3, <3>1, <3>4, <3>5 DEF Reader!Accept
    <3>7. QED
      BY <2>4, <3>6 DEF Reader!Next
  <2>8. QED
    BY <2>6, <2>7
<1>8. QED
  BY <1>6, <1>7

\* start() and stop() may cut the oldest frame.
LEMMA ReaderReplies ==
    ASSUME ~Segments, OInv, ControlReplied PROVE OInv' /\ [Reader!Next]_(Reader!vars)
<1>1. PICK n \in Chunks(1) : Take(n, 1)
  BY DEF ControlReplied
<1>2. /\ UNCHANGED <<packages, sent, storage>> /\ 1 \in 1 .. BufferUnits
      /\ FrameUnits \in Nat /\ FrameUnits > 1
  BY Sizes DEF ControlReplied, controller
<1>3. IInv'
  BY ReplyStep DEF OInv
<1>4. /\ n \in 0 .. Len(stream) /\ n <= 1 /\ (n = 0 <=> stream = << >>) /\ Len(stream) \in Nat
      /\ \A i \in 1 .. n : buffer'[i] = stream[i]
      /\ n = 0 => buffer'[1] = Terminated(buffer[1])
      /\ Len(stream') = Len(stream) - n /\ stream' \in Seq(AnyUnits)
  BY <1>1, <1>2, ChunksBounds, TakeTypes DEF OInv, IInv
<1>5. Repeats'
  <2> SUFFICES ASSUME stream' = << >>, Accepts(buffer'[1])
               PROVE  storage'[1].frame = buffer'[1].frame
    BY DEF Repeats
  <2>1. CASE n = 0
    <3>1. buffer'[1] = buffer[1]
      BY <1>4, <2>1 DEF Terminated, Accepts, Damaged, Unit
    <3>2. QED
      BY <1>2, <1>4, <2>1, <3>1 DEF OInv, Repeats
  <2>2. CASE n = 1
    <3>1. Len(stream) = 1 /\ 1 \in 1 .. Len(stream) /\ Accepts(stream[1])
      BY <1>4, <2>2
    <3>2. 1 + FrameUnits - 1 <= Len(stream)
      BY <3>1 DEF OInv, IInv, HeadersLead
    <3>3. QED
      BY <1>2, <3>1, <3>2
  <2>3. QED
    BY <1>4, <2>1, <2>2
<1>6. QED
  BY <1>1, <1>2, <1>3, <1>5, ReaderLoses

\* Every step is one of FrameReader, or none.
LEMMA ReaderStep ==
    ASSUME ~Segments, OInv, [Next]_vars PROVE OInv' /\ [Reader!Next]_(Reader!vars)
<1>1. IInv'
  BY InductiveStep DEF OInv
<1>2. CASE UNCHANGED vars \/ PeerCloses \/ \E op \in {"start", "stop"} : CallControl(op)
  <2>1. UNCHANGED <<packages, sent, stream, buffer, storage>>
    BY <1>2 DEF vars, PeerCloses, CallControl
  <2>2. QED
    BY <2>1, ReaderKept
<1>3. CASE SendData
  <2>1. sent \in Nat /\ sent' = sent + 1 /\ Emit(Package("data", sent', FrameUnits))
    BY <1>3 DEF SendData, OInv, IInv, Types
  <2>2. QED
    BY <1>1, <2>1, ReaderSends, Sizes
<1>4. CASE SendText
  <2>1. sent' = sent /\ Emit(Package("text", 0, TextUnits)) /\ TextUnits \in Nat \ {0}
    BY <1>4, StreamAssumption DEF SendText
  <2>2. QED
    BY <1>1, <2>1, ReaderSends
<1>5. CASE Answer
  <2>1. sent' = sent /\ Emit(Package("reply", 0, 1))
    BY <1>5 DEF Answer
  <2>2. QED
    BY <1>1, <2>1, ReaderSends
<1>6. CASE ControlReplied
  BY <1>6, ReaderReplies
<1>7. CASE Recv
  BY <1>7, ReaderReceives
<1>8. QED
  BY <1>2, <1>3, <1>4, <1>5, <1>6, <1>7 DEF Next

-----------------------------------------------------------------------------

(* PackageStream implements FrameReader, on which RobotState rests: what is *)
(* parsed is always the oldest frame of which no byte was taken, or, at the *)
(* end of the connection, the last one again (rtde_handler.cpp:176-186).    *)
(* Reads that end inside a package would break it.                          *)
THEOREM ImplementsReader == ASSUME ~Segments PROVE Spec => ReaderSpec
<1>1. OInv /\ [Next]_vars => OInv' /\ [Reader!Next]_(Reader!vars)
  BY ReaderStep
<1>2. QED
  BY ReaderInit, <1>1, PTL DEF Spec, ReaderSpec, Reader!Spec
=============================================================================
