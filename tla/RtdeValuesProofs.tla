-------------------------- MODULE RtdeValuesProofs --------------------------
(***************************************************************************)
(* What becomes of the values, for any recipes, names and bounds: however  *)
(* requests, replies, data and texts meet on the connection, a variable is *)
(* parsed and sent whole, as long as no send is cut short and no read ends *)
(* in the package it began with (whole); and it is the right one as long   *)
(* as every request is alone on the connection (quiet).  The offsets of a  *)
(* recipe are sums over its fields; what is needed of sums comes first.    *)
(***************************************************************************)
EXTENDS RtdeHandlerProofs, WellFoundedInduction

-----------------------------------------------------------------------------
(* Induction over numbers, for sets instead of predicates. *)

LEMMA LeastElement ==
    ASSUME NEW S \in SUBSET Nat, S # {} PROVE \E x \in S : \A y \in S : x <= y
<1> DEFINE Less == {pair \in Nat \X Nat : pair[1] < pair[2]}
<1>1. IsWellFoundedOn(Less, Nat)
  BY NatLessThanWellFounded DEF OpToRel
<1> HIDE DEF Less
<1>2. PICK x \in S : \A y \in S : <<y, x>> \notin Less
  BY <1>1, WFMin
<1>3. \A y \in S : ~(y < x)
  BY <1>2 DEF Less
<1>4. QED
  BY <1>3

LEMMA SetInduction ==
    ASSUME NEW S, 0 \in S, \A n \in Nat : n \in S => n + 1 \in S
    PROVE  Nat \subseteq S
<1> SUFFICES ASSUME Nat \ S # {} PROVE FALSE
  OBVIOUS
<1>1. PICK x \in Nat \ S : \A y \in Nat \ S : x <= y
  BY LeastElement
<1>2. x # 0 /\ x - 1 \in S
  BY <1>1
<1>3. QED
  BY <1>1, <1>2

\* The largest of some numbers up to n.
LEMMA MaxElement ==
    ASSUME NEW n \in Nat, NEW S \in SUBSET (0 .. n), S # {}
    PROVE  Max(S) \in S /\ \A y \in S : y <= Max(S)
<1> DEFINE Bounds == {k \in Nat : \A y \in S : y <= k}
<1>1. n \in Bounds
  OBVIOUS
<1>2. PICK k \in Bounds : \A j \in Bounds : k <= j
  BY <1>1, LeastElement
<1>3. k \in S
  <2> SUFFICES ASSUME k \notin S PROVE FALSE
    OBVIOUS
  <2>1. \A y \in S : y < k /\ y \in Nat
    BY <1>2
  <2>2. k > 0
    <3>1. PICK y \in S : TRUE
      OBVIOUS
    <3>2. k \in Nat /\ y \in Nat /\ y < k
      BY <2>1, <3>1
    <3>3. QED
      BY <3>2
  <2>3. k - 1 \in Bounds
    BY <2>1, <2>2
  <2>4. QED
    BY <1>2, <2>3
<1>4. QED
  BY <1>2, <1>3 DEF Max

-----------------------------------------------------------------------------
(* The bytes of variables that lie one after the other. *)

\* f holds the bytes of the first i types, for each i up to n.
SumsTo(n, types, f) ==
    f = [i \in 0 .. n |-> IF i = 0 THEN 0 ELSE f[i - 1] + DataSize[types[i]]]

LEMMA SumsExist == ASSUME NEW types PROVE \A n \in Nat : \E f : SumsTo(n, types, f)
<1> DEFINE S == {n \in Nat : \E f : SumsTo(n, types, f)}
<1>1. 0 \in S
  <2>1. SumsTo(0, types, [i \in 0 .. 0 |-> 0])
    BY DEF SumsTo
  <2>2. QED
    BY <2>1
<1>2. ASSUME NEW n \in Nat, n \in S PROVE n + 1 \in S
  <2>1. PICK f : SumsTo(n, types, f)
    BY <1>2
  <2> DEFINE g == [i \in 0 .. n + 1 |-> IF i <= n THEN f[i] ELSE f[n] + DataSize[types[n + 1]]]
  <2>2. \A i \in 0 .. n + 1 : g[i] = IF i = 0 THEN 0 ELSE g[i - 1] + DataSize[types[i]]
    BY <2>1 DEF SumsTo
  <2>3. DOMAIN g = 0 .. n + 1 /\ g = [i \in 0 .. n + 1 |-> g[i]]
    OBVIOUS
  <2> HIDE DEF g
  <2>4. SumsTo(n + 1, types, g)
    BY <2>2, <2>3 DEF SumsTo
  <2>5. QED
    BY <2>4
<1>3. QED
  BY <1>1, <1>2, SetInduction

\* There is one such f, and for types that continue others it continues theirs.
LEMMA SumsAgree ==
    ASSUME NEW m \in Nat, NEW n \in Nat, m <= n, NEW s, NEW t,
           \A i \in 1 .. m : s[i] = t[i],
           NEW f, SumsTo(m, s, f), NEW g, SumsTo(n, t, g)
    PROVE  \A i \in 0 .. m : f[i] = g[i]
<1> DEFINE S == {i \in Nat : i <= m => f[i] = g[i]}
<1>1. /\ \A i \in 0 .. m : f[i] = IF i = 0 THEN 0 ELSE f[i - 1] + DataSize[s[i]]
      /\ \A i \in 0 .. m : g[i] = IF i = 0 THEN 0 ELSE g[i - 1] + DataSize[t[i]]
  BY DEF SumsTo
<1>2. 0 \in S
  BY <1>1
<1>3. ASSUME NEW i \in Nat, i \in S PROVE i + 1 \in S
  BY <1>1, <1>3
<1>4. Nat \subseteq S
  BY <1>2, <1>3, SetInduction
<1>5. QED
  BY <1>4

\* What ByteSize() takes the last element of.
LEMMA ByteSizeSum ==
    ASSUME NEW types, Len(types) \in Nat
    PROVE  \E f : SumsTo(Len(types), types, f) /\ ByteSize(types) = f[Len(types)]
<1> DEFINE n == Len(types)
           f == CHOOSE h : h = [i \in 0 .. n |-> IF i = 0 THEN 0 ELSE h[i - 1] + DataSize[types[i]]]
<1>1. \E h : SumsTo(n, types, h)
  BY SumsExist
<1>2. SumsTo(n, types, f)
  BY <1>1 DEF SumsTo
<1>3. ByteSize(types) = f[n]
  BY DEF ByteSize
<1>4. QED
  BY <1>2, <1>3

\* The first n types of a sequence.
Prefix(types, n) == SubSeq(types, 1, n)

LEMMA PrefixElements ==
    ASSUME NEW T, NEW types \in Seq(T), NEW n \in 0 .. Len(types)
    PROVE  /\ Prefix(types, n) \in Seq(T) /\ Len(Prefix(types, n)) = n
           /\ \A i \in 1 .. n : Prefix(types, n)[i] = types[i]
           /\ Prefix(types, Len(types)) = types
  BY DEF Prefix

LEMMA PrefixSize ==
    ASSUME NEW types \in Seq(FieldTypes)
    PROVE  \E f : /\ SumsTo(Len(types), types, f)
                  /\ \A n \in 0 .. Len(types) : ByteSize(Prefix(types, n)) = f[n]
                  /\ ByteSize(types) = f[Len(types)]
<1>1. Len(types) \in Nat
  OBVIOUS
<1>2. PICK f : SumsTo(Len(types), types, f) /\ ByteSize(types) = f[Len(types)]
  BY <1>1, ByteSizeSum
<1>3. ASSUME NEW n \in 0 .. Len(types) PROVE ByteSize(Prefix(types, n)) = f[n]
  <2> DEFINE p == Prefix(types, n)
  <2>1. Len(p) = n /\ n \in Nat /\ n <= Len(types) /\ \A i \in 1 .. n : p[i] = types[i]
    BY <1>1, PrefixElements
  <2> HIDE DEF p
  <2>2. PICK g : SumsTo(n, p, g) /\ ByteSize(p) = g[n]
    BY <2>1, ByteSizeSum
  <2>3. g[n] = f[n]
    BY <1>1, <1>2, <2>1, <2>2, SumsAgree
  <2>4. QED
    BY <2>2, <2>3 DEF p
<1>4. QED
  BY <1>2, <1>3

\* Every type has at least one byte.
LEMMA FieldSizes == \A t \in FieldTypes : DataSize[t] \in Nat /\ DataSize[t] > 0
  BY DEF FieldTypes, DataSize, Refusal

\* The sizes of the beginnings of a sequence ascend by the sizes of its types.
LEMMA SizeAscends ==
    ASSUME NEW types \in Seq(FieldTypes)
    PROVE  /\ ByteSize(Prefix(types, 0)) = 0
           /\ \A n \in 0 .. Len(types) : ByteSize(Prefix(types, n)) \in Nat
           /\ \A n \in 1 .. Len(types) :
                  ByteSize(Prefix(types, n)) = ByteSize(Prefix(types, n - 1)) + DataSize[types[n]]
           /\ \A m, n \in 0 .. Len(types) :
                  m < n => ByteSize(Prefix(types, m)) < ByteSize(Prefix(types, n))
           /\ ByteSize(types) = ByteSize(Prefix(types, Len(types)))
<1>1. PICK f : /\ SumsTo(Len(types), types, f)
               /\ \A n \in 0 .. Len(types) : ByteSize(Prefix(types, n)) = f[n]
               /\ ByteSize(types) = f[Len(types)]
  BY PrefixSize
<1>2. \A i \in 0 .. Len(types) : f[i] = IF i = 0 THEN 0 ELSE f[i - 1] + DataSize[types[i]]
  BY <1>1 DEF SumsTo
<1>3. \A i \in 1 .. Len(types) : DataSize[types[i]] \in Nat /\ DataSize[types[i]] > 0
  BY FieldSizes
<1>4. Len(types) \in Nat
  OBVIOUS
<1>5. \A n \in 0 .. Len(types) : \A m \in 0 .. n : f[m] \in Nat /\ (m < n => f[m] < f[n])
  <2> DEFINE S == {n \in Nat : n <= Len(types) =>
                                   \A m \in 0 .. n : f[m] \in Nat /\ (m < n => f[m] < f[n])}
  <2>1. 0 \in S
    BY <1>2, <1>4
  <2>2. ASSUME NEW n \in Nat, n \in S PROVE n + 1 \in S
    <3> SUFFICES ASSUME n + 1 <= Len(types), NEW m \in 0 .. n + 1
                 PROVE  f[m] \in Nat /\ (m < n + 1 => f[m] < f[n + 1])
      OBVIOUS
    <3>1. f[n + 1] = f[n] + DataSize[types[n + 1]]
      BY <1>2, <1>4
    <3>2. f[n] \in Nat /\ (m <= n => f[m] \in Nat /\ (m < n => f[m] < f[n]))
      BY <1>4, <2>2
    <3>3. DataSize[types[n + 1]] \in Nat /\ DataSize[types[n + 1]] > 0
      BY <1>3, <1>4
    <3>4. QED
      BY <3>1, <3>2, <3>3
  <2>3. Nat \subseteq S
    BY <2>1, <2>2, SetInduction
  <2>4. QED
    BY <1>4, <2>3
<1>6. f[0] = 0 /\ \A n \in 1 .. Len(types) : f[n] = f[n - 1] + DataSize[types[n]]
  BY <1>2, <1>4
<1>7. \A n \in 0 .. Len(types) : f[n] \in Nat
  BY <1>4, <1>5
<1>8. \A m, n \in 0 .. Len(types) : m < n => f[m] < f[n]
  BY <1>4, <1>5
<1>9. /\ 0 \in 0 .. Len(types) /\ Len(types) \in 0 .. Len(types)
      /\ \A n \in 1 .. Len(types) : n \in 0 .. Len(types) /\ n - 1 \in 0 .. Len(types)
  BY <1>4
<1>10. QED
  BY <1>1, <1>6, <1>7, <1>8, <1>9

LEMMA SizeEmpty == ByteSize(<< >>) = 0
<1>1. << >> \in Seq(FieldTypes) /\ Prefix(<< >>, 0) = << >>
  BY DEF Prefix
<1>2. QED
  BY <1>1, SizeAscends

\* One type more.
LEMMA SizeAppend ==
    ASSUME NEW types \in Seq(FieldTypes), NEW t \in FieldTypes
    PROVE  /\ ByteSize(Append(types, t)) = ByteSize(types) + DataSize[t]
           /\ ByteSize(types) \in Nat
           /\ Append(types, t) \in Seq(FieldTypes)
           /\ \A n \in 0 .. Len(types) : Prefix(Append(types, t), n) = Prefix(types, n)
<1> DEFINE longer == Append(types, t)
<1>1. /\ longer \in Seq(FieldTypes) /\ Len(longer) = Len(types) + 1 /\ Len(types) \in Nat
      /\ longer[Len(types) + 1] = t
      /\ \A n \in 0 .. Len(types) : Prefix(longer, n) = Prefix(types, n)
  BY DEF Prefix
<1>2. Prefix(types, Len(types)) = types
  BY DEF Prefix
<1> HIDE DEF longer
<1>3. ByteSize(longer) = ByteSize(Prefix(longer, Len(types))) + DataSize[t]
  BY <1>1, SizeAscends
<1>4. ByteSize(types) \in Nat
  BY <1>1, <1>2, SizeAscends
<1>5. QED
  BY <1>1, <1>2, <1>3, <1>4 DEF longer

-----------------------------------------------------------------------------
(* The invariant. *)

RequestPackages ==
    [op : {"setup"}, id : Int, dir_out : BOOLEAN, fields : Seq(Tokens)]
      \cup DataPackages
      \cup [op : {"start", "pause", "version", "text"}]

Packages ==
    [kind : {"setup"}, id : Int, types : Seq(DOMAIN DataSize)]
      \cup [kind : {"data"}, id : Int, bytes : Int, payload : SUBSET Tokens]
      \cup [kind : {"start", "pause"}, accepted : BOOLEAN]
      \cup [kind : {"version", "text", "tail"}]

AllTypes ==
    /\ recipe \in [Recipes -> RecipeTypes]
    /\ out \in Recipes \cup {NoRecipe}
    /\ DOMAIN recipes_in \subseteq 1 .. calls /\ \A k \in DOMAIN recipes_in : recipes_in[k] \in Recipes
    /\ call \in [op : {"none", "register", "start", "stop", "version"}, r : Recipes \cup {NoRecipe}]
    /\ call.op = "register" => call.r \in Recipes /\ recipe[call.r].fields # << >>
    /\ result \in BOOLEAN
    /\ calls \in 0 .. MaxCalls
    /\ registered \in [Recipes -> 0 .. calls]
    /\ requests \in Seq(RequestPackages)
    /\ stream \in Seq(Packages)
    /\ current \in 0 .. calls
    /\ streaming \in BOOLEAN
    /\ faults \in Nat
    /\ quiet \in BOOLEAN

\* The fields are variables of the direction.
Typed(fields, dir_out) ==
    \A i \in DOMAIN fields : /\ fields[i].name \in DOMAIN TypeOf(dir_out)
                             /\ fields[i].type = TypeOf(dir_out)[fields[i].name]

\* The bytes a recipe counts before its first field: those of fields that were cleared.
Base(rec) == rec.bytes - ByteSize(TypesOf(rec.fields))

\* The fields of a recipe lie behind them, one after the other.
InOrder(rec) ==
    /\ rec.bytes <= MaxBytes
    /\ Base(rec) >= 0
    /\ \A i \in DOMAIN rec.fields :
           rec.fields[i].offset = Base(rec) + ByteSize(Prefix(TypesOf(rec.fields), i - 1))

\* As long as there are no bytes of cleared ones, no other tokens than these were stored.
LaidRecipe(rec) ==
    /\ Typed(rec.fields, rec.dir_out)
    /\ Len(rec.fields) <= MaxFields
    /\ InOrder(rec)
    /\ Base(rec) = 0 => rec.dp.payload \subseteq Range(rec.fields)

Laid == \A r \in Recipes : LaidRecipe(recipe[r])

\* Nothing but a setup under way to the controller has this id.
Unused(id) ==
    /\ current < id
    /\ \A a \in accepted : a.id < id
    /\ \A r \in Recipes : recipe[r].id < id /\ recipe[r].dp.id < id
    /\ \A k \in DOMAIN recipes_in : k < id
    /\ \A i \in DOMAIN stream : stream[i].kind = "setup" => stream[i].id < id
    /\ \A i \in DOMAIN requests : requests[i].op = "data" => requests[i].id < id

\* Ids are given in order, answered in order, and each is taken once.
Numbers ==
    /\ \A i \in DOMAIN requests :
           requests[i].op = "setup" =>
               /\ requests[i].id \in 1 .. calls /\ Unused(requests[i].id)
               /\ Typed(requests[i].fields, requests[i].dir_out)
               /\ \A j \in DOMAIN requests :
                      i < j /\ requests[j].op = "setup" => requests[i].id < requests[j].id
    /\ \A i \in DOMAIN stream :
           stream[i].kind = "setup" =>
               /\ stream[i].id \in 1 .. calls
               /\ \A r \in Recipes : recipe[r].id < stream[i].id
               /\ \A k \in DOMAIN recipes_in : k < stream[i].id
               /\ \A j \in DOMAIN stream :
                      i < j /\ stream[j].kind = "setup" => stream[i].id < stream[j].id
    /\ \A r \in Recipes : /\ recipe[r].id \in -1 .. calls
                          /\ recipe[r].dp.id \in -1 .. calls
                          /\ \A q \in Recipes \ {r} : recipe[r].id = recipe[q].id => recipe[r].id = -1
    /\ \A i \in DOMAIN requests : requests[i].op = "data" => requests[i].id \in -1 .. calls

\* Two variables with the same place in a payload, and payloads one of which has all the
\* places of the other.
SamePlace(t, v) == t.type = v.type /\ t.offset = v.offset
Within(payload, other) == \A t \in payload : \E v \in other : SamePlace(t, v)

\* A payload with the places of these types.
LaidOut(payload, types) ==
    /\ \A v \in payload : \E i \in DOMAIN types :
           v.type = types[i] /\ v.offset = ByteSize(Prefix(types, i - 1))
    /\ \A i \in DOMAIN types : \E v \in payload :
           v.type = types[i] /\ v.offset = ByteSize(Prefix(types, i - 1))

Accepted(a) ==
    /\ a.id \in 1 .. calls /\ a.dir_out \in BOOLEAN
    /\ a.id = current => a.dir_out
    /\ \E fields \in Seq(Tokens) :
           /\ Typed(fields, a.dir_out)
           /\ a.names = NamesOf(fields)
           /\ a.bytes = ByteSize(TypesOf(fields))
           /\ a.payload = Layout(fields)

DataOfOutput(p) ==
    \E a \in accepted :
        a.dir_out /\ a.id = p.id /\ a.bytes = p.bytes /\ a.payload = p.payload

\* The replies and data packages to be read are about setups the controller has accepted.
Replies ==
    /\ \A a \in accepted : Accepted(a) /\ \A b \in accepted : a.id = b.id => a = b
    /\ \A i \in DOMAIN stream :
           /\ stream[i].kind = "setup" =>
                  \/ \E j \in DOMAIN stream[i].types : stream[i].types[j] \in Refusal
                  \/ \E a \in accepted : /\ a.id = stream[i].id
                                         /\ stream[i].types \in Seq(FieldTypes)
                                         /\ a.bytes = ByteSize(stream[i].types)
                                         /\ LaidOut(a.payload, stream[i].types)
           /\ stream[i].kind = "data" => DataOfOutput(stream[i])

\* A data package with the id and the size of an input setup has all its places.
Whole(dp) ==
    \A a \in accepted :
        ~a.dir_out /\ a.id = dp.id /\ a.bytes = dp.bytes => Within(a.payload, dp.payload)

Added(r) == \E k \in DOMAIN recipes_in : recipes_in[k] = r

\* So has the data package of a recipe with the id and the size of an input setup; and
\* the setup has all places of its fields.
ValuesOf(r, rec) ==
    /\ \A a \in accepted :
           a.id = rec.id =>
               /\ a.bytes <= rec.bytes
               /\ a.bytes = rec.bytes =>
                      /\ Within(Range(rec.fields), a.payload)
                      /\ ~a.dir_out /\ Added(r) => Within(a.payload, rec.dp.payload)
    /\ Added(r) /\ (rec.dir_out \/ rec.fields = << >>) => Base(rec) > 0
    /\ Whole(rec.dp) /\ \A t \in rec.dp.payload : t.name \in Inputs

Values ==
    /\ \A r \in Recipes : ValuesOf(r, recipe[r])
    /\ \A i \in DOMAIN requests :
           requests[i].op = "data" =>
               Whole(requests[i]) /\ \A t \in requests[i].payload : t.name \in Inputs

WholeStores ==
    /\ storage \in [Outputs -> Outputs \cup {"none"}]
    /\ registers \in [Inputs -> Inputs \cup {"none"}]

ValuesInv == AllTypes /\ Laid /\ Numbers /\ Replies /\ Values /\ WholeStores

\* Two variables at one place are the same variable.
Same(payload, other) == \A t \in payload, v \in other : SamePlace(t, v) => t.name = v.name
Right(dp) == \A a \in accepted : a.id = dp.id /\ a.bytes = dp.bytes => Same(dp.payload, a.payload)

\* As long as requests keep to themselves, the reply to a setup is one to the fields of
\* the recipe, and what is at a place of a package is the variable the setup puts there.
AnswerRight ==
    call.op = "register" /\ (\E a \in accepted : a.id = calls) =>
        /\ \A a \in accepted : a.id = calls => a.payload = Layout(recipe[call.r].fields)
        /\ stream # << >> /\ Head(stream).kind = "setup"
        /\ Head(stream).types = TypesOf(recipe[call.r].fields)

RightRecipe(rec) ==
    /\ Right(rec.dp)
    /\ \A a \in accepted :
           a.id = rec.id /\ a.bytes = rec.bytes =>
               Same(Range(rec.fields) \cup rec.dp.payload, a.payload)

RightRecipes == \A r \in Recipes : RightRecipe(recipe[r])
RightRequests == \A i \in DOMAIN requests : requests[i].op = "data" => Right(requests[i])

RightStores ==
    /\ \A n \in Outputs : storage[n] \in {"none", n}
    /\ \A n \in Inputs : registers[n] \in {"none", n}

RightInv == quiet => AnswerRight /\ RightRecipes /\ RightRequests /\ RightStores

-----------------------------------------------------------------------------
(* The fields of a recipe and of a setup. *)

LEMMA FieldsTypes ==
    ASSUME NEW fields \in Seq(Tokens)
    PROVE  /\ TypesOf(fields) \in Seq(FieldTypes) /\ Len(TypesOf(fields)) = Len(fields)
           /\ DOMAIN fields = 1 .. Len(fields) /\ Len(fields) \in Nat
           /\ \A i \in DOMAIN fields : fields[i] \in Tokens /\ TypesOf(fields)[i] = fields[i].type
<1>1. \A i \in 1 .. Len(fields) : fields[i] \in Tokens /\ fields[i].type \in FieldTypes
  <2>1. \A i \in 1 .. Len(fields) : fields[i] \in Tokens
    OBVIOUS
  <2>2. QED
    BY <2>1 DEF Tokens
<1>2. TypesOf(fields) = [i \in 1 .. Len(fields) |-> fields[i].type]
  BY DEF TypesOf
<1>3. QED
  BY <1>1, <1>2

LEMMA FieldsAppend ==
    ASSUME NEW fields \in Seq(Tokens), NEW t \in Tokens
    PROVE  TypesOf(Append(fields, t)) = Append(TypesOf(fields), t.type)
<1>1. /\ Append(fields, t) \in Seq(Tokens) /\ Len(Append(fields, t)) = Len(fields) + 1
      /\ \A i \in 1 .. Len(fields) + 1 :
             Append(fields, t)[i] = IF i <= Len(fields) THEN fields[i] ELSE t
  OBVIOUS
<1>2. /\ TypesOf(fields) \in Seq(FieldTypes) /\ Len(TypesOf(fields)) = Len(fields)
      /\ Len(fields) \in Nat
      /\ \A i \in 1 .. Len(fields) : TypesOf(fields)[i] = fields[i].type
  BY FieldsTypes
<1>3. TypesOf(Append(fields, t))
        = [i \in 1 .. Len(fields) + 1 |-> IF i <= Len(fields) THEN fields[i].type ELSE t.type]
  BY <1>1 DEF TypesOf
<1>4. Append(TypesOf(fields), t.type)
        = [i \in 1 .. Len(fields) + 1 |-> IF i <= Len(fields) THEN fields[i].type ELSE t.type]
  BY <1>2
<1>5. QED
  BY <1>3, <1>4

\* The offset of each field, if nothing is before the first.
Offset(fields, i) == ByteSize(Prefix(TypesOf(fields), i - 1))

LEMMA Offsets ==
    ASSUME NEW fields \in Seq(Tokens)
    PROVE  /\ \A i \in DOMAIN fields : Offset(fields, i) \in Nat
           /\ \A i, j \in DOMAIN fields : Offset(fields, i) = Offset(fields, j) => i = j
           /\ \A i \in DOMAIN fields : Offset(fields, i) <= ByteSize(TypesOf(fields))
           /\ ByteSize(TypesOf(fields)) \in Nat
           /\ fields # << >> => ByteSize(TypesOf(fields)) > 0
<1> DEFINE types == TypesOf(fields)
<1>1. types \in Seq(FieldTypes) /\ Len(types) = Len(fields) /\ Len(types) \in Nat
      /\ DOMAIN fields = 1 .. Len(types)
  BY FieldsTypes
<1> HIDE DEF types
<1>2. /\ \A n \in 0 .. Len(types) : ByteSize(Prefix(types, n)) \in Nat
      /\ \A m, n \in 0 .. Len(types) :
             m < n => ByteSize(Prefix(types, m)) < ByteSize(Prefix(types, n))
      /\ ByteSize(types) = ByteSize(Prefix(types, Len(types)))
      /\ ByteSize(Prefix(types, 0)) = 0
  BY <1>1, SizeAscends
<1>3. \A i \in DOMAIN fields : i - 1 \in 0 .. Len(types) /\ i - 1 < Len(types)
  BY <1>1
<1>4. fields # << >> => 0 < Len(types)
  BY <1>1
<1>5. /\ 0 \in 0 .. Len(types) /\ Len(types) \in 0 .. Len(types)
  BY <1>1
<1>6. ASSUME NEW i \in DOMAIN fields, NEW j \in DOMAIN fields,
             ByteSize(Prefix(types, i - 1)) = ByteSize(Prefix(types, j - 1))
      PROVE  i = j
  <2>1. ~(i - 1 < j - 1) /\ ~(j - 1 < i - 1)
    BY <1>2, <1>3, <1>6
  <2>2. QED
    BY <1>1, <2>1
<1>7. QED
  BY <1>2, <1>3, <1>4, <1>5, <1>6 DEF Offset, types

LEMMA LayoutTokens ==
    ASSUME NEW fields \in Seq(Tokens)
    PROVE  /\ Layout(fields) \in SUBSET Tokens
           /\ LaidOut(Layout(fields), TypesOf(fields))
           /\ Same(Layout(fields), Layout(fields))
           /\ \A i \in DOMAIN fields : \E v \in Layout(fields) : v.name = fields[i].name
           /\ \A v \in Layout(fields) : \E i \in DOMAIN fields :
                  v.name = fields[i].name /\ v.type = fields[i].type /\ v.offset = Offset(fields, i)
<1> DEFINE token(i) == [fields[i] EXCEPT !.offset = Offset(fields, i)]
<1>1. Layout(fields) = {token(i) : i \in DOMAIN fields}
  BY DEF Layout, Offset, Prefix
<1>2. \A i \in DOMAIN fields : /\ fields[i] \in Tokens /\ Offset(fields, i) \in Nat
                               /\ TypesOf(fields)[i] = fields[i].type
  BY FieldsTypes, Offsets
<1>3. \A i \in DOMAIN fields : /\ token(i) \in Tokens /\ token(i).name = fields[i].name
                               /\ token(i).type = fields[i].type /\ token(i).offset = Offset(fields, i)
  BY <1>2 DEF Tokens
<1> HIDE DEF token
<1>4. DOMAIN TypesOf(fields) = DOMAIN fields
  BY DEF TypesOf
<1>5. LaidOut(Layout(fields), TypesOf(fields))
  BY <1>1, <1>2, <1>3, <1>4 DEF LaidOut, Offset
<1>6. Same(Layout(fields), Layout(fields))
  BY <1>1, <1>3, Offsets DEF Same, SamePlace
<1>7. QED
  BY <1>1, <1>3, <1>5, <1>6

\* Payloads with the places of the same types.
LEMMA LaidOutWithin ==
    ASSUME NEW types, NEW p, LaidOut(p, types), NEW q, LaidOut(q, types) PROVE Within(p, q)
  BY DEF LaidOut, Within, SamePlace

\* The fields of a recipe with nothing before the first lie like those of a setup.
LEMMA RecipeLayout ==
    ASSUME NEW rec \in RecipeTypes, Base(rec) = 0,
           \A i \in DOMAIN rec.fields :
               rec.fields[i].offset = Base(rec) + ByteSize(Prefix(TypesOf(rec.fields), i - 1))
    PROVE  Layout(rec.fields) = Range(rec.fields)
<1>1. rec.fields \in Seq(Tokens)
  BY DEF RecipeTypes
<1>2. \A i \in DOMAIN rec.fields : /\ rec.fields[i] \in Tokens
                                   /\ rec.fields[i].offset = Offset(rec.fields, i)
  BY <1>1, FieldsTypes, Offsets DEF Offset
<1>3. \A i \in DOMAIN rec.fields :
          [rec.fields[i] EXCEPT !.offset = Offset(rec.fields, i)] = rec.fields[i]
  BY <1>2 DEF Tokens
<1>4. Layout(rec.fields) = {rec.fields[i] : i \in DOMAIN rec.fields}
  <2>1. Layout(rec.fields)
          = {[rec.fields[i] EXCEPT !.offset = Offset(rec.fields, i)] : i \in DOMAIN rec.fields}
    BY Zenon DEF Layout, Offset, Prefix
  <2>2. \A x : x \in Layout(rec.fields) <=> \E i \in DOMAIN rec.fields : x = rec.fields[i]
    BY <1>3, <2>1
  <2>3. QED
    BY <2>2
<1>5. QED
  BY <1>4 DEF Range

-----------------------------------------------------------------------------
(* Steps that leave the recipes alone.  The setups and the data that are    *)
(* left or still under way are some of those there were, in their order;    *)
(* data of an output recipe may be added to the packages to be read.        *)

StreamKept ==
    \E k \in Nat : \A i \in DOMAIN stream' :
        \/ i + k \in DOMAIN stream /\ stream'[i] = stream[i + k]
        \/ stream'[i].kind \notin {"setup", "data"}
        \/ stream'[i].kind = "data" /\ DataOfOutput(stream'[i])

RequestsKept ==
    \E k \in Nat : \A i \in DOMAIN requests' :
        \/ i + k \in DOMAIN requests /\ requests'[i] = requests[i + k]
        \/ requests'[i].op \notin {"setup", "data"}

LEMMA RequestsSame == UNCHANGED requests /\ AllTypes => RequestsKept
<1>1. AllTypes => \A i \in DOMAIN requests : i + 0 \in DOMAIN requests /\ requests[i] = requests[i + 0]
  BY DEF AllTypes
<1>2. QED
  BY <1>1 DEF RequestsKept

LEMMA StreamSame == UNCHANGED stream /\ AllTypes => StreamKept
<1>1. AllTypes => \A i \in DOMAIN stream : i + 0 \in DOMAIN stream /\ stream[i] = stream[i + 0]
  BY DEF AllTypes
<1>2. QED
  BY <1>1 DEF StreamKept

LEMMA RequestsTail ==
    ASSUME AllTypes, requests # << >>, requests' = Tail(requests)
    PROVE  /\ RequestsKept /\ requests' \in Seq(RequestPackages)
           /\ \A i \in DOMAIN requests' : i + 1 \in DOMAIN requests /\ requests'[i] = requests[i + 1]
<1>1. requests \in Seq(RequestPackages)
  BY DEF AllTypes
<1>2. \A i \in DOMAIN requests' : i + 1 \in DOMAIN requests /\ requests'[i] = requests[i + 1]
  BY <1>1
<1>3. QED
  BY <1>1, <1>2 DEF RequestsKept

LEMMA RequestsAppend ==
    ASSUME AllTypes, NEW q \in RequestPackages, requests' = Append(requests, q)
    PROVE  /\ q.op \notin {"setup", "data"} => RequestsKept
           /\ requests' \in Seq(RequestPackages)
           /\ DOMAIN requests' = 1 .. Len(requests) + 1
           /\ Len(requests) \in Nat /\ DOMAIN requests = 1 .. Len(requests)
           /\ \A i \in DOMAIN requests : i \in DOMAIN requests' /\ requests'[i] = requests[i]
           /\ requests'[Len(requests) + 1] = q
<1>1. requests \in Seq(RequestPackages)
  BY DEF AllTypes
<1>2. /\ requests' \in Seq(RequestPackages)
      /\ DOMAIN requests' = 1 .. Len(requests) + 1
      /\ Len(requests) \in Nat /\ DOMAIN requests = 1 .. Len(requests)
      /\ \A i \in DOMAIN requests : i \in DOMAIN requests' /\ requests'[i] = requests[i]
      /\ requests'[Len(requests) + 1] = q
  BY <1>1
<1>3. \A i \in DOMAIN requests' : \/ i + 0 \in DOMAIN requests /\ requests'[i] = requests[i + 0]
                                  \/ requests'[i] = q
  BY <1>2
<1>4. ASSUME q.op \notin {"setup", "data"} PROVE RequestsKept
  <2>1. \A i \in DOMAIN requests' : \/ i + 0 \in DOMAIN requests /\ requests'[i] = requests[i + 0]
                                    \/ requests'[i].op \notin {"setup", "data"}
    BY <1>3, <1>4, Zenon
  <2>2. QED
    BY <2>1 DEF RequestsKept
<1>5. QED
  BY <1>2, <1>4, Zenon

LEMMA StreamAppend ==
    ASSUME AllTypes, NEW p \in Packages, stream' = Append(stream, p)
    PROVE  /\ p.kind \notin {"setup", "data"} => StreamKept
           /\ p.kind = "data" /\ DataOfOutput(p) => StreamKept
           /\ stream' \in Seq(Packages)
           /\ DOMAIN stream' = 1 .. Len(stream) + 1
           /\ Len(stream) \in Nat /\ DOMAIN stream = 1 .. Len(stream)
           /\ \A i \in DOMAIN stream : i \in DOMAIN stream' /\ stream'[i] = stream[i]
           /\ stream'[Len(stream) + 1] = p
<1>1. stream \in Seq(Packages)
  BY DEF AllTypes
<1>2. /\ stream' \in Seq(Packages)
      /\ DOMAIN stream' = 1 .. Len(stream) + 1
      /\ Len(stream) \in Nat /\ DOMAIN stream = 1 .. Len(stream)
      /\ \A i \in DOMAIN stream : i \in DOMAIN stream' /\ stream'[i] = stream[i]
      /\ stream'[Len(stream) + 1] = p
  BY <1>1
<1>3. \A i \in DOMAIN stream' : \/ i + 0 \in DOMAIN stream /\ stream'[i] = stream[i + 0]
                                \/ stream'[i] = p
  BY <1>2
<1>4. ASSUME p.kind \notin {"setup", "data"} \/ (p.kind = "data" /\ DataOfOutput(p))
      PROVE  StreamKept
  <2>1. \A i \in DOMAIN stream' : \/ i + 0 \in DOMAIN stream /\ stream'[i] = stream[i + 0]
                                  \/ stream'[i].kind \notin {"setup", "data"}
                                  \/ stream'[i].kind = "data" /\ DataOfOutput(stream'[i])
    BY <1>3, <1>4, Zenon
  <2>2. QED
    BY <2>1 DEF StreamKept
<1>5. QED
  BY <1>2, <1>4, Zenon

\* A read that is cut leaves the rest of a package before those that follow it.
LEMMA CutTakes ==
    ASSUME AllTypes, NEW n \in Nat, CutAfter(n)
    PROVE  /\ stream' \in Seq(Packages) /\ stream # << >>
           /\ \A i \in DOMAIN stream' :
                  stream'[i].kind # "tail" =>
                      i + n \in DOMAIN stream /\ stream'[i] = stream[i + n] /\ 1 < i + n
<1>1. stream \in Seq(Packages)
  BY DEF AllTypes
<1>2. /\ n < Len(stream) /\ Len(stream) \in Nat
      /\ stream' = <<Rest>> \o SubSeq(stream, n + 2, Len(stream))
  BY <1>1 DEF CutAfter
<1>3. Rest \in Packages /\ Rest.kind = "tail"
  BY DEF Rest, Packages
<1> DEFINE kept == SubSeq(stream, n + 2, Len(stream))
<1>4. /\ kept \in Seq(Packages) /\ Len(kept) = Len(stream) - (n + 1)
      /\ \A i \in 1 .. Len(kept) : kept[i] = stream[i + n + 1]
  BY <1>1, <1>2
<1> HIDE DEF kept
<1>5. stream' = <<Rest>> \o kept
  BY <1>2 DEF kept
<1>6. /\ stream' \in Seq(Packages) /\ DOMAIN stream' = 1 .. Len(kept) + 1
      /\ stream'[1] = Rest
      /\ \A i \in 2 .. Len(kept) + 1 : stream'[i] = kept[i - 1]
  BY <1>3, <1>4, <1>5
<1>7. ASSUME NEW i \in DOMAIN stream', stream'[i].kind # "tail"
      PROVE  i + n \in DOMAIN stream /\ stream'[i] = stream[i + n] /\ 1 < i + n
  <2>1. i \in 2 .. Len(kept) + 1
    BY <1>3, <1>4, <1>6, <1>7
  <2>2. stream'[i] = kept[i - 1] /\ i - 1 \in 1 .. Len(kept)
    BY <1>4, <1>6, <2>1
  <2>3. kept[i - 1] = stream[i + n]
    BY <1>4, <2>1, <2>2
  <2>4. i + n \in 1 .. Len(stream)
    BY <1>2, <1>4, <2>1
  <2>5. QED
    BY <1>1, <2>1, <2>2, <2>3, <2>4
<1>8. stream # << >>
  BY <1>1, <1>2
<1>9. QED
  BY <1>6, <1>7, <1>8

\* A read takes the first package, and perhaps more.
LEMMA ReadTakes ==
    ASSUME AllTypes, Read
    PROVE  /\ stream' \in Seq(Packages) /\ 1 \in DOMAIN stream /\ Head(stream) = stream[1]
           /\ stream # << >>
           /\ \E n \in Nat : \A i \in DOMAIN stream' :
                  stream'[i].kind # "tail" =>
                      i + n \in DOMAIN stream /\ stream'[i] = stream[i + n] /\ 1 < i + n
           /\ StreamKept
<1>1. stream \in Seq(Packages)
  BY DEF AllTypes
<1>2. PICK n \in 1 .. Len(stream) :
          stream' = SubSeq(stream, n + 1, Len(stream)) \/ CutAfter(n)
  BY DEF Read
<1>3. 1 \in DOMAIN stream /\ Head(stream) = stream[1] /\ stream # << >> /\ n \in Nat
  BY <1>1, <1>2
<1>4. /\ stream' \in Seq(Packages)
      /\ \A i \in DOMAIN stream' :
             stream'[i].kind # "tail" =>
                 i + n \in DOMAIN stream /\ stream'[i] = stream[i + n] /\ 1 < i + n
  <2>1. CASE stream' = SubSeq(stream, n + 1, Len(stream))
    BY <1>1, <1>2, <2>1
  <2>2. CASE CutAfter(n)
    BY <1>3, <2>2, CutTakes
  <2>3. QED
    BY <1>2, <2>1, <2>2
<1>5. StreamKept
  BY <1>3, <1>4 DEF StreamKept
<1>6. QED
  BY <1>3, <1>4, <1>5

LEMMA Read4Takes ==
    ASSUME AllTypes, Read4 PROVE StreamKept /\ stream' \in Seq(Packages)
<1>1. stream \in Seq(Packages)
  BY DEF AllTypes
<1>2. CASE stream # << >> /\ stream' = Tail(stream)
  <2>1. \A i \in DOMAIN stream' : i + 1 \in DOMAIN stream /\ stream'[i] = stream[i + 1]
    BY <1>1, <1>2
  <2>2. QED
    BY <1>1, <1>2, <2>1 DEF StreamKept
<1>3. CASE CutAfter(0)
  BY <1>3, CutTakes DEF StreamKept
<1>4. QED
  BY <1>2, <1>3 DEF Read4

\* Nothing is cut: a package is sent whole, or nothing of it is.
LEMMA SentWhole ==
    ASSUME whole', faults \in Nat, NEW how, Observed(FALSE, how)
    PROVE  /\ how # "part" /\ faults' \in {faults, faults + 1}
           /\ quiet' \in BOOLEAN /\ (quiet' => quiet)
<1>1. whole' = (whole /\ ~FALSE /\ how # "part") /\ quiet' = (quiet /\ ~FALSE /\ how # "part")
  BY DEF Observed
<1>2. how # "part"
  BY <1>1
<1>3. quiet' \in BOOLEAN /\ (quiet' => quiet)
  BY <1>1, Zenon
<1>4. faults' \in {faults, faults + 1}
  BY DEF Observed, Faults
<1>5. QED
  BY <1>2, <1>3, <1>4

\* As far as the numbers go, a data package of a recipe may be new.
SetupsKept ==
    \E k \in Nat : \A i \in DOMAIN requests' :
        \/ i + k \in DOMAIN requests /\ requests'[i] = requests[i + k]
        \/ requests'[i].op \notin {"setup", "data"}
        \/ /\ requests'[i].op = "data"
           /\ \E r \in Recipes : requests'[i].id \in {recipe[r].id, recipe[r].dp.id}

IdsKeep ==
    \A r \in Recipes : /\ recipe'[r].id = recipe[r].id
                       /\ recipe'[r].dp.id \in {recipe[r].dp.id, recipe[r].id}

LEMMA UnusedSteady ==
    ASSUME Numbers, UNCHANGED <<recipes_in, accepted, current>>,
           IdsKeep, StreamKept, SetupsKept, NEW id, Unused(id)
    PROVE  Unused(id)'
<1>1. \A r \in Recipes : recipe'[r].id < id /\ recipe'[r].dp.id < id
  BY DEF IdsKeep, Unused
<1>2. \A i \in DOMAIN stream' : stream'[i].kind = "setup" => stream'[i].id < id
  BY DEF StreamKept, Unused
<1>3. \A i \in DOMAIN requests' : requests'[i].op = "data" => requests'[i].id < id
  BY DEF SetupsKept, Unused
<1>4. QED
  BY <1>1, <1>2, <1>3 DEF Unused

LEMMA NumbersSteady ==
    ASSUME AllTypes, Numbers, UNCHANGED <<recipes_in, accepted, current>>,
           IdsKeep, StreamKept, SetupsKept, calls' \in Nat, calls <= calls',
           stream' \in Seq(Packages), requests' \in Seq(RequestPackages)
    PROVE  Numbers'
<1>1. calls \in Nat /\ DOMAIN stream' \subseteq Nat /\ DOMAIN requests' \subseteq Nat
  BY DEF AllTypes
<1>2. \A n \in 1 .. calls : n \in 1 .. calls'
  BY <1>1
<1>3. \A n \in -1 .. calls : n \in -1 .. calls'
  BY <1>1
<1>4. ASSUME NEW i \in DOMAIN requests', requests'[i].op = "setup"
      PROVE  /\ requests'[i].id \in 1 .. calls' /\ Unused(requests[i].id)'
             /\ Typed(requests'[i].fields, requests'[i].dir_out)
             /\ \A j \in DOMAIN requests' :
                    i < j /\ requests'[j].op = "setup" => requests'[i].id < requests'[j].id
  <2>1. PICK k \in Nat : \A j \in DOMAIN requests' :
            requests'[j].op = "setup" => j + k \in DOMAIN requests /\ requests'[j] = requests[j + k]
    BY DEF SetupsKept
  <2>2. /\ i + k \in DOMAIN requests /\ requests'[i] = requests[i + k]
        /\ requests[i + k].op = "setup"
    BY <1>4, <2>1
  <2>3. /\ requests'[i].id \in 1 .. calls /\ Unused(requests'[i].id)
        /\ Typed(requests'[i].fields, requests'[i].dir_out)
    BY <2>2 DEF Numbers
  <2>4. Unused(requests[i].id)'
    <3>1. \A n : Unused(n) => Unused(n)'
      BY UnusedSteady
    <3>2. QED
      BY <2>3, <3>1 DEF Unused
  <2>5. ASSUME NEW j \in DOMAIN requests', i < j, requests'[j].op = "setup"
        PROVE  requests'[i].id < requests'[j].id
    <3>1. j + k \in DOMAIN requests /\ requests'[j] = requests[j + k]
      BY <2>1, <2>5
    <3>2. i + k < j + k
      BY <1>1, <2>5
    <3>3. QED
      BY <2>2, <2>5, <3>1, <3>2 DEF Numbers
  <2>6. QED
    BY <1>2, <2>3, <2>4, <2>5
<1>5. ASSUME NEW i \in DOMAIN stream', stream'[i].kind = "setup"
      PROVE  /\ stream'[i].id \in 1 .. calls'
             /\ \A r \in Recipes : recipe'[r].id < stream'[i].id
             /\ \A n \in DOMAIN recipes_in' : n < stream'[i].id
             /\ \A j \in DOMAIN stream' :
                    i < j /\ stream'[j].kind = "setup" => stream'[i].id < stream'[j].id
  <2>1. PICK k \in Nat : \A j \in DOMAIN stream' :
            stream'[j].kind = "setup" => j + k \in DOMAIN stream /\ stream'[j] = stream[j + k]
    BY DEF StreamKept
  <2>2. /\ i + k \in DOMAIN stream /\ stream'[i] = stream[i + k]
        /\ stream[i + k].kind = "setup"
    BY <1>5, <2>1
  <2>3. /\ stream'[i].id \in 1 .. calls
        /\ \A r \in Recipes : recipe[r].id < stream'[i].id
        /\ \A n \in DOMAIN recipes_in : n < stream'[i].id
    BY <2>2 DEF Numbers
  <2>4. ASSUME NEW j \in DOMAIN stream', i < j, stream'[j].kind = "setup"
        PROVE  stream'[i].id < stream'[j].id
    <3>1. j + k \in DOMAIN stream /\ stream'[j] = stream[j + k]
      BY <2>1, <2>4
    <3>2. i + k < j + k
      BY <1>1, <2>4
    <3>3. QED
      BY <2>2, <2>4, <3>1, <3>2 DEF Numbers
  <2>5. QED
    BY <1>2, <2>3, <2>4 DEF IdsKeep
<1>6. \A r \in Recipes :
          /\ recipe'[r].id \in -1 .. calls'
          /\ recipe'[r].dp.id \in -1 .. calls'
          /\ \A q \in Recipes \ {r} : recipe'[r].id = recipe'[q].id => recipe'[r].id = -1
  BY <1>3 DEF Numbers, IdsKeep
<1>7. \A i \in DOMAIN requests' : requests'[i].op = "data" => requests'[i].id \in -1 .. calls'
  BY <1>3 DEF Numbers, SetupsKept
<1>8. QED
  BY <1>4, <1>5, <1>6, <1>7 DEF Numbers

LEMMA RepliesSteady ==
    ASSUME AllTypes, Replies, UNCHANGED <<accepted, current>>, StreamKept,
           calls' \in Nat, calls <= calls'
    PROVE  Replies'
<1>1. \A n \in 1 .. calls : n \in 1 .. calls'
  BY DEF AllTypes
<1>2. \A a \in accepted : Accepted(a) => Accepted(a)'
  BY <1>1 DEF Accepted
<1>3. \A p : DataOfOutput(p) => DataOfOutput(p)'
  BY DEF DataOfOutput
<1>4. ASSUME NEW i \in DOMAIN stream', stream'[i].kind = "data" PROVE DataOfOutput(stream[i])'
  <2>1. DataOfOutput(stream'[i])
    BY <1>4 DEF StreamKept, Replies
  <2>2. QED
    BY <2>1 DEF DataOfOutput
<1>5. QED
  BY <1>2, <1>4 DEF Replies, StreamKept

DataKept ==
    \A i \in DOMAIN requests' :
        requests'[i].op = "data" => \E j \in DOMAIN requests : requests[j] = requests'[i]

LEMMA ValuesSteady ==
    ASSUME Values, UNCHANGED <<recipe, recipes_in, accepted>>, DataKept PROVE Values'
<1>1. \A dp : Whole(dp) => Whole(dp)'
  BY DEF Whole
<1>2. \A r, rec : ValuesOf(r, rec) => ValuesOf(r, rec)'
  BY <1>1 DEF ValuesOf, Added
<1>3. \A i \in DOMAIN requests' : requests'[i].op = "data" => Whole(requests[i])'
  BY DEF DataKept, Values, Whole
<1>4. \A r \in Recipes : ValuesOf(r, recipe[r])'
  BY <1>2 DEF Values, ValuesOf, Whole, Added
<1>5. QED
  BY <1>3, <1>4 DEF Values, DataKept

-----------------------------------------------------------------------------
(* The recipes change. *)

LEMMA TokenOK ==
    ASSUME NEW dir_out \in BOOLEAN, NEW n \in Names, n \in DOMAIN TypeOf(dir_out), NEW offset \in Int
    PROVE  /\ Token(n, dir_out, offset) \in Tokens
           /\ DataSize[Token(n, dir_out, offset).type] \in Nat
           /\ DataSize[Token(n, dir_out, offset).type] > 0
<1>1. TypeOf(dir_out)[n] \in FieldTypes
  BY FieldTypesOK
<1>2. QED
  BY <1>1, FieldSizes DEF Token, Tokens

\* What a changed recipe must be like.
LEMMA ChangeStep ==
    ASSUME ValuesInv, NEW r \in Recipes, NEW rec \in RecipeTypes, Change(r, rec),
           rec.id = recipe[r].id, rec.dp = recipe[r].dp,
           LaidRecipe(rec), ValuesOf(r, rec)
    PROVE  ValuesInv'
<1>1. /\ recipe \in [Recipes -> RecipeTypes] /\ call = Idle
      /\ recipe' = [recipe EXCEPT ![r] = rec]
      /\ UNCHANGED <<out, recipes_in, call, result, storage, calls, registered, requests, stream,
                     accepted, current, streaming, registers, faults, quiet>>
  BY DEF ValuesInv, AllTypes, Change, remote, history
<1>2. /\ recipe' \in [Recipes -> RecipeTypes]
      /\ \A q \in Recipes : recipe'[q] = IF q = r THEN rec ELSE recipe[q]
  BY <1>1
<1>3. AllTypes'
  BY <1>1, <1>2 DEF ValuesInv, AllTypes, Idle
<1>4. Laid'
  BY <1>2 DEF ValuesInv, Laid, LaidRecipe, InOrder
<1>5. Numbers' /\ Replies'
  <2>1. IdsKeep /\ StreamKept /\ RequestsKept
    BY <1>1, <1>2, RequestsSame, StreamSame DEF IdsKeep, ValuesInv
  <2>2. SetupsKept
    BY <2>1 DEF RequestsKept, SetupsKept
  <2>3. QED
    BY <1>1, <1>3, <2>1, <2>2, NumbersSteady, RepliesSteady DEF ValuesInv, AllTypes
<1>6. Values'
  <2>1. \A q \in Recipes : ValuesOf(q, recipe'[q])
    BY <1>2 DEF ValuesInv, Values
  <2>2. \A q \in Recipes : ValuesOf(q, recipe[q])'
    BY <1>1, <2>1 DEF ValuesOf, Whole, Added
  <2>3. QED
    BY <1>1, <2>2 DEF ValuesInv, Values, Whole
<1>7. WholeStores'
  BY <1>1 DEF ValuesInv, WholeStores
<1>8. QED
  BY <1>3, <1>4, <1>5, <1>6, <1>7 DEF ValuesInv

\* A field more lies behind the others.
FieldGiven(rec, n, token, size, new) ==
    /\ InOrder(rec) /\ n \in DOMAIN TypeOf(rec.dir_out)
    /\ token = Token(n, rec.dir_out, rec.bytes)
    /\ size = DataSize[token.type] /\ rec.bytes + size <= MaxBytes
    /\ new = [rec EXCEPT !.fields = Append(@, token), !.bytes = @ + size]

FieldTaken(rec, n, token, size, new) ==
    /\ new \in RecipeTypes /\ InOrder(new) /\ Base(new) = Base(rec)
    /\ size \in Nat /\ size > 0 /\ new.bytes = rec.bytes + size
    /\ new.id = rec.id /\ new.dp = rec.dp /\ new.dir_out = rec.dir_out
    /\ token.name = n /\ token.type = TypeOf(rec.dir_out)[n]
    /\ new.fields # << >> /\ Len(new.fields) = Len(rec.fields) + 1
    /\ \A i \in DOMAIN rec.fields : i \in DOMAIN new.fields /\ new.fields[i] = rec.fields[i]
    /\ \A i \in DOMAIN new.fields :
           (i \in DOMAIN rec.fields /\ new.fields[i] = rec.fields[i]) \/ new.fields[i] = token

LEMMA FieldAdded ==
    ASSUME NEW rec \in RecipeTypes, NEW n \in Names, NEW token, NEW size, NEW new,
           FieldGiven(rec, n, token, size, new)
    PROVE  FieldTaken(rec, n, token, size, new)
<1>a. /\ InOrder(rec) /\ n \in DOMAIN TypeOf(rec.dir_out)
      /\ token = Token(n, rec.dir_out, rec.bytes)
      /\ size = DataSize[token.type] /\ rec.bytes + size <= MaxBytes
      /\ new = [rec EXCEPT !.fields = Append(@, token), !.bytes = @ + size]
  BY DEF FieldGiven
<1> DEFINE fields == Append(rec.fields, token)
<1>1. rec.fields \in Seq(Tokens) /\ rec.bytes \in Int /\ rec.dir_out \in BOOLEAN
  BY DEF RecipeTypes
<1>2. /\ token \in Tokens /\ size \in Nat /\ size > 0
      /\ token.name = n /\ token.type = TypeOf(rec.dir_out)[n] /\ token.offset = rec.bytes
  BY <1>1, <1>a, TokenOK DEF Token
<1>3. /\ fields \in Seq(Tokens) /\ Len(rec.fields) \in Nat
      /\ Len(fields) = Len(rec.fields) + 1 /\ fields # << >>
      /\ DOMAIN fields = 1 .. Len(rec.fields) + 1 /\ DOMAIN rec.fields = 1 .. Len(rec.fields)
      /\ \A i \in DOMAIN rec.fields : i \in DOMAIN fields /\ fields[i] = rec.fields[i]
      /\ fields[Len(rec.fields) + 1] = token
  BY <1>1, <1>2
<1>4. /\ TypesOf(fields) = Append(TypesOf(rec.fields), token.type)
      /\ ByteSize(TypesOf(fields)) = ByteSize(TypesOf(rec.fields)) + size
      /\ ByteSize(TypesOf(rec.fields)) \in Nat
      /\ \A i \in 0 .. Len(rec.fields) :
             Prefix(TypesOf(fields), i) = Prefix(TypesOf(rec.fields), i)
      /\ Prefix(TypesOf(rec.fields), Len(rec.fields)) = TypesOf(rec.fields)
  <2>1. TypesOf(fields) = Append(TypesOf(rec.fields), token.type)
    BY <1>1, <1>2, FieldsAppend
  <2>2. TypesOf(rec.fields) \in Seq(FieldTypes) /\ Len(TypesOf(rec.fields)) = Len(rec.fields)
    BY <1>1, FieldsTypes
  <2>3. token.type \in FieldTypes
    BY <1>2 DEF Tokens
  <2>4. Prefix(TypesOf(rec.fields), Len(TypesOf(rec.fields))) = TypesOf(rec.fields)
    BY <2>2 DEF Prefix
  <2>5. QED
    BY <1>a, <2>1, <2>2, <2>3, <2>4, SizeAppend
<1> HIDE DEF fields
<1>5. /\ new \in RecipeTypes /\ new.id = rec.id /\ new.dp = rec.dp /\ new.dir_out = rec.dir_out
      /\ new.fields = fields /\ new.bytes = rec.bytes + size
  <2>1. fields \in Seq(Tokens) /\ rec.bytes + size \in Int
    BY <1>1, <1>2, <1>3
  <2>2. new = [rec EXCEPT !.fields = fields, !.bytes = @ + size]
    BY <1>a DEF fields
  <2>3. QED
    BY <2>1, <2>2 DEF RecipeTypes
<1>6. Base(new) = Base(rec)
  <2>1. PICK before : before = ByteSize(TypesOf(rec.fields))
    OBVIOUS
  <2>2. Base(new) = (rec.bytes + size) - (before + size)
    BY <1>4, <1>5, <2>1 DEF Base
  <2>3. before \in Nat /\ rec.bytes \in Int /\ size \in Nat
    BY <1>1, <1>2, <1>4, <2>1
  <2>4. (rec.bytes + size) - (before + size) = rec.bytes - before
    BY ONLY <2>3
  <2>5. QED
    BY <2>1, <2>2, <2>4 DEF Base
<1>7. ASSUME NEW i \in DOMAIN fields
      PROVE  fields[i].offset = Base(new) + ByteSize(Prefix(TypesOf(fields), i - 1))
  <2>1. i - 1 \in 0 .. Len(rec.fields)
    BY <1>3
  <2>2. CASE i \in DOMAIN rec.fields
    BY <1>a, <1>3, <1>4, <1>6, <2>1, <2>2 DEF InOrder
  <2>3. CASE i = Len(rec.fields) + 1
    <3>1. fields[i].offset = rec.bytes /\ i - 1 = Len(rec.fields)
      BY <1>2, <1>3, <2>3
    <3>2. ByteSize(Prefix(TypesOf(fields), i - 1)) = ByteSize(TypesOf(rec.fields))
      BY <1>4, <2>1, <3>1
    <3>3. QED
      BY <1>1, <1>4, <1>6, <3>1, <3>2 DEF Base
  <2>4. QED
    BY <1>3, <2>2, <2>3
<1>8. InOrder(new)
  BY <1>a, <1>5, <1>6, <1>7 DEF InOrder
<1>9. \A i \in DOMAIN fields : (i \in DOMAIN rec.fields /\ fields[i] = rec.fields[i]) \/ fields[i] = token
  BY <1>3
<1>10. QED
  BY <1>2, <1>3, <1>5, <1>6, <1>8, <1>9 DEF FieldTaken

\* It makes the recipe larger than what it was registered with.
LEMMA AddFieldStep ==
    ASSUME ValuesInv, NEW r \in Recipes, NEW n \in Names, AddField(r, n) PROVE ValuesInv'
<1>r. PICK rec : rec = recipe[r]
  OBVIOUS
<1>t. PICK token : token = Token(n, rec.dir_out, rec.bytes)
  OBVIOUS
<1>s. PICK size : size = DataSize[token.type]
  OBVIOUS
<1>n. PICK new : new = [rec EXCEPT !.fields = Append(@, token), !.bytes = @ + size]
  OBVIOUS
<1>1. /\ rec \in RecipeTypes /\ LaidRecipe(rec) /\ ValuesOf(r, rec)
      /\ rec.fields \in Seq(Tokens) /\ rec.bytes \in Int /\ rec.dir_out \in BOOLEAN
  BY <1>r DEF ValuesInv, AllTypes, RecipeTypes, Laid, Values
<1>2. /\ Change(r, new) /\ n \in DOMAIN TypeOf(rec.dir_out)
      /\ Len(rec.fields) < MaxFields /\ rec.bytes + size <= MaxBytes
  BY <1>r, <1>t, <1>s, <1>n DEF AddField
<1>3. /\ new \in RecipeTypes /\ InOrder(new) /\ Base(new) = Base(rec)
      /\ size \in Nat /\ size > 0 /\ new.bytes = rec.bytes + size
      /\ new.id = rec.id /\ new.dp = rec.dp /\ new.dir_out = rec.dir_out
      /\ token.name = n /\ token.type = TypeOf(rec.dir_out)[n]
      /\ new.fields # << >> /\ Len(new.fields) = Len(rec.fields) + 1
      /\ \A i \in DOMAIN rec.fields : i \in DOMAIN new.fields /\ new.fields[i] = rec.fields[i]
      /\ \A i \in DOMAIN new.fields :
             (i \in DOMAIN rec.fields /\ new.fields[i] = rec.fields[i]) \/ new.fields[i] = token
  <2>1. InOrder(rec) /\ n \in DOMAIN TypeOf(rec.dir_out) /\ rec.bytes + size <= MaxBytes
    BY <1>1, <1>2 DEF LaidRecipe
  <2>2. FieldGiven(rec, n, token, size, new)
    BY <1>t, <1>s, <1>n, <2>1 DEF FieldGiven
  <2>3. QED
    BY <1>1, <2>2, FieldAdded DEF FieldTaken
<1>8. LaidRecipe(new)
  <2>1. Typed(new.fields, new.dir_out)
    BY <1>1, <1>2, <1>3 DEF LaidRecipe, Typed
  <2>2. Len(new.fields) <= MaxFields
    <3>1. Len(rec.fields) \in Nat
      BY <1>1
    <3>2. QED
      BY <1>2, <1>3, <3>1, RtdeAssumption
  <2>3. Range(rec.fields) \subseteq Range(new.fields)
    BY <1>3 DEF Range
  <2>4. QED
    BY <1>1, <1>3, <2>1, <2>2, <2>3 DEF LaidRecipe
<1>9. ValuesOf(r, new)
  <2>1. \A a \in accepted : a.id = new.id => a.bytes < new.bytes
    <3> SUFFICES ASSUME NEW a \in accepted, a.id = rec.id PROVE a.bytes < rec.bytes + size
      BY <1>1, <1>3
    <3>1. a.bytes <= rec.bytes
      BY <1>1 DEF ValuesOf
    <3>2. a.bytes \in Int
      <4>1. PICK f \in Seq(Tokens) : a.bytes = ByteSize(TypesOf(f))
        BY DEF ValuesInv, Replies, Accepted
      <4>2. QED
        BY <4>1, Offsets
    <3>3. QED
      BY <1>1, <1>3, <3>1, <3>2
  <2>2. \A a \in accepted : a.bytes \in Int
    <3> SUFFICES ASSUME NEW a \in accepted PROVE a.bytes \in Int
      OBVIOUS
    <3>1. PICK f \in Seq(Tokens) : a.bytes = ByteSize(TypesOf(f))
      BY DEF ValuesInv, Replies, Accepted
    <3>2. QED
      BY <3>1, Offsets
  <2>3. new.bytes \in Int
    BY <1>3 DEF RecipeTypes
  <2>4. \A a \in accepted : a.id = new.id => a.bytes <= new.bytes /\ a.bytes # new.bytes
    BY <2>1, <2>2, <2>3
  <2>5. QED
    BY <1>1, <1>3, <2>4 DEF ValuesOf
<1>10. QED
  BY <1>r, <1>2, <1>3, <1>8, <1>9, ChangeStep

\* The bytes of the fields that are cleared stay before those to come.
LEMMA ClearFieldsStep ==
    ASSUME ValuesInv, NEW r \in Recipes, ClearFields(r) PROVE ValuesInv'
<1> DEFINE rec == recipe[r]
           new == [rec EXCEPT !.fields = << >>]
<1>1. /\ rec \in RecipeTypes /\ LaidRecipe(rec) /\ ValuesOf(r, rec)
      /\ rec.fields \in Seq(Tokens) /\ rec.bytes \in Int
  BY DEF ValuesInv, AllTypes, RecipeTypes, Laid, Values
<1>2. Change(r, new) /\ rec.fields # << >>
  BY DEF ClearFields
<1> HIDE DEF rec
<1>3. << >> \in Seq(Tokens)
  OBVIOUS
<1>4. /\ new \in RecipeTypes /\ new.id = rec.id /\ new.dp = rec.dp /\ new.dir_out = rec.dir_out
      /\ new.fields = << >> /\ new.bytes = rec.bytes
  BY <1>1, <1>3 DEF RecipeTypes
<1> HIDE DEF new
<1>5. Base(new) > 0 /\ rec.bytes > 0
  <2>1. ByteSize(TypesOf(rec.fields)) \in Nat /\ ByteSize(TypesOf(rec.fields)) > 0
    BY <1>1, <1>2, Offsets
  <2>2. rec.bytes > 0
    BY <1>1, <2>1 DEF LaidRecipe, InOrder, Base
  <2>3. TypesOf(<< >>) = << >>
    BY DEF TypesOf
  <2>4. QED
    BY <1>1, <1>4, <2>2, <2>3, SizeEmpty DEF Base
<1>6. LaidRecipe(new)
  <2>1. Len(new.fields) <= MaxFields
    BY <1>4, RtdeAssumption
  <2>2. Base(new) \in Int
    BY <1>1, <1>4, SizeEmpty DEF Base, TypesOf
  <2>3. QED
    BY <1>1, <1>4, <1>5, <2>1, <2>2 DEF LaidRecipe, InOrder, Typed
<1>7. ValuesOf(r, new)
  BY <1>1, <1>4, <1>5 DEF ValuesOf, Within, Range
<1>8. QED
  BY <1>2, <1>4, <1>6, <1>7, ChangeStep DEF rec

LEMMA SetDirStep ==
    ASSUME ValuesInv, NEW r \in Recipes, SetDir(r) PROVE ValuesInv'
<1> DEFINE rec == recipe[r]
           new == [rec EXCEPT !.dir_out = ~@]
<1>1. /\ rec \in RecipeTypes /\ LaidRecipe(rec) /\ ValuesOf(r, rec)
  BY DEF ValuesInv, AllTypes, Laid, Values
<1>2. Change(r, new) /\ rec.fields = << >>
  BY DEF SetDir
<1> HIDE DEF rec
<1>3. /\ new \in RecipeTypes /\ new.id = rec.id /\ new.dp = rec.dp
      /\ new.fields = rec.fields /\ new.bytes = rec.bytes
  BY <1>1 DEF RecipeTypes
<1> HIDE DEF new
<1>4. Base(new) = Base(rec)
  BY <1>3 DEF Base
<1>5. LaidRecipe(new)
  BY <1>1, <1>2, <1>3, <1>4 DEF LaidRecipe, InOrder, Typed
<1>6. ValuesOf(r, new)
  BY <1>1, <1>2, <1>3, <1>4 DEF ValuesOf
<1>7. QED
  BY <1>2, <1>3, <1>5, <1>6, ChangeStep DEF rec

-----------------------------------------------------------------------------
(* The steps that leave recipes and setups alone. *)

LEMMA SteadyStep ==
    ASSUME ValuesInv, AllTypes', UNCHANGED <<recipe, recipes_in, accepted, current>>,
           StreamKept, RequestsKept, calls <= calls', WholeStores'
    PROVE  ValuesInv'
<1>1. SetupsKept /\ DataKept /\ IdsKeep
  BY DEF RequestsKept, SetupsKept, DataKept, IdsKeep
<1>2. /\ calls' \in Nat /\ stream' \in Seq(Packages) /\ requests' \in Seq(RequestPackages)
  BY DEF AllTypes
<1>3. Laid'
  BY DEF ValuesInv, Laid, LaidRecipe, InOrder, Base, Typed
<1>4. Numbers' /\ Replies' /\ Values'
  BY <1>1, <1>2, NumbersSteady, RepliesSteady, ValuesSteady DEF ValuesInv
<1>5. QED
  BY <1>3, <1>4 DEF ValuesInv

\* The requests of the handler that are not setups.
LEMMA PlainRequestStep ==
    ASSUME ValuesInv, NEW op \in {"start", "stop", "version"},
           NEW q \in [op : {"start", "pause", "version"}], Request(op, NoRecipe, q)
    PROVE  ValuesInv'
<1>1. /\ calls' = calls + 1 /\ calls + faults < MaxCalls /\ requests' = Append(requests, q)
      /\ call' = [op |-> op, r |-> NoRecipe]
      /\ quiet' = (quiet /\ requests = << >> /\ stream = << >> /\ ~streaming)
      /\ UNCHANGED <<recipe, out, recipes_in, result, storage, registered, stream, accepted, current,
                     streaming, registers, faults>>
  BY DEF Request, remote
<1>2. q \in RequestPackages /\ q.op \notin {"setup", "data"}
  BY DEF RequestPackages
<1>3. RequestsKept /\ requests' \in Seq(RequestPackages) /\ StreamKept
  BY <1>1, <1>2, RequestsAppend, StreamSame DEF ValuesInv
<1>4. /\ calls \in Nat /\ faults \in Nat /\ MaxCalls \in Nat
      /\ 1 .. calls \subseteq 1 .. calls' /\ 0 .. calls \subseteq 0 .. calls'
      /\ calls' \in 0 .. MaxCalls
  BY <1>1, RtdeAssumption DEF ValuesInv, AllTypes
<1>5. call'.op # "register" /\ call' \in [op : {"none", "register", "start", "stop", "version"}, r : Recipes \cup {NoRecipe}]
  BY <1>1
<1>6. quiet' \in BOOLEAN
  BY <1>1
<1>7. registered' \in [Recipes -> 0 .. calls']
  BY <1>1, <1>4 DEF ValuesInv, AllTypes
<1>8. AllTypes'
  BY <1>1, <1>3, <1>4, <1>5, <1>6, <1>7 DEF ValuesInv, AllTypes
<1>9. WholeStores'
  BY <1>1 DEF ValuesInv, WholeStores
<1>10. QED
  BY <1>1, <1>3, <1>4, <1>8, <1>9, SteadyStep

\* A text to the controller, and a request of which nothing is sent.
LEMMA FaultStep ==
    ASSUME ValuesInv, whole', SendEmergMsg \/ SendFails PROVE ValuesInv'
<1>1. /\ faults' \in {faults, faults + 1} /\ call = Idle /\ result' \in BOOLEAN
      /\ requests' \in {requests, Append(requests, [op |-> "text"])} /\ quiet' \in BOOLEAN
      /\ UNCHANGED <<recipe, out, recipes_in, call, storage, calls, registered, stream, accepted,
                     current, streaming, registers>>
  <2>1. CASE SendEmergMsg
    BY <2>1 DEF ValuesInv, AllTypes, SendEmergMsg, Fault, Faults, remote
  <2>2. CASE SendFails
    <3>1. PICK how \in Failed : DoSend(Part, how) /\ Observed(FALSE, how)
      BY <2>2 DEF SendFails
    <3>2. how # "part" /\ faults' \in {faults, faults + 1} /\ quiet' \in BOOLEAN
      BY <3>1, SentWhole DEF ValuesInv, AllTypes
    <3>3. UNCHANGED requests
      BY <3>1, <3>2 DEF DoSend, Failed
    <3>4. QED
      BY <2>2, <3>2, <3>3 DEF SendFails, remote
  <2>3. QED
    BY <2>1, <2>2
<1>2. [op |-> "text"] \in RequestPackages /\ [op |-> "text"].op \notin {"setup", "data"}
  BY DEF RequestPackages
<1>3. RequestsKept /\ requests' \in Seq(RequestPackages) /\ StreamKept
  BY <1>1, <1>2, RequestsAppend, RequestsSame, StreamSame DEF ValuesInv, AllTypes
<1>4. AllTypes'
  BY <1>1, <1>3 DEF ValuesInv, AllTypes
<1>5. WholeStores' /\ calls <= calls'
  BY <1>1 DEF ValuesInv, WholeStores, AllTypes
<1>6. QED
  BY <1>1, <1>3, <1>4, <1>5, SteadyStep

\* A reply that changes no recipe, or none at all.
LEMMA PlainReplyStep ==
    ASSUME ValuesInv, ReadFails \/ RegisterFails \/ StartStopReplied \/ VersionReplied
    PROVE  ValuesInv'
<1>1. /\ call' = Idle /\ faults' \in {faults, faults + 1} /\ result' \in BOOLEAN
      /\ quiet' \in BOOLEAN
      /\ UNCHANGED <<recipe, out, recipes_in, storage, calls, registered, requests, accepted,
                     current, streaming, registers>>
  BY DEF ValuesInv, AllTypes, ReadFails, RegisterFails, StartStopReplied, VersionReplied, GivesUp,
         Fault, Faults, remote, history
<1>2. StreamKept /\ stream' \in Seq(Packages) /\ RequestsKept
  <2>1. Read \/ Read4 \/ UNCHANGED stream
    BY DEF ReadFails, RegisterFails, StartStopReplied, VersionReplied
  <2>2. UNCHANGED stream => stream' \in Seq(Packages)
    BY DEF ValuesInv, AllTypes
  <2>3. QED
    BY <1>1, <2>1, <2>2, ReadTakes, Read4Takes, StreamSame, RequestsSame DEF ValuesInv
<1>3. AllTypes'
  BY <1>1, <1>2 DEF ValuesInv, AllTypes, Idle
<1>4. WholeStores' /\ calls <= calls'
  BY <1>1 DEF ValuesInv, WholeStores, AllTypes
<1>5. QED
  BY <1>1, <1>2, <1>3, <1>4, SteadyStep

LEMMA FoundIn ==
    ASSUME NEW t, NEW payload, \E v \in payload : SamePlace(t, v)
    PROVE  \E v \in payload : SamePlace(t, v) /\ Found(t, payload) = v.name
<1> DEFINE There(v) == v.offset = t.offset /\ v.type = t.type
<1>1. \E v \in payload : There(v)
  BY DEF SamePlace
<1>2. /\ (CHOOSE v \in payload : There(v)) \in payload
      /\ There(CHOOSE v \in payload : There(v))
  BY <1>1
<1>3. Found(t, payload) = (CHOOSE v \in payload : There(v)).name
  BY <1>1 DEF Found
<1>4. QED
  BY <1>2, <1>3 DEF SamePlace

\* A variable of a setup is one of the variables there are.
LEMMA PayloadNames ==
    ASSUME ValuesInv, NEW a \in accepted
    PROVE  /\ \A v \in a.payload : v \in Tokens /\ v.name \in Names \cap DOMAIN TypeOf(a.dir_out)
           /\ a.bytes \in Nat
           /\ DOMAIN a.names \subseteq Nat
           /\ \A n \in Range(a.names) :
                  n \in DOMAIN TypeOf(a.dir_out) /\ \E v \in a.payload : v.name = n
<1>1. PICK fields \in Seq(Tokens) :
          /\ Typed(fields, a.dir_out) /\ a.names = NamesOf(fields)
          /\ a.bytes = ByteSize(TypesOf(fields)) /\ a.payload = Layout(fields)
  BY DEF ValuesInv, Replies, Accepted
<1>2. \A v \in a.payload : v \in Tokens /\ v.name \in DOMAIN TypeOf(a.dir_out)
  BY <1>1, LayoutTokens DEF Typed
<1>3. a.bytes \in Nat
  BY <1>1, Offsets
<1>4. \A i \in DOMAIN fields : /\ fields[i].name \in DOMAIN TypeOf(a.dir_out)
                               /\ \E v \in a.payload : v.name = fields[i].name
  BY <1>1, LayoutTokens DEF Typed
<1>5. Range(a.names) = {fields[i].name : i \in DOMAIN fields}
  BY <1>1 DEF NamesOf, Range
<1>6. DOMAIN a.names \subseteq Nat
  BY <1>1 DEF NamesOf
<1>7. QED
  BY <1>2, <1>3, <1>4, <1>5, <1>6 DEF Tokens

\* The last token of a variable in a recipe.
LEMMA LastToken ==
    ASSUME NEW fields \in Seq(Tokens), NEW n, \E i \in DOMAIN fields : fields[i].name = n
    PROVE  LET last == Max({i \in DOMAIN fields : fields[i].name = n})
           IN  last \in DOMAIN fields /\ fields[last].name = n
<1> DEFINE S == {i \in DOMAIN fields : fields[i].name = n}
<1>1. Len(fields) \in Nat /\ S \subseteq 0 .. Len(fields) /\ S # {}
  OBVIOUS
<1> HIDE DEF S
<1>2. Max(S) \in S
  BY <1>1, MaxElement
<1>3. QED
  BY <1>2 DEF S

\* Data that is parsed has the id and the size of the recipe: every token finds a variable.
LEMMA RecvStep == ASSUME ValuesInv, Recv PROVE ValuesInv'
<1>1. /\ out \in Recipes /\ Read /\ call = Idle
      /\ storage' = IF Accepts(Head(stream))
                    THEN Parsed(recipe[out].fields, Head(stream).payload)
                    ELSE storage
      /\ UNCHANGED <<recipe, out, recipes_in, call, result, calls, registered, requests, accepted,
                     current, streaming, registers, faults, quiet>>
  BY DEF ValuesInv, AllTypes, Recv, remote, history
<1>2. StreamKept /\ stream' \in Seq(Packages) /\ RequestsKept
  BY <1>1, ReadTakes, RequestsSame DEF ValuesInv
<1>3. AllTypes'
  BY <1>1, <1>2 DEF ValuesInv, AllTypes
<1>4. storage' \in [Outputs -> Outputs \cup {"none"}]
  <2>1. CASE ~Accepts(Head(stream))
    BY <1>1, <2>1 DEF ValuesInv, WholeStores
  <2>2. CASE Accepts(Head(stream))
    <3> DEFINE rec == recipe[out]
               p == Head(stream)
    <3>1. /\ p.kind = "data" /\ rec.id = p.id /\ rec.bytes = p.bytes
      BY <2>2 DEF Accepts
    <3>2. 1 \in DOMAIN stream /\ p = stream[1]
      BY <1>1, ReadTakes DEF ValuesInv
    <3>3. PICK a \in accepted : a.dir_out /\ a.id = p.id /\ a.bytes = p.bytes /\ a.payload = p.payload
      BY <3>1, <3>2 DEF ValuesInv, Replies, DataOfOutput
    <3>4. Within(Range(rec.fields), p.payload)
      BY <1>1, <3>1, <3>3 DEF ValuesInv, Values, ValuesOf
    <3>5. \A v \in p.payload : v.name \in Outputs
      BY <3>3, PayloadNames DEF Outputs, TypeOf
    <3>6. storage \in [Outputs -> Outputs \cup {"none"}] /\ DOMAIN storage = Outputs
      BY DEF ValuesInv, WholeStores
    <3>7. rec.fields \in Seq(Tokens)
      BY <1>1 DEF ValuesInv, AllTypes, RecipeTypes
    <3>8. storage' = Parsed(rec.fields, p.payload)
      BY <1>1, <2>2
    <3> HIDE DEF rec, p
    <3>9. ASSUME NEW n \in Outputs, \E i \in DOMAIN rec.fields : rec.fields[i].name = n
          PROVE  Found(rec.fields[Max({i \in DOMAIN rec.fields : rec.fields[i].name = n})], p.payload)
                   \in Outputs
      <4> DEFINE last == Max({i \in DOMAIN rec.fields : rec.fields[i].name = n})
      <4>1. last \in DOMAIN rec.fields
        BY <3>7, <3>9, LastToken
      <4> HIDE DEF last
      <4>2. \E v \in p.payload : SamePlace(rec.fields[last], v)
        BY <3>4, <4>1 DEF Within, Range
      <4>3. Found(rec.fields[last], p.payload) \in Outputs
        BY <3>5, <4>2, FoundIn
      <4>4. QED
        BY <4>3 DEF last
    <3>10. storage' = [n \in Outputs |->
                          IF {i \in DOMAIN rec.fields : rec.fields[i].name = n} = {} THEN storage[n]
                          ELSE Found(rec.fields[Max({i \in DOMAIN rec.fields : rec.fields[i].name = n})],
                                     p.payload)]
      BY <3>6, <3>8 DEF Parsed
    <3>11. \A n \in Outputs : {i \in DOMAIN rec.fields : rec.fields[i].name = n} # {} =>
               \E i \in DOMAIN rec.fields : rec.fields[i].name = n
      OBVIOUS
    <3>12. \A n \in Outputs : storage[n] \in Outputs \cup {"none"}
      BY <3>6
    <3>13. QED
      BY <3>9, <3>10, <3>11, <3>12
  <2>3. QED
    BY <2>1, <2>2
<1>5. WholeStores' /\ calls <= calls'
  BY <1>1, <1>4 DEF ValuesInv, WholeStores, AllTypes
<1>6. QED
  BY <1>1, <1>2, <1>3, <1>5, SteadyStep

-----------------------------------------------------------------------------
(* The controller. *)

\* An answer that is not one to a setup.
LEMMA PlainAnswerStep ==
    ASSUME ValuesInv, AnswerStart \/ AnswerPause \/ AnswerVersion PROVE ValuesInv'
<1>1. PICK p \in [kind : {"start", "pause"}, accepted : BOOLEAN] \cup [kind : {"version"}] :
          stream' = Append(stream, p)
  <2>1. \A ok \in BOOLEAN :
            [kind |-> "start", accepted |-> ok] \in [kind : {"start", "pause"}, accepted : BOOLEAN]
    OBVIOUS
  <2>2. [kind |-> "pause", accepted |-> TRUE] \in [kind : {"start", "pause"}, accepted : BOOLEAN]
    OBVIOUS
  <2>3. [kind |-> "version"] \in [kind : {"version"}]
    OBVIOUS
  <2>4. QED
    BY <2>1, <2>2, <2>3 DEF AnswerStart, AnswerPause, AnswerVersion, Reply
<1>2. /\ requests # << >> /\ requests' = Tail(requests) /\ streaming' \in BOOLEAN
      /\ UNCHANGED <<recipe, out, recipes_in, call, result, storage, calls, registered, accepted,
                     current, registers, faults, quiet>>
  BY DEF ValuesInv, AllTypes, AnswerStart, AnswerPause, AnswerVersion, Reply, Pending, client,
         history
<1>3. p \in Packages /\ p.kind \notin {"setup", "data"}
  BY <1>1 DEF Packages
<1>4. StreamKept /\ stream' \in Seq(Packages) /\ RequestsKept /\ requests' \in Seq(RequestPackages)
  BY <1>1, <1>2, <1>3, StreamAppend, RequestsTail DEF ValuesInv
<1>5. AllTypes'
  BY <1>2, <1>4 DEF ValuesInv, AllTypes
<1>6. WholeStores' /\ calls <= calls'
  BY <1>2 DEF ValuesInv, WholeStores, AllTypes
<1>7. QED
  BY <1>2, <1>4, <1>5, <1>6, SteadyStep

\* Data of the output recipe, and texts.
LEMMA SendStep == ASSUME ValuesInv, SendData \/ SendText PROVE ValuesInv'
<1>1. /\ quiet' \in BOOLEAN /\ faults' \in {faults, faults + 1}
      /\ UNCHANGED <<recipe, out, recipes_in, call, result, storage, calls, registered, requests,
                     accepted, current, streaming, registers>>
  BY DEF ValuesInv, AllTypes, SendData, SendText, Fault, Faults, client, remote, history
<1>2. StreamKept /\ stream' \in Seq(Packages)
  <2>1. CASE SendText
    <3>1. stream' = Append(stream, [kind |-> "text"])
      BY <2>1 DEF SendText
    <3>2. [kind |-> "text"] \in Packages /\ [kind |-> "text"].kind = "text"
      BY DEF Packages
    <3>3. QED
      BY <3>1, <3>2, StreamAppend DEF ValuesInv
  <2>2. CASE SendData
    <3>1. PICK a \in accepted :
              /\ a.id = current
              /\ stream' = Append(stream, [kind |-> "data", id |-> a.id, bytes |-> a.bytes,
                                           payload |-> a.payload])
      BY <2>2 DEF SendData
    <3> DEFINE p == [kind |-> "data", id |-> a.id, bytes |-> a.bytes, payload |-> a.payload]
    <3>2. a.dir_out /\ a.id \in Int
      BY <3>1 DEF ValuesInv, Replies, Accepted
    <3>3. a.bytes \in Int /\ a.payload \in SUBSET Tokens
      BY PayloadNames
    <3>4. p \in Packages /\ p.kind = "data"
      BY <3>2, <3>3 DEF Packages
    <3>5. DataOfOutput(p)
      BY <3>2 DEF DataOfOutput
    <3> HIDE DEF p
    <3>6. stream' = Append(stream, p)
      BY <3>1 DEF p
    <3>7. QED
      BY <3>4, <3>5, <3>6, StreamAppend DEF ValuesInv
  <2>3. QED
    BY <2>1, <2>2
<1>3. RequestsKept
  BY <1>1, RequestsSame DEF ValuesInv
<1>4. AllTypes'
  BY <1>1, <1>2 DEF ValuesInv, AllTypes
<1>5. WholeStores' /\ calls <= calls'
  BY <1>1 DEF ValuesInv, WholeStores, AllTypes
<1>6. QED
  BY <1>1, <1>2, <1>3, <1>4, <1>5, SteadyStep

\* A data package with the id and the size of a setup has a variable at each of its places.
LEMMA TakeStep == ASSUME ValuesInv, TakeInput \/ TakeText PROVE ValuesInv'
<1>1. /\ requests # << >> /\ requests' = Tail(requests)
      /\ UNCHANGED <<recipe, out, recipes_in, call, result, storage, calls, registered, stream,
                     accepted, current, streaming, faults, quiet>>
  BY DEF TakeInput, TakeText, Pending, client, remote, history
<1>2. RequestsKept /\ requests' \in Seq(RequestPackages) /\ StreamKept
  BY <1>1, RequestsTail, StreamSame DEF ValuesInv
<1>3. AllTypes'
  BY <1>1, <1>2 DEF ValuesInv, AllTypes
<1>4. registers' \in [Inputs -> Inputs \cup {"none"}]
  <2>1. registers \in [Inputs -> Inputs \cup {"none"}] /\ DOMAIN registers = Inputs
    BY DEF ValuesInv, WholeStores
  <2>2. CASE TakeText
    BY <2>1, <2>2 DEF TakeText, remote
  <2>3. CASE TakeInput
    <3> DEFINE dp == Head(requests)
               taken(n) == \E a \in accepted : a.id = dp.id /\ a.bytes = dp.bytes /\ n \in Range(a.names)
               place(n) == CHOOSE v \in (CHOOSE a \in accepted : a.id = dp.id).payload : v.name = n
    <3>1. registers' = [n \in Inputs |-> IF taken(n) THEN Found(place(n), dp.payload) ELSE registers[n]]
      BY <2>1, <2>3 DEF TakeInput
    <3>2. dp.op = "data" /\ dp = requests[1] /\ 1 \in DOMAIN requests
      <4>1. requests \in Seq(RequestPackages)
        BY DEF ValuesInv, AllTypes
      <4>2. QED
        BY <1>1, <2>3, <4>1 DEF TakeInput, Pending
    <3>3. Whole(dp) /\ \A t \in dp.payload : t.name \in Inputs
      BY <3>2 DEF ValuesInv, Values
    <3> HIDE DEF dp
    <3>4. ASSUME NEW n \in Inputs, taken(n) PROVE Found(place(n), dp.payload) \in Inputs
      <4>1. PICK a \in accepted : a.id = dp.id /\ a.bytes = dp.bytes /\ n \in Range(a.names)
        BY <3>4
      <4>2. \A b \in accepted : b.id = a.id => b = a
        BY DEF ValuesInv, Replies
      <4>3. (CHOOSE b \in accepted : b.id = dp.id) = a
        BY <4>1, <4>2
      <4>4. ~a.dir_out
        <5>1. n \in DOMAIN InputType /\ n \notin DOMAIN OutputType
          BY DEF Inputs, InputType, OutputType
        <5>2. n \in DOMAIN TypeOf(a.dir_out)
          BY <4>1, PayloadNames
        <5>3. QED
          BY <5>1, <5>2 DEF TypeOf
      <4>5. Within(a.payload, dp.payload)
        BY <3>3, <4>1, <4>4 DEF Whole
      <4>6. \E v \in a.payload : v.name = n
        BY <4>1, PayloadNames
      <4>7. place(n) \in a.payload
        BY <4>3, <4>6
      <4> HIDE DEF place
      <4>8. \E v \in dp.payload : SamePlace(place(n), v)
        BY <4>5, <4>7 DEF Within
      <4>9. QED
        BY <3>3, <4>8, FoundIn
    <3> HIDE DEF taken, place
    <3>5. \A n \in Inputs : registers[n] \in Inputs \cup {"none"}
      BY <2>1
    <3>6. QED
      BY <3>1, <3>4, <3>5
  <2>4. QED
    BY <2>2, <2>3
<1>5. WholeStores' /\ calls <= calls'
  BY <1>1, <1>4 DEF ValuesInv, WholeStores, AllTypes
<1>6. QED
  BY <1>1, <1>2, <1>3, <1>5, SteadyStep

\* The reply to a setup takes the place of the setup in the order of the ids.
LEMMA SetupAnswered ==
    ASSUME ValuesInv, NEW s, s = Head(requests), requests # << >>, s.op = "setup",
           requests' = Tail(requests), NEW p \in Packages, p.kind = "setup", p.id = s.id,
           stream' = Append(stream, p), current' \in {current, 0, s.id},
           \A b \in accepted' : b \in accepted \/ b.id = s.id,
           UNCHANGED <<recipe, recipes_in, calls>>
    PROVE  Numbers'
<1>1. /\ requests \in Seq(RequestPackages) /\ calls \in Nat /\ Numbers
      /\ 1 \in DOMAIN requests /\ requests[1] = s
  <2>1. requests \in Seq(RequestPackages)
    BY DEF ValuesInv, AllTypes
  <2>2. 1 \in DOMAIN requests /\ requests[1] = s
    BY <2>1
  <2>3. QED
    BY <2>1, <2>2 DEF ValuesInv, AllTypes
<1>2. s.id \in 1 .. calls /\ Unused(s.id)
  BY <1>1 DEF Numbers
<1>3. \A i \in DOMAIN requests' : i + 1 \in DOMAIN requests /\ requests'[i] = requests[i + 1]
  BY RequestsTail DEF ValuesInv
<1>4. /\ DOMAIN stream' = 1 .. Len(stream) + 1
      /\ Len(stream) \in Nat /\ DOMAIN stream = 1 .. Len(stream)
      /\ \A i \in DOMAIN stream : i \in DOMAIN stream' /\ stream'[i] = stream[i]
      /\ stream'[Len(stream) + 1] = p
  BY StreamAppend DEF ValuesInv
<1>5. \A i \in DOMAIN stream' : i \in DOMAIN stream \/ (i = Len(stream) + 1 /\ stream'[i] = p)
  BY <1>4
<1>6. DOMAIN requests' \subseteq Nat
  <2>1. requests' \in Seq(RequestPackages)
    BY RequestsTail DEF ValuesInv
  <2>2. QED
    BY <2>1
<1>7. ASSUME NEW i \in DOMAIN requests', requests'[i].op = "setup"
      PROVE  /\ requests'[i].id \in 1 .. calls' /\ Unused(requests[i].id)'
             /\ Typed(requests'[i].fields, requests'[i].dir_out)
             /\ \A j \in DOMAIN requests' :
                    i < j /\ requests'[j].op = "setup" => requests'[i].id < requests'[j].id
  <2>1. i + 1 \in DOMAIN requests /\ requests'[i] = requests[i + 1] /\ 1 < i + 1
    BY <1>3, <1>6, <1>7
  <2>2. /\ requests'[i].id \in 1 .. calls /\ Unused(requests'[i].id)
        /\ Typed(requests'[i].fields, requests'[i].dir_out)
        /\ s.id < requests'[i].id
    BY <1>1, <1>7, <2>1 DEF Numbers
  <2>3. ASSUME NEW j \in DOMAIN requests', i < j, requests'[j].op = "setup"
        PROVE  requests'[i].id < requests'[j].id
    <3>1. j + 1 \in DOMAIN requests /\ requests'[j] = requests[j + 1] /\ i + 1 < j + 1
      BY <1>3, <1>6, <2>3
    <3>2. QED
      BY <1>1, <1>7, <2>1, <2>3, <3>1 DEF Numbers
  <2>4. current' < requests'[i].id
    BY <1>2, <2>2 DEF Unused
  <2>5. \A b \in accepted' : b.id < requests'[i].id
    BY <2>2 DEF Unused
  <2>6. \A j \in DOMAIN stream' : stream'[j].kind = "setup" => stream'[j].id < requests'[i].id
    BY <1>4, <1>5, <2>2 DEF Unused
  <2>7. \A j \in DOMAIN requests' : requests'[j].op = "data" => requests'[j].id < requests'[i].id
    BY <1>3, <2>2 DEF Unused
  <2>8. QED
    BY <2>2, <2>3, <2>4, <2>5, <2>6, <2>7 DEF Unused
<1>8. ASSUME NEW i \in DOMAIN stream', stream'[i].kind = "setup"
      PROVE  /\ stream'[i].id \in 1 .. calls'
             /\ \A r \in Recipes : recipe'[r].id < stream'[i].id
             /\ \A k \in DOMAIN recipes_in' : k < stream'[i].id
             /\ \A j \in DOMAIN stream' :
                    i < j /\ stream'[j].kind = "setup" => stream'[i].id < stream'[j].id
  <2>1. CASE i \in DOMAIN stream
    <3>1. stream'[i] = stream[i]
      BY <1>4, <2>1
    <3>2. stream[i].id < s.id
      BY <1>2, <1>8, <2>1, <3>1 DEF Unused
    <3>3. QED
      BY <1>1, <1>4, <1>5, <1>8, <2>1, <3>1, <3>2 DEF Numbers
  <2>2. CASE i = Len(stream) + 1 /\ stream'[i] = p
    <3>1. \A j \in DOMAIN stream' : ~(i < j)
      BY <1>4, <2>2
    <3>2. QED
      BY <1>2, <2>2, <3>1 DEF Unused
  <2>3. QED
    BY <1>5, <2>1, <2>2
<1>9. QED
  BY <1>1, <1>3, <1>7, <1>8 DEF Numbers

\* The types of a reply that refuses fields.
LEMMA RefusalTypes ==
    ASSUME NEW fields \in Seq(Tokens), NEW why \in Refusal, NEW bad
    PROVE  [i \in DOMAIN fields |-> IF i \in bad THEN why ELSE fields[i].type] \in Seq(DOMAIN DataSize)
<1> DEFINE types == [i \in DOMAIN fields |-> IF i \in bad THEN why ELSE fields[i].type]
<1>1. DOMAIN fields = 1 .. Len(fields) /\ Len(fields) \in Nat
  OBVIOUS
<1>2. \A i \in DOMAIN fields : fields[i].type \in DOMAIN DataSize
  <2>1. \A i \in DOMAIN fields : fields[i] \in Tokens
    OBVIOUS
  <2>2. QED
    BY <2>1 DEF Tokens, FieldTypes
<1>3. why \in DOMAIN DataSize
  BY DEF Refusal, DataSize
<1>4. \A i \in 1 .. Len(fields) : types[i] \in DOMAIN DataSize
  BY <1>1, <1>2, <1>3
<1>5. types = [i \in 1 .. Len(fields) |-> types[i]]
  BY <1>1
<1> HIDE DEF types
<1>6. types \in Seq(DOMAIN DataSize)
  BY <1>1, <1>4, <1>5
<1>7. QED
  BY <1>6 DEF types

LEMMA RefuseStep == ASSUME ValuesInv, Refuse PROVE ValuesInv'
<1> DEFINE s == Head(requests)
<1>1. /\ requests # << >> /\ s.op = "setup" /\ requests' = Tail(requests)
      /\ current' \in {current, 0}
      /\ UNCHANGED <<recipe, out, recipes_in, call, result, storage, calls, registered, accepted,
                     streaming, registers, faults, quiet>>
  BY DEF Refuse, Pending, Reply, client, history
<1>2. s.id \in Int /\ s.fields \in Seq(Tokens)
  <2>1. s \in RequestPackages
    BY <1>1 DEF ValuesInv, AllTypes
  <2>2. QED
    BY <1>1, <2>1 DEF RequestPackages, DataPackages
<1> HIDE DEF s
<1>3. PICK p : /\ stream' = Append(stream, p) /\ p \in Packages /\ p.kind = "setup" /\ p.id = s.id
               /\ \E j \in DOMAIN p.types : p.types[j] \in Refusal
  <2>1. PICK why \in Refusal, bad \in SUBSET DOMAIN s.fields :
            /\ bad # {}
            /\ Reply([kind |-> "setup", id |-> s.id,
                      types |-> [i \in DOMAIN s.fields |->
                                    IF i \in bad THEN why ELSE s.fields[i].type]])
    BY DEF Refuse, s
  <2> DEFINE types == [i \in DOMAIN s.fields |-> IF i \in bad THEN why ELSE s.fields[i].type]
             q == [kind |-> "setup", id |-> s.id, types |-> types]
  <2>2. types \in Seq(DOMAIN DataSize)
    BY <1>2, RefusalTypes
  <2>3. \E j \in DOMAIN types : types[j] \in Refusal
    BY <2>1
  <2> HIDE DEF types
  <2>4. q \in Packages
    BY <1>2, <2>2 DEF Packages
  <2>5. stream' = Append(stream, q)
    BY <2>1 DEF Reply, types
  <2>6. QED
    BY <2>3, <2>4, <2>5
<1>4. /\ stream' \in Seq(Packages) /\ DOMAIN stream' = 1 .. Len(stream) + 1
      /\ Len(stream) \in Nat /\ DOMAIN stream = 1 .. Len(stream)
      /\ \A i \in DOMAIN stream : stream'[i] = stream[i]
      /\ stream'[Len(stream) + 1] = p
  BY <1>3, StreamAppend DEF ValuesInv
<1>5. RequestsKept /\ requests' \in Seq(RequestPackages)
  BY <1>1, RequestsTail DEF ValuesInv
<1>6. AllTypes'
  <2>1. current' \in 0 .. calls
    BY <1>1 DEF ValuesInv, AllTypes
  <2>2. QED
    BY <1>1, <1>4, <1>5, <2>1 DEF ValuesInv, AllTypes
<1>7. Laid' /\ WholeStores'
  BY <1>1 DEF ValuesInv, Laid, LaidRecipe, InOrder, Base, Typed, WholeStores
<1>8. Numbers'
  BY <1>1, <1>3, SetupAnswered DEF s
<1>9. Replies'
  <2>1. \A a \in accepted : Accepted(a)'
    <3>1. \A a \in accepted : Accepted(a) /\ a.id # 0
      BY DEF ValuesInv, Replies, Accepted
    <3>2. QED
      BY <1>1, <3>1 DEF Accepted
  <2>2. \A i \in DOMAIN stream' : i \in DOMAIN stream \/ stream'[i] = p
    BY <1>4
  <2>3. \A i \in DOMAIN stream' : stream'[i].kind = "data" => DataOfOutput(stream[i])'
    BY <1>1, <1>3, <1>4, <2>2 DEF ValuesInv, Replies, DataOfOutput
  <2>4. ASSUME NEW i \in DOMAIN stream', stream'[i].kind = "setup"
        PROVE  \/ \E j \in DOMAIN stream'[i].types : stream'[i].types[j] \in Refusal
               \/ \E a \in accepted' : /\ a.id = stream'[i].id
                                       /\ stream'[i].types \in Seq(FieldTypes)
                                       /\ a.bytes = ByteSize(stream'[i].types)
                                       /\ LaidOut(a.payload, stream'[i].types)
    BY <1>1, <1>3, <1>4, <2>2, <2>4 DEF ValuesInv, Replies
  <2>5. QED
    BY <1>1, <2>1, <2>3, <2>4 DEF ValuesInv, Replies
<1>10. Values'
  <2>1. DataKept
    BY <1>5 , <1>1, RequestsTail DEF DataKept, ValuesInv
  <2>2. QED
    BY <1>1, <2>1, ValuesSteady DEF ValuesInv
<1>11. QED
  BY <1>6, <1>7, <1>8, <1>9, <1>10 DEF ValuesInv

\* An accepted setup is new, and its reply lists the types it lays out.
LEMMA AcceptStep == ASSUME ValuesInv, Accept PROVE ValuesInv'
<1>s. PICK s : s = Head(requests)
  OBVIOUS
<1>a. PICK a : a = [id |-> s.id, dir_out |-> s.dir_out, names |-> NamesOf(s.fields),
                    bytes |-> ByteSize(TypesOf(s.fields)), payload |-> Layout(s.fields)]
  OBVIOUS
<1>p. PICK p : p = [kind |-> "setup", id |-> s.id, types |-> TypesOf(s.fields)]
  OBVIOUS
<1>1. /\ requests # << >> /\ s.op = "setup" /\ requests' = Tail(requests)
      /\ accepted' = accepted \cup {a} /\ current' = (IF s.dir_out THEN s.id ELSE current)
      /\ stream' = Append(stream, p)
      /\ UNCHANGED <<recipe, out, recipes_in, call, result, storage, calls, registered,
                     streaming, registers, faults, quiet>>
  BY <1>s, <1>a, <1>p DEF Accept, Pending, Reply, client, history
<1>2. /\ s.id \in 1 .. calls /\ s.fields \in Seq(Tokens) /\ s.dir_out \in BOOLEAN
      /\ Unused(s.id) /\ Typed(s.fields, s.dir_out)
  <2>1. requests \in Seq(RequestPackages)
    BY DEF ValuesInv, AllTypes
  <2>2. s \in RequestPackages /\ 1 \in DOMAIN requests /\ s = requests[1]
    BY <1>1, <1>s, <2>1
  <2>3. s.fields \in Seq(Tokens) /\ s.dir_out \in BOOLEAN
    BY <1>1, <2>2 DEF RequestPackages, DataPackages
  <2>4. s.id \in 1 .. calls /\ Unused(s.id) /\ Typed(s.fields, s.dir_out)
    BY <1>1, <2>2 DEF ValuesInv, Numbers
  <2>5. QED
    BY <2>3, <2>4
<1>3. /\ TypesOf(s.fields) \in Seq(FieldTypes) /\ LaidOut(Layout(s.fields), TypesOf(s.fields))
  BY <1>2, FieldsTypes, LayoutTokens
<1>4. p \in Packages /\ p.kind = "setup" /\ p.id = s.id /\ p.types = TypesOf(s.fields)
  <2>1. TypesOf(s.fields) \in Seq(DOMAIN DataSize)
    BY <1>3 DEF FieldTypes
  <2>2. QED
    BY <1>2, <1>p, <2>1 DEF Packages
<1>5. /\ a.id = s.id /\ a.dir_out = s.dir_out /\ a.names = NamesOf(s.fields)
      /\ a.bytes = ByteSize(TypesOf(s.fields)) /\ a.payload = Layout(s.fields)
  BY <1>a
<1>6. /\ stream' \in Seq(Packages) /\ DOMAIN stream' = 1 .. Len(stream) + 1
      /\ Len(stream) \in Nat /\ DOMAIN stream = 1 .. Len(stream)
      /\ \A i \in DOMAIN stream : stream'[i] = stream[i]
      /\ stream'[Len(stream) + 1] = p
  BY <1>1, <1>4, StreamAppend DEF ValuesInv
<1>7. RequestsKept /\ requests' \in Seq(RequestPackages)
  BY <1>1, RequestsTail DEF ValuesInv
<1>8. AllTypes'
  <2>1. current' \in 0 .. calls
    BY <1>1, <1>2 DEF ValuesInv, AllTypes
  <2>2. QED
    BY <1>1, <1>6, <1>7, <2>1 DEF ValuesInv, AllTypes
<1>9. Laid' /\ WholeStores'
  BY <1>1 DEF ValuesInv, Laid, LaidRecipe, InOrder, Base, Typed, WholeStores
<1>10. Numbers'
  BY <1>1, <1>4, <1>5, <1>s, SetupAnswered
<1>11. \A b \in accepted : b.id < s.id /\ b \in accepted'
  BY <1>1, <1>2 DEF Unused
<1>12. Replies'
  <2>1. Accepted(a)'
    <3>1. Typed(s.fields, a.dir_out)
      BY <1>2, <1>5
    <3>2. a.id = current' => a.dir_out
      BY <1>1, <1>2, <1>5 DEF Unused
    <3>3. QED
      BY <1>1, <1>2, <1>5, <3>1, <3>2 DEF Accepted
  <2>2. \A b \in accepted : Accepted(b)'
    <3>1. \A b \in accepted : Accepted(b)
      BY DEF ValuesInv, Replies
    <3>2. \A b \in accepted : b.id = current' => b.id = current
      BY <1>1, <1>2, <1>11
    <3>3. QED
      BY <1>1, <3>1, <3>2 DEF Accepted
  <2>3. \A b, c \in accepted' : b.id = c.id => b = c
    <3>1. \A b, c \in accepted : b.id = c.id => b = c
      BY DEF ValuesInv, Replies
    <3>2. \A b \in accepted : b.id # a.id
      BY <1>2, <1>5, <1>11
    <3>3. QED
      BY <1>1, <3>1, <3>2
  <2>4. \A i \in DOMAIN stream' : i \in DOMAIN stream \/ stream'[i] = p
    BY <1>6
  <2>5. \A i \in DOMAIN stream' : stream'[i].kind = "data" => DataOfOutput(stream[i])'
    BY <1>1, <1>4, <1>6, <2>4 DEF ValuesInv, Replies, DataOfOutput
  <2>6. ASSUME NEW i \in DOMAIN stream', stream'[i].kind = "setup"
        PROVE  \/ \E j \in DOMAIN stream'[i].types : stream'[i].types[j] \in Refusal
               \/ \E b \in accepted' : /\ b.id = stream'[i].id
                                       /\ stream'[i].types \in Seq(FieldTypes)
                                       /\ b.bytes = ByteSize(stream'[i].types)
                                       /\ LaidOut(b.payload, stream'[i].types)
    <3>1. CASE i \in DOMAIN stream
      BY <1>6, <1>11, <2>6, <3>1 DEF ValuesInv, Replies
    <3>2. CASE stream'[i] = p
      BY <1>1, <1>3, <1>4, <1>5, <3>2
    <3>3. QED
      BY <2>4, <3>1, <3>2
  <2>7. QED
    BY <1>1, <2>1, <2>2, <2>3, <2>5, <2>6 DEF Replies
<1>13. Values'
  <2>1. \A dp : dp.id < s.id /\ Whole(dp) => (\A b \in accepted' :
            ~b.dir_out /\ b.id = dp.id /\ b.bytes = dp.bytes => Within(b.payload, dp.payload))
    BY <1>1, <1>2, <1>5 DEF Whole
  <2>2. ASSUME NEW r \in Recipes PROVE ValuesOf(r, recipe[r])'
    <3>1. ValuesOf(r, recipe[r]) /\ recipe[r].id < s.id /\ recipe[r].dp.id < s.id
      BY <1>2 DEF ValuesInv, Values, Unused
    <3>2. Whole(recipe[r].dp)'
      BY <1>1, <2>1, <3>1 DEF Whole, ValuesOf
    <3>3. \A b \in accepted' : b.id = recipe[r].id => b \in accepted
      BY <1>1, <1>2, <1>5, <3>1
    <3>4. QED
      BY <1>1, <3>1, <3>2, <3>3 DEF ValuesOf, Added, Base
  <2>3. ASSUME NEW i \in DOMAIN requests', requests'[i].op = "data"
        PROVE  Whole(requests[i])' /\ \A t \in requests'[i].payload : t.name \in Inputs
    <3>1. i + 1 \in DOMAIN requests /\ requests'[i] = requests[i + 1]
      BY <1>1, RequestsTail DEF ValuesInv
    <3>2. /\ Whole(requests'[i]) /\ requests'[i].id < s.id
          /\ \A t \in requests'[i].payload : t.name \in Inputs
      BY <1>2, <2>3, <3>1 DEF ValuesInv, Values, Unused
    <3>3. QED
      BY <2>1, <3>2 DEF Whole
  <2>4. QED
    BY <2>2, <2>3 DEF Values
<1>14. QED
  BY <1>8, <1>9, <1>10, <1>12, <1>13 DEF ValuesInv

-----------------------------------------------------------------------------
(* A setup is sent, registered, and the data of an input recipe follows it. *)

LEMMA RegisterRequestStep ==
    ASSUME ValuesInv, NEW r \in Recipes, Register(r) PROVE ValuesInv'
<1>1. PICK s : s = [op |-> "setup", id |-> calls + 1, dir_out |-> recipe[r].dir_out,
                    fields |-> recipe[r].fields]
  OBVIOUS
<1>2. /\ recipe[r].fields # << >> /\ calls' = calls + 1 /\ calls + faults < MaxCalls
      /\ requests' = Append(requests, s) /\ call' = [op |-> "register", r |-> r]
      /\ quiet' = (quiet /\ requests = << >> /\ stream = << >> /\ ~streaming)
      /\ UNCHANGED <<recipe, out, recipes_in, result, storage, registered, stream, accepted, current,
                     streaming, registers, faults>>
  BY <1>1 DEF Register, Request, remote
<1>3. /\ s \in RequestPackages /\ s.op = "setup" /\ s.id = calls + 1
      /\ Typed(s.fields, s.dir_out)
  <2>1. recipe[r] \in RecipeTypes /\ LaidRecipe(recipe[r]) /\ calls \in Nat
    BY DEF ValuesInv, AllTypes, Laid
  <2>2. QED
    BY <1>1, <2>1 DEF RequestPackages, RecipeTypes, LaidRecipe, InOrder
<1>4. /\ requests' \in Seq(RequestPackages) /\ DOMAIN requests' = 1 .. Len(requests) + 1
      /\ Len(requests) \in Nat /\ DOMAIN requests = 1 .. Len(requests)
      /\ \A i \in DOMAIN requests : requests'[i] = requests[i]
      /\ requests'[Len(requests) + 1] = s
  BY <1>2, <1>3, RequestsAppend DEF ValuesInv
<1>5. \A i \in DOMAIN requests' : i \in DOMAIN requests \/ (i = Len(requests) + 1 /\ requests'[i] = s)
  BY <1>4
<1>6. /\ calls \in Nat /\ faults \in Nat /\ MaxCalls \in Nat /\ calls <= calls' /\ calls' \in Nat
      /\ 1 .. calls \subseteq 1 .. calls' /\ 0 .. calls \subseteq 0 .. calls'
      /\ -1 .. calls \subseteq -1 .. calls' /\ calls' \in 0 .. MaxCalls
  <2>1. /\ calls \in Nat /\ faults \in Nat /\ MaxCalls \in Nat
        /\ calls' = calls + 1 /\ calls + faults < MaxCalls
    BY <1>2, RtdeAssumption DEF ValuesInv, AllTypes
  <2>2. QED
    BY ONLY <2>1
<1>7. AllTypes'
  <2>1. quiet' \in BOOLEAN
    BY <1>2
  <2>2. registered' \in [Recipes -> 0 .. calls']
    BY <1>2, <1>6 DEF ValuesInv, AllTypes
  <2>3. QED
    BY <1>2, <1>4, <1>6, <2>1, <2>2 DEF ValuesInv, AllTypes
<1>8. Laid' /\ WholeStores'
  BY <1>2 DEF ValuesInv, Laid, LaidRecipe, InOrder, Base, Typed, WholeStores
<1>9. Replies'
  BY <1>2, <1>6, StreamSame, RepliesSteady DEF ValuesInv
<1>10. Values'
  <2>1. DataKept
    BY <1>3, <1>4, <1>5 DEF DataKept
  <2>2. QED
    BY <1>2, <2>1, ValuesSteady DEF ValuesInv
<1>11. Numbers'
  <2>1. Unused(calls + 1) /\ Numbers
    <3>1. /\ current \in 0 .. calls
          /\ DOMAIN recipes_in \subseteq 1 .. calls
      BY DEF ValuesInv, AllTypes
    <3>2. \A a \in accepted : a.id \in 1 .. calls
      BY DEF ValuesInv, Replies, Accepted
    <3>3. /\ \A q \in Recipes : recipe[q].id \in -1 .. calls /\ recipe[q].dp.id \in -1 .. calls
          /\ \A i \in DOMAIN stream : stream[i].kind = "setup" => stream[i].id \in 1 .. calls
          /\ \A i \in DOMAIN requests : requests[i].op = "data" => requests[i].id \in -1 .. calls
      BY DEF ValuesInv, Numbers
    <3>4. /\ \A n \in 1 .. calls : n < calls + 1
          /\ \A n \in 0 .. calls : n < calls + 1
          /\ \A n \in -1 .. calls : n < calls + 1
      BY <1>6
    <3>5. QED
      BY <3>1, <3>2, <3>3, <3>4 DEF Unused, ValuesInv
  <2>2. ASSUME NEW id, Unused(id)
        PROVE  /\ current' < id
               /\ \A a \in accepted' : a.id < id
               /\ \A q \in Recipes : recipe'[q].id < id /\ recipe'[q].dp.id < id
               /\ \A k \in DOMAIN recipes_in' : k < id
               /\ \A i \in DOMAIN stream' : stream'[i].kind = "setup" => stream'[i].id < id
               /\ \A i \in DOMAIN requests' : requests'[i].op = "data" => requests'[i].id < id
    BY <1>2, <1>3, <1>4, <1>5, <2>2 DEF Unused
  <2>3. ASSUME NEW i \in DOMAIN requests', requests'[i].op = "setup"
        PROVE  /\ requests'[i].id \in 1 .. calls' /\ Unused(requests'[i].id)
               /\ Typed(requests'[i].fields, requests'[i].dir_out)
               /\ \A j \in DOMAIN requests' :
                      i < j /\ requests'[j].op = "setup" => requests'[i].id < requests'[j].id
    <3>1. CASE i \in DOMAIN requests
      <4>1. requests'[i] = requests[i] /\ requests[i].id \in 1 .. calls
        BY <1>4, <2>1, <2>3, <3>1 DEF Numbers
      <4>2. requests[i].id < calls + 1
        BY <1>6, <4>1
      <4>3. QED
        BY <1>3, <1>4, <1>5, <1>6, <2>1, <2>3, <3>1, <4>1, <4>2 DEF Numbers
    <3>2. CASE i = Len(requests) + 1 /\ requests'[i] = s
      <4>1. \A j \in DOMAIN requests' : ~(i < j)
        BY <1>4, <3>2
      <4>2. calls + 1 \in 1 .. calls'
        BY <1>2, <1>6
      <4>3. QED
        BY <1>3, <2>1, <3>2, <4>1, <4>2
    <3>3. QED
      BY <1>5, <3>1, <3>2
  <2>4. \A i \in DOMAIN requests' : requests'[i].op = "setup" => Unused(requests[i].id)'
    BY <2>2, <2>3 DEF Unused
  <2>5. \A i \in DOMAIN requests' : requests'[i].op = "data" => requests'[i].id \in -1 .. calls'
    BY <1>3, <1>4, <1>5, <1>6, <2>1 DEF Numbers
  <2>6. QED
    BY <1>2, <1>6, <2>1, <2>3, <2>4, <2>5 DEF Numbers
<1>12. QED
  BY <1>7, <1>8, <1>9, <1>10, <1>11 DEF ValuesInv

\* What store() leaves in a recipe has all places of a setup with its id and size.
LEMMA StoredWhole ==
    ASSUME NEW rec \in RecipeTypes, LaidRecipe(rec), Whole(rec.dp),
           \A t \in rec.dp.payload : t.name \in Inputs,
           \A a \in accepted :
               ~a.dir_out /\ ~rec.dir_out /\ a.id = rec.id /\ a.bytes = rec.bytes =>
                   Within(a.payload, rec.dp.payload) \/ Within(a.payload, Range(rec.fields))
    PROVE  LET dp == Stored(rec)
           IN  /\ dp \in DataPackages /\ Whole(dp) /\ \A t \in dp.payload : t.name \in Inputs
               /\ rec.dp.payload \subseteq dp.payload
               /\ ~rec.dir_out => Range(rec.fields) \subseteq dp.payload
               /\ Base(rec) = 0 => dp.payload \subseteq Range(rec.fields)
               /\ dp.id \in {rec.dp.id, rec.id}
               /\ ~rec.dir_out => dp.id = rec.id
<1>1. Stored(rec) \in DataPackages
  BY StoredOK
<1>2. CASE rec.dir_out
  BY <1>1, <1>2 DEF Stored, LaidRecipe, InOrder
<1>3. CASE ~rec.dir_out
  <2>1. \A t \in Range(rec.fields) : t.name \in Inputs
    <3>1. \A i \in DOMAIN rec.fields : rec.fields[i].name \in DOMAIN InputType
      BY <1>3 DEF LaidRecipe, InOrder, Typed, TypeOf
    <3>2. \A i \in DOMAIN rec.fields : rec.fields[i].name \in Names
      <4>1. \A i \in DOMAIN rec.fields : rec.fields[i] \in Tokens
        BY FieldsTypes DEF RecipeTypes
      <4>2. QED
        BY <4>1 DEF Tokens
    <3>3. QED
      BY <3>1, <3>2 DEF Inputs, Range
  <2>2. /\ Stored(rec).payload = rec.dp.payload \cup Range(rec.fields)
        /\ Stored(rec).id = rec.id /\ Stored(rec).bytes = rec.bytes
    BY <1>3 DEF Stored
  <2>3. Whole(Stored(rec))
    BY <1>3, <2>2 DEF Whole, Within
  <2>4. QED
    BY <1>1, <1>3, <2>1, <2>2, <2>3 DEF LaidRecipe, InOrder
<1>4. QED
  BY <1>2, <1>3

\* send() takes one of the recipes with the id.
LEMMA SentOne ==
    ASSUME NEW rs, NEW ins, NEW id, NEW how, how # "part", Sent(id, rs, ins, how)
    PROVE  \E k \in DOMAIN ins :
               /\ rs[ins[k]].id = id
               /\ recipe' = [rs EXCEPT ![ins[k]].dp = Stored(rs[ins[k]])]
               /\ requests' = Append(requests, Stored(rs[ins[k]])) \/ UNCHANGED requests
  BY DEF Sent, WithId, DoSend

\* A recipe with another data package: nothing else of it changes.
LEMMA DataPackageChanged ==
    ASSUME NEW rec \in RecipeTypes, NEW dp \in DataPackages, NEW new, new = [rec EXCEPT !.dp = dp]
    PROVE  /\ new \in RecipeTypes /\ new.dp = dp /\ Base(new) = Base(rec)
           /\ new.id = rec.id /\ new.fields = rec.fields /\ new.bytes = rec.bytes
           /\ new.dir_out = rec.dir_out /\ new.active = rec.active
  BY DEF RecipeTypes, Base

LEMMA SendDataPackageStep == ASSUME ValuesInv, whole', NEW id, Send(id) PROVE ValuesInv'
<1>1. /\ call = Idle
      /\ UNCHANGED <<out, recipes_in, call, result, storage, calls, registered, stream, accepted,
                     current, streaming, registers>>
  BY DEF Send, remote
<1>2. /\ recipe \in [Recipes -> RecipeTypes] /\ calls \in Nat
      /\ \A k \in DOMAIN recipes_in : recipes_in[k] \in Recipes
  BY DEF ValuesInv, AllTypes
<1>s. PICK how : Sent(id, recipe, recipes_in, how) /\ Observed(FALSE, how)
  BY DEF Send
<1>w. how # "part" /\ faults' \in {faults, faults + 1} /\ quiet' \in BOOLEAN
  BY <1>s, SentWhole DEF ValuesInv, AllTypes
<1>3. PICK k \in DOMAIN recipes_in :
          /\ recipe' = [recipe EXCEPT ![recipes_in[k]].dp = Stored(recipe[recipes_in[k]])]
          /\ requests' = Append(requests, Stored(recipe[recipes_in[k]])) \/ UNCHANGED requests
  BY <1>s, <1>w, SentOne
<1>4. PICK r \in Recipes : r = recipes_in[k]
  BY <1>2
<1>5. PICK dp : dp = Stored(recipe[r])
  OBVIOUS
<1>6. /\ recipe[r] \in RecipeTypes /\ LaidRecipe(recipe[r]) /\ ValuesOf(r, recipe[r]) /\ Added(r)
  BY <1>2, <1>4 DEF ValuesInv, Laid, Values, Added
<1>7. /\ dp \in DataPackages /\ Whole(dp) /\ \A t \in dp.payload : t.name \in Inputs
      /\ recipe[r].dp.payload \subseteq dp.payload
      /\ Base(recipe[r]) = 0 => dp.payload \subseteq Range(recipe[r].fields)
      /\ dp.id \in {recipe[r].dp.id, recipe[r].id}
  BY <1>5, <1>6, StoredWhole DEF ValuesOf
<1>8. PICK new : new = [recipe[r] EXCEPT !.dp = dp]
  OBVIOUS
<1>9. /\ new \in RecipeTypes /\ new.dp = dp /\ Base(new) = Base(recipe[r])
      /\ new.id = recipe[r].id /\ new.fields = recipe[r].fields /\ new.bytes = recipe[r].bytes
      /\ new.dir_out = recipe[r].dir_out
  BY <1>6, <1>7, <1>8, DataPackageChanged
<1>10. /\ recipe' \in [Recipes -> RecipeTypes]
       /\ \A q \in Recipes : recipe'[q] = IF q = r THEN new ELSE recipe[q]
  BY <1>2, <1>3, <1>4, <1>5, <1>8, <1>9
<1>11. /\ requests' \in Seq(RequestPackages) /\ DOMAIN requests' \subseteq Nat
       /\ \A i \in DOMAIN requests' : \/ i \in DOMAIN requests /\ requests'[i] = requests[i]
                                      \/ requests'[i] = dp
  <2>1. dp \in RequestPackages /\ requests \in Seq(RequestPackages)
    BY <1>7 DEF RequestPackages, ValuesInv, AllTypes
  <2>2. CASE requests' = Append(requests, dp)
    BY <2>1, <2>2
  <2>3. CASE UNCHANGED requests
    BY <2>1, <2>3
  <2>4. QED
    BY <1>3, <1>4, <1>5, <2>2, <2>3
<1>12. AllTypes'
  <2>1. call'.op # "register" /\ faults' \in Nat
    BY <1>1, <1>w DEF Idle, ValuesInv, AllTypes
  <2>2. QED
    BY <1>1, <1>w, <1>10, <1>11, <2>1 DEF ValuesInv, AllTypes
<1>13. Laid' /\ WholeStores'
  <2>1. LaidRecipe(new)
    BY <1>6, <1>7, <1>9 DEF LaidRecipe, InOrder
  <2>2. QED
    BY <1>1, <1>10, <2>1 DEF ValuesInv, Laid, LaidRecipe, InOrder, WholeStores
<1>14. Numbers' /\ Replies'
  <2>1. dp.op = "data"
    BY <1>7 DEF DataPackages
  <2>2. SetupsKept
    <3>1. \A i \in DOMAIN requests' :
              \/ i + 0 \in DOMAIN requests /\ requests'[i] = requests[i + 0]
              \/ requests'[i].op = "data" /\ \E q \in Recipes : requests'[i].id \in {recipe[q].id, recipe[q].dp.id}
      BY <1>7, <1>11, <2>1
    <3>2. QED
      BY <3>1 DEF SetupsKept
  <2>3. IdsKeep
    BY <1>7, <1>9, <1>10 DEF IdsKeep
  <2>4. StreamKept /\ stream' \in Seq(Packages) /\ calls <= calls' /\ calls' \in Nat
    BY <1>1, <1>2, StreamSame DEF ValuesInv, AllTypes
  <2>5. QED
    BY <1>1, <1>11, <2>2, <2>3, <2>4, NumbersSteady, RepliesSteady DEF ValuesInv
<1>15. Values'
  <2>1. \A d : Whole(d) => Whole(d)'
    BY <1>1 DEF Whole
  <2>2. ValuesOf(r, new)
    BY <1>6, <1>7, <1>9 DEF ValuesOf, Within
  <2>3. \A q \in Recipes : ValuesOf(q, recipe'[q])
    BY <1>10, <2>2 DEF ValuesInv, Values
  <2>4. \A q \in Recipes : ValuesOf(q, recipe[q])'
    BY <1>1, <2>3 DEF ValuesOf, Whole, Added
  <2>5. \A i \in DOMAIN requests' : requests'[i].op = "data" =>
            Whole(requests'[i]) /\ \A t \in requests'[i].payload : t.name \in Inputs
    BY <1>7, <1>11 DEF ValuesInv, Values
  <2>6. QED
    BY <1>1, <2>4, <2>5 DEF Values, Whole
<1>16. QED
  BY <1>12, <1>13, <1>14, <1>15 DEF ValuesInv

\* A reply that matches is about a setup with the types of the recipe.
LEMMA MatchedReply ==
    ASSUME ValuesInv, stream # << >>, NEW rec \in RecipeTypes, Matches(Head(stream), rec)
    PROVE  \E a \in accepted : /\ a.id = Head(stream).id
                               /\ a.bytes = ByteSize(TypesOf(rec.fields))
                               /\ LaidOut(a.payload, TypesOf(rec.fields))
<1>1. PICK p : p = Head(stream)
  OBVIOUS
<1>2. p.kind = "setup" /\ [i \in DOMAIN p.types |-> TypeNamed(p.types[i])] = TypesOf(rec.fields)
  BY <1>1 DEF Matches
<1>3. p \in Packages /\ p = stream[1] /\ 1 \in DOMAIN stream
  <2>1. stream \in Seq(Packages)
    BY DEF ValuesInv, AllTypes
  <2>2. QED
    BY <1>1, <2>1
<1>4. p.types \in Seq(DOMAIN DataSize)
  BY <1>2, <1>3 DEF Packages
<1>5. p.types = TypesOf(rec.fields)
  <2>1. \A i \in DOMAIN p.types : TypeNamed(p.types[i]) = p.types[i]
    BY <1>4, NamesAreExact
  <2>2. p.types = [i \in DOMAIN p.types |-> p.types[i]]
    BY <1>4
  <2>3. QED
    BY <1>2, <2>1, <2>2
<1>6. ~ \E i \in DOMAIN p.types : p.types[i] \in Refusal
  BY <1>1, RefusalSeen
<1>7. QED
  BY <1>1, <1>2, <1>3, <1>5, <1>6 DEF ValuesInv, Replies

\* What register_recipe() does with a reply that matches: the recipe gets its id and
\* is the output recipe or one more input recipe, whose data package is sent.
Effect(r, id, new, dp) ==
    /\ r = call.r /\ recipe[r].fields # << >> /\ Read
    /\ id = Head(stream).id /\ Matches(Head(stream), recipe[r])
    /\ \A q \in Recipes : recipe[q].id < id
    /\ \A k \in DOMAIN recipes_in : k < id
    /\ new.id = id /\ new.active = TRUE
    /\ new.fields = recipe[r].fields /\ new.bytes = recipe[r].bytes
    /\ new.dir_out = recipe[r].dir_out /\ new.dp = recipe[r].dp
    /\ dp = (IF new.dir_out THEN new.dp ELSE Stored(new))
    /\ \A q \in Recipes : recipe'[q] = IF q = r THEN [new EXCEPT !.dp = dp] ELSE recipe[q]
    /\ recipe' \in [Recipes -> RecipeTypes]
    /\ \/ /\ new.dir_out /\ out' = r
          /\ registered' = [registered EXCEPT ![r] = calls]
          /\ UNCHANGED <<recipes_in, requests>>
       \/ /\ ~new.dir_out /\ UNCHANGED out
          /\ DOMAIN recipes_in' = DOMAIN recipes_in \cup {id} /\ recipes_in'[id] = r
          /\ \A k \in DOMAIN recipes_in : recipes_in'[k] = recipes_in[k]
          /\ requests' = Append(requests, dp) \/ UNCHANGED requests
    /\ call' = Idle
    /\ registered' \in {registered, [registered EXCEPT ![r] = calls]}
    /\ faults' \in {faults, faults + 1} /\ quiet' \in BOOLEAN
    /\ UNCHANGED <<result, storage, calls, accepted, current, streaming, registers>>

LEMMA RegisterEffect ==
    ASSUME ValuesInv, whole', RegisterSucceeds
    PROVE  \E r \in Recipes, id \in 1 .. calls, new \in RecipeTypes, dp \in DataPackages :
               Effect(r, id, new, dp)
<1>1. PICK r : r = call.r
  OBVIOUS
<1>2. PICK id : id = Head(stream).id
  OBVIOUS
<1>3. PICK rs : rs = [recipe EXCEPT ![r].id = id, ![r].active = TRUE]
  OBVIOUS
<1>4. PICK ins : ins = [key \in DOMAIN recipes_in \cup {id} |->
                           IF key \in DOMAIN recipes_in THEN recipes_in[key] ELSE r]
  OBVIOUS
<1>5. /\ call.op = "register" /\ Read /\ Matches(Head(stream), recipe[r]) /\ call' = Idle
      /\ \E how :
             /\ Observed(FALSE, how)
             /\ \/ /\ recipe[r].dir_out /\ recipe' = rs /\ out' = r
                   /\ registered' = [registered EXCEPT ![r] = calls]
                   /\ UNCHANGED <<recipes_in, requests>>
                \/ /\ ~recipe[r].dir_out /\ recipes_in' = ins /\ UNCHANGED out
                   /\ Sent(id, rs, ins, how) \/ WithId(id, rs, ins) = {}
      /\ registered' \in {registered, [registered EXCEPT ![r] = calls]}
      /\ UNCHANGED <<result, storage, calls, accepted, current, streaming, registers>>
  BY <1>1, <1>2, <1>3, <1>4 DEF RegisterSucceeds, Registers, remote
<1>w. PICK how :
          /\ how # "part" /\ faults' \in {faults, faults + 1} /\ quiet' \in BOOLEAN
          /\ \/ /\ recipe[r].dir_out /\ recipe' = rs /\ out' = r
                /\ registered' = [registered EXCEPT ![r] = calls]
                /\ UNCHANGED <<recipes_in, requests>>
             \/ /\ ~recipe[r].dir_out /\ recipes_in' = ins /\ UNCHANGED out
                /\ Sent(id, rs, ins, how) \/ WithId(id, rs, ins) = {}
  BY <1>5, SentWhole DEF ValuesInv, AllTypes
<1>6. /\ recipe \in [Recipes -> RecipeTypes] /\ r \in Recipes /\ recipe[r].fields # << >>
      /\ recipe[r] \in RecipeTypes
  BY <1>1, <1>5 DEF ValuesInv, AllTypes
<1>7. /\ id \in 1 .. calls /\ id \in Int
      /\ \A q \in Recipes : recipe[q].id < id
      /\ \A k \in DOMAIN recipes_in : k < id
  <2>1. Head(stream).kind = "setup" /\ 1 \in DOMAIN stream /\ Head(stream) = stream[1]
    BY <1>5, ReadTakes DEF Matches, ValuesInv
  <2>2. QED
    BY <1>2, <2>1 DEF ValuesInv, Numbers
<1>8. PICK new : new = [recipe[r] EXCEPT !.id = id, !.active = TRUE]
  OBVIOUS
<1>9. /\ new \in RecipeTypes /\ new.id = id /\ new.active = TRUE
      /\ new.fields = recipe[r].fields /\ new.bytes = recipe[r].bytes
      /\ new.dir_out = recipe[r].dir_out /\ new.dp = recipe[r].dp /\ new.dp \in DataPackages
  BY <1>6, <1>7, <1>8 DEF RecipeTypes
<1>10. rs \in [Recipes -> RecipeTypes] /\ \A q \in Recipes : rs[q] = IF q = r THEN new ELSE recipe[q]
  <2>1. rs = [recipe EXCEPT ![r] = new]
    BY <1>3, <1>6, <1>8
  <2>2. QED
    BY <1>6, <1>9, <2>1
<1>11. CASE new.dir_out
  <2>1. PICK dp : dp = new.dp
    OBVIOUS
  <2>2. dp \in DataPackages /\ dp = IF new.dir_out THEN new.dp ELSE Stored(new)
    BY <1>9, <1>11, <2>1
  <2>3. /\ recipe' = rs /\ out' = r /\ UNCHANGED <<recipes_in, requests>>
        /\ registered' = [registered EXCEPT ![r] = calls]
    BY <1>w, <1>9, <1>11
  <2>4. /\ recipe' \in [Recipes -> RecipeTypes]
        /\ \A q \in Recipes : recipe'[q] = IF q = r THEN [new EXCEPT !.dp = dp] ELSE recipe[q]
    <3>1. [new EXCEPT !.dp = dp] = new
      BY <1>9, <2>1 DEF RecipeTypes
    <3>2. QED
      BY <1>10, <2>3, <3>1
  <2>5. Effect(r, id, new, dp)
    BY <1>1, <1>2, <1>5, <1>w, <1>6, <1>7, <1>9, <1>11, <2>2, <2>3, <2>4 DEF Effect
  <2>6. QED
    BY <1>6, <1>7, <1>9, <2>2, <2>5
<1>12. CASE ~new.dir_out
  <2>1. PICK dp : dp = Stored(new)
    OBVIOUS
  <2>2. dp \in DataPackages
    BY <1>9, <2>1, StoredOK
  <2>3. /\ DOMAIN ins = DOMAIN recipes_in \cup {id} /\ ins[id] = r
        /\ \A k \in DOMAIN recipes_in : ins[k] = recipes_in[k]
    <3>1. id \notin DOMAIN recipes_in
      BY <1>7
    <3>2. QED
      BY <1>4, <3>1
  <2>4. id \in WithId(id, rs, ins)
    BY <1>6, <1>9, <1>10, <2>3 DEF WithId
  <2>5. Sent(id, rs, ins, how) /\ recipes_in' = ins /\ UNCHANGED out
    BY <1>w, <1>9, <1>12, <2>4
  <2>7. PICK k \in DOMAIN ins :
            /\ rs[ins[k]].id = id
            /\ recipe' = [rs EXCEPT ![ins[k]].dp = Stored(rs[ins[k]])]
            /\ requests' = Append(requests, Stored(rs[ins[k]])) \/ UNCHANGED requests
    BY <1>w, <2>5, SentOne
  <2>8. ins[k] = r
    <3>1. ins[k] \in Recipes
      BY <1>6, <2>3 DEF ValuesInv, AllTypes
    <3>2. \A q \in Recipes : rs[q].id = id => q = r
      BY <1>7, <1>10
    <3>3. QED
      BY <2>7, <3>1, <3>2
  <2>9. /\ recipe' = [rs EXCEPT ![r] = [new EXCEPT !.dp = dp]]
        /\ requests' = Append(requests, dp) \/ UNCHANGED requests
    BY <1>6, <1>10, <2>1, <2>7, <2>8
  <2>10. [new EXCEPT !.dp = dp] \in RecipeTypes
    BY <1>9, <2>2, DataPackageChanged
  <2>11. /\ recipe' \in [Recipes -> RecipeTypes]
         /\ \A q \in Recipes : recipe'[q] = IF q = r THEN [new EXCEPT !.dp = dp] ELSE recipe[q]
    BY <1>6, <1>10, <2>9, <2>10
  <2>12. Effect(r, id, new, dp)
    BY <1>1, <1>2, <1>5, <1>w, <1>6, <1>7, <1>9, <1>12, <2>1, <2>3, <2>5, <2>9, <2>11 DEF Effect
  <2>13. QED
    BY <1>6, <1>7, <1>9, <2>2, <2>12
<1>13. QED
  BY <1>11, <1>12

LEMMA RegisterSucceedsStep == ASSUME ValuesInv, whole', RegisterSucceeds PROVE ValuesInv'
<1>1. PICK r \in Recipes, id \in 1 .. calls, new \in RecipeTypes, dp \in DataPackages :
          Effect(r, id, new, dp)
  BY RegisterEffect
<1>2. PICK rec : rec = recipe[r]
  OBVIOUS
<1>3. PICK sent : sent = [new EXCEPT !.dp = dp]
  OBVIOUS
<1>4. /\ recipe \in [Recipes -> RecipeTypes] /\ rec \in RecipeTypes /\ LaidRecipe(rec)
      /\ ValuesOf(r, rec) /\ calls \in Nat /\ Numbers
  BY <1>2 DEF ValuesInv, AllTypes, Laid, Values
<1>5. /\ new.id = id /\ new.fields = rec.fields /\ new.bytes = rec.bytes
      /\ new.dir_out = rec.dir_out /\ new.dp = rec.dp /\ rec.fields # << >>
      /\ \A q \in Recipes : recipe[q].id < id
      /\ \A k \in DOMAIN recipes_in : k < id
      /\ recipe' \in [Recipes -> RecipeTypes]
      /\ \A q \in Recipes : recipe'[q] = IF q = r THEN sent ELSE recipe[q]
      /\ dp = (IF new.dir_out THEN new.dp ELSE Stored(new))
      /\ quiet' \in BOOLEAN /\ faults' \in {faults, faults + 1}
      /\ UNCHANGED <<result, storage, calls, accepted, current, streaming, registers>>
  BY <1>1, <1>2, <1>3 DEF Effect
<1>6. PICK a \in accepted : /\ a.id = id
                            /\ a.bytes = ByteSize(TypesOf(rec.fields))
                            /\ LaidOut(a.payload, TypesOf(rec.fields))
  BY <1>1, <1>2, <1>4, MatchedReply, ReadTakes DEF Effect, ValuesInv
<1>7. \A b \in accepted : b.id = id => b = a
  BY <1>6 DEF ValuesInv, Replies
<1>8. /\ Base(new) = Base(rec) /\ LaidRecipe(new) /\ rec.fields \in Seq(Tokens)
      /\ rec.bytes \in Int /\ a.bytes \in Nat
  BY <1>4, <1>5, <1>6, Offsets DEF Base, LaidRecipe, InOrder, RecipeTypes
\* If nothing was cleared, its fields lie like the variables of the setup.
<1>9. /\ a.bytes <= rec.bytes
      /\ a.bytes = rec.bytes => Base(rec) = 0
      /\ a.bytes = rec.bytes => Within(Range(rec.fields), a.payload)
      /\ a.bytes = rec.bytes => Within(a.payload, Range(rec.fields))
  <2>1. a.bytes <= rec.bytes /\ (a.bytes = rec.bytes => Base(rec) = 0)
    BY <1>4, <1>6, <1>8 DEF LaidRecipe, InOrder, Base
  <2>2. ASSUME a.bytes = rec.bytes
        PROVE  Within(Range(rec.fields), a.payload) /\ Within(a.payload, Range(rec.fields))
    <3>1. Layout(rec.fields) = Range(rec.fields)
      BY <1>4, <2>1, <2>2, RecipeLayout DEF LaidRecipe, InOrder
    <3>2. LaidOut(Range(rec.fields), TypesOf(rec.fields))
      BY <1>8, <3>1, LayoutTokens
    <3>3. QED
      BY <1>6, <3>2, LaidOutWithin
  <2>3. QED
    BY <2>1, <2>2
<1>10. /\ Whole(dp) /\ \A t \in dp.payload : t.name \in Inputs
       /\ rec.dp.payload \subseteq dp.payload
       /\ ~rec.dir_out => Range(rec.fields) \subseteq dp.payload
       /\ Base(new) = 0 => dp.payload \subseteq Range(rec.fields)
       /\ dp.id \in {rec.dp.id, id}
       /\ ~rec.dir_out => dp.id = id
  <2>1. Whole(new.dp) /\ \A t \in new.dp.payload : t.name \in Inputs
    BY <1>4, <1>5 DEF ValuesOf
  <2>2. CASE new.dir_out
    BY <1>4, <1>5, <1>8, <2>1, <2>2 DEF LaidRecipe, InOrder
  <2>3. CASE ~new.dir_out
    <3>1. \A b \in accepted :
              ~b.dir_out /\ ~new.dir_out /\ b.id = new.id /\ b.bytes = new.bytes =>
                  Within(b.payload, new.dp.payload) \/ Within(b.payload, Range(new.fields))
      BY <1>5, <1>7, <1>9
    <3>2. dp = Stored(new)
      BY <1>5, <2>3
    <3>3. QED
      BY <1>5, <1>8, <2>1, <2>3, <3>1, <3>2, StoredWhole
  <2>4. QED
    BY <2>2, <2>3
<1>11. /\ sent \in RecipeTypes /\ sent.dp = dp /\ Base(sent) = Base(rec)
       /\ sent.id = id /\ sent.fields = rec.fields /\ sent.bytes = rec.bytes
       /\ sent.dir_out = rec.dir_out
  BY <1>3, <1>5, <1>8, DataPackageChanged
<1>12. /\ stream' \in Seq(Packages) /\ StreamKept
       /\ \E n \in Nat : \A i \in DOMAIN stream' :
              stream'[i].kind # "tail" =>
                  i + n \in DOMAIN stream /\ stream'[i] = stream[i + n] /\ 1 < i + n
       /\ 1 \in DOMAIN stream /\ stream[1].id = id /\ stream[1].kind = "setup"
       /\ DOMAIN stream' \subseteq Nat
  <2>1. Read /\ Matches(Head(stream), recipe[r]) /\ id = Head(stream).id
    BY <1>1 DEF Effect
  <2>2. stream' \in Seq(Packages)
    BY <2>1, ReadTakes DEF ValuesInv
  <2>3. QED
    BY <2>1, <2>2, ReadTakes DEF ValuesInv, Matches
<1>13. /\ requests' \in Seq(RequestPackages) /\ DOMAIN requests' \subseteq Nat
       /\ \A i \in DOMAIN requests' : \/ i \in DOMAIN requests /\ requests'[i] = requests[i]
                                      \/ requests'[i] = dp
  <2>1. dp \in RequestPackages /\ requests \in Seq(RequestPackages)
    BY DEF RequestPackages, ValuesInv, AllTypes
  <2>2. CASE requests' = Append(requests, dp)
    BY <2>1, <2>2
  <2>3. CASE UNCHANGED requests
    BY <2>1, <2>3
  <2>4. QED
    BY <1>1, <2>2, <2>3 DEF Effect
<1>14. /\ DOMAIN recipes_in' \subseteq DOMAIN recipes_in \cup {id}
       /\ \A k \in DOMAIN recipes_in' : recipes_in'[k] \in Recipes
       /\ \A q \in Recipes : Added(q)' => Added(q) \/ (q = r /\ ~rec.dir_out)
  <2>1. CASE UNCHANGED recipes_in
    BY <2>1 DEF ValuesInv, AllTypes, Added
  <2>2. CASE /\ ~rec.dir_out
             /\ DOMAIN recipes_in' = DOMAIN recipes_in \cup {id} /\ recipes_in'[id] = r
             /\ \A k \in DOMAIN recipes_in : recipes_in'[k] = recipes_in[k]
    BY <2>2 DEF ValuesInv, AllTypes, Added
  <2>3. QED
    BY <1>1, <1>5, <2>1, <2>2 DEF Effect
<1>15. AllTypes'
  <2>1. out' \in Recipes \cup {NoRecipe} /\ call' = Idle
    BY <1>1 DEF Effect, ValuesInv, AllTypes
  <2>2. DOMAIN recipes_in' \subseteq 1 .. calls
    BY <1>14 DEF ValuesInv, AllTypes
  <2>3. registered' \in [Recipes -> 0 .. calls]
    <3>1. registered \in [Recipes -> 0 .. calls] /\ calls \in 0 .. calls
      BY <1>4 DEF ValuesInv, AllTypes
    <3>2. registered' \in {registered, [registered EXCEPT ![r] = calls]}
      BY <1>1 DEF Effect
    <3>3. QED
      BY <3>1, <3>2
  <2>4. Idle \in [op : {"none", "register", "start", "stop", "version"}, r : Recipes \cup {NoRecipe}]
        /\ Idle.op # "register"
    BY DEF Idle
  <2>5. faults' \in Nat
    BY <1>5 DEF ValuesInv, AllTypes
  <2>6. QED
    BY <1>5, <1>12, <1>13, <1>14, <2>1, <2>2, <2>3, <2>4, <2>5 DEF ValuesInv, AllTypes
<1>16. Laid' /\ WholeStores'
  <2>1. LaidRecipe(sent)
    BY <1>4, <1>8, <1>10, <1>11 DEF LaidRecipe, InOrder
  <2>2. QED
    BY <1>5, <2>1 DEF ValuesInv, Laid, LaidRecipe, InOrder, WholeStores
<1>17. Replies'
  BY <1>4, <1>5, <1>12, RepliesSteady DEF ValuesInv
<1>18. Values'
  <2>1. ASSUME NEW q \in Recipes, q # r PROVE ValuesOf(q, recipe[q])'
    <3>1. ValuesOf(q, recipe[q]) /\ recipe'[q] = recipe[q] /\ (Added(q)' => Added(q))
      BY <1>5, <1>14, <2>1 DEF ValuesInv, Values
    <3>2. QED
      BY <1>5, <3>1 DEF ValuesOf, Whole
  <2>2. ValuesOf(r, recipe[r])'
    <3>1. /\ a.bytes <= sent.bytes
          /\ a.bytes = sent.bytes =>
                 /\ Within(Range(sent.fields), a.payload)
                 /\ ~a.dir_out /\ Added(r)' => Within(a.payload, sent.dp.payload)
      <4>1. a.bytes = sent.bytes /\ Added(r)' => ~rec.dir_out
        BY <1>4, <1>8, <1>9, <1>11, <1>14 DEF ValuesOf
      <4>2. a.bytes = sent.bytes /\ ~rec.dir_out => Within(a.payload, dp.payload)
        BY <1>9, <1>10, <1>11 DEF Within
      <4>3. QED
        BY <1>9, <1>11, <4>1, <4>2
    <3>2. Added(r)' /\ (sent.dir_out \/ sent.fields = << >>) => Base(sent) > 0
      BY <1>4, <1>5, <1>11, <1>14 DEF ValuesOf
    <3>3. recipe'[r] = sent /\ Whole(sent.dp) /\ \A t \in sent.dp.payload : t.name \in Inputs
      BY <1>5, <1>10, <1>11
    <3>4. QED
      BY <1>5, <1>7, <1>11, <3>1, <3>2, <3>3 DEF ValuesOf, Whole
  <2>3. \A i \in DOMAIN requests' : requests'[i].op = "data" =>
            Whole(requests'[i]) /\ \A t \in requests'[i].payload : t.name \in Inputs
    BY <1>10, <1>13 DEF ValuesInv, Values
  <2>4. QED
    BY <1>5, <2>1, <2>2, <2>3 DEF Values, Whole
<1>19. Numbers'
  <2>1. PICK n \in Nat : \A i \in DOMAIN stream' :
            stream'[i].kind # "tail" =>
                i + n \in DOMAIN stream /\ stream'[i] = stream[i + n] /\ 1 < i + n
    BY <1>12
  <2>2. \A q \in Recipes : /\ recipe'[q].id = (IF q = r THEN id ELSE recipe[q].id)
                           /\ recipe'[q].dp.id \in {recipe[q].dp.id, id}
    BY <1>2, <1>5, <1>10, <1>11
  <2>3. dp.op = "data"
    BY DEF DataPackages
  <2>4. ASSUME NEW i \in DOMAIN stream', stream'[i].kind = "setup"
        PROVE  /\ stream'[i].id \in 1 .. calls /\ id < stream'[i].id
               /\ \A q \in Recipes : recipe'[q].id < stream'[i].id
               /\ \A k \in DOMAIN recipes_in' : k < stream'[i].id
               /\ \A j \in DOMAIN stream' :
                      i < j /\ stream'[j].kind = "setup" => stream'[i].id < stream'[j].id
    <3>1. i + n \in DOMAIN stream /\ stream'[i] = stream[i + n] /\ 1 < i + n
      BY <2>1, <2>4
    <3>2. stream'[i].id \in 1 .. calls /\ id < stream'[i].id
      BY <1>4, <1>12, <2>4, <3>1 DEF Numbers
    <3>3. \A q \in Recipes : recipe'[q].id < stream'[i].id
      BY <1>4, <2>2, <2>4, <3>1, <3>2 DEF Numbers
    <3>4. \A k \in DOMAIN recipes_in' : k < stream'[i].id
      BY <1>4, <1>14, <2>4, <3>1, <3>2 DEF Numbers
    <3>5. ASSUME NEW j \in DOMAIN stream', i < j, stream'[j].kind = "setup"
          PROVE  stream'[i].id < stream'[j].id
      <4>1. j + n \in DOMAIN stream /\ stream'[j] = stream[j + n] /\ i + n < j + n
        BY <1>12, <2>1, <3>5
      <4>2. QED
        BY <1>4, <2>4, <3>1, <3>5, <4>1 DEF Numbers
    <3>6. QED
      BY <3>2, <3>3, <3>4, <3>5
  <2>5. ASSUME NEW m, Unused(m)
        PROVE  /\ current' < m
               /\ \A b \in accepted' : b.id < m
               /\ \A q \in Recipes : recipe'[q].id < m /\ recipe'[q].dp.id < m
               /\ \A k \in DOMAIN recipes_in' : k < m
               /\ \A i \in DOMAIN stream' : stream'[i].kind = "setup" => stream'[i].id < m
               /\ \A i \in DOMAIN requests' : requests'[i].op = "data" => requests'[i].id < m
    <3>1. id < m
      BY <1>12, <2>5 DEF Unused
    <3>2. \A q \in Recipes : recipe'[q].id < m /\ recipe'[q].dp.id < m
      BY <2>2, <2>5, <3>1 DEF Unused
    <3>3. \A i \in DOMAIN requests' : requests'[i].op = "data" => requests'[i].id < m
      <4>1. dp.id < m
        BY <1>2, <1>10, <2>5, <3>1 DEF Unused
      <4>2. QED
        BY <1>13, <2>5, <4>1 DEF Unused
    <3>4. QED
      BY <1>5, <1>14, <2>1, <2>5, <3>1, <3>2, <3>3 DEF Unused
  <2>6. ASSUME NEW i \in DOMAIN requests', requests'[i].op = "setup"
        PROVE  /\ requests'[i].id \in 1 .. calls /\ Unused(requests'[i].id)
               /\ Typed(requests'[i].fields, requests'[i].dir_out)
               /\ \A j \in DOMAIN requests' :
                      i < j /\ requests'[j].op = "setup" => requests'[i].id < requests'[j].id
    <3>1. \A j \in DOMAIN requests' : requests'[j].op = "setup" =>
              j \in DOMAIN requests /\ requests'[j] = requests[j]
      BY <1>13, <2>3
    <3>2. QED
      BY <1>4, <2>6, <3>1 DEF Numbers
  <2>7. \A i \in DOMAIN requests' : requests'[i].op = "setup" => Unused(requests[i].id)'
    BY <2>5, <2>6 DEF Unused
  <2>8. \A q \in Recipes :
            /\ recipe'[q].id \in -1 .. calls
            /\ recipe'[q].dp.id \in -1 .. calls
            /\ \A p \in Recipes \ {q} : recipe'[q].id = recipe'[p].id => recipe'[q].id = -1
    <3>1. id \in -1 .. calls /\ \A q \in Recipes : recipe[q].id # id
      BY <1>4, <1>5 DEF Numbers
    <3>2. QED
      BY <1>4, <2>2, <3>1 DEF Numbers
  <2>9. \A i \in DOMAIN requests' : requests'[i].op = "data" => requests'[i].id \in -1 .. calls
    <3>1. dp.id \in -1 .. calls
      BY <1>2, <1>4, <1>10 DEF Numbers
    <3>2. QED
      BY <1>4, <1>13, <3>1 DEF Numbers
  <2>10. QED
    BY <1>5, <2>4, <2>6, <2>7, <2>8, <2>9 DEF Numbers
<1>20. QED
  BY <1>15, <1>16, <1>17, <1>18, <1>19 DEF ValuesInv

-----------------------------------------------------------------------------
(* The invariant holds. *)

LEMMA ValuesInit == Init => ValuesInv
<1> SUFFICES ASSUME Init PROVE ValuesInv
  OBVIOUS
<1>1. /\ recipe = [r \in Recipes |-> NewRecipe] /\ out = NoRecipe /\ recipes_in = << >>
      /\ call = Idle /\ result = FALSE /\ calls = 0 /\ requests = << >> /\ stream = << >>
      /\ accepted = {} /\ current = 0 /\ streaming = FALSE /\ faults = 0 /\ quiet = TRUE
      /\ registered = [r \in Recipes |-> 0]
      /\ storage = [n \in Outputs |-> "none"] /\ registers = [n \in Inputs |-> "none"]
  BY DEF Init, Outputs, Inputs
<1>2. /\ NewRecipe \in RecipeTypes /\ NewRecipe.fields = << >> /\ NewRecipe.bytes = 0
      /\ NewRecipe.id = -1 /\ NewRecipe.dp.id = 0 /\ NewRecipe.dp.payload = {}
  BY DEF NewRecipe, RecipeTypes, DataPackages
<1>3. AllTypes
  <2>1. Idle \in [op : {"none", "register", "start", "stop", "version"}, r : Recipes \cup {NoRecipe}]
        /\ Idle.op # "register"
    BY DEF Idle
  <2>2. 0 \in 0 .. MaxCalls
    BY RtdeAssumption
  <2>3. requests \in Seq(RequestPackages) /\ stream \in Seq(Packages)
    BY <1>1
  <2>4. DOMAIN recipes_in = {}
    BY <1>1
  <2>5. /\ recipe \in [Recipes -> RecipeTypes] /\ registered \in [Recipes -> 0 .. calls]
        /\ calls \in 0 .. MaxCalls /\ current \in 0 .. calls
    BY <1>1, <1>2, <2>2
  <2>6. /\ result \in BOOLEAN /\ streaming \in BOOLEAN /\ quiet \in BOOLEAN /\ faults \in Nat
        /\ out \in Recipes \cup {NoRecipe} /\ call.op # "register"
        /\ call \in [op : {"none", "register", "start", "stop", "version"}, r : Recipes \cup {NoRecipe}]
    BY <1>1, <2>1
  <2>7. QED
    BY <2>3, <2>4, <2>5, <2>6 DEF AllTypes
<1>4. Base(NewRecipe) = 0
  BY <1>2, SizeEmpty DEF Base, TypesOf
<1>5. LaidRecipe(NewRecipe)
  <2>1. Len(NewRecipe.fields) = 0 /\ DOMAIN NewRecipe.fields = {}
    BY <1>2
  <2>2. QED
    BY <1>2, <1>4, <2>1, RtdeAssumption DEF LaidRecipe, InOrder, Typed
<1>6. Laid
  BY <1>1, <1>5 DEF Laid
<1>7. DOMAIN requests = {} /\ DOMAIN stream = {} /\ DOMAIN recipes_in = {}
  BY <1>1
<1>8. Numbers /\ Replies
  BY <1>1, <1>2, <1>7 DEF Numbers, Replies
<1>9. Values
  BY <1>1, <1>2, <1>7 DEF Values, ValuesOf, Whole, Added
<1>10. WholeStores
  BY <1>1 DEF WholeStores
<1>11. QED
  BY <1>3, <1>6, <1>8, <1>9, <1>10 DEF ValuesInv

\* Parts of packages are left by sends that are cut short only.
LEMMA NoPart == ASSUME AllTypes, requests # << >> PROVE Head(requests).op # "part"
<1>1. requests \in Seq(RequestPackages)
  BY DEF AllTypes
<1>2. Head(requests) \in RequestPackages
  BY <1>1
<1>3. QED
  BY <1>2 DEF RequestPackages, DataPackages

LEMMA ValuesStep == ValuesInv /\ [Next]_vars /\ whole' => ValuesInv'
<1> SUFFICES ASSUME ValuesInv, [Next]_vars, whole' PROVE ValuesInv'
  OBVIOUS
<1>1. CASE UNCHANGED vars
  <2>1. UNCHANGED <<recipe, out, recipes_in, call, result, storage, calls, registered, requests,
                    stream, accepted, current, streaming, registers, faults, quiet>>
    BY <1>1 DEF vars
  <2>2. AllTypes' /\ WholeStores'
    BY <2>1 DEF ValuesInv, AllTypes, WholeStores
  <2>3. calls <= calls'
    BY <2>1 DEF ValuesInv, AllTypes
  <2>4. QED
    BY <2>1, <2>2, <2>3, RequestsSame, StreamSame, SteadyStep DEF ValuesInv
<1>2. CASE RecipeCall
  BY <1>2, AddFieldStep, ClearFieldsStep, SetDirStep DEF RecipeCall
<1>3. CASE HandlerCall
  <2>1. CASE Start \/ Stop \/ Version
    <3>1. \E op \in {"start", "stop", "version"}, q \in [op : {"start", "pause", "version"}] :
              Request(op, NoRecipe, q)
      <4>1. \A o \in {"start", "pause", "version"} : [op |-> o] \in [op : {"start", "pause", "version"}]
        OBVIOUS
      <4>2. QED
        BY <2>1, <4>1 DEF Start, Stop, Version
    <3>2. QED
      BY <3>1, PlainRequestStep
  <2>2. QED
    BY <1>3, <2>1, RegisterRequestStep, SendDataPackageStep, FaultStep, RecvStep DEF HandlerCall
<1>4. CASE Replied
  BY <1>4, PlainReplyStep, RegisterSucceedsStep DEF Replied
<1>5. CASE Controller
  <2>1. ~TakeGarbled
    BY NoPart DEF TakeGarbled, Pending, ValuesInv
  <2>2. QED
    BY <1>5, <2>1, AcceptStep, RefuseStep, PlainAnswerStep, TakeStep, SendStep DEF Controller
<1>6. QED
  BY <1>1, <1>2, <1>3, <1>4, <1>5, QuietBefore DEF Next

\* The history of cuts, and what holds before the first one.
Uncut == (quiet => whole) /\ (whole => ValuesInv)

LEMMA ValuesInductive == Spec => []Uncut
<1>1. Init => Uncut
  BY ValuesInit DEF Init, Uncut
<1>2. Uncut /\ [Next]_vars => Uncut'
  BY QuietBefore, ValuesStep, Zenon DEF Uncut
<1>3. QED
  BY <1>1, <1>2, PTL DEF Spec

(* However requests, replies, data and texts meet on the connection, as     *)
(* long as no send was cut short and no read has ended in the package it    *)
(* began with, what is parsed into a storage and what is sent to a register *)
(* is one whole variable of its type (rtde_handler.cpp:156-169,             *)
(* rtde_recipe.cpp:105-115).                                                *)
THEOREM ValuesAreWhole == Spec => []WholeValues
<1>1. Uncut => WholeValues
  <2> SUFFICES ASSUME ValuesInv PROVE WholeValues
    BY DEF Uncut, WholeValues
  <2>1. \A n \in Names : n # "garbage" \/ n \notin DOMAIN OutputType \cup DOMAIN InputType
    BY DEF OutputType, InputType
  <2>2. "garbage" \notin Outputs /\ "garbage" \notin Inputs
    BY <2>1 DEF Outputs, Inputs
  <2>3. QED
    BY <2>2 DEF ValuesInv, WholeStores, WholeValues
<1>2. QED
  BY <1>1, ValuesInductive, PTL

-----------------------------------------------------------------------------
(* The types, whatever is cut. *)

AnyRequests ==
    [op : {"setup"}, id : 1 .. MaxCalls, dir_out : BOOLEAN, fields : Seq(Tokens)]
      \cup DataPackages
      \cup [op : {"start", "pause", "version", "text", "part"}]

AnyPackages ==
    [kind : {"setup"}, id : 1 .. MaxCalls, types : Seq(DOMAIN DataSize)]
      \cup [kind : {"data"}, id : Int, bytes : Int, payload : SUBSET Tokens]
      \cup [kind : {"start", "pause"}, accepted : BOOLEAN]
      \cup [kind : {"version", "text", "tail"}]

TypedRecipes ==
    /\ recipe \in [Recipes -> RecipeTypes]
    /\ \A r \in Recipes : recipe[r].id \in -1 .. MaxCalls /\ InOrder(recipe[r])

TypedHandler ==
    /\ out \in Recipes \cup {NoRecipe}
    /\ DOMAIN recipes_in \subseteq 1 .. MaxCalls
    /\ \A id \in DOMAIN recipes_in : recipes_in[id] \in Recipes
    /\ calls \in 0 .. MaxCalls /\ faults \in Nat
    /\ registered \in [Recipes -> 0 .. MaxCalls]

TypedCall ==
    /\ call \in [op : {"none", "register", "start", "stop", "version"}, r : Recipes \cup {NoRecipe}]
    /\ call.op = "register" => call.r \in Recipes
    /\ result \in BOOLEAN

TypedStores ==
    /\ storage \in [Outputs -> Names \cup {"none", "garbage"}]
    /\ registers \in [Inputs -> Names \cup {"none", "garbage"}]

TypedController ==
    /\ \A a \in accepted : a.id \in 1 .. MaxCalls /\ a.bytes \in Int /\ a.payload \in SUBSET Tokens
    /\ current \in 0 .. MaxCalls
    /\ streaming \in BOOLEAN

TypedHistory ==
    /\ quiet \in BOOLEAN
    /\ whole \in BOOLEAN
    /\ quiet => whole

Typing ==
    /\ TypedRecipes /\ TypedHandler /\ TypedCall /\ TypedStores /\ TypedController /\ TypedHistory
    /\ requests \in Seq(AnyRequests) /\ stream \in Seq(AnyPackages)

\* A recipe with the fields and the bytes of another is as much in order.
LEMMA OrderKept ==
    ASSUME NEW rec, InOrder(rec), NEW new, new.fields = rec.fields, new.bytes = rec.bytes
    PROVE  InOrder(new)
  BY DEF InOrder, Base

LEMMA TypingInit == Init => Typing
<1> SUFFICES ASSUME Init PROVE Typing
  OBVIOUS
<1>1. /\ NewRecipe \in RecipeTypes /\ NewRecipe.id = -1
      /\ NewRecipe.fields = << >> /\ NewRecipe.bytes = 0
  BY DEF NewRecipe, RecipeTypes, DataPackages
<1>2. InOrder(NewRecipe)
  BY <1>1, SizeEmpty, RtdeAssumption DEF InOrder, Base, TypesOf
<1>3. recipe = [r \in Recipes |-> NewRecipe]
  BY DEF Init
<1>4. TypedRecipes
  BY <1>1, <1>2, <1>3, RtdeAssumption DEF TypedRecipes
<1>5. TypedHandler
  BY RtdeAssumption DEF Init, TypedHandler
<1>6. TypedCall
  BY DEF Init, TypedCall, Idle
<1>7. TypedStores
  BY DEF Init, TypedStores, Outputs, Inputs
<1>8. TypedController
  <2>1. accepted = {} /\ current = 0 /\ streaming = FALSE
    BY DEF Init
  <2>2. current \in 0 .. MaxCalls
    BY <2>1, RtdeAssumption
  <2>3. QED
    BY <2>1, <2>2 DEF TypedController
<1>9. TypedHistory
  BY DEF Init, TypedHistory
<1>10. requests \in Seq(AnyRequests) /\ stream \in Seq(AnyPackages)
  BY DEF Init
<1>11. QED
  BY <1>4, <1>5, <1>6, <1>7, <1>8, <1>9, <1>10 DEF Typing

LEMMA ObservedTypes ==
    ASSUME TypedHistory, faults \in Nat, NEW cut \in BOOLEAN, NEW how, Observed(cut, how)
    PROVE  TypedHistory' /\ faults' \in Nat
<1>1. faults' \in Nat
  BY DEF Observed, Faults
<1>2. quiet' \in BOOLEAN /\ whole' \in BOOLEAN
  BY Zenon DEF Observed
<1>3. quiet' => whole'
  BY Zenon DEF Observed, TypedHistory
<1>4. QED
  BY <1>1, <1>2, <1>3 DEF TypedHistory

LEMMA SendTypes ==
    ASSUME requests \in Seq(AnyRequests), NEW q \in AnyRequests, NEW how, DoSend(q, how)
    PROVE  requests' \in Seq(AnyRequests)
<1>1. Part \in AnyRequests
  BY DEF Part, AnyRequests
<1>2. QED
  BY <1>1 DEF DoSend

\* Whatever is taken of the stream.
LEMMA CutTypes ==
    ASSUME stream \in Seq(AnyPackages), NEW n \in Nat, CutAfter(n)
    PROVE  stream' \in Seq(AnyPackages) /\ stream # << >>
<1>1. n < Len(stream) /\ stream' = <<Rest>> \o SubSeq(stream, n + 2, Len(stream))
  BY DEF CutAfter
<1>2. <<Rest>> \in Seq(AnyPackages)
  BY DEF Rest, AnyPackages
<1>3. SubSeq(stream, n + 2, Len(stream)) \in Seq(AnyPackages) /\ Len(stream) \in Nat
  BY <1>1
<1>4. QED
  BY <1>1, <1>2, <1>3

LEMMA ReadTypes ==
    ASSUME stream \in Seq(AnyPackages), Read \/ Read4 \/ CutAfter(0)
    PROVE  stream' \in Seq(AnyPackages) /\ Head(stream) \in AnyPackages
<1>1. CASE Read
  <2>1. PICK n \in 1 .. Len(stream) :
            stream' = SubSeq(stream, n + 1, Len(stream)) \/ CutAfter(n)
    BY <1>1 DEF Read
  <2>2. stream # << >> /\ n \in Nat
    BY <2>1
  <2>3. stream' = SubSeq(stream, n + 1, Len(stream)) => stream' \in Seq(AnyPackages)
    BY <2>1
  <2>4. QED
    BY <2>1, <2>2, <2>3, CutTypes
<1>2. CASE CutAfter(0)
  BY <1>2, CutTypes
<1>3. CASE stream # << >> /\ stream' = Tail(stream)
  BY <1>3
<1>4. QED
  BY <1>1, <1>2, <1>3 DEF Read4

\* A recipe is changed.
LEMMA ChangeTypes ==
    ASSUME Typing, NEW r \in Recipes, NEW rec \in RecipeTypes, Change(r, rec),
           rec.id = recipe[r].id, InOrder(rec)
    PROVE  Typing'
<1>1. /\ recipe' = [recipe EXCEPT ![r] = rec]
      /\ UNCHANGED <<out, recipes_in, call, result, storage, calls, registered, requests, stream,
                     accepted, current, streaming, registers, faults, quiet, whole>>
  BY DEF Change, remote, history
<1>2. TypedRecipes'
  <2>1. \A q \in Recipes : recipe'[q] = IF q = r THEN rec ELSE recipe[q]
    BY <1>1 DEF Typing, TypedRecipes
  <2>2. \A q \in Recipes : InOrder(recipe'[q]) /\ recipe'[q].id \in -1 .. MaxCalls
    BY <2>1 DEF Typing, TypedRecipes
  <2>3. QED
    BY <1>1, <2>2 DEF Typing, TypedRecipes, InOrder, Base
<1>3. /\ TypedHandler' /\ TypedCall' /\ TypedStores' /\ TypedController' /\ TypedHistory'
      /\ requests' \in Seq(AnyRequests) /\ stream' \in Seq(AnyPackages)
  BY <1>1 DEF Typing, TypedHandler, TypedCall, TypedStores, TypedController, TypedHistory
<1>4. QED
  BY <1>2, <1>3 DEF Typing

LEMMA RecipeTypesKept == ASSUME Typing, RecipeCall PROVE Typing'
<1>1. PICK r \in Recipes : (\E n \in Names : AddField(r, n)) \/ ClearFields(r) \/ SetDir(r)
  BY DEF RecipeCall
<1>2. PICK rec : rec = recipe[r]
  OBVIOUS
<1>3. /\ rec \in RecipeTypes /\ InOrder(rec) /\ rec.fields \in Seq(Tokens) /\ rec.bytes \in Int
      /\ rec.dir_out \in BOOLEAN
  BY <1>2 DEF Typing, TypedRecipes, RecipeTypes
<1>4. ASSUME NEW n \in Names, AddField(r, n) PROVE Typing'
  <2>1. PICK token : token = Token(n, rec.dir_out, rec.bytes)
    OBVIOUS
  <2>2. PICK size : size = DataSize[token.type]
    OBVIOUS
  <2>3. PICK new : new = [rec EXCEPT !.fields = Append(@, token), !.bytes = @ + size]
    OBVIOUS
  <2>4. FieldGiven(rec, n, token, size, new) /\ Change(r, new)
    BY <1>2, <1>3, <1>4, <2>1, <2>2, <2>3 DEF AddField, FieldGiven
  <2>5. new \in RecipeTypes /\ InOrder(new) /\ new.id = rec.id
    BY <1>3, <2>4, FieldAdded DEF FieldTaken
  <2>6. QED
    BY <1>2, <2>4, <2>5, ChangeTypes
<1>5. CASE ClearFields(r)
  <2>1. PICK new : new = [rec EXCEPT !.fields = << >>]
    OBVIOUS
  <2>2. << >> \in Seq(Tokens)
    OBVIOUS
  <2>3. new \in RecipeTypes /\ new.id = rec.id /\ new.fields = << >> /\ new.bytes = rec.bytes
    BY <1>3, <2>1, <2>2 DEF RecipeTypes
  <2>4. ByteSize(TypesOf(rec.fields)) \in Nat
    BY <1>3, Offsets
  <2>5. Base(new) = rec.bytes /\ rec.bytes >= 0 /\ rec.bytes <= MaxBytes
    BY <1>3, <2>3, <2>4, SizeEmpty DEF InOrder, Base, TypesOf
  <2>6. InOrder(new)
    BY <2>3, <2>5 DEF InOrder
  <2>7. QED
    BY <1>2, <1>5, <2>1, <2>3, <2>6, ChangeTypes DEF ClearFields
<1>6. CASE SetDir(r)
  <2>1. PICK new : new = [rec EXCEPT !.dir_out = ~@]
    OBVIOUS
  <2>2. new \in RecipeTypes /\ new.id = rec.id /\ new.fields = rec.fields /\ new.bytes = rec.bytes
    BY <1>3, <2>1 DEF RecipeTypes
  <2>3. QED
    BY <1>2, <1>3, <1>6, <2>1, <2>2, OrderKept, ChangeTypes DEF SetDir
<1>7. QED
  BY <1>1, <1>4, <1>5, <1>6

\* A package is sent for one of the recipes.
LEMMA SentTypes ==
    ASSUME requests \in Seq(AnyRequests), NEW rs \in [Recipes -> RecipeTypes],
           \A r \in Recipes : rs[r].id \in -1 .. MaxCalls /\ InOrder(rs[r]),
           NEW ins, \A key \in DOMAIN ins : ins[key] \in Recipes,
           NEW id, NEW how, Sent(id, rs, ins, how)
    PROVE  TypedRecipes' /\ requests' \in Seq(AnyRequests)
<1>1. PICK r \in Recipes : /\ recipe' = [rs EXCEPT ![r].dp = Stored(rs[r])]
                           /\ DoSend(Stored(rs[r]), how)
  BY DEF Sent, WithId
<1>2. Stored(rs[r]) \in DataPackages
  BY StoredOK
<1>3. requests' \in Seq(AnyRequests)
  <2>1. Stored(rs[r]) \in AnyRequests
    BY <1>2 DEF AnyRequests
  <2>2. QED
    BY <1>1, <2>1, SendTypes
<1>4. recipe' \in [Recipes -> RecipeTypes] /\ \A q \in Recipes : recipe'[q].id = rs[q].id
  BY SentOK
<1>5. ASSUME NEW q \in Recipes PROVE recipe'[q].fields = rs[q].fields /\ recipe'[q].bytes = rs[q].bytes
  <2>1. rs[q] \in RecipeTypes
    OBVIOUS
  <2>2. QED
    BY <1>1, <2>1 DEF RecipeTypes
<1>6. \A q \in Recipes : InOrder(recipe'[q])
  BY <1>5, OrderKept
<1>7. TypedRecipes'
  BY <1>4, <1>6 DEF TypedRecipes, InOrder, Base
<1>8. QED
  BY <1>3, <1>7

\* A recipe is registered, be the reply cut or not.
LEMMA RegistersTypes ==
    ASSUME Typing, stream' \in Seq(AnyPackages), NEW reply, reply.id \in 1 .. MaxCalls,
           NEW cut \in BOOLEAN, Registers(reply, cut)
    PROVE  Typing'
<1> DEFINE r == call.r
           id == reply.id
           rs == [recipe EXCEPT ![r].id = id, ![r].active = TRUE]
           ins == [key \in DOMAIN recipes_in \cup {id} |->
                      IF key \in DOMAIN recipes_in THEN recipes_in[key] ELSE r]
           done == [registered EXCEPT ![r] = calls]
<1>1. /\ call.op = "register" /\ call' = Idle /\ r \in Recipes
      /\ UNCHANGED <<result, storage, calls, accepted, current, streaming, registers>>
      /\ out' \in {out, r} /\ recipes_in' \in {recipes_in, ins}
      /\ registered' \in {registered, done}
  <2>1. call.op = "register" /\ call' = Idle /\ UNCHANGED <<result, storage, calls, remote>>
    BY DEF Registers
  <2>2. out' \in {out, r} /\ recipes_in' \in {recipes_in, ins} /\ registered' \in {registered, done}
    BY DEF Registers
  <2>3. QED
    BY <2>1, <2>2 DEF Typing, TypedCall, remote
<1>2. \E how : Observed(cut, how)
  BY DEF Registers
<1>3. \/ recipe' = rs /\ UNCHANGED requests
      \/ \E how : Sent(id, rs, ins, how)
  BY DEF Registers
<1>4. /\ rs \in [Recipes -> RecipeTypes]
      /\ \A q \in Recipes : /\ rs[q].id \in -1 .. MaxCalls
                            /\ rs[q].fields = recipe[q].fields /\ rs[q].bytes = recipe[q].bytes
  <2>1. recipe \in [Recipes -> RecipeTypes] /\ \A q \in Recipes : recipe[q].id \in -1 .. MaxCalls
    BY DEF Typing, TypedRecipes
  <2>2. id \in -1 .. MaxCalls /\ id \in Int
    BY RtdeAssumption
  <2>3. PICK new : new = [recipe[r] EXCEPT !.id = id, !.active = TRUE]
    OBVIOUS
  <2>4. /\ new \in RecipeTypes /\ new.id = id
        /\ new.fields = recipe[r].fields /\ new.bytes = recipe[r].bytes
    <3>1. recipe[r] \in RecipeTypes
      BY <1>1, <2>1
    <3>2. QED
      BY <2>2, <2>3, <3>1 DEF RecipeTypes
  <2>5. rs = [recipe EXCEPT ![r] = new]
    BY <1>1, <2>1, <2>3 DEF RecipeTypes
  <2>6. QED
    BY <1>1, <2>1, <2>2, <2>4, <2>5
<1> HIDE DEF rs
<1>5. \A q \in Recipes : InOrder(rs[q])
  BY <1>4, OrderKept DEF Typing, TypedRecipes
<1>6. /\ DOMAIN ins \subseteq 1 .. MaxCalls
      /\ \A key \in DOMAIN ins : ins[key] \in Recipes
  BY <1>1 DEF Typing, TypedHandler
<1> HIDE DEF ins
<1>7. TypedRecipes' /\ requests' \in Seq(AnyRequests)
  <2>1. CASE recipe' = rs /\ UNCHANGED requests
    BY <1>4, <1>5, <2>1 DEF Typing, TypedRecipes, InOrder, Base
  <2>2. CASE \E how : Sent(id, rs, ins, how)
    BY <1>4, <1>5, <1>6, <2>2, SentTypes DEF Typing
  <2>3. QED
    BY <1>3, <2>1, <2>2
<1>8. TypedHistory' /\ faults' \in Nat
  BY <1>2, ObservedTypes DEF Typing, TypedHandler
<1>9. TypedHandler'
  BY <1>1, <1>6, <1>8 DEF Typing, TypedHandler
<1>10. TypedCall' /\ TypedStores' /\ TypedController'
  BY <1>1 DEF Typing, TypedCall, TypedStores, TypedController, Idle
<1>11. QED
  BY <1>7, <1>8, <1>9, <1>10 DEF Typing

\* What is found in a payload is a variable, or nothing of one.
LEMMA FoundTypes ==
    ASSUME NEW payload \in SUBSET Tokens, NEW t PROVE Found(t, payload) \in Names \cup {"garbage"}
<1>1. CASE \E v \in payload : v.offset = t.offset /\ v.type = t.type
  <2>1. PICK v \in payload : Found(t, payload) = v.name
    BY <1>1 DEF Found
  <2>2. QED
    BY <2>1 DEF Tokens
<1>2. CASE ~\E v \in payload : v.offset = t.offset /\ v.type = t.type
  BY <1>2 DEF Found
<1>3. QED
  BY <1>1, <1>2

LEMMA ParsedTypes ==
    ASSUME TypedStores, NEW payload \in SUBSET Tokens
    PROVE  /\ \A fields : Parsed(fields, payload) \in [Outputs -> Names \cup {"none", "garbage"}]
           /\ \A fields, k : ParsedCut(fields, payload, k)
                               \in [Outputs -> Names \cup {"none", "garbage"}]
<1>1. storage \in [Outputs -> Names \cup {"none", "garbage"}] /\ DOMAIN storage = Outputs
  BY DEF TypedStores
<1>2. \A t : Found(t, payload) \in Names \cup {"none", "garbage"}
  BY FoundTypes
<1>3. \A fields : Parsed(fields, payload) \in [Outputs -> Names \cup {"none", "garbage"}]
  BY <1>1, <1>2 DEF Parsed
<1>4. ASSUME NEW fields, NEW k
      PROVE  ParsedCut(fields, payload, k) \in [Outputs -> Names \cup {"none", "garbage"}]
  BY <1>1, <1>3 DEF ParsedCut
<1>5. QED
  BY <1>3, <1>4

LEMMA RecvTypes == ASSUME Typing, Recv \/ RecvCut PROVE Typing'
<1>1. /\ Read \/ CutAfter(0)
      /\ UNCHANGED <<recipe, out, recipes_in, call, result, calls, registered, requests,
                     accepted, current, streaming, registers>>
  BY DEF Recv, RecvCut, remote
<1>2. stream' \in Seq(AnyPackages) /\ Head(stream) \in AnyPackages
  BY <1>1, ReadTypes DEF Typing
<1>3. storage' \in [Outputs -> Names \cup {"none", "garbage"}]
  <2>1. CASE UNCHANGED storage
    BY <2>1 DEF Typing, TypedStores
  <2>2. CASE Accepts(Head(stream))
    <3>1. Head(stream).payload \in SUBSET Tokens
      BY <1>2, <2>2 DEF Accepts, AnyPackages
    <3>2. \E fields : \/ storage' = Parsed(fields, Head(stream).payload)
                      \/ \E k : storage' = ParsedCut(fields, Head(stream).payload, k)
      BY <2>2 DEF Recv, RecvCut
    <3>3. TypedStores
      BY DEF Typing
    <3>4. PICK fields : \/ storage' = Parsed(fields, Head(stream).payload)
                        \/ \E k : storage' = ParsedCut(fields, Head(stream).payload, k)
      BY <3>2
    <3>5. QED
      BY <3>1, <3>3, <3>4, ParsedTypes
  <2>3. QED
    BY <2>1, <2>2 DEF Recv, RecvCut
<1>4. TypedHistory' /\ faults' \in Nat
  <2>1. CASE Recv
    BY <2>1 DEF Recv, history, Typing, TypedHistory, TypedHandler
  <2>2. CASE RecvCut
    BY <2>2, ObservedTypes DEF RecvCut, Typing, TypedHandler
  <2>3. QED
    BY <2>1, <2>2
<1>5. TypedRecipes' /\ TypedHandler' /\ TypedCall' /\ TypedStores' /\ TypedController'
  BY <1>1, <1>3, <1>4 DEF Typing, TypedRecipes, InOrder, Base, TypedHandler, TypedCall, TypedStores,
                          TypedController
<1>6. QED
  BY <1>1, <1>2, <1>4, <1>5 DEF Typing

\* A request is sent, or not.
LEMMA RequestTypes ==
    ASSUME Typing, NEW op \in {"register", "start", "stop", "version"},
           NEW r \in Recipes \cup {NoRecipe}, op = "register" => r \in Recipes,
           NEW q, Request(op, r, q), calls + 1 \in 1 .. MaxCalls => q \in AnyRequests
    PROVE  Typing'
<1>1. /\ calls + faults < MaxCalls /\ calls' = calls + 1 /\ call' = [op |-> op, r |-> r]
      /\ requests' = Append(requests, q)
      /\ UNCHANGED <<recipe, out, recipes_in, result, storage, registered, stream, accepted, current,
                     streaming, registers, faults, whole>>
  BY DEF Request, remote
<1>2. quiet' \in BOOLEAN /\ (quiet' => quiet)
  BY Zenon DEF Request
<1>3. calls \in Nat /\ calls' \in 1 .. MaxCalls
  BY <1>1, RtdeAssumption DEF Typing, TypedHandler
<1>4. TypedHistory'
  BY <1>1, <1>2, Zenon DEF Typing, TypedHistory
<1>5. TypedRecipes' /\ TypedStores' /\ TypedController'
  BY <1>1 DEF Typing, TypedRecipes, InOrder, Base, TypedStores, TypedController
<1>6. TypedHandler' /\ TypedCall'
  BY <1>1, <1>3 DEF Typing, TypedHandler, TypedCall
<1>7. requests' \in Seq(AnyRequests) /\ stream' \in Seq(AnyPackages)
  BY <1>1, <1>3 DEF Typing
<1>8. QED
  BY <1>4, <1>5, <1>6, <1>7 DEF Typing

LEMMA CallTypes == ASSUME Typing, HandlerCall, ~Recv PROVE Typing'
<1>1. ASSUME NEW r \in Recipes, Register(r) PROVE Typing'
  <2>1. PICK q : /\ q = [op |-> "setup", id |-> calls + 1, dir_out |-> recipe[r].dir_out,
                         fields |-> recipe[r].fields]
                 /\ Request("register", r, q)
    BY <1>1 DEF Register
  <2>2. recipe[r].dir_out \in BOOLEAN /\ recipe[r].fields \in Seq(Tokens)
    BY DEF Typing, TypedRecipes, RecipeTypes
  <2>3. calls + 1 \in 1 .. MaxCalls => q \in AnyRequests
    BY <2>1, <2>2 DEF AnyRequests
  <2>4. QED
    BY <2>1, <2>3, RequestTypes
<1>2. CASE Start \/ Stop \/ Version
  <2>1. \A o \in {"start", "pause", "version"} : [op |-> o] \in AnyRequests
    BY DEF AnyRequests
  <2>2. PICK op \in {"start", "stop", "version"}, o \in {"start", "pause", "version"} :
            Request(op, NoRecipe, [op |-> o])
    BY <1>2 DEF Start, Stop, Version
  <2>3. QED
    BY <2>1, <2>2, RequestTypes
<1>3. CASE SendEmergMsg
  <2>1. [op |-> "text"] \in AnyRequests
    BY DEF AnyRequests
  <2>2. requests' \in Seq(AnyRequests) /\ faults' \in Nat
    BY <1>3, <2>1 DEF SendEmergMsg, Fault, Faults, Typing, TypedHandler
  <2>3. UNCHANGED <<recipe, out, recipes_in, call, result, storage, calls, registered, stream,
                    accepted, current, streaming, registers, quiet, whole>>
    BY <1>3 DEF SendEmergMsg, remote
  <2>4. QED
    BY <2>2, <2>3 DEF Typing, TypedRecipes, InOrder, Base, TypedHandler, TypedCall, TypedStores,
                      TypedController, TypedHistory
<1>4. CASE SendFails
  <2>1. PICK how : DoSend(Part, how) /\ Observed(FALSE, how)
    BY <1>4 DEF SendFails
  <2>2. requests' \in Seq(AnyRequests)
    <3>1. Part \in AnyRequests
      BY DEF Part, AnyRequests
    <3>2. QED
      BY <2>1, <3>1, SendTypes DEF Typing
  <2>3. TypedHistory' /\ faults' \in Nat
    BY <2>1, ObservedTypes DEF Typing, TypedHandler
  <2>4. result' = FALSE
        /\ UNCHANGED <<recipe, out, recipes_in, call, storage, calls, registered, stream,
                       accepted, current, streaming, registers>>
    BY <1>4 DEF SendFails, remote
  <2>5. QED
    BY <2>2, <2>3, <2>4 DEF Typing, TypedRecipes, InOrder, Base, TypedHandler, TypedCall,
                            TypedStores, TypedController
<1>5. ASSUME NEW id \in 1 .. MaxCalls, Send(id) PROVE Typing'
  <2>1. PICK how : Sent(id, recipe, recipes_in, how) /\ Observed(FALSE, how)
    BY <1>5 DEF Send
  <2>2. TypedRecipes' /\ requests' \in Seq(AnyRequests)
    BY <2>1, SentTypes DEF Typing, TypedRecipes, TypedHandler
  <2>3. TypedHistory' /\ faults' \in Nat
    BY <2>1, ObservedTypes DEF Typing, TypedHandler
  <2>4. UNCHANGED <<out, recipes_in, call, result, storage, calls, registered, stream,
                    accepted, current, streaming, registers>>
    BY <1>5 DEF Send, remote
  <2>5. QED
    BY <2>2, <2>3, <2>4 DEF Typing, TypedHandler, TypedCall, TypedStores, TypedController
<1>6. QED
  BY <1>1, <1>2, <1>3, <1>4, <1>5 DEF HandlerCall

\* A reply that registers nothing.
LEMMA PlainReplyTypes ==
    ASSUME Typing,
           ReadFails \/ RegisterFails \/ StartStopReplied \/ VersionReplied \/ ReplyCut
    PROVE  Typing'
<1>1. /\ call' = Idle
      /\ UNCHANGED <<recipe, out, recipes_in, storage, calls, registered, requests, accepted,
                     current, streaming, registers>>
  BY DEF ReadFails, RegisterFails, StartStopReplied, VersionReplied, ReplyCut, GivesUp, remote
<1>2. result' \in BOOLEAN
  BY DEF Typing, TypedCall, ReadFails, RegisterFails, StartStopReplied, VersionReplied, ReplyCut,
         GivesUp
<1>3. stream' \in Seq(AnyPackages)
  <2>1. Read \/ Read4 \/ CutAfter(0) \/ UNCHANGED stream
    BY DEF ReadFails, RegisterFails, StartStopReplied, VersionReplied, ReplyCut
  <2>2. QED
    BY <2>1, ReadTypes DEF Typing
<1>4. TypedHistory' /\ faults' \in Nat
  <2>1. CASE ReadFails
    <3>1. quiet' = FALSE /\ UNCHANGED whole /\ faults' \in Nat
      BY <2>1 DEF ReadFails, Fault, Faults, Typing, TypedHandler
    <3>2. QED
      BY <3>1 DEF Typing, TypedHistory
  <2>2. CASE RegisterFails \/ StartStopReplied \/ VersionReplied
    BY <2>2 DEF RegisterFails, StartStopReplied, VersionReplied, history, Typing, TypedHandler,
                TypedHistory
  <2>3. CASE ReplyCut
    BY <2>3, ObservedTypes DEF ReplyCut, Typing, TypedHandler
  <2>4. QED
    BY <2>1, <2>2, <2>3
<1>5. TypedRecipes' /\ TypedHandler' /\ TypedCall' /\ TypedStores' /\ TypedController'
  BY <1>1, <1>2, <1>4 DEF Typing, TypedRecipes, InOrder, Base, TypedHandler, TypedCall, TypedStores,
                          TypedController, Idle
<1>6. QED
  BY <1>1, <1>3, <1>4, <1>5 DEF Typing

LEMMA RegisterReplyTypes == ASSUME Typing, RegisterSucceeds \/ RegisterCut PROVE Typing'
<1>1. stream' \in Seq(AnyPackages) /\ Head(stream) \in AnyPackages
  BY ReadTypes DEF Typing, RegisterSucceeds, RegisterCut
<1>2. Head(stream).kind = "setup" => Head(stream).id \in 1 .. MaxCalls
  BY <1>1 DEF AnyPackages
<1>3. CASE RegisterSucceeds
  <2>1. Registers(Head(stream), FALSE)
    BY <1>3 DEF RegisterSucceeds
  <2>2. Head(stream).kind = "setup"
    BY <2>1 DEF Registers, Matches
  <2>3. QED
    BY <1>1, <1>2, <2>1, <2>2, RegistersTypes
<1>4. CASE RegisterCut
  <2>1. PICK reply \in CutReplies(Head(stream)) : Registers(reply, TRUE)
    BY <1>4 DEF RegisterCut
  <2>2. Head(stream).kind = "setup"
    BY <1>4 DEF RegisterCut
  <2>3. Head(stream) \in [kind : {"setup"}, id : 1 .. MaxCalls, types : Seq(DOMAIN DataSize)]
    BY <1>1, <2>2 DEF AnyPackages
  <2>4. PICK types : reply = [Head(stream) EXCEPT !.types = types]
    BY <2>1 DEF CutReplies
  <2>5. reply.id = Head(stream).id
    BY <2>3, <2>4
  <2>6. QED
    BY <1>1, <1>2, <2>1, <2>2, <2>5, RegistersTypes
<1>5. QED
  BY <1>3, <1>4

\* The controller takes a request and may answer it.
LEMMA TakenTypes ==
    ASSUME requests \in Seq(AnyRequests), NEW op, Pending(op)
    PROVE  /\ Head(requests) \in AnyRequests /\ Head(requests).op = op
           /\ Tail(requests) \in Seq(AnyRequests)
  BY DEF Pending

LEMMA AnswerTypes ==
    ASSUME Typing, NEW op, Pending(op), NEW p \in AnyPackages, Reply(p), TypedController',
           UNCHANGED registers
    PROVE  Typing'
<1>1. requests' \in Seq(AnyRequests) /\ stream' \in Seq(AnyPackages)
  BY TakenTypes DEF Typing, Reply
<1>2. UNCHANGED <<recipe, out, recipes_in, call, result, storage, calls, registered, faults, quiet,
                  whole>>
  BY DEF Reply, client, history
<1>3. QED
  BY <1>1, <1>2 DEF Typing, TypedRecipes, InOrder, Base, TypedHandler, TypedCall, TypedStores,
                    TypedHistory

LEMMA AcceptTypes == ASSUME Typing, Accept PROVE Typing'
<1>s. PICK s : s = Head(requests)
  OBVIOUS
<1>1. /\ s.id \in 1 .. MaxCalls /\ s.fields \in Seq(Tokens) /\ Pending("setup")
  <2>1. s \in AnyRequests /\ s.op = "setup" /\ Pending("setup")
    BY <1>s, TakenTypes DEF Typing, Accept
  <2>2. QED
    BY <2>1 DEF AnyRequests, DataPackages
<1>2. /\ TypesOf(s.fields) \in Seq(DOMAIN DataSize) /\ Layout(s.fields) \in SUBSET Tokens
      /\ ByteSize(TypesOf(s.fields)) \in Int
  <2>1. TypesOf(s.fields) \in Seq(FieldTypes)
    BY <1>1, FieldsTypes
  <2>2. TypesOf(s.fields) \in Seq(DOMAIN DataSize)
    BY <2>1 DEF FieldTypes
  <2>3. QED
    BY <1>1, <2>2, LayoutTokens, Offsets
<1>a. PICK a : a = [id |-> s.id, dir_out |-> s.dir_out, names |-> NamesOf(s.fields),
                    bytes |-> ByteSize(TypesOf(s.fields)), payload |-> Layout(s.fields)]
  OBVIOUS
<1>p. PICK p : p = [kind |-> "setup", id |-> s.id, types |-> TypesOf(s.fields)]
  OBVIOUS
<1>3. a.id \in 1 .. MaxCalls /\ a.bytes \in Int /\ a.payload \in SUBSET Tokens
  BY <1>1, <1>2, <1>a
<1>4. /\ accepted' = accepted \cup {a} /\ current' = (IF s.dir_out THEN s.id ELSE current)
      /\ Reply(p) /\ UNCHANGED <<streaming, registers>>
  BY <1>s, <1>a, <1>p DEF Accept
<1>5. p \in AnyPackages
  BY <1>1, <1>2, <1>p DEF AnyPackages
<1>6. TypedController'
  <2>1. current' \in 0 .. MaxCalls
    BY <1>1, <1>4 DEF Typing, TypedController
  <2>2. QED
    BY <1>3, <1>4, <2>1 DEF Typing, TypedController
<1>7. QED
  BY <1>1, <1>4, <1>5, <1>6, AnswerTypes

LEMMA RefuseTypes == ASSUME Typing, Refuse PROVE Typing'
<1>s. PICK s : s = Head(requests)
  OBVIOUS
<1>1. /\ s.id \in 1 .. MaxCalls /\ s.fields \in Seq(Tokens) /\ Pending("setup")
  <2>1. s \in AnyRequests /\ s.op = "setup" /\ Pending("setup")
    BY <1>s, TakenTypes DEF Typing, Refuse
  <2>2. QED
    BY <2>1 DEF AnyRequests, DataPackages
<1>2. PICK why \in Refusal, bad \in SUBSET DOMAIN s.fields :
          Reply([kind |-> "setup", id |-> s.id,
                 types |-> [i \in DOMAIN s.fields |-> IF i \in bad THEN why ELSE s.fields[i].type]])
  BY <1>s DEF Refuse
<1>3. PICK types : /\ types = [i \in DOMAIN s.fields |-> IF i \in bad THEN why ELSE s.fields[i].type]
                   /\ Reply([kind |-> "setup", id |-> s.id, types |-> types])
  BY <1>2
<1>4. types \in Seq(DOMAIN DataSize)
  BY <1>1, <1>3, RefusalTypes
<1>5. [kind |-> "setup", id |-> s.id, types |-> types] \in AnyPackages
  BY <1>1, <1>4 DEF AnyPackages
<1>6. TypedController'
  <2>1. current' \in {current, 0} /\ UNCHANGED <<accepted, streaming>>
    BY DEF Refuse
  <2>2. QED
    BY <2>1, RtdeAssumption DEF Typing, TypedController
<1>7. UNCHANGED registers
  BY DEF Refuse
<1>8. QED
  BY <1>1, <1>3, <1>5, <1>6, <1>7, AnswerTypes

LEMMA PlainAnswerTypes ==
    ASSUME Typing, AnswerStart \/ AnswerPause \/ AnswerVersion PROVE Typing'
<1>1. PICK p \in [kind : {"start", "pause"}, accepted : BOOLEAN] \cup [kind : {"version"}],
           op \in {"start", "pause", "version"} :
          Reply(p) /\ Pending(op)
  <2>1. \A ok \in BOOLEAN, k \in {"start", "pause"} :
            [kind |-> k, accepted |-> ok] \in [kind : {"start", "pause"}, accepted : BOOLEAN]
    OBVIOUS
  <2>2. [kind |-> "version"] \in [kind : {"version"}]
    OBVIOUS
  <2>3. QED
    BY <2>1, <2>2 DEF AnswerStart, AnswerPause, AnswerVersion
<1>2. p \in AnyPackages
  BY DEF AnyPackages
<1>3. UNCHANGED <<accepted, current, registers>>
  BY DEF AnswerStart, AnswerPause, AnswerVersion
<1>4. streaming' \in BOOLEAN
  <2>1. streaming \in BOOLEAN
    BY DEF Typing, TypedController
  <2>2. QED
    BY <2>1 DEF AnswerStart, AnswerPause, AnswerVersion
<1>5. TypedController'
  BY <1>3, <1>4 DEF Typing, TypedController
<1>6. QED
  BY <1>1, <1>2, <1>3, <1>5, AnswerTypes

\* The controller takes what has no answer.
LEMMA TakeTypes == ASSUME Typing, TakeInput \/ TakeText \/ TakeGarbled PROVE Typing'
<1>1. UNCHANGED <<recipe, out, recipes_in, call, result, storage, calls, registered, stream,
                  accepted, streaming, faults, quiet, whole>>
  BY DEF TakeInput, TakeText, TakeGarbled, client, history, remote
<1>2. current' \in 0 .. MaxCalls
  BY RtdeAssumption DEF TakeInput, TakeText, TakeGarbled, remote, Typing, TypedController
<1>3. requests' \in Seq(AnyRequests)
  <2>1. CASE TakeInput \/ TakeText
    BY <2>1, TakenTypes DEF TakeInput, TakeText, Typing
  <2>2. CASE TakeGarbled
    <3>1. PICK n \in 2 .. Len(requests), rest \in {<< >>, <<Part>>} :
              requests' = rest \o SubSeq(requests, n + 1, Len(requests))
      BY <2>2 DEF TakeGarbled
    <3>2. rest \in Seq(AnyRequests)
      <4>1. Part \in AnyRequests
        BY DEF Part, AnyRequests
      <4>2. << >> \in Seq(AnyRequests) /\ <<Part>> \in Seq(AnyRequests)
        BY <4>1
      <4>3. QED
        BY <4>2
    <3>3. SubSeq(requests, n + 1, Len(requests)) \in Seq(AnyRequests)
      BY DEF Typing
    <3>4. QED
      BY <3>1, <3>2, <3>3
  <2>3. QED
    BY <2>1, <2>2
<1>4. registers' \in [Inputs -> Names \cup {"none", "garbage"}]
  <2>1. registers \in [Inputs -> Names \cup {"none", "garbage"}] /\ DOMAIN registers = Inputs
    BY DEF Typing, TypedStores
  <2>2. CASE TakeInput
    <3>1. PICK payload : payload = Head(requests).payload
      OBVIOUS
    <3>2. payload \in SUBSET Tokens
      <4>1. Head(requests) \in AnyRequests /\ Head(requests).op = "data"
        BY <2>2, TakenTypes DEF TakeInput, Typing
      <4>2. QED
        BY <3>1, <4>1 DEF AnyRequests, DataPackages
    <3>3. \A t : Found(t, payload) \in Names \cup {"none", "garbage"}
      BY <3>2, FoundTypes
    <3>4. ASSUME NEW n \in Inputs PROVE registers'[n] \in Names \cup {"none", "garbage"}
      <4>1. registers'[n] = registers[n] \/ \E t : registers'[n] = Found(t, payload)
        BY <2>1, <2>2, <3>1 DEF TakeInput
      <4>2. QED
        BY <2>1, <3>3, <4>1
    <3>5. DOMAIN registers' = Inputs /\ registers' = [n \in Inputs |-> registers'[n]]
      BY <2>1, <2>2 DEF TakeInput
    <3>6. QED
      BY <3>4, <3>5
  <2>3. CASE TakeText
    BY <2>1, <2>3 DEF TakeText, remote
  <2>4. CASE TakeGarbled
    BY <2>1, <2>4 DEF TakeGarbled
  <2>5. QED
    BY <2>2, <2>3, <2>4
<1>5. /\ TypedRecipes' /\ TypedHandler' /\ TypedCall' /\ TypedStores' /\ TypedController'
      /\ TypedHistory'
  BY <1>1, <1>2, <1>4 DEF Typing, TypedRecipes, InOrder, Base, TypedHandler, TypedCall, TypedStores,
                          TypedController, TypedHistory
<1>6. QED
  BY <1>1, <1>3, <1>5 DEF Typing

LEMMA SendDataTypes == ASSUME Typing, SendData \/ SendText PROVE Typing'
<1>1. UNCHANGED <<recipe, out, recipes_in, call, result, storage, calls, registered, requests,
                  accepted, current, streaming, registers, whole>>
  BY DEF SendData, SendText, client, remote, history
<1>2. faults' \in Nat /\ TypedHistory'
  <2>1. CASE SendData
    BY <2>1 DEF SendData, history, Typing, TypedHandler, TypedHistory
  <2>2. CASE SendText
    <3>1. faults' \in Nat /\ quiet' = FALSE /\ whole' = whole
      BY <2>2 DEF SendText, Fault, Faults, Typing, TypedHandler
    <3>2. QED
      BY <3>1 DEF Typing, TypedHistory
  <2>3. QED
    BY <2>1, <2>2
<1>3. PICK p : /\ stream' = Append(stream, p)
               /\ \/ p = [kind |-> "text"]
                  \/ \E a \in accepted : p = [kind |-> "data", id |-> a.id, bytes |-> a.bytes,
                                              payload |-> a.payload]
  BY DEF SendData, SendText
<1>4. p \in AnyPackages
  <2>1. \A a \in accepted : a.id \in Int /\ a.bytes \in Int /\ a.payload \in SUBSET Tokens
    BY DEF Typing, TypedController
  <2>2. QED
    BY <1>3, <2>1 DEF AnyPackages
<1>5. stream' \in Seq(AnyPackages)
  BY <1>3, <1>4 DEF Typing
<1>6. TypedRecipes' /\ TypedHandler' /\ TypedCall' /\ TypedStores' /\ TypedController'
  BY <1>1, <1>2 DEF Typing, TypedRecipes, InOrder, Base, TypedHandler, TypedCall, TypedStores,
                    TypedController
<1>7. QED
  BY <1>1, <1>2, <1>5, <1>6 DEF Typing

LEMMA TypingStep == Typing /\ [Next]_vars => Typing'
<1> SUFFICES ASSUME Typing, [Next]_vars PROVE Typing'
  OBVIOUS
<1>1. CASE UNCHANGED vars
  BY <1>1 DEF vars, Typing, TypedRecipes, InOrder, Base, TypedHandler, TypedCall, TypedStores,
              TypedController, TypedHistory
<1>2. CASE RecipeCall
  BY <1>2, RecipeTypesKept
<1>3. CASE HandlerCall
  BY <1>3, CallTypes, RecvTypes
<1>4. CASE Replied
  BY <1>4, PlainReplyTypes, RegisterReplyTypes DEF Replied
<1>5. CASE CutShort
  BY <1>5, RegisterReplyTypes, PlainReplyTypes, RecvTypes DEF CutShort
<1>6. CASE Controller
  BY <1>6, AcceptTypes, RefuseTypes, PlainAnswerTypes, TakeTypes, SendDataTypes DEF Controller
<1>7. QED
  BY <1>1, <1>2, <1>3, <1>4, <1>5, <1>6 DEF Next

(* The variables keep their types, and the fields of a recipe lie one after *)
(* the other at the end of the bytes it counts (rtde_recipe.cpp:27-47),     *)
(* whatever is cut or confused on the connection.                           *)
THEOREM TypesKept == Spec => []TypeOK
<1>1. Typing => TypeOK
  <2> SUFFICES ASSUME Typing PROVE TypeOK
    OBVIOUS
  <2>1. MaxCalls \in Nat /\ MaxBytes \in Nat
    BY RtdeAssumption
  <2>2. ASSUME NEW r \in Recipes
        PROVE  LET rec == recipe[r]
               IN  /\ rec.active \in BOOLEAN /\ rec.dir_out \in BOOLEAN
                   /\ rec.id \in -1 .. MaxCalls
                   /\ rec.bytes \in 0 .. MaxBytes
                   /\ Range(rec.fields) \subseteq Field
                   /\ LET base == rec.bytes - ByteSize(TypesOf(rec.fields))
                      IN  /\ base >= 0
                          /\ \A i \in DOMAIN rec.fields :
                                rec.fields[i].offset
                                  = base + ByteSize(SubSeq(TypesOf(rec.fields), 1, i - 1))
    <3>1. PICK rec : rec = recipe[r]
      OBVIOUS
    <3>2. rec \in RecipeTypes /\ InOrder(rec) /\ rec.id \in -1 .. MaxCalls
      BY <3>1 DEF Typing, TypedRecipes
    <3>3. /\ rec.active \in BOOLEAN /\ rec.dir_out \in BOOLEAN
          /\ rec.fields \in Seq(Tokens) /\ rec.bytes \in Int
      BY <3>2 DEF RecipeTypes
    <3>4. /\ ByteSize(TypesOf(rec.fields)) \in Nat
          /\ \A i \in DOMAIN rec.fields : /\ Offset(rec.fields, i) \in Nat
                                          /\ Offset(rec.fields, i) <= ByteSize(TypesOf(rec.fields))
      BY <3>3, Offsets
    <3>5. rec.bytes \in 0 .. MaxBytes /\ Base(rec) \in Nat
          /\ rec.bytes = Base(rec) + ByteSize(TypesOf(rec.fields))
      BY <2>1, <3>2, <3>3, <3>4 DEF InOrder, Base
    <3>6. Range(rec.fields) \subseteq Field
      <4> SUFFICES ASSUME NEW i \in DOMAIN rec.fields PROVE rec.fields[i] \in Field
        BY DEF Range
      <4>1. rec.fields[i].offset = Base(rec) + Offset(rec.fields, i)
        BY <3>2 DEF InOrder, Offset
      <4>2. rec.fields[i].offset \in 0 .. MaxBytes
        BY <2>1, <3>4, <3>5, <4>1
      <4>3. rec.fields[i] \in Tokens
        BY <3>3, FieldsTypes
      <4>4. QED
        BY <4>2, <4>3 DEF Tokens, Field, FieldTypes
    <3>7. QED
      BY <2>1, <3>1, <3>2, <3>3, <3>5, <3>6 DEF InOrder, Base, Prefix
  <2>3. DOMAIN recipes_in \subseteq 1 .. MaxCalls /\ Range(recipes_in) \subseteq Recipes
    BY DEF Typing, TypedHandler, Range
  <2>4. /\ storage \in [Outputs -> Names \cup {"none", "garbage"}]
        /\ registers \in [Inputs -> Names \cup {"none", "garbage"}]
    BY DEF Typing, TypedStores
  <2>5. /\ registered \in [Recipes -> 0 .. MaxCalls] /\ current \in 0 .. MaxCalls
        /\ calls \in 0 .. MaxCalls /\ out \in Recipes \cup {NoRecipe} /\ streaming \in BOOLEAN
    BY DEF Typing, TypedHandler, TypedController
  <2>6. /\ call \in [op : {"none", "register", "start", "stop", "version"}, r : Recipes \cup {NoRecipe}]
        /\ result \in BOOLEAN
    BY DEF Typing, TypedCall
  <2>7. quiet \in BOOLEAN /\ whole \in BOOLEAN /\ (quiet => whole)
    BY DEF Typing, TypedHistory
  <2>8. QED
    BY <2>2, <2>3, <2>4, <2>5, <2>6, <2>7, Zenon DEF TypeOK
<1>2. Spec => []Typing
  BY TypingInit, TypingStep, PTL DEF Spec
<1>3. QED
  BY <1>1, <1>2, PTL

-----------------------------------------------------------------------------
(* As long as every request is alone on the connection. *)

AllRight == AnswerRight /\ RightRecipes /\ RightRequests /\ RightStores

\* Between calls there is no answer to speak of, and while one is awaited packages are
\* only added behind it.
LEMMA AnswerSteady ==
    ASSUME AllTypes, AnswerRight,
           \/ call' = Idle
           \/ /\ UNCHANGED <<recipe, accepted, calls, call>>
              /\ UNCHANGED stream \/ \E p : stream' = Append(stream, p)
    PROVE  AnswerRight'
<1>1. CASE call' = Idle
  BY <1>1 DEF Idle, AnswerRight
<1>2. CASE /\ UNCHANGED <<recipe, accepted, calls, call>>
           /\ UNCHANGED stream \/ \E p : stream' = Append(stream, p)
  <2>1. stream \in Seq(Packages)
    BY DEF AllTypes
  <2>2. stream # << >> => stream' # << >> /\ Head(stream') = Head(stream)
    BY <1>2, <2>1
  <2>3. QED
    BY <1>2, <2>2 DEF AnswerRight
<1>3. QED
  BY <1>1, <1>2

LEMMA RightSteady ==
    ASSUME RightRecipes, RightRequests, UNCHANGED <<recipe, accepted>>, DataKept
    PROVE  RightRecipes' /\ RightRequests'
<1>1. RightRecipes'
  BY DEF RightRecipes, RightRecipe, Right
<1>2. \A i \in DOMAIN requests' : requests'[i].op = "data" => Right(requests'[i])
  BY DEF RightRequests, DataKept
<1>3. QED
  BY <1>1, <1>2 DEF RightRequests, Right

\* A changed recipe is larger than what it was registered with, or has no fields.
LEMMA RightChange == ASSUME ValuesInv, AllRight, RecipeCall PROVE AllRight'
<1>1. ASSUME NEW r \in Recipes, NEW rec, Change(r, rec),
             rec.id = recipe[r].id, rec.dp = recipe[r].dp,
             \A a \in accepted : a.id = rec.id /\ a.bytes = rec.bytes =>
                 Same(Range(rec.fields) \cup rec.dp.payload, a.payload)
      PROVE  AllRight'
  <2>1. /\ recipe' = [recipe EXCEPT ![r] = rec] /\ call' = Idle
        /\ UNCHANGED <<requests, stream, accepted, storage, registers>>
    BY <1>1 DEF Change, remote
  <2>2. \A q \in Recipes : recipe'[q] = IF q = r THEN rec ELSE recipe[q]
    BY <2>1 DEF ValuesInv, AllTypes
  <2>3. \A q \in Recipes : RightRecipe(recipe'[q])
    BY <1>1, <2>2 DEF AllRight, RightRecipes, RightRecipe
  <2>4. RightRecipes'
    BY <2>1, <2>3 DEF RightRecipes, RightRecipe, Right
  <2>5. AnswerRight'
    BY <2>1, AnswerSteady DEF AllRight, ValuesInv
  <2>6. QED
    BY <2>1, <2>4, <2>5 DEF AllRight, RightRequests, RightStores, Right
<1>2. ASSUME NEW r \in Recipes, NEW n \in Names, AddField(r, n) PROVE AllRight'
  <2> DEFINE token == Token(n, recipe[r].dir_out, recipe[r].bytes)
  <2>1. PICK new : new = [recipe[r] EXCEPT !.fields = Append(@, token),
                                           !.bytes = @ + DataSize[token.type]]
    OBVIOUS
  <2>2. Change(r, new) /\ n \in DOMAIN TypeOf(recipe[r].dir_out)
    BY <1>2, <2>1 DEF AddField
  <2>3. /\ recipe[r] \in RecipeTypes /\ recipe[r].bytes \in Int /\ recipe[r].dir_out \in BOOLEAN
        /\ ValuesOf(r, recipe[r])
    BY DEF ValuesInv, Values, AllTypes, RecipeTypes
  <2>4. DataSize[token.type] \in Nat /\ DataSize[token.type] > 0
    BY <2>2, <2>3, TokenOK
  <2> HIDE DEF token
  <2>5. /\ new.id = recipe[r].id /\ new.dp = recipe[r].dp
        /\ new.bytes = recipe[r].bytes + DataSize[token.type]
    BY <2>1, <2>3 DEF RecipeTypes
  <2>6. \A a \in accepted : a.id = new.id => a.bytes # new.bytes
    <3> SUFFICES ASSUME NEW a \in accepted, a.id = new.id PROVE a.bytes # new.bytes
      OBVIOUS
    <3>1. a.bytes \in Nat /\ a.bytes <= recipe[r].bytes
      BY <2>3, <2>5, PayloadNames DEF ValuesOf
    <3>2. QED
      BY <2>3, <2>4, <2>5, <3>1
  <2>7. QED
    BY <1>1, <2>2, <2>5, <2>6
<1>3. ASSUME NEW r \in Recipes, ClearFields(r) PROVE AllRight'
  <2>1. PICK new : new = [recipe[r] EXCEPT !.fields = << >>]
    OBVIOUS
  <2>2. Change(r, new) /\ recipe[r] \in RecipeTypes /\ RightRecipe(recipe[r])
    BY <1>3, <2>1 DEF ClearFields, AllRight, RightRecipes, ValuesInv, AllTypes
  <2>3. /\ new.id = recipe[r].id /\ new.dp = recipe[r].dp /\ new.bytes = recipe[r].bytes
        /\ Range(new.fields) = {}
    BY <2>1, <2>2 DEF RecipeTypes, Range
  <2>4. QED
    BY <1>1, <2>2, <2>3 DEF RightRecipe, Same
<1>4. ASSUME NEW r \in Recipes, SetDir(r) PROVE AllRight'
  <2>1. PICK new : new = [recipe[r] EXCEPT !.dir_out = ~@]
    OBVIOUS
  <2>2. Change(r, new) /\ recipe[r] \in RecipeTypes /\ RightRecipe(recipe[r])
    BY <1>4, <2>1 DEF SetDir, AllRight, RightRecipes, ValuesInv, AllTypes
  <2>3. /\ new.id = recipe[r].id /\ new.dp = recipe[r].dp /\ new.bytes = recipe[r].bytes
        /\ new.fields = recipe[r].fields
    BY <2>1, <2>2 DEF RecipeTypes
  <2>4. QED
    BY <1>1, <2>2, <2>3 DEF RightRecipe
<1>5. QED
  BY <1>2, <1>3, <1>4 DEF RecipeCall

\* A request, a text, and replies that change no recipe.
LEMMA RightPlain ==
    ASSUME ValuesInv, AllRight,
           \/ \E op, r, q : q.op # "data" /\ Request(op, r, q)
           \/ SendEmergMsg \/ SendFails
           \/ RegisterFails \/ StartStopReplied \/ VersionReplied
    PROVE  AllRight'
<1>1. /\ UNCHANGED <<recipe, accepted, storage, registers>>
      /\ call' = Idle \/ calls' = calls + 1
      /\ UNCHANGED requests \/ \E q : q.op # "data" /\ requests' = Append(requests, q)
  <2>1. SendFails => UNCHANGED requests \/ requests' = Append(requests, Part)
    BY DEF SendFails, DoSend
  <2>2. Part.op # "data"
    BY DEF Part
  <2>3. QED
    BY <2>1, <2>2 DEF Request, SendEmergMsg, SendFails, RegisterFails, StartStopReplied,
                      VersionReplied, GivesUp, remote, Idle
<1>2. DataKept
  <2>1. requests \in Seq(RequestPackages)
    BY DEF ValuesInv, AllTypes
  <2>2. QED
    BY <1>1, <2>1 DEF DataKept
<1>3. AnswerRight'
  <2>1. calls' = calls + 1 => \A a \in accepted' : a.id # calls'
    <3>1. \A a \in accepted : a.id \in 1 .. calls
      BY DEF ValuesInv, Replies, Accepted
    <3>2. calls \in Nat
      BY DEF ValuesInv, AllTypes
    <3>3. QED
      BY <1>1, <3>1, <3>2
  <2>2. CASE calls' = calls + 1
    BY <2>1, <2>2 DEF AnswerRight
  <2>3. CASE call' = Idle
    BY <2>3, AnswerSteady DEF ValuesInv, AllRight
  <2>4. QED
    BY <1>1, <2>2, <2>3
<1>4. QED
  BY <1>1, <1>2, <1>3, RightSteady DEF AllRight, RightStores

\* What store() leaves in a recipe, and sends.
LEMMA StoredRight ==
    ASSUME NEW rec, RightRecipe(rec) PROVE Right(Stored(rec))
<1>1. CASE rec.dir_out
  BY <1>1 DEF Stored, RightRecipe
<1>2. CASE ~rec.dir_out
  BY <1>2 DEF Stored, RightRecipe, Right, Same
<1>3. QED
  BY <1>1, <1>2

LEMMA RightSend == ASSUME ValuesInv, whole', AllRight, NEW id, Send(id) PROVE AllRight'
<1>1. call' = Idle /\ UNCHANGED <<accepted, storage, registers>>
  BY DEF Send, remote
<1>2. /\ recipe \in [Recipes -> RecipeTypes] /\ requests \in Seq(RequestPackages)
      /\ \A k \in DOMAIN recipes_in : recipes_in[k] \in Recipes
  BY DEF ValuesInv, AllTypes
<1>s. PICK how : Sent(id, recipe, recipes_in, how) /\ Observed(FALSE, how)
  BY DEF Send
<1>3. PICK k \in DOMAIN recipes_in :
          /\ recipe' = [recipe EXCEPT ![recipes_in[k]].dp = Stored(recipe[recipes_in[k]])]
          /\ requests' = Append(requests, Stored(recipe[recipes_in[k]])) \/ UNCHANGED requests
  <2>1. how # "part"
    BY <1>s, SentWhole DEF ValuesInv, AllTypes
  <2>2. QED
    BY <1>s, <2>1, SentOne
<1>4. PICK r \in Recipes : r = recipes_in[k]
  BY <1>2
<1>5. PICK dp : dp = Stored(recipe[r])
  OBVIOUS
<1>6. PICK new : new = [recipe[r] EXCEPT !.dp = dp]
  OBVIOUS
<1>7. recipe[r] \in RecipeTypes /\ RightRecipe(recipe[r]) /\ dp \in DataPackages
  BY <1>2, <1>5, StoredOK DEF AllRight, RightRecipes
<1>8. /\ new.dp = dp /\ new.id = recipe[r].id /\ new.bytes = recipe[r].bytes
      /\ new.fields = recipe[r].fields /\ new \in RecipeTypes
  BY <1>6, <1>7, DataPackageChanged
<1>9. \A q \in Recipes : recipe'[q] = IF q = r THEN new ELSE recipe[q]
  BY <1>2, <1>3, <1>4, <1>5, <1>6
<1>10. Right(dp)
  BY <1>5, <1>7, StoredRight
<1>11. dp.payload \subseteq Range(recipe[r].fields) \cup recipe[r].dp.payload
  BY <1>5 DEF Stored
<1>12. RightRecipe(new)
  BY <1>7, <1>8, <1>10, <1>11 DEF RightRecipe, Same
<1>13. \A q \in Recipes : RightRecipe(recipe'[q])
  BY <1>9, <1>12 DEF AllRight, RightRecipes
<1>14. RightRecipes'
  BY <1>1, <1>13 DEF RightRecipes, RightRecipe, Right
<1>15. \A i \in DOMAIN requests' : requests'[i].op = "data" => Right(requests'[i])
  <2>1. \A i \in DOMAIN requests' : (i \in DOMAIN requests /\ requests'[i] = requests[i]) \/ requests'[i] = dp
    <3>1. requests' = Append(requests, dp) \/ requests' = requests
      BY <1>3, <1>4, <1>5
    <3>2. QED
      BY <1>2, <3>1
  <2>2. QED
    BY <1>10, <2>1 DEF AllRight, RightRequests
<1>16. AnswerRight'
  BY <1>1, AnswerSteady DEF AllRight, ValuesInv
<1>17. QED
  BY <1>1, <1>14, <1>15, <1>16 DEF AllRight, RightRequests, RightStores, Right

\* The reply is one to the fields of the recipe: if nothing was cleared, these and what
\* is stored of them lie like the variables of the setup.
LEMMA RightRegister ==
    ASSUME ValuesInv, whole', Types, Exchange, AllRight, RegisterSucceeds PROVE AllRight'
<1>1. PICK r \in Recipes, id \in 1 .. calls, new \in RecipeTypes, dp \in DataPackages :
          Effect(r, id, new, dp)
  BY RegisterEffect
<1>2. PICK rec : rec = recipe[r]
  OBVIOUS
<1>3. PICK sent : sent = [new EXCEPT !.dp = dp]
  OBVIOUS
<1>4. /\ rec \in RecipeTypes /\ LaidRecipe(rec) /\ RightRecipe(rec)
      /\ rec.fields \in Seq(Tokens) /\ rec.bytes \in Int
      /\ requests \in Seq(RequestPackages)
  BY <1>2 DEF ValuesInv, AllTypes, Laid, RecipeTypes, AllRight, RightRecipes
<1>5. /\ new.id = id /\ new.fields = rec.fields /\ new.bytes = rec.bytes
      /\ new.dir_out = rec.dir_out /\ new.dp = rec.dp
      /\ r = call.r /\ Read /\ id = Head(stream).id
      /\ \A q \in Recipes : recipe'[q] = IF q = r THEN sent ELSE recipe[q]
      /\ dp = (IF new.dir_out THEN new.dp ELSE Stored(new))
      /\ call' = Idle /\ UNCHANGED <<accepted, storage, registers>>
      /\ UNCHANGED requests \/ requests' = Append(requests, dp)
  BY <1>1, <1>2, <1>3 DEF Effect
<1>6. id = calls
  <2>1. call.op = "register" /\ stream # << >>
    BY <1>5, ReadTakes DEF RegisterSucceeds, ValuesInv
  <2>2. SetupReply(Head(stream))
    BY <2>1 DEF Exchange, Requested
  <2>3. QED
    BY <1>5, <2>2 DEF SetupReply
<1>7. /\ sent.dp = dp /\ sent.id = id /\ sent.fields = rec.fields /\ sent.bytes = rec.bytes
  BY <1>3, <1>5, DataPackageChanged
<1>8. ASSUME NEW a \in accepted, a.id = id, a.bytes = rec.bytes
      PROVE  /\ a.payload = Range(rec.fields) /\ Same(Range(rec.fields), a.payload)
             /\ rec.dp.payload \subseteq Range(rec.fields)
  <2>1. a.payload = Layout(rec.fields)
    BY <1>2, <1>5, <1>6, <1>8 DEF AllRight, AnswerRight, RegisterSucceeds
  <2>2. a.bytes = ByteSize(TypesOf(rec.fields))
    <3>1. PICK b \in accepted : b.id = id /\ b.bytes = ByteSize(TypesOf(rec.fields))
      BY <1>1, <1>2, <1>4, MatchedReply, ReadTakes DEF Effect, ValuesInv
    <3>2. QED
      BY <1>8, <3>1 DEF ValuesInv, Replies
  <2>3. Base(rec) = 0
    <3>1. ByteSize(TypesOf(rec.fields)) \in Nat
      BY <1>4, Offsets
    <3>2. QED
      BY <1>8, <2>2, <3>1 DEF Base
  <2>4. Layout(rec.fields) = Range(rec.fields)
    BY <1>4, <2>3, RecipeLayout DEF LaidRecipe, InOrder
  <2>5. QED
    BY <1>4, <2>1, <2>3, <2>4, LayoutTokens DEF LaidRecipe, InOrder
<1>9. dp.payload \subseteq Range(rec.fields) \cup rec.dp.payload
  BY <1>5 DEF Stored
<1>10. \A a \in accepted : a.id = id /\ a.bytes = rec.bytes =>
           Same(Range(rec.fields) \cup dp.payload, a.payload)
  BY <1>8, <1>9 DEF Same
<1>11. Right(dp)
  <2>1. CASE new.dir_out
    BY <1>4, <1>5, <2>1 DEF RightRecipe
  <2>2. CASE ~new.dir_out
    <3>1. dp.id = id /\ dp.bytes = rec.bytes
      BY <1>5, <2>2 DEF Stored
    <3>2. QED
      BY <1>10, <3>1 DEF Right, Same
  <2>3. QED
    BY <2>1, <2>2
<1>12. RightRecipe(sent)
  BY <1>7, <1>10, <1>11 DEF RightRecipe
<1>13. \A q \in Recipes : RightRecipe(recipe'[q])
  BY <1>5, <1>12 DEF AllRight, RightRecipes
<1>14. RightRecipes'
  BY <1>5, <1>13 DEF RightRecipes, RightRecipe, Right
<1>15. \A i \in DOMAIN requests' : requests'[i].op = "data" => Right(requests'[i])
  <2>1. \A i \in DOMAIN requests' : (i \in DOMAIN requests /\ requests'[i] = requests[i]) \/ requests'[i] = dp
    BY <1>4, <1>5
  <2>2. QED
    BY <1>11, <2>1 DEF AllRight, RightRequests
<1>16. AnswerRight'
  BY <1>5, AnswerSteady DEF AllRight, ValuesInv
<1>17. QED
  BY <1>5, <1>14, <1>15, <1>16 DEF AllRight, RightRequests, RightStores, Right

\* The variable that is found at the place of a token has its name.
LEMMA RightRecv == ASSUME ValuesInv, AllRight, Recv PROVE AllRight'
<1>1. /\ out \in Recipes /\ Read /\ call' = Idle
      /\ storage' = IF Accepts(Head(stream))
                    THEN Parsed(recipe[out].fields, Head(stream).payload)
                    ELSE storage
      /\ UNCHANGED <<recipe, requests, accepted, registers>>
  BY DEF ValuesInv, AllTypes, Recv, remote
<1>2. \A n \in Outputs : storage'[n] \in {"none", n}
  <2>1. CASE ~Accepts(Head(stream))
    BY <1>1, <2>1 DEF AllRight, RightStores
  <2>2. CASE Accepts(Head(stream))
    <3>1. PICK rec : rec = recipe[out]
      OBVIOUS
    <3>2. PICK p : p = Head(stream)
      OBVIOUS
    <3>3. /\ p.kind = "data" /\ rec.id = p.id /\ rec.bytes = p.bytes
      BY <2>2, <3>1, <3>2 DEF Accepts
    <3>4. 1 \in DOMAIN stream /\ p = stream[1]
      BY <1>1, <3>2, ReadTakes DEF ValuesInv
    <3>5. PICK a \in accepted : a.dir_out /\ a.id = p.id /\ a.bytes = p.bytes /\ a.payload = p.payload
      BY <3>3, <3>4 DEF ValuesInv, Replies, DataOfOutput
    <3>6. Within(Range(rec.fields), p.payload) /\ Same(Range(rec.fields), p.payload)
      BY <1>1, <3>1, <3>3, <3>5 DEF ValuesInv, Values, ValuesOf, AllRight, RightRecipes, RightRecipe, Same
    <3>7. rec.fields \in Seq(Tokens)
      BY <1>1, <3>1 DEF ValuesInv, AllTypes, RecipeTypes
    <3>8. storage' = Parsed(rec.fields, p.payload) /\ DOMAIN storage = Outputs
      BY <1>1, <2>2, <3>1, <3>2 DEF ValuesInv, WholeStores
    <3>9. ASSUME NEW n \in Outputs, \E i \in DOMAIN rec.fields : rec.fields[i].name = n
          PROVE  Found(rec.fields[Max({i \in DOMAIN rec.fields : rec.fields[i].name = n})], p.payload) = n
      <4>1. PICK last : last = Max({i \in DOMAIN rec.fields : rec.fields[i].name = n})
        OBVIOUS
      <4>2. last \in DOMAIN rec.fields /\ rec.fields[last].name = n
        BY <3>7, <3>9, <4>1, LastToken
      <4>3. rec.fields[last] \in Range(rec.fields)
        BY <4>2 DEF Range
      <4>4. PICK v \in p.payload : /\ SamePlace(rec.fields[last], v)
                                   /\ Found(rec.fields[last], p.payload) = v.name
        BY <3>6, <4>3, FoundIn DEF Within
      <4>5. QED
        BY <3>6, <4>1, <4>2, <4>3, <4>4 DEF Same
    <3>10. storage' = [n \in Outputs |->
                          IF {i \in DOMAIN rec.fields : rec.fields[i].name = n} = {} THEN storage[n]
                          ELSE Found(rec.fields[Max({i \in DOMAIN rec.fields : rec.fields[i].name = n})],
                                     p.payload)]
      BY <3>8 DEF Parsed
    <3>11. \A n \in Outputs : {i \in DOMAIN rec.fields : rec.fields[i].name = n} # {} =>
               \E i \in DOMAIN rec.fields : rec.fields[i].name = n
      OBVIOUS
    <3>12. \A n \in Outputs : storage[n] \in {"none", n}
      BY DEF AllRight, RightStores
    <3>13. QED
      BY <3>9, <3>10, <3>11, <3>12
  <2>3. QED
    BY <2>1, <2>2
<1>3. AnswerRight'
  BY <1>1, AnswerSteady DEF AllRight, ValuesInv
<1>4. DataKept
  BY <1>1 DEF DataKept
<1>5. QED
  BY <1>1, <1>2, <1>3, <1>4, RightSteady DEF AllRight, RightStores

LEMMA RightTake == ASSUME ValuesInv, AllRight, TakeInput \/ TakeText PROVE AllRight'
<1>1. /\ requests # << >> /\ requests' = Tail(requests)
      /\ UNCHANGED <<recipe, call, calls, storage, stream, accepted>>
  BY DEF TakeInput, TakeText, Pending, client, remote
<1>2. DataKept
  BY <1>1, RequestsTail DEF DataKept, ValuesInv
<1>3. AnswerRight'
  BY <1>1, AnswerSteady DEF AllRight, ValuesInv
<1>4. \A n \in Inputs : registers'[n] \in {"none", n}
  <2>1. CASE TakeText
    BY <2>1 DEF TakeText, remote, AllRight, RightStores
  <2>2. CASE TakeInput
    <3> DEFINE dp == Head(requests)
               taken(n) == \E a \in accepted : a.id = dp.id /\ a.bytes = dp.bytes /\ n \in Range(a.names)
               place(n) == CHOOSE v \in (CHOOSE a \in accepted : a.id = dp.id).payload : v.name = n
    <3>1. registers' = [n \in Inputs |-> IF taken(n) THEN Found(place(n), dp.payload) ELSE registers[n]]
      BY <2>2 DEF TakeInput, ValuesInv, WholeStores
    <3>2. dp.op = "data" /\ dp = requests[1] /\ 1 \in DOMAIN requests
      <4>1. requests \in Seq(RequestPackages)
        BY DEF ValuesInv, AllTypes
      <4>2. QED
        BY <1>1, <2>2, <4>1 DEF TakeInput, Pending
    <3>3. Whole(dp) /\ Right(dp)
      BY <3>2 DEF ValuesInv, Values, AllRight, RightRequests
    <3> HIDE DEF dp
    <3>4. ASSUME NEW n \in Inputs, taken(n) PROVE Found(place(n), dp.payload) = n
      <4>1. PICK a \in accepted : a.id = dp.id /\ a.bytes = dp.bytes /\ n \in Range(a.names)
        BY <3>4
      <4>2. \A b \in accepted : b.id = a.id => b = a
        BY DEF ValuesInv, Replies
      <4>3. (CHOOSE b \in accepted : b.id = dp.id) = a
        BY <4>1, <4>2
      <4>4. ~a.dir_out
        <5>1. n \in DOMAIN InputType /\ n \notin DOMAIN OutputType
          BY DEF Inputs, InputType, OutputType
        <5>2. n \in DOMAIN TypeOf(a.dir_out)
          BY <4>1, PayloadNames
        <5>3. QED
          BY <5>1, <5>2 DEF TypeOf
      <4>5. Within(a.payload, dp.payload) /\ Same(dp.payload, a.payload)
        BY <3>3, <4>1, <4>4 DEF Whole, Right
      <4>6. \E v \in a.payload : v.name = n
        BY <4>1, PayloadNames
      <4>7. place(n) \in a.payload /\ place(n).name = n
        BY <4>3, <4>6
      <4> HIDE DEF place
      <4>8. PICK v \in dp.payload : SamePlace(place(n), v) /\ Found(place(n), dp.payload) = v.name
        BY <4>5, <4>7, FoundIn DEF Within
      <4>9. SamePlace(v, place(n))
        BY <4>8 DEF SamePlace
      <4>10. QED
        BY <4>5, <4>7, <4>8, <4>9 DEF Same
    <3> HIDE DEF taken, place
    <3>5. \A n \in Inputs : registers[n] \in {"none", n}
      BY DEF AllRight, RightStores
    <3>6. QED
      BY <3>1, <3>4, <3>5
  <2>3. QED
    BY <2>1, <2>2
<1>5. QED
  BY <1>1, <1>2, <1>3, <1>4, RightSteady DEF AllRight, RightStores

\* Other answers, and data, come behind the reply that is awaited.
LEMMA RightAnswer ==
    ASSUME ValuesInv, AllRight, Refuse \/ AnswerStart \/ AnswerPause \/ AnswerVersion \/ SendData
    PROVE  AllRight'
<1>1. /\ UNCHANGED <<recipe, call, calls, storage, registers, accepted>>
      /\ \E p : stream' = Append(stream, p)
      /\ UNCHANGED requests \/ (requests # << >> /\ requests' = Tail(requests))
  BY DEF Refuse, AnswerStart, AnswerPause, AnswerVersion, SendData, Reply, Pending, client, remote
<1>2. DataKept
  BY <1>1, RequestsTail DEF DataKept, ValuesInv
<1>3. AnswerRight'
  BY <1>1, AnswerSteady DEF AllRight, ValuesInv
<1>4. QED
  BY <1>1, <1>2, <1>3, RightSteady DEF AllRight, RightStores

\* The setup that is accepted is the one that is being registered, and its id is nobody's.
LEMMA RightAccept == ASSUME ValuesInv, Exchange, AllRight, Accept PROVE AllRight'
<1>1. PICK s : s = Head(requests)
  OBVIOUS
<1>2. PICK a : a = [id |-> s.id, dir_out |-> s.dir_out, names |-> NamesOf(s.fields),
                    bytes |-> ByteSize(TypesOf(s.fields)), payload |-> Layout(s.fields)]
  OBVIOUS
<1>3. PICK p : p = [kind |-> "setup", id |-> s.id, types |-> TypesOf(s.fields)]
  OBVIOUS
<1>4. /\ requests # << >> /\ s.op = "setup" /\ requests' = Tail(requests)
      /\ accepted' = accepted \cup {a} /\ stream' = Append(stream, p)
      /\ UNCHANGED <<recipe, call, calls, storage, registers>>
  BY <1>1, <1>2, <1>3 DEF Accept, Pending, Reply, client
<1>5. /\ a.id = s.id /\ a.payload = Layout(s.fields)
      /\ p.kind = "setup" /\ p.types = TypesOf(s.fields)
  BY <1>2, <1>3
<1>6. requests \in Seq(RequestPackages) /\ stream \in Seq(Packages)
  BY DEF ValuesInv, AllTypes
<1>7. Unused(s.id) /\ s.id \in Nat
  <2>1. 1 \in DOMAIN requests /\ s = requests[1]
    BY <1>1, <1>4, <1>6
  <2>2. QED
    BY <1>4, <2>1 DEF ValuesInv, Numbers
<1>8. ASSUME NEW r \in Recipes PROVE RightRecipe(recipe[r])'
  <2>1. /\ recipe[r].id < s.id /\ recipe[r].dp.id < s.id /\ RightRecipe(recipe[r])
        /\ recipe[r].id \in Int /\ recipe[r].dp.id \in Int
    BY <1>7 DEF Unused, AllRight, RightRecipes, ValuesInv, Numbers
  <2>2. s.id # recipe[r].id /\ s.id # recipe[r].dp.id
    BY <1>7, <2>1
  <2>3. QED
    BY <1>4, <1>5, <2>1, <2>2 DEF RightRecipe, Right
<1>9. \A i \in DOMAIN requests' : requests'[i].op = "data" => Right(requests[i])'
  <2> SUFFICES ASSUME NEW i \in DOMAIN requests', requests'[i].op = "data" PROVE Right(requests[i])'
    OBVIOUS
  <2>1. i + 1 \in DOMAIN requests /\ requests'[i] = requests[i + 1]
    BY <1>4, RequestsTail DEF ValuesInv
  <2>2. requests'[i].id < s.id /\ requests'[i].id \in Int /\ Right(requests'[i])
    BY <1>7, <2>1 DEF Unused, AllRight, RightRequests, ValuesInv, Numbers
  <2>3. s.id # requests'[i].id
    BY <1>7, <2>2
  <2>4. QED
    BY <1>4, <1>5, <2>2, <2>3 DEF Right
<1>10. AnswerRight'
  <2>1. CASE call.op = "register"
    <3>1. requests = <<Setup(call.r)>> /\ stream = << >>
      BY <1>4, <2>1 DEF Exchange, Requested, Answered
    <3>2. s.id = calls /\ s.fields = recipe[call.r].fields
      BY <1>1, <3>1 DEF Setup
    <3>3. stream' # << >> /\ Head(stream') = p
      BY <1>4, <3>1
    <3>4. \A b \in accepted : b.id # calls
      BY <1>7, <3>2 DEF Unused
    <3>5. \A b \in accepted' : b.id = calls => b = a
      BY <1>4, <3>4
    <3>6. QED
      BY <1>4, <1>5, <3>2, <3>3, <3>5 DEF AnswerRight
  <2>2. CASE call.op # "register"
    BY <1>4, <2>2 DEF AnswerRight
  <2>3. QED
    BY <2>1, <2>2
<1>11. QED
  BY <1>4, <1>8, <1>9, <1>10 DEF AllRight, RightRecipes, RightRequests, RightStores

LEMMA RightInit == Init => RightInv
<1> SUFFICES ASSUME Init PROVE AllRight
  BY DEF RightInv, AllRight
<1>1. AnswerRight
  BY DEF Init, Idle, AnswerRight
<1>2. RightRecipes /\ RightRequests
  BY DEF Init, RightRecipes, RightRecipe, Right, RightRequests
<1>3. RightStores
  BY DEF Init, RightStores, Outputs, Inputs
<1>4. QED
  BY <1>1, <1>2, <1>3 DEF AllRight

LEMMA RightStep == Uncut /\ IInv /\ RightInv /\ [Next]_vars => RightInv'
<1> SUFFICES ASSUME Uncut, IInv, RightInv, [Next]_vars, quiet' PROVE AllRight'
  BY DEF RightInv, AllRight
<1>1. /\ quiet /\ whole' /\ ~CutShort
      /\ ValuesInv /\ AllRight /\ Types /\ Exchange
  <2>1. quiet /\ whole' /\ ~CutShort
    BY QuietBefore, Zenon DEF Uncut
  <2>2. QED
    BY <2>1 DEF Uncut, RightInv, AllRight, IInv
<1>2. CASE UNCHANGED vars
  BY <1>1, <1>2 DEF vars, AllRight, AnswerRight, RightRecipes, RightRecipe, Right, RightRequests, RightStores
<1>3. CASE HandlerCall
  <2>1. CASE (\E r \in Recipes : Register(r)) \/ Start \/ Stop \/ Version
    <3>1. \E op, r, q : q.op # "data" /\ Request(op, r, q)
      <4>1. CASE \E r \in Recipes : Register(r)
        <5>1. PICK r \in Recipes : Register(r)
          BY <4>1
        <5>2. PICK q : q = [op |-> "setup", id |-> calls + 1, dir_out |-> recipe[r].dir_out,
                            fields |-> recipe[r].fields]
          OBVIOUS
        <5>3. Request("register", r, q) /\ q.op = "setup"
          BY <5>1, <5>2 DEF Register
        <5>4. QED
          BY <5>3
      <4>2. CASE Start
        BY <4>2 DEF Start
      <4>3. CASE Stop
        BY <4>3 DEF Stop
      <4>4. CASE Version
        BY <4>4 DEF Version
      <4>5. QED
        BY <2>1, <4>1, <4>2, <4>3, <4>4
    <3>2. QED
      BY <1>1, <3>1, RightPlain
  <2>2. QED
    BY <1>1, <1>3, <2>1, RightSend, RightPlain, RightRecv DEF HandlerCall
<1>4. CASE Replied
  BY <1>1, <1>4, RightPlain, RightRegister DEF Replied, ReadFails
<1>5. CASE Controller
  <2>1. ~TakeGarbled
    BY <1>1, NoPart DEF TakeGarbled, Pending, ValuesInv
  <2>2. QED
    BY <1>1, <1>5, <2>1, RightAccept, RightAnswer, RightTake DEF Controller, SendText
<1>6. QED
  BY <1>1, <1>2, <1>3, <1>4, <1>5, RightChange DEF Next

LEMMA RightInductive == Spec => []RightInv
BY ValuesInductive, Inductive, RightInit, RightStep, PTL DEF Spec

(* As long as every request is alone on the connection, every storage and   *)
(* register gets the very variable it is named for, through registrations,  *)
(* failures and changes of the recipes (rtde_handler.hpp:137-147, 160).     *)
THEOREM VariablesAreRight == Spec => []RightVariables
<1>1. RightInv => RightVariables
  BY DEF RightInv, RightStores, RightVariables
<1>2. QED
  BY <1>1, RightInductive, PTL

\* The reply to a setup that the controller has accepted is not taken for a refusal.
LEMMA AcceptedMatches ==
    ASSUME ValuesInv, AllRight, Exchange, call.op = "register", NEW a \in accepted, a.id = calls
    PROVE  stream # << >> /\ Matches(Head(stream), recipe[call.r])
<1>1. PICK p : p = Head(stream)
  OBVIOUS
<1>2. PICK rec : rec = recipe[call.r]
  OBVIOUS
<1>3. stream # << >> /\ p.kind = "setup" /\ p.types = TypesOf(rec.fields)
  BY <1>1, <1>2 DEF AllRight, AnswerRight
<1>4. /\ rec \in RecipeTypes /\ rec.fields # << >>
      /\ rec.fields \in Seq(Tokens) /\ Len(rec.fields) <= MaxFields
  BY <1>2 DEF ValuesInv, AllTypes, Laid, LaidRecipe, InOrder, RecipeTypes
<1>5. /\ p.types \in Seq(FieldTypes) /\ Len(p.types) = Len(rec.fields) /\ Len(p.types) \in Nat
      /\ DOMAIN rec.fields = 1 .. Len(rec.fields)
  BY <1>3, <1>4, FieldsTypes
<1>6. Validated(Joined(p.types))
  <2>1. Len(p.types) \in 1 .. MaxFields
    BY <1>4, <1>5, RtdeAssumption
  <2>2. p.types \in [1 .. Len(p.types) -> DOMAIN DataSize] /\ Range(p.types) \cap Refusal = {}
    BY <1>5 DEF FieldTypes, Range
  <2>3. QED
    BY <2>1, <2>2, ScanIsExact DEF ScanIsExactFor
<1>7. [i \in DOMAIN p.types |-> TypeNamed(p.types[i])] = TypesOf(rec.fields)
  <2>1. \A i \in DOMAIN p.types : TypeNamed(p.types[i]) = p.types[i]
    BY <1>5, NamesAreExact DEF FieldTypes
  <2>2. p.types = [i \in DOMAIN p.types |-> p.types[i]]
    BY <1>5
  <2>3. QED
    BY <1>3, <2>1, <2>2
<1>8. QED
  BY <1>1, <1>2, <1>3, <1>6, <1>7 DEF Matches

(* As long as every request is alone on the connection, register_recipe()   *)
(* takes a setup for what the controller made of it: the recipe gets its id *)
(* if and only if it was accepted, the call returns true only then, and for *)
(* an output recipe always then (rtde_handler.hpp:105).  That the scan of   *)
(* the reply is exact, although the last type of it is compared one         *)
(* character short (header.cpp:259-267), is an assumption on MaxFields that *)
(* TLC evaluates.                                                           *)
THEOREM RegistrationsConfirmed == Spec => RegistrationConfirmed
<1> DEFINE Confirmed  == \E a \in accepted : a.id = calls
           Registered == recipe'[call.r].active /\ recipe'[call.r].id = calls
           Returned   == registered'[call.r] = calls
<1>1. ASSUME Uncut, IInv, RightInv, [Next]_vars, quiet', call.op = "register", call' = Idle
      PROVE  /\ Confirmed <=> Registered
             /\ Returned => Confirmed
             /\ Confirmed /\ recipe'[call.r].dir_out => Returned
  <2>1. /\ quiet /\ whole' /\ ~CutShort
        /\ ValuesInv /\ AllRight /\ Types /\ Exchange /\ Ids
    <3>1. quiet /\ whole' /\ ~CutShort
      BY <1>1, QuietBefore, Zenon DEF Uncut
    <3>2. QED
      BY <1>1, <3>1 DEF Uncut, RightInv, AllRight, IInv
  <2>2. RegisterFails \/ RegisterSucceeds
    <3>1. call # Idle /\ call' # call
      BY <1>1 DEF Idle
    <3>2. ~RecipeCall
      BY <3>1 DEF RecipeCall, AddField, ClearFields, SetDir, Change
    <3>3. ~HandlerCall
      BY <3>1 DEF HandlerCall, Register, Start, Stop, Version, Request, SendEmergMsg, SendFails,
                  Send, Recv
    <3>4. ~Controller
      BY <3>1 DEF Controller, Accept, Refuse, AnswerStart, AnswerPause, AnswerVersion, Reply,
                  TakeInput, TakeText, TakeGarbled, SendData, SendText, client
    <3>5. Replied
      BY <1>1, <2>1, <3>1, <3>2, <3>3, <3>4 DEF Next, vars
    <3>6. QED
      BY <1>1, <3>5 DEF Replied, ReadFails, StartStopReplied, VersionReplied
  <2>3. call.r \in Recipes /\ calls \in Nat /\ calls > 0 /\ registered \in [Recipes -> Nat]
    BY <1>1, <2>1 DEF Exchange, Types
  <2>4. CASE RegisterFails
    <3>1. UNCHANGED <<recipe, registered>> /\ ~Confirmed
      BY <1>1, <2>1, <2>4, AcceptedMatches DEF RegisterFails, GivesUp
    <3>2. recipe[call.r].id # calls /\ recipe[call.r].id \in {-1} \cup 1 .. calls
      BY <1>1, <2>1, <2>3 DEF Ids
    <3>3. registered[call.r] # calls
      BY <2>1, <2>3, <3>2 DEF Ids
    <3>4. QED
      BY <3>1, <3>2, <3>3
  <2>5. CASE RegisterSucceeds
    <3>1. PICK r \in Recipes, id \in 1 .. calls, new \in RecipeTypes, dp \in DataPackages :
              Effect(r, id, new, dp)
      BY <2>1, <2>5, RegisterEffect
    <3>2. /\ r = call.r /\ id = Head(stream).id /\ Matches(Head(stream), recipe[r])
          /\ recipe'[r] = [new EXCEPT !.dp = dp] /\ new.id = id /\ new.active = TRUE
          /\ new.dir_out => registered' = [registered EXCEPT ![r] = calls]
      BY <3>1 DEF Effect
    <3>3. recipe'[r].id = id /\ recipe'[r].active = TRUE /\ recipe'[r].dir_out = new.dir_out
      <4>1. PICK sent : sent = [new EXCEPT !.dp = dp]
        OBVIOUS
      <4>2. sent.id = new.id /\ sent.active = new.active /\ sent.dir_out = new.dir_out
        BY <4>1, DataPackageChanged
      <4>3. QED
        BY <3>2, <4>1, <4>2
    <3>4. id = calls /\ Confirmed
      <4>1. stream # << >>
        BY <2>1, <3>1, ReadTakes DEF Effect, ValuesInv
      <4>2. SetupReply(Head(stream))
        BY <1>1, <2>1, <4>1 DEF Exchange, Requested
      <4>3. \A i \in DOMAIN Head(stream).types : Head(stream).types[i] \notin Refusal
        BY <2>1, <3>2, RefusalSeen DEF Types
      <4>4. QED
        BY <3>2, <4>2, <4>3 DEF SetupReply
    <3>5. recipe'[call.r].dir_out => Returned
      BY <2>3, <3>2, <3>3
    <3>6. QED
      BY <3>2, <3>3, <3>4, <3>5
  <2>6. QED
    BY <2>2, <2>4, <2>5
<1>2. Uncut /\ IInv /\ RightInv /\ [Next]_vars =>
        [quiet' /\ call.op = "register" /\ call' = Idle =>
             /\ Confirmed <=> Registered
             /\ Returned => Confirmed
             /\ Confirmed /\ recipe'[call.r].dir_out => Returned]_vars
  BY <1>1
<1>3. QED
  BY <1>2, ValuesInductive, Inductive, RightInductive, PTL DEF Spec, RegistrationConfirmed

=============================================================================
