--------------------------- MODULE RobotSetupProofs ---------------------------
(***************************************************************************)
(* The two recipes through any number of setups, proved for every          *)
(* MaxCalls.                                                               *)
(*                                                                         *)
(* The output recipe: the fields must be gone after a failure for the next *)
(* setup to count them once, and the flag must protect those of a recipe   *)
(* that is in use.  The input recipe: it never forgets a field and never   *)
(* forgets a byte, so that its count is the size of all its fields, the    *)
(* ones of failed setups included.                                         *)
(***************************************************************************)
EXTENDS RobotSetup, FiniteSetTheorems, FunctionTheorems, TLAPS

\* A recipe that is not set up is as the constructor made it, but for the byte
\* count of a setup that has failed.
Untouched ==
    ~out_initialized => /\ out.fields = << >>
                        /\ ~refused => out.bytes = 0

Recipes == [id : Int, fields : Seq(Groups), bytes : Int]

Types == /\ out \in Recipes /\ in \in Recipes
         /\ ids \in Nat

\* The input recipe counts every field it has.
Counted == in.bytes = Size(in.fields)

IInv == Types /\ Untouched /\ FramesAccepted /\ Counted /\ CommandsTaken

-----------------------------------------------------------------------------
(* The size of fields. *)

\* How often a group occurs is a number.
LEMMA Finite ==
    ASSUME NEW fields \in Seq(Groups), NEW g
    PROVE  /\ IsFiniteSet({i \in DOMAIN fields : fields[i] = g})
           /\ Times(g, fields) \in Nat
<1>1. IsFiniteSet(1..Len(fields))
  BY FS_Interval
<1>2. DOMAIN fields = 1..Len(fields)
  OBVIOUS
<1>3. IsFiniteSet({i \in DOMAIN fields : fields[i] = g})
  BY <1>1, <1>2, FS_Subset
<1>4. QED
  BY <1>3, FS_CardinalityType DEF Times

\* So is the size.
LEMMA SizeType == ASSUME NEW fields \in Seq(Groups) PROVE Size(fields) \in Nat
<1>1. \A g : Times(g, fields) \in Nat
  BY Finite
<1>2. QED
  BY <1>1 DEF Size, Bytes

\* The fields of a concatenation are those of its parts, the second one's behind.
LEMMA TimesConcat ==
    ASSUME NEW s \in Seq(Groups), NEW t \in Seq(Groups), NEW g
    PROVE  Times(g, s \o t) = Times(g, s) + Times(g, t)
<1> DEFINE S == {i \in DOMAIN s : s[i] = g}
           T == {i \in DOMAIN t : t[i] = g}
           U == {i \in DOMAIN (s \o t) : (s \o t)[i] = g}
           V == {i \in U : i > Len(s)}
           f == [i \in T |-> i + Len(s)]
<1>1. s \o t \in Seq(Groups)
  OBVIOUS
<1>2. IsFiniteSet(S) /\ IsFiniteSet(T) /\ IsFiniteSet(U)
  BY <1>1, Finite
<1>3. U = S \cup V
  OBVIOUS
<1>4. S \cap V = {}
  OBVIOUS
<1>5. f \in Bijection(T, V)
  <2>1. \A i \in T : i + Len(s) \in V
    OBVIOUS
  <2>2. \A i, j \in T : i + Len(s) = j + Len(s) => i = j
    OBVIOUS
  <2>3. \A k \in V : k - Len(s) \in T /\ (k - Len(s)) + Len(s) = k
    OBVIOUS
  <2>4. f \in [T -> V] /\ \A i, j \in T : f[i] = f[j] => i = j
    BY <2>1, <2>2
  <2>5. \A k \in V : \E i \in T : f[i] = k
    BY <2>3
  <2>6. QED
    BY <2>4, <2>5, Fun_IsBij
<1> HIDE DEF S, T, U, V, f
<1>6. IsFiniteSet(V) /\ Cardinality(V) = Cardinality(T)
  BY <1>2, <1>5, FS_Bijection DEF ExistsBijection
<1>7. Cardinality(U) = Cardinality(S) + Cardinality(V) - Cardinality({})
  BY <1>2, <1>3, <1>4, <1>6, FS_Union
<1>8. Cardinality({}) = 0 /\ Cardinality(S) \in Nat /\ Cardinality(T) \in Nat
  BY <1>2, FS_EmptySet, FS_CardinalityType
<1>9. /\ Cardinality(U) = Times(g, s \o t)
      /\ Cardinality(S) = Times(g, s) /\ Cardinality(T) = Times(g, t)
  BY DEF S, T, U, Times
<1>10. QED
  BY <1>6, <1>7, <1>8, <1>9

\* Adding fields adds their size.
LEMMA SizeConcat ==
    ASSUME NEW s \in Seq(Groups), NEW t \in Seq(Groups)
    PROVE  Size(s \o t) = Size(s) + Size(t)
<1>1. \A g : Times(g, s \o t) = Times(g, s) + Times(g, t)
  BY TimesConcat
<1>2. \A g : Times(g, s) \in Nat /\ Times(g, t) \in Nat
  BY Finite
<1>3. Size(s \o t) = 204 * (Times("state", s) + Times("state", t))
                    + 100 * (Times("answers", s) + Times("answers", t))
                    + 56 * (Times("speed", s) + Times("speed", t))
                    + 48 * (Times("pose", s) + Times("pose", t))
  BY <1>1 DEF Size, Bytes
<1>4. /\ Size(s) = 204 * Times("state", s) + 100 * Times("answers", s)
                  + 56 * Times("speed", s) + 48 * Times("pose", s)
      /\ Size(t) = 204 * Times("state", t) + 100 * Times("answers", t)
                  + 56 * Times("speed", t) + 48 * Times("pose", t)
  BY DEF Size, Bytes
<1>5. Size(s \o t)
        = (204 * Times("state", s) + 100 * Times("answers", s)
             + 56 * Times("speed", s) + 48 * Times("pose", s))
          + (204 * Times("state", t) + 100 * Times("answers", t)
             + 56 * Times("speed", t) + 48 * Times("pose", t))
  <2> DEFINE a1 == Times("state", s)    b1 == Times("state", t)
             a2 == Times("answers", s)  b2 == Times("answers", t)
             a3 == Times("speed", s)    b3 == Times("speed", t)
             a4 == Times("pose", s)     b4 == Times("pose", t)
  <2>1. a1 \in Nat /\ a2 \in Nat /\ a3 \in Nat /\ a4 \in Nat
    BY <1>2
  <2>2. b1 \in Nat /\ b2 \in Nat /\ b3 \in Nat /\ b4 \in Nat
    BY <1>2
  <2> SUFFICES Size(s \o t) = (204 * a1 + 100 * a2 + 56 * a3 + 48 * a4)
                              + (204 * b1 + 100 * b2 + 56 * b3 + 48 * b4)
    OBVIOUS
  <2>3. Size(s \o t) = 204 * (a1 + b1) + 100 * (a2 + b2) + 56 * (a3 + b3) + 48 * (a4 + b4)
    BY <1>3
  <2> HIDE DEF a1, a2, a3, a4, b1, b2, b3, b4
  <2>4. QED
    BY <2>1, <2>2, <2>3
<1>6. QED
  BY <1>4, <1>5

\* No fields, no bytes.
LEMMA SizeEmpty == Size(<< >>) = 0
<1>1. \A g : {i \in DOMAIN << >> : << >>[i] = g} = {}
  OBVIOUS
<1>2. \A g : Times(g, << >>) = 0
  BY <1>1, FS_EmptySet DEF Times
<1>3. QED
  BY <1>2 DEF Size, Bytes

\* What add_field() does to a recipe.
LEMMA AddFieldsShape ==
    ASSUME NEW r \in Recipes, NEW fields \in Seq(Groups)
    PROVE  /\ AddFields(r, fields) = [id |-> r.id, fields |-> r.fields \o fields,
                                      bytes |-> r.bytes + Size(fields)]
           /\ AddFields(r, fields) \in Recipes
<1>1. Size(fields) \in Int
  BY SizeType
<1>2. r.fields \in Seq(Groups) /\ r.bytes \in Int /\ r.id \in Int
  BY DEF Recipes
<1>3. r.fields \o fields \in Seq(Groups) /\ r.bytes + Size(fields) \in Int
  BY <1>1, <1>2
<1>4. QED
  BY <1>2, <1>3 DEF AddFields, Recipes

-----------------------------------------------------------------------------
(* The steps. *)

\* The recipes as the constructor makes them.
LEMMA InitEstablishes == Init => IInv
<1>1. << >> \in Seq(Groups)
  OBVIOUS
<1>2. QED
  BY <1>1, SizeEmpty DEF Init, IInv, Types, Recipes, Untouched, FramesAccepted, Counted,
                        CommandsTaken, NewRecipe

\* A setup that is registered counts the fields it has sent.
LEMMA OutputRegisteredKeeps ==
    ASSUME IInv, ~out_initialized, NEW name, NEW fields \in Seq(Groups),
           out.fields = << >>, OutputRegistered(name, AddFields(out, fields))
    PROVE  IInv'
<1> DEFINE full == AddFields(out, fields)
<1>1. /\ full = [id |-> out.id, fields |-> out.fields \o fields,
                 bytes |-> out.bytes + Size(fields)]
      /\ full \in Recipes
  BY AddFieldsShape DEF IInv, Types
<1>2. out.fields \o fields = fields
  OBVIOUS
<1>3. full.fields = fields /\ full.bytes = out.bytes + Size(fields)
  BY <1>1, <1>2
<1>4. ~refused => out.bytes = 0
  BY DEF IInv, Untouched
<1>5. Size(fields) \in Int
  BY SizeType
<1> HIDE DEF full
<1>6. /\ outputs' = [id |-> ids + 1, fields |-> fields, bytes |-> Size(fields)]
      /\ out' = [full EXCEPT !.id = ids + 1]
      /\ ids' = ids + 1 /\ out_initialized' /\ UNCHANGED <<in, inputs, refused, settled>>
      /\ UNCHANGED in_initialized
  BY <1>3 DEF OutputRegistered, Called, Accepted, Setup, full
<1>7. /\ out'.id = ids + 1 /\ out'.fields = fields /\ out'.bytes = full.bytes
      /\ out' \in Recipes
  BY <1>1, <1>3, <1>6 DEF Recipes, IInv, Types
<1>8. Types'
  BY <1>6, <1>7 DEF IInv, Types
<1>9. Untouched' /\ FramesAccepted'
  BY <1>3, <1>4, <1>5, <1>6, <1>7 DEF Untouched, FramesAccepted
<1>10. Counted' /\ CommandsTaken'
  BY <1>6 DEF IInv, Counted, CommandsTaken
<1>11. QED
  BY <1>8, <1>9, <1>10 DEF IInv

\* A setup that is refused leaves no fields.
LEMMA OutputRefusedKeeps ==
    ASSUME IInv, ~out_initialized, NEW name, NEW fields \in Seq(Groups),
           OutputRefused(name, AddFields(out, fields))
    PROVE  IInv'
<1> DEFINE full == AddFields(out, fields)
<1>1. full \in Recipes
  BY AddFieldsShape DEF IInv, Types
<1> HIDE DEF full
<1>2. /\ out' = [full EXCEPT !.fields = << >>] /\ refused'
      /\ UNCHANGED <<in, out_initialized, in_initialized, ids, inputs, settled>>
  BY DEF OutputRefused, Called, controller, full
<1>3. out' \in Recipes /\ out'.fields = << >>
  <2>1. << >> \in Seq(Groups)
    OBVIOUS
  <2>2. QED
    BY <1>1, <1>2, <2>1 DEF Recipes
<1>4. QED
  BY <1>2, <1>3 DEF IInv, Types, Untouched, FramesAccepted, Counted, CommandsTaken

\* A recipe that is set up is left alone, and so is one on a connection that is down.
LEMMA SetUpOutputKeeps ==
    ASSUME IInv, NEW name, NEW fields \in Seq(Groups),
           SetUpOutput(name, fields)
    PROVE  IInv'
<1>1. CASE out_initialized \/ ~connected \/ out.fields # << >>
  BY <1>1 DEF SetUpOutput, Called, IInv, Types, Untouched, FramesAccepted, Counted,
             CommandsTaken, controller
<1>2. CASE ~(out_initialized \/ ~connected \/ out.fields # << >>)
  BY <1>2, OutputRegisteredKeeps, OutputRefusedKeeps DEF SetUpOutput
<1>3. QED
  BY <1>1, <1>2

\* However many fields the recipe has kept, the controller is sent all of them
\* and their size is what the recipe counts.
LEMMA SetUpInputKeeps ==
    ASSUME IInv, NEW name, NEW fields \in Seq(Groups),
           SetUpInput(name, fields)
    PROVE  IInv'
<1> DEFINE full == AddFields(in, fields)
<1>1. /\ full = [id |-> in.id, fields |-> in.fields \o fields,
                 bytes |-> in.bytes + Size(fields)]
      /\ full \in Recipes
  BY AddFieldsShape DEF IInv, Types
<1>2. full.bytes = Size(full.fields)
  <2>1. in.fields \in Seq(Groups)
    BY DEF IInv, Types, Recipes
  <2>2. Size(in.fields \o fields) = Size(in.fields) + Size(fields)
    BY <2>1, SizeConcat
  <2>3. QED
    BY <1>1, <2>2 DEF IInv, Counted
<1> HIDE DEF full
<1>3. CASE InputRegistered(name, full)
  <2>1. /\ inputs' = inputs \cup {Setup(full)}
        /\ in' = [full EXCEPT !.id = ids + 1]
        /\ ids' = ids + 1 /\ UNCHANGED <<out, out_initialized, outputs, refused>>
    BY <1>3 DEF InputRegistered, Accepted
  <2>2. /\ in'.id = ids + 1 /\ in'.fields = full.fields /\ in'.bytes = full.bytes
        /\ in' \in Recipes
    <3>1. ids + 1 \in Int
      BY DEF IInv, Types
    <3>2. QED
      BY <1>1, <2>1, <3>1 DEF Recipes
  <2>3. Types'
    BY <2>1, <2>2 DEF IInv, Types
  <2>4. Untouched' /\ FramesAccepted'
    BY <2>1 DEF IInv, Untouched, FramesAccepted
  <2>5. Counted'
    BY <1>2, <2>2 DEF Counted
  <2>6. CommandsTaken'
    <3>1. /\ Setup(full) \in inputs'
          /\ Setup(full) = [id |-> ids + 1, fields |-> full.fields, bytes |-> full.bytes]
      BY <1>2, <2>1 DEF Setup
    <3>2. QED
      BY <2>2, <3>1 DEF CommandsTaken
  <2>7. QED
    BY <2>3, <2>4, <2>5, <2>6 DEF IInv
<1>4. CASE InputRefused(name, full)
  <2>1. /\ in' = full /\ ~settled'
        /\ UNCHANGED <<out, out_initialized, in_initialized, ids, outputs, inputs, refused>>
    BY <1>4 DEF InputRefused, Called, controller
  <2>2. full.id = in.id
    BY <1>1
  <2>3. QED
    BY <1>1, <1>2, <2>1, <2>2 DEF IInv, Types, Untouched, FramesAccepted, Counted,
                                 CommandsTaken
<1>5. QED
  BY <1>3, <1>4 DEF SetUpInput, full

\* Commands change no recipe.
LEMMA CommandKeeps == ASSUME IInv, NEW name, Command(name) PROVE IInv'
  BY DEF Command, controller, IInv, Types, Untouched, FramesAccepted, Counted, CommandsTaken

\* Every step keeps the invariant.
LEMMA StepPreserves == IInv /\ [Next]_vars => IInv'
<1> SUFFICES ASSUME IInv, [Next]_vars PROVE IInv'
  OBVIOUS
<1>1. /\ <<"state">> \in Seq(Groups) /\ <<"state", "answers">> \in Seq(Groups)
      /\ <<"speed">> \in Seq(Groups) /\ <<"speed", "pose">> \in Seq(Groups)
  BY DEF Groups, Bytes
<1>2. ASSUME InitOutput PROVE IInv'
  BY <1>1, <1>2, SetUpOutputKeeps DEF InitOutput
<1>3. ASSUME InitOutputTCPPose PROVE IInv'
  BY <1>1, <1>3, SetUpOutputKeeps DEF InitOutputTCPPose
<1>4. ASSUME InitInput PROVE IInv'
  BY <1>1, <1>4, SetUpInputKeeps DEF InitInput
<1>5. ASSUME InitInputTCPPose PROVE IInv'
  BY <1>1, <1>5, SetUpInputKeeps DEF InitInputTCPPose
<1>6. ASSUME UpdateW \/ CalculateQRef PROVE IInv'
  BY <1>6, CommandKeeps DEF UpdateW, CalculateQRef
<1>7. ASSUME UNCHANGED vars PROVE IInv'
  BY <1>7 DEF vars, controller, IInv, Types, Untouched, FramesAccepted, Counted,
              CommandsTaken
<1>8. ASSUME ConnectUr PROVE IInv'
  BY <1>8 DEF ConnectUr, controller, IInv, Types, Untouched, FramesAccepted, Counted,
              CommandsTaken
<1>9. QED
  BY <1>2, <1>3, <1>4, <1>5, <1>6, <1>7, <1>8 DEF Next

\* So it holds throughout.
LEMMA Invariance == Spec => []IInv
BY InitEstablishes, StepPreserves, PTL DEF Spec

-----------------------------------------------------------------------------
(* Types. *)

\* TypeOK in two parts: the numbers, and what is true or false.
Typed(r, last) == r.id \in {-1} \cup 1..last /\ r.fields \in Seq(Groups) /\ r.bytes \in Nat

Numbers == /\ Typed(out, ids) /\ Typed(in, ids)
           /\ ids \in 0..calls
           /\ \A s \in inputs \cup {outputs} : s.id \in 0..ids
           /\ calls \in 0..MaxCalls

Flags == /\ connected \in BOOLEAN /\ ret.ok \in BOOLEAN
         /\ out_initialized \in BOOLEAN /\ in_initialized \in BOOLEAN
         /\ refused \in BOOLEAN /\ settled \in BOOLEAN

LEMMA TypeParts == TypeOK <=> Numbers /\ Flags
  BY Zenon DEF TypeOK, Numbers, Flags, Typed

\* A recipe that is given fields.
LEMMA TypedFields ==
    ASSUME NEW r \in Recipes, NEW last \in Nat, Typed(r, last), NEW fields \in Seq(Groups)
    PROVE  /\ AddFields(r, fields) \in Recipes
           /\ Typed(AddFields(r, fields), last)
<1>1. Size(fields) \in Nat
  BY SizeType
<1>2. r.fields \o fields \in Seq(Groups)
  BY DEF Typed
<1>3. /\ AddFields(r, fields) \in Recipes
      /\ AddFields(r, fields).id = r.id
      /\ AddFields(r, fields).fields = r.fields \o fields
      /\ AddFields(r, fields).bytes = r.bytes + Size(fields)
  BY AddFieldsShape DEF AddFields
<1>4. QED
  BY <1>1, <1>2, <1>3 DEF Typed

\* A recipe that is registered.
LEMMA TypedId ==
    ASSUME NEW r \in Recipes, NEW last \in Nat, Typed(r, last)
    PROVE  Typed([r EXCEPT !.id = last + 1], last + 1) /\ Typed(r, last + 1)
  BY DEF Typed, Recipes

\* At first.
LEMMA TypeInit == Init => TypeOK
<1> SUFFICES ASSUME Init PROVE Numbers /\ Flags
  BY TypeParts
<1>1. << >> \in Seq(Groups)
  OBVIOUS
<1>2. Numbers
  BY <1>1, SetupAssumption DEF Init, Numbers, Typed, NewRecipe, NoSetup
<1>3. Flags
  BY DEF Init, Flags
<1>4. QED
  BY <1>2, <1>3

\* A setup of the output recipe.
LEMMA SetUpOutputTypes ==
    ASSUME IInv, Numbers, Flags, NEW name, NEW fields \in Seq(Groups),
           SetUpOutput(name, fields)
    PROVE  Numbers' /\ Flags'
<1> DEFINE full == AddFields(out, fields)
<1>1. /\ out \in Recipes /\ ids \in Nat /\ calls \in Nat
      /\ Typed(out, ids) /\ Typed(in, ids) /\ ids <= calls
  BY SetupAssumption DEF IInv, Types, Numbers
<1>2. full \in Recipes /\ Typed(full, ids)
  BY <1>1, TypedFields
<1>3. in \in Recipes
  BY DEF IInv, Types
<1> HIDE DEF full
<1>4. CASE Called(name, out_initialized) /\ UNCHANGED <<out, in, out_initialized, in_initialized,
                                                       controller, refused, settled>>
  <2>1. Numbers'
    BY <1>1, <1>4, SetupAssumption DEF Called, controller, Numbers
  <2>2. ret'.ok = out_initialized
    BY <1>4 DEF Called
  <2>3. Flags'
    BY <1>4, <2>2, Zenon DEF Called, Flags
  <2>4. QED
    BY <2>1, <2>3
<1>5. CASE OutputRegistered(name, full)
  <2>1. /\ ids' = ids + 1 /\ out' = [full EXCEPT !.id = ids + 1] /\ in' = in
        /\ calls' = calls + 1 /\ calls < MaxCalls
        /\ outputs'.id = ids + 1 /\ inputs' = inputs
    BY <1>5 DEF OutputRegistered, Called, Accepted, Setup
  <2>2. Typed(out', ids') /\ Typed(in', ids')
    BY <1>1, <1>2, <1>3, <2>1, TypedId
  <2>3. Numbers'
    BY <1>1, <2>1, <2>2, SetupAssumption DEF Numbers
  <2>4. Flags'
    BY <1>5 DEF OutputRegistered, Called, Flags
  <2>5. QED
    BY <2>3, <2>4
<1>6. CASE OutputRefused(name, full)
  <2>1. /\ out' = [full EXCEPT !.fields = << >>] /\ in' = in
        /\ calls' = calls + 1 /\ calls < MaxCalls
        /\ UNCHANGED <<ids, outputs, inputs>>
    BY <1>6 DEF OutputRefused, Called, controller
  <2>2. Typed(out', ids) /\ Typed(in', ids)
    BY <1>1, <1>2, <2>1 DEF Typed, Recipes
  <2>3. Numbers'
    BY <1>1, <2>1, <2>2, SetupAssumption DEF Numbers
  <2>4. Flags'
    BY <1>6 DEF OutputRefused, Called, Flags
  <2>5. QED
    BY <2>3, <2>4
<1>7. QED
  BY <1>4, <1>5, <1>6 DEF SetUpOutput, full

\* A setup of the input recipe.
LEMMA SetUpInputTypes ==
    ASSUME IInv, Numbers, Flags, NEW name, NEW fields \in Seq(Groups), SetUpInput(name, fields)
    PROVE  Numbers' /\ Flags'
<1> DEFINE full == AddFields(in, fields)
<1>1. /\ in \in Recipes /\ ids \in Nat /\ calls \in Nat
      /\ Typed(out, ids) /\ Typed(in, ids) /\ ids <= calls
  BY SetupAssumption DEF IInv, Types, Numbers
<1>2. full \in Recipes /\ Typed(full, ids)
  BY <1>1, TypedFields
<1>3. out \in Recipes
  BY DEF IInv, Types
<1> HIDE DEF full
<1>4. CASE InputRegistered(name, full)
  <2>1. PICK sent \in BOOLEAN : /\ Called(name, sent)
                                /\ in_initialized' = (in_initialized \/ sent)
    BY <1>4 DEF InputRegistered
  <2>2. /\ ids' = ids + 1 /\ in' = [full EXCEPT !.id = ids + 1] /\ out' = out
        /\ inputs' = inputs \cup {Setup(full)} /\ Setup(full).id = ids + 1
        /\ outputs' = outputs
    BY <1>4 DEF InputRegistered, Accepted, Setup
  <2>3. calls' = calls + 1 /\ calls < MaxCalls /\ connected' = connected /\ ret'.ok = sent
    BY <2>1 DEF Called
  <2>4. Typed(out', ids') /\ Typed(in', ids')
    BY <1>1, <1>2, <1>3, <2>2, TypedId
  <2>5. Numbers'
    BY <1>1, <2>2, <2>3, <2>4, SetupAssumption DEF Numbers
  <2>6. in_initialized' \in BOOLEAN
    BY <2>1, Zenon DEF Flags
  <2>7. out_initialized' = out_initialized /\ refused' = refused /\ settled' = TRUE
    BY <1>4 DEF InputRegistered
  <2>8. Flags'
    BY <2>1, <2>3, <2>6, <2>7, Zenon DEF Flags
  <2>9. QED
    BY <2>5, <2>8
<1>5. CASE InputRefused(name, full)
  <2>1. /\ in' = full /\ out' = out /\ calls' = calls + 1 /\ calls < MaxCalls
        /\ UNCHANGED <<ids, outputs, inputs>>
    BY <1>5 DEF InputRefused, Called, controller
  <2>2. Numbers'
    BY <1>1, <1>2, <2>1, SetupAssumption DEF Numbers
  <2>3. Flags'
    BY <1>5 DEF InputRefused, Called, Flags
  <2>4. QED
    BY <2>2, <2>3
<1>6. QED
  BY <1>4, <1>5 DEF SetUpInput, full

\* Calls that leave the recipes alone.
LEMMA OtherTypes ==
    ASSUME Numbers, Flags, NEW name, NEW ok \in BOOLEAN, calls' = calls + 1, calls < MaxCalls,
           connected' \in BOOLEAN, ret' = [call |-> name, ok |-> ok],
           UNCHANGED <<out, in, out_initialized, in_initialized, controller, refused, settled>>
    PROVE  Numbers' /\ Flags'
<1>1. Numbers'
  BY SetupAssumption DEF controller, Numbers
<1>2. ret'.ok = ok
  OBVIOUS
<1>3. Flags'
  BY <1>2, Zenon DEF Flags
<1>4. QED
  BY <1>1, <1>3

\* No step spoils them.
LEMMA TypeStep == ASSUME IInv, TypeOK, [Next]_vars PROVE TypeOK'
<1> SUFFICES Numbers' /\ Flags'
  BY Zenon DEF TypeOK, Numbers, Flags, Typed
<1>1. Numbers /\ Flags
  BY TypeParts
<1>2. ASSUME NEW name, Command(name) PROVE Numbers' /\ Flags'
  <2>1. PICK ok \in {FALSE, in_initialized /\ connected} : Called(name, ok)
    BY <1>2 DEF Command
  <2>2. ok \in BOOLEAN
    BY <1>1, <2>1, Zenon DEF Flags
  <2>3. connected' \in BOOLEAN /\ calls' = calls + 1 /\ calls < MaxCalls
        /\ ret' = [call |-> name, ok |-> ok]
    BY <1>1, <2>1 DEF Called, Flags
  <2>4. QED
    BY <1>1, <1>2, <2>2, <2>3, OtherTypes DEF Command
<1>3. CASE ConnectUr
  <2>1. PICK up \in {TRUE, connected} : /\ connected' = up
                                        /\ ret' = [call |-> "connect_ur", ok |-> up]
    BY <1>3 DEF ConnectUr
  <2>2. up \in BOOLEAN
    BY <1>1, Zenon DEF Flags
  <2>3. QED
    BY <1>1, <1>3, <2>1, <2>2, OtherTypes DEF ConnectUr
<1>4. CASE UNCHANGED vars
  BY <1>1, <1>4 DEF vars, controller, Numbers, Flags
<1>5. /\ <<"state">> \in Seq(Groups) /\ <<"state", "answers">> \in Seq(Groups)
      /\ <<"speed">> \in Seq(Groups) /\ <<"speed", "pose">> \in Seq(Groups)
  BY DEF Groups, Bytes
<1>6. QED
  BY <1>1, <1>2, <1>3, <1>4, <1>5, SetUpOutputTypes, SetUpInputTypes
  DEF Next, InitOutput, InitOutputTCPPose, InitInput, InitInputTCPPose, UpdateW, CalculateQRef

-----------------------------------------------------------------------------
(* The theorems. *)

\* Through any sequence of calls, an output recipe that is not set up is empty,
\* so that init_output() and init_output_TCP_pose() can be called again.
THEOREM SetupRetryable == Spec => []OutputRetryable
<1>1. IInv => OutputRetryable
  BY DEF IInv, Untouched, OutputRetryable
<1>2. QED
  BY <1>1, Invariance, PTL

\* Through any sequence of calls of which no setup of the output recipe has
\* failed, parse_incoming_data() compares frames with the id and the size that
\* the controller gives them.
THEOREM FramesCompared == Spec => []FramesAccepted
<1>1. IInv => FramesAccepted
  BY DEF IInv
<1>2. QED
  BY <1>1, Invariance, PTL

\* Through any sequence of calls of which the last setup of the input recipe was not
\* refused, the packages of update_w() have the id, the fields and the size of a
\* setup that the controller has accepted, however many were refused before.
THEOREM CommandsAccepted == Spec => []CommandsTaken
<1>1. IInv => CommandsTaken
  BY DEF IInv
<1>2. QED
  BY <1>1, Invariance, PTL

\* Through any sequence of calls every variable keeps its type: an id is one that the
\* controller has given out, and there are no more ids than calls.
THEOREM TypesKept == Spec => []TypeOK
<1>1. TypeOK /\ IInv /\ [Next]_vars => TypeOK'
  BY TypeStep
<1>2. QED
  BY <1>1, TypeInit, Invariance, PTL DEF Spec
===============================================================================
