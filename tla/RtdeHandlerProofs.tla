-------------------------- MODULE RtdeHandlerProofs --------------------------
(***************************************************************************)
(* What holds of RtdeHandler for any recipes, variables and bounds, as     *)
(* long as every request is alone on the connection (quiet).  That an      *)
(* exchange is undisturbed then is what the two theorems rest on.          *)
(***************************************************************************)
EXTENDS RtdeHandler, TLAPS

FieldTypes == DOMAIN DataSize \ Refusal

Tokens == [name : Names, type : FieldTypes, offset : Int]
DataPackages == [op : {"data"}, id : Int, bytes : Int, payload : SUBSET Tokens]

RecipeTypes ==
    [active : BOOLEAN, id : Int, fields : Seq(Tokens), bytes : Int, dir_out : BOOLEAN,
     dp : DataPackages]

Types ==
    /\ recipe \in [Recipes -> RecipeTypes]
    /\ registered \in [Recipes -> Nat]
    /\ calls \in Nat

\* The one package under way to the controller is the request.
Requested(package) == requests = <<package>> /\ stream = << >> /\ ~streaming

\* The reply is the first package to be read.
Answered == requests = << >> /\ stream # << >>

\* The setup that is registered.
Setup(r) ==
    [op |-> "setup", id |-> calls, dir_out |-> recipe[r].dir_out, fields |-> recipe[r].fields]

\* The controller has accepted the setup, or says which variables it refuses.
SetupReply(p) ==
    /\ p.id = calls
    /\ \/ \E a \in accepted : a.id = calls
       \/ \E i \in DOMAIN p.types : p.types[i] \in Refusal

Exchange ==
    /\ call.op = "register" =>
           /\ call.r \in Recipes /\ calls > 0
           /\ \/ Requested(Setup(call.r))
              \/ Answered /\ SetupReply(Head(stream))
    /\ call.op = "start" =>
           \/ Requested([op |-> "start"])
           \/ /\ Answered /\ streaming \in BOOLEAN
              /\ Head(stream) = [kind |-> "start", accepted |-> streaming]

\* The ids of recipes are those of setups; the setup under way is nobody's yet.
Ids ==
    \A r \in Recipes :
        /\ recipe[r].id \in {-1} \cup 1 .. calls
        /\ call.op = "register" => recipe[r].id # calls
        /\ recipe[r].active => recipe[r].id > 0
        /\ registered[r] > 0 => recipe[r].id >= registered[r]
        /\ recipe[r].active \/ registered[r] > 0 => \E a \in accepted : a.id = recipe[r].id
        /\ recipe[r].id > 0 =>
               \A other \in Recipes \ {r} : recipe[other].id # recipe[r].id

IInv == quiet => Types /\ Exchange /\ Ids

-----------------------------------------------------------------------------
(* The helpers. *)

\* Fields have the types of variables, and types have sizes.
LEMMA FieldTypesOK ==
    /\ \A dir_out \in BOOLEAN : \A n \in DOMAIN TypeOf(dir_out) : TypeOf(dir_out)[n] \in FieldTypes
    /\ \A t \in FieldTypes : DataSize[t] \in Int
<1>1. \A n \in DOMAIN OutputType : OutputType[n] \in FieldTypes
  BY DEF OutputType, FieldTypes, DataSize, Refusal
<1>2. \A n \in DOMAIN InputType : InputType[n] \in FieldTypes
  BY DEF InputType, FieldTypes, DataSize, Refusal
<1>3. \A t \in FieldTypes : DataSize[t] \in Int
  BY DEF FieldTypes, DataSize, Refusal
<1>4. QED
  BY <1>1, <1>2, <1>3 DEF TypeOf

\* A reply that refuses a variable is not taken for an acceptance.
LEMMA RefusalSeen ==
    ASSUME NEW rec \in RecipeTypes, NEW p, Matches(p, rec)
    PROVE  \A i \in DOMAIN p.types : p.types[i] \notin Refusal
<1> SUFFICES ASSUME NEW i \in DOMAIN p.types, p.types[i] \in Refusal PROVE FALSE
  OBVIOUS
<1>1. [j \in DOMAIN p.types |-> TypeNamed(p.types[j])] = [j \in DOMAIN rec.fields |-> rec.fields[j].type]
  BY DEF Matches, TypesOf
<1>2. i \in DOMAIN rec.fields /\ TypeNamed(p.types[i]) = rec.fields[i].type
  BY <1>1
<1>3. rec.fields[i].type \in FieldTypes
  <2>1. rec.fields \in Seq(Tokens)
    BY DEF RecipeTypes
  <2>2. rec.fields[i] \in Tokens
    BY <1>2, <2>1
  <2>3. QED
    BY <2>2 DEF Tokens
<1>4. Refusal \subseteq DOMAIN DataSize
  BY DEF Refusal, DataSize
<1>5. TypeNamed(p.types[i]) = p.types[i]
  BY <1>4, NamesAreExact
<1>6. QED
  BY <1>2, <1>3, <1>5 DEF FieldTypes

\* What store() leaves in a recipe.
LEMMA StoredOK == ASSUME NEW rec \in RecipeTypes PROVE Stored(rec) \in DataPackages
<1>1. Range(rec.fields) \subseteq Tokens
  BY DEF RecipeTypes, Range
<1>2. rec.dp.payload \cup Range(rec.fields) \in SUBSET Tokens
  BY <1>1 DEF RecipeTypes, DataPackages
<1>3. QED
  BY <1>2 DEF Stored, RecipeTypes, DataPackages

\* send() changes the data package of one recipe.
LEMMA SentOK ==
    ASSUME NEW rs \in [Recipes -> RecipeTypes], NEW id, NEW ins, NEW how, Sent(id, rs, ins, how)
    PROVE  /\ recipe' \in [Recipes -> RecipeTypes]
           /\ \A r \in Recipes : /\ recipe'[r].id = rs[r].id
                                 /\ recipe'[r].active = rs[r].active
<1>1. PICK s : recipe' = [rs EXCEPT ![s].dp = Stored(rs[s])]
  BY DEF Sent
<1>2. CASE s \in Recipes
  <2>1. Stored(rs[s]) \in DataPackages
    BY <1>2, StoredOK
  <2>2. QED
    BY <1>1, <1>2, <2>1 DEF RecipeTypes
<1>3. CASE s \notin Recipes
  <2>1. recipe' = rs
    BY <1>1, <1>3
  <2>2. QED
    BY <2>1
<1>4. QED
  BY <1>2, <1>3

\* A step that leaves recipes and requests alone.
LEMMA IdsKept ==
    ASSUME Types, Ids, UNCHANGED <<recipe, registered, calls>>, accepted \subseteq accepted',
           call' \in {call, Idle}
    PROVE  Types' /\ Ids'
<1>1. Types'
  BY DEF Types
<1>2. call'.op = "register" => call.op = "register"
  BY DEF Idle
<1>3. QED
  BY <1>1, <1>2 DEF Ids

\* Between calls there is no exchange to speak of.
LEMMA NoExchange == call = Idle => Exchange
  BY DEF Idle, Exchange

-----------------------------------------------------------------------------
(* At first. *)
LEMMA InvInit == Init => IInv
<1> SUFFICES ASSUME Init PROVE Types /\ Exchange /\ Ids
  BY DEF IInv
<1>1. NewRecipe \in RecipeTypes
  BY DEF NewRecipe, RecipeTypes, DataPackages
<1>2. Types
  BY <1>1 DEF Init, Types
<1>3. Exchange
  BY NoExchange DEF Init
<1>4. Ids
  BY DEF Init, NewRecipe, Idle, Ids
<1>5. QED
  BY <1>2, <1>3, <1>4

-----------------------------------------------------------------------------
(* The steps. *)

\* A change of a recipe between calls.
LEMMA RecipeStep == ASSUME Types, Exchange, Ids, RecipeCall PROVE Types' /\ Exchange' /\ Ids'
<1>1. ASSUME NEW r \in Recipes, NEW rec \in RecipeTypes, Change(r, rec),
             rec.id = recipe[r].id, rec.active = recipe[r].active
      PROVE  Types' /\ Exchange' /\ Ids'
  <2>1. Types'
    BY <1>1 DEF Change, Types
  <2>2. Exchange'
    BY <1>1, NoExchange DEF Change, Exchange, Idle
  <2>3. \A q \in Recipes : recipe'[q].id = recipe[q].id /\ recipe'[q].active = recipe[q].active
    BY <1>1 DEF Change, Types
  <2>4. Ids'
    BY <1>1, <2>3 DEF Change, Ids, remote
  <2>5. QED
    BY <2>1, <2>2, <2>4
<1>2. ASSUME NEW r \in Recipes, NEW n \in Names, AddField(r, n) PROVE Types' /\ Exchange' /\ Ids'
  <2> DEFINE rec == recipe[r]
             token == Token(n, rec.dir_out, rec.bytes)
             new == [rec EXCEPT !.fields = Append(@, token), !.bytes = @ + DataSize[token.type]]
  <2>1. rec \in RecipeTypes
    BY DEF Types
  <2>2. TypeOf(rec.dir_out)[n] \in FieldTypes
    BY <1>2, <2>1, FieldTypesOK DEF AddField, RecipeTypes
  <2>3. token \in Tokens /\ DataSize[token.type] \in Int
    BY <2>1, <2>2, FieldTypesOK DEF Token, Tokens, RecipeTypes
  <2>4. Change(r, new)
    BY <1>2 DEF AddField
  <2> HIDE DEF token
  <2>5. new \in RecipeTypes /\ new.id = rec.id /\ new.active = rec.active
    <3>1. Append(rec.fields, token) \in Seq(Tokens) /\ rec.bytes + DataSize[token.type] \in Int
      BY <2>1, <2>3 DEF RecipeTypes
    <3>2. QED
      BY <2>1, <3>1 DEF RecipeTypes
  <2>6. QED
    BY <1>1, <2>4, <2>5
<1>3. ASSUME NEW r \in Recipes, ClearFields(r) PROVE Types' /\ Exchange' /\ Ids'
  <2> DEFINE new == [recipe[r] EXCEPT !.fields = << >>]
  <2>1. new \in RecipeTypes /\ new.id = recipe[r].id /\ new.active = recipe[r].active
    <3>1. recipe[r] \in RecipeTypes /\ << >> \in Seq(Tokens)
      BY DEF Types
    <3>2. QED
      BY <3>1 DEF RecipeTypes
  <2>2. QED
    BY <1>1, <1>3, <2>1 DEF ClearFields
<1>4. ASSUME NEW r \in Recipes, SetDir(r) PROVE Types' /\ Exchange' /\ Ids'
  <2> DEFINE new == [recipe[r] EXCEPT !.dir_out = ~@]
  <2>1. new \in RecipeTypes /\ new.id = recipe[r].id /\ new.active = recipe[r].active
    BY DEF Types, RecipeTypes
  <2>2. QED
    BY <1>1, <1>4, <2>1 DEF SetDir
<1>5. QED
  BY <1>2, <1>3, <1>4 DEF RecipeCall

\* A request that is to be undisturbed finds the connection empty.
LEMMA RequestStep ==
    ASSUME Types, Ids, quiet', NEW op, NEW r, NEW package, Request(op, r, package)
    PROVE  /\ Types' /\ Ids'
           /\ requests' = <<package>> /\ stream' = << >> /\ ~streaming'
           /\ call' = [op |-> op, r |-> r]
           /\ calls' = calls + 1 /\ UNCHANGED recipe
<1>1. requests = << >> /\ stream = << >> /\ ~streaming
  BY DEF Request
<1>2. requests' = <<package>> /\ stream' = << >> /\ ~streaming'
  BY <1>1 DEF Request, remote
<1>3. Types'
  BY DEF Request, Types
<1>4. Ids'
  BY DEF Request, Types, Ids, remote
<1>5. QED
  BY <1>2, <1>3, <1>4 DEF Request

\* The calls of the handler, up to the reply.
LEMMA HandlerStep ==
    ASSUME Types, Exchange, Ids, HandlerCall, quiet'
    PROVE  Types' /\ Exchange' /\ Ids'
<1>1. ASSUME NEW r \in Recipes, Register(r) PROVE Types' /\ Exchange' /\ Ids'
  <2>1. Request("register", r, [op |-> "setup", id |-> calls + 1, dir_out |-> recipe[r].dir_out,
                                fields |-> recipe[r].fields])
    BY <1>1 DEF Register
  <2>2. /\ Types' /\ Ids'
        /\ requests' = <<Setup(r)'>> /\ stream' = << >> /\ ~streaming'
        /\ call' = [op |-> "register", r |-> r]
    BY <2>1, RequestStep DEF Setup
  <2>3. Exchange'
    BY <2>2, RequestStep, <2>1 DEF Exchange, Requested, Types
  <2>4. QED
    BY <2>2, <2>3
<1>2. ASSUME NEW op \in {"stop", "version"}, NEW package, Request(op, NoRecipe, package)
      PROVE  Types' /\ Exchange' /\ Ids'
  BY <1>2, RequestStep DEF Exchange
<1>3. ASSUME Start PROVE Types' /\ Exchange' /\ Ids'
  BY <1>3, RequestStep DEF Start, Exchange, Requested
<1>4. ASSUME NEW id, Send(id) PROVE Types' /\ Exchange' /\ Ids'
  <2>1. /\ recipe' \in [Recipes -> RecipeTypes]
        /\ \A r \in Recipes : /\ recipe'[r].id = recipe[r].id
                              /\ recipe'[r].active = recipe[r].active
    BY <1>4, SentOK DEF Send, Types
  <2>2. UNCHANGED <<call, calls, registered, accepted>> /\ call = Idle
    BY <1>4 DEF Send, remote
  <2>3. Types' /\ Exchange'
    BY <2>1, <2>2, NoExchange DEF Types, Exchange, Idle
  <2>4. Ids'
    BY <2>1, <2>2 DEF Ids
  <2>5. QED
    BY <2>3, <2>4
<1>5. ASSUME SendEmergMsg \/ SendFails \/ Recv PROVE Types' /\ Exchange' /\ Ids'
  <2>1. call = Idle /\ UNCHANGED <<recipe, registered, calls, call, accepted>>
    BY <1>5 DEF SendEmergMsg, SendFails, Recv, remote
  <2>2. QED
    BY <2>1, IdsKept DEF Exchange, Idle
<1>6. QED
  BY <1>1, <1>2, <1>3, <1>4, <1>5 DEF HandlerCall, Stop, Version

\* A reply ends the call; a setup that the controller has accepted is registered.
LEMMA RegisterStep ==
    ASSUME Types, Exchange, Ids, RegisterSucceeds PROVE Types' /\ Exchange' /\ Ids'
<1> DEFINE r  == call.r
           id == Head(stream).id
           rs == [recipe EXCEPT ![r].id = id, ![r].active = TRUE]
<1>1. /\ call.op = "register" /\ Matches(Head(stream), recipe[r]) /\ stream # << >>
      /\ call' = Idle /\ UNCHANGED <<calls, accepted>>
  BY DEF RegisterSucceeds, Registers, Read, remote
<1>2. r \in Recipes /\ recipe[r] \in RecipeTypes /\ SetupReply(Head(stream))
  BY <1>1 DEF Exchange, Requested, Types
<1>3. id = calls /\ \E a \in accepted : a.id = calls
  BY <1>1, <1>2, RefusalSeen DEF SetupReply
<1>4. /\ rs \in [Recipes -> RecipeTypes]
      /\ \A q \in Recipes : /\ rs[q].id = (IF q = r THEN calls ELSE recipe[q].id)
                            /\ rs[q].active = (IF q = r THEN TRUE ELSE recipe[q].active)
  <2> DEFINE new == [recipe[r] EXCEPT !.id = id, !.active = TRUE]
  <2>1. new \in RecipeTypes /\ new.id = calls /\ new.active = TRUE
    <3>1. recipe[r] \in RecipeTypes /\ id \in Int /\ id = calls
      BY <1>2, <1>3 DEF Types
    <3> HIDE DEF r, id
    <3>2. QED
      BY <3>1 DEF RecipeTypes
  <2>2. rs = [recipe EXCEPT ![r] = new]
    BY <1>2 DEF Types
  <2> HIDE DEF new, r, id, rs
  <2>3. QED
    BY <1>2, <2>1, <2>2 DEF Types
<1>5. \/ recipe' = rs
      \/ \E ins, key, how : Sent(key, rs, ins, how)
  BY DEF RegisterSucceeds, Registers
<1> HIDE DEF rs, r, id
<1>6. /\ recipe' \in [Recipes -> RecipeTypes]
      /\ \A q \in Recipes : /\ recipe'[q].id = (IF q = r THEN calls ELSE recipe[q].id)
                            /\ recipe'[q].active = (IF q = r THEN TRUE ELSE recipe[q].active)
  BY <1>4, <1>5, SentOK
<1>7. registered' \in {registered, [registered EXCEPT ![r] = calls]}
  BY DEF RegisterSucceeds, Registers, r
<1>8. Types' /\ Exchange'
  BY <1>1, <1>6, <1>7 DEF Types, Exchange, Idle
<1>9. calls \in Nat /\ calls > 0
  BY <1>1 DEF Types, Exchange
<1>10. Ids'
  <2> SUFFICES ASSUME NEW q \in Recipes
               PROVE  /\ recipe'[q].id \in {-1} \cup 1 .. calls
                      /\ recipe'[q].active => recipe'[q].id > 0
                      /\ registered'[q] > 0 => recipe'[q].id >= registered'[q]
                      /\ recipe'[q].active \/ registered'[q] > 0 =>
                             \E a \in accepted : a.id = recipe'[q].id
                      /\ recipe'[q].id > 0 =>
                             \A other \in Recipes \ {q} : recipe'[other].id # recipe'[q].id
    BY <1>1 DEF Ids, Idle
  <2>1. \/ registered'[q] = registered[q]
        \/ q = r /\ registered'[q] = calls
    BY <1>2, <1>7 DEF Types
  <2>2. \A other \in Recipes : recipe[other].id # calls
    BY <1>1 DEF Ids
  <2>3. CASE q = r
    <3>1. recipe'[q].id = calls
      BY <1>6, <2>3
    <3>2. registered[q] \in Nat /\ calls >= registered[q]
      BY <1>9, <2>3 DEF Ids, Types
    <3>3. \A other \in Recipes \ {q} : recipe'[other].id # calls
      BY <1>6, <2>2, <2>3
    <3>4. QED
      BY <1>3, <1>9, <2>1, <3>1, <3>2, <3>3
  <2>4. CASE q # r
    BY <1>6, <2>1, <2>2, <2>4 DEF Ids
  <2>5. QED
    BY <2>3, <2>4
<1>11. QED
  BY <1>8, <1>10

LEMMA ReplyStep ==
    ASSUME Types, Exchange, Ids, Replied, quiet' PROVE Types' /\ Exchange' /\ Ids'
<1>1. ASSUME RegisterFails \/ StartStopReplied \/ VersionReplied PROVE Types' /\ Exchange' /\ Ids'
  <2>1. call' = Idle /\ UNCHANGED <<recipe, registered, calls, accepted>>
    BY <1>1 DEF RegisterFails, StartStopReplied, VersionReplied, GivesUp, remote
  <2>2. QED
    BY <2>1, IdsKept DEF Exchange, Idle
<1>2. QED
  BY <1>1, RegisterStep DEF Replied, ReadFails

\* The controller answers the one request there is.
LEMMA ControllerStep ==
    ASSUME Types, Exchange, Ids, Controller, quiet' PROVE Types' /\ Exchange' /\ Ids'
<1>1. UNCHANGED <<recipe, registered, calls, call>> /\ accepted \subseteq accepted'
  BY DEF Controller, Accept, Refuse, AnswerStart, AnswerPause, AnswerVersion, Reply, TakeInput,
         TakeText, TakeGarbled, SendData, SendText, client, remote
<1>2. Types' /\ Ids'
  BY <1>1, IdsKept
<1>3. ASSUME Accept PROVE Exchange'
  <2> DEFINE a == [id |-> Head(requests).id, dir_out |-> Head(requests).dir_out,
                   names |-> NamesOf(Head(requests).fields),
                   bytes |-> ByteSize(TypesOf(Head(requests).fields)),
                   payload |-> Layout(Head(requests).fields)]
             p == [kind |-> "setup", id |-> Head(requests).id,
                   types |-> TypesOf(Head(requests).fields)]
  <2>1. /\ p.kind = "setup" /\ p.id = Head(requests).id
        /\ stream' = Append(stream, p) /\ requests' = Tail(requests)
        /\ accepted' = accepted \cup {a} /\ a.id = Head(requests).id
    BY <1>3 DEF Accept, Reply
  <2> HIDE DEF a, p
  <2>2. requests # << >> /\ Head(requests).op = "setup"
    BY <1>3 DEF Accept, Pending
  <2>3. call.op # "start"
    BY <2>2 DEF Exchange, Requested, Answered
  <2>4. CASE call.op = "register"
    <3>1. requests = <<Setup(call.r)>> /\ stream = << >> /\ call.r \in Recipes
      BY <2>2, <2>4 DEF Exchange, Requested, Answered
    <3>2. requests' = << >> /\ stream' = <<p>> /\ p.id = calls
      BY <2>1, <3>1 DEF Setup
    <3>3. Head(stream') = p /\ calls' = calls /\ \E b \in accepted' : b.id = calls'
      BY <1>1, <2>1, <3>1, <3>2 DEF Setup
    <3>4. QED
      BY <1>1, <2>1, <2>4, <3>1, <3>2, <3>3 DEF Exchange, Answered, SetupReply
  <2>5. QED
    BY <1>1, <2>3, <2>4 DEF Exchange
<1>4. ASSUME Refuse PROVE Exchange'
  <2>1. PICK p : /\ p.kind = "setup" /\ p.id = Head(requests).id
                 /\ stream' = Append(stream, p) /\ requests' = Tail(requests)
                 /\ \E i \in DOMAIN p.types : p.types[i] \in Refusal
    BY <1>4 DEF Refuse, Reply
  <2>2. requests # << >> /\ Head(requests).op = "setup"
    BY <1>4 DEF Refuse, Pending
  <2>3. call.op # "start"
    BY <2>2 DEF Exchange, Requested, Answered
  <2>4. CASE call.op = "register"
    <3>1. requests = <<Setup(call.r)>> /\ stream = << >> /\ call.r \in Recipes
      BY <2>2, <2>4 DEF Exchange, Requested, Answered
    <3>2. requests' = << >> /\ stream' = <<p>> /\ p.id = calls
      BY <2>1, <3>1 DEF Setup
    <3>3. Head(stream') = p /\ calls' = calls
      BY <1>1, <3>2
    <3>4. QED
      BY <1>1, <2>1, <2>4, <3>1, <3>2, <3>3 DEF Exchange, Answered, SetupReply
  <2>5. QED
    BY <1>1, <2>3, <2>4 DEF Exchange
<1>5. ASSUME AnswerStart PROVE Exchange'
  <2>1. PICK ok \in BOOLEAN :
            /\ streaming' = (streaming \/ ok)
            /\ stream' = Append(stream, [kind |-> "start", accepted |-> ok])
            /\ requests' = Tail(requests)
    BY <1>5 DEF AnswerStart, Reply
  <2>2. requests # << >> /\ Head(requests).op = "start"
    BY <1>5 DEF AnswerStart, Pending
  <2>3. call.op # "register"
    BY <2>2 DEF Exchange, Requested, Answered, Setup
  <2>4. CASE call.op = "start"
    <3>1. requests = <<[op |-> "start"]>> /\ stream = << >> /\ ~streaming
      BY <2>2, <2>4 DEF Exchange, Requested, Answered
    <3>2. requests' = << >> /\ stream' = <<[kind |-> "start", accepted |-> ok]>>
      BY <2>1, <3>1
    <3>3. streaming' = ok
      BY <2>1, <3>1
    <3>4. QED
      BY <1>1, <2>4, <3>2, <3>3 DEF Exchange, Answered
  <2>5. QED
    BY <1>1, <2>3, <2>4 DEF Exchange
<1>6. ASSUME AnswerPause \/ AnswerVersion \/ TakeInput \/ TakeText \/ TakeGarbled PROVE Exchange'
  <2>1. requests # << >> /\ Head(requests).op \notin {"setup", "start"}
    BY <1>6 DEF AnswerPause, AnswerVersion, TakeInput, TakeText, TakeGarbled, Pending
  <2>2. call.op \notin {"register", "start"}
    BY <2>1 DEF Exchange, Requested, Answered, Setup
  <2>3. QED
    BY <1>1, <2>2 DEF Exchange
<1>7. ASSUME SendData PROVE Exchange'
  <2>1. PICK p : stream' = Append(stream, p)
    BY <1>7 DEF SendData
  <2>2. streaming /\ UNCHANGED <<requests, streaming, accepted>>
    BY <1>7 DEF SendData, remote
  <2>3. QED
    BY <1>1, <2>1, <2>2 DEF Exchange, Requested, Answered, SetupReply
<1>8. QED
  BY <1>2, <1>3, <1>4, <1>5, <1>6, <1>7 DEF Controller, SendText

\* Once a request met something on the connection, or a package was cut, that stays so.
LEMMA QuietBefore ==
    [Next]_vars => /\ quiet' => quiet
                   /\ whole' => whole
                   /\ CutShort => ~quiet' /\ ~whole'
                   /\ (quiet => whole) => (quiet' => whole')
<1>1. ASSUME NEW cut \in BOOLEAN, NEW how, Observed(cut, how)
      PROVE  /\ quiet' => quiet
             /\ whole' => whole
             /\ (quiet => whole) => (quiet' => whole')
             /\ cut => ~quiet' /\ ~whole'
  BY <1>1, Zenon DEF Observed
<1>2. CutShort => ~quiet' /\ ~whole'
  <2>1. CutShort => \E how : Observed(TRUE, how)
    BY DEF CutShort, RegisterCut, Registers, ReplyCut, RecvCut
  <2>2. QED
    BY <1>1, <2>1
<1>3. CASE [Next]_vars /\ ~CutShort
  <2> DEFINE Steady == whole' = whole /\ (quiet' = quiet \/ ~quiet')
             Sends == \E how : Observed(FALSE, how)
  <2>1. RecipeCall \/ UNCHANGED vars => Steady
    BY DEF vars, RecipeCall, AddField, ClearFields, SetDir, Change, history
  <2>2. Controller => Steady
    <3>1. Accept \/ Refuse \/ AnswerStart \/ AnswerPause \/ AnswerVersion => Steady
      BY DEF Accept, Refuse, AnswerStart, AnswerPause, AnswerVersion, Reply, history
    <3>2. TakeInput \/ TakeText \/ TakeGarbled \/ SendData \/ SendText => Steady
      BY DEF TakeInput, TakeText, TakeGarbled, SendData, SendText, history
    <3>3. QED
      BY <3>1, <3>2 DEF Controller
  <2>3. ASSUME NEW op, NEW r, NEW package, Request(op, r, package)
        PROVE  whole' = whole /\ (quiet' => quiet)
    BY <2>3, Zenon DEF Request
  <2>4. HandlerCall => Steady \/ Sends \/ (whole' = whole /\ (quiet' => quiet))
    <3>1. Start \/ Stop \/ Version \/ (\E r \in Recipes : Register(r)) =>
              whole' = whole /\ (quiet' => quiet)
      BY <2>3, Zenon DEF Start, Stop, Version, Register
    <3>2. SendEmergMsg \/ Recv => Steady
      BY DEF SendEmergMsg, Recv, history
    <3>3. SendFails \/ (\E id \in 1 .. MaxCalls : Send(id)) => Sends
      BY DEF SendFails, Send
    <3>4. QED
      BY <3>1, <3>2, <3>3, Zenon DEF HandlerCall
  <2>5. Replied => Steady \/ Sends
    <3>1. ReadFails \/ RegisterFails \/ StartStopReplied \/ VersionReplied => Steady
      BY DEF ReadFails, RegisterFails, StartStopReplied, VersionReplied, history
    <3>2. RegisterSucceeds => Sends
      BY DEF RegisterSucceeds, Registers
    <3>3. QED
      BY <3>1, <3>2 DEF Replied
  <2>6. Steady \/ Sends \/ (whole' = whole /\ (quiet' => quiet))
    <3> HIDE DEF Steady, Sends
    <3>1. QED
      BY <1>3, <2>1, <2>2, <2>4, <2>5, Zenon DEF Next
  <2>7. ASSUME whole' = whole, quiet' = quiet \/ (quiet' => quiet)
        PROVE  /\ quiet' => quiet
               /\ whole' => whole
               /\ (quiet => whole) => (quiet' => whole')
    <3>1. quiet' => quiet
      BY <2>7
    <3>2. whole' <=> whole
      BY <2>7
    <3>3. QED
      BY <3>1, <3>2, Zenon
  <2>8. CASE Steady
    <3>1. whole' = whole /\ (quiet' = quiet \/ (quiet' => quiet))
      BY <2>8
    <3>2. QED
      BY <1>3, <2>7, <3>1, Zenon
  <2>9. CASE Sends
    <3>1. PICK how : Observed(FALSE, how)
      BY <2>9
    <3>2. /\ quiet' => quiet
          /\ whole' => whole
          /\ (quiet => whole) => (quiet' => whole')
      BY <1>1, <3>1
    <3>3. QED
      BY <1>3, <3>2, Zenon
  <2>10. CASE whole' = whole /\ (quiet' => quiet)
    BY <1>3, <2>7, <2>10, Zenon
  <2>11. QED
    BY <2>6, <2>8, <2>9, <2>10, Zenon
<1>4. QED
  BY <1>2, <1>3

LEMMA InvStep == IInv /\ [Next]_vars => IInv'
<1> SUFFICES ASSUME IInv, [Next]_vars, quiet' PROVE Types' /\ Exchange' /\ Ids'
  BY DEF IInv
<1>1. quiet /\ ~CutShort
  BY QuietBefore
<1>2. Types /\ Exchange /\ Ids
  BY <1>1 DEF IInv
<1>3. CASE UNCHANGED vars
  BY <1>2, <1>3 DEF vars, Types, Exchange, Ids, Requested, Answered, Setup, SetupReply
<1>4. QED
  BY <1>1, <1>2, <1>3, RecipeStep, HandlerStep, ReplyStep, ControllerStep DEF Next

-----------------------------------------------------------------------------
(* The theorems. *)

LEMMA Inductive == Spec => []IInv
BY InvInit, InvStep, PTL DEF Spec

(* As long as requests keep to themselves, a recipe that register_recipe()  *)
(* has made active holds the id of a setup that the controller accepted,    *)
(* and no other recipe has it (rtde_handler.hpp:105).                       *)
THEOREM RegistrationsAccepted == Spec => []RegisteredIsAccepted
<1>1. IInv => RegisteredIsAccepted
  <2> SUFFICES ASSUME Types, Ids, NEW r \in Recipes, recipe[r].active \/ registered[r] > 0
               PROVE  /\ \E a \in accepted : a.id = recipe[r].id
                      /\ recipe[r].id >= registered[r]
                      /\ \A other \in Recipes \ {r} : recipe[other].id # recipe[r].id
    BY DEF IInv, RegisteredIsAccepted
  <2>1. registered[r] \in Nat /\ recipe[r].id > 0
    BY DEF Types, Ids
  <2>2. QED
    BY <2>1 DEF Ids
<1>2. QED
  BY <1>1, Inductive, PTL

(* Then start() returns true if and only if data flows                      *)
(* (rtde_handler.hpp:121): the reply it reads is the one to its request.    *)
THEOREM StartsConfirmed == Spec => StartConfirmed
<1>1. ASSUME IInv, [Next]_vars, quiet', call.op = "start", call' = Idle
      PROVE  result' = streaming'
  <2>1. StartStopReplied
    <3>1. call # Idle /\ call' # call
      BY <1>1 DEF Idle
    <3>2. ~RecipeCall
      BY <3>1 DEF RecipeCall, AddField, ClearFields, SetDir, Change
    <3>3. ~HandlerCall
      BY <3>1 DEF HandlerCall, Register, Start, Stop, Version, Request, SendEmergMsg, SendFails,
                  Send, Recv
    <3>4. ~Controller
      BY <3>1 DEF Controller, Accept, Refuse, AnswerStart, AnswerPause, AnswerVersion, Reply,
                  TakeInput, TakeText, TakeGarbled, SendData, SendText, client
    <3>5. Replied
      BY <1>1, <3>1, <3>2, <3>3, <3>4, QuietBefore DEF Next, vars
    <3>6. QED
      BY <1>1, <3>5 DEF Replied, ReadFails, RegisterFails, RegisterSucceeds, VersionReplied
  <2>2. quiet /\ UNCHANGED streaming
    BY <1>1, <2>1 DEF StartStopReplied, history, remote
  <2>3. Head(stream) = [kind |-> "start", accepted |-> streaming] /\ streaming \in BOOLEAN
    <3>1. ~Requested([op |-> "start"])
      BY <2>1 DEF StartStopReplied, Read4, CutAfter, Requested
    <3>2. QED
      BY <1>1, <2>2, <3>1 DEF IInv, Exchange
  <2>4. QED
    BY <2>1, <2>2, <2>3 DEF StartStopReplied
<1>2. IInv /\ [Next]_vars => [quiet' /\ call.op = "start" /\ call' = Idle => result' = streaming']_vars
  BY <1>1
<1>3. QED
  BY <1>2, Inductive, PTL DEF Spec, StartConfirmed
=============================================================================
