----------------------------- MODULE RtdeHandler -----------------------------
(***************************************************************************)
(* urx::RTDE_Handler, its recipes and the stream of packages to and from   *)
(* the robot controller (src/rtde_handler.cpp, src/rtde_recipe.cpp,        *)
(* src/rtde_recipe_token.cpp, src/header.cpp, include/urx/magic.h).        *)
(*                                                                         *)
(* A request is sent and whatever the connection holds next is taken for   *)
(* its reply.  The connection is a byte stream: a read may take several    *)
(* packages, of which only the first is looked at, and a read of the four  *)
(* bytes of a START or PAUSE reply may cut a longer package in two, as any *)
(* read may.  No package is cut within its first four bytes, and no rest   *)
(* of one looks like the beginning of another.                             *)
(*                                                                         *)
(* The value of a variable is its name, so that a storage shows whose      *)
(* bytes were parsed into it; bytes that are not one whole variable of the *)
(* right type are "garbage".  A send or a read may fail, and a send that   *)
(* fails may leave a part of its package on the connection; what follows   *)
(* the end of the connection is part of RobotState.                        *)
(***************************************************************************)
EXTENDS Integers, Sequences, SequencesExt, FiniteSetsExt, TLC

CONSTANTS Recipes,     \* RTDE_Recipe objects
          NoRecipe,    \* nullptr
          Names,       \* the variables that are added to recipes
          MaxFields,   \* bound: fields of a recipe
          MaxBytes,    \* bound: bytes of a recipe
          MaxCalls,    \* bound: requests that have a reply, and faults
          MaxStream    \* bound: packages the connection holds in each direction

ASSUME RtdeAssumption ==
    /\ NoRecipe \notin Recipes
    /\ {MaxFields, MaxBytes, MaxCalls, MaxStream} \subseteq Nat

\* rtde_datasize
DataSize == [BOOL |-> 1, UINT8 |-> 1, UINT32 |-> 4, UINT64 |-> 8, INT32 |-> 4, DOUBLE |-> 8,
             VECTOR3D |-> 24, VECTOR6D |-> 48, VECTOR6INT32 |-> 24, VECTOR6UINT32 |-> 24,
             STRING |-> 1, IN_USE |-> 0, NOT_FOUND |-> 0]

\* data_name_to_type(): the text need only be the beginning of a type's name, and the
\* first of these types is taken.
TypeNames == <<"BOOL", "UINT8", "UINT32", "UINT64", "INT32", "DOUBLE", "VECTOR3D", "VECTOR6D",
               "VECTOR6INT32", "VECTOR6UINT32", "STRING", "IN_USE">>

TypeNamed(text) ==
    LET starts == {i \in DOMAIN TypeNames : /\ Len(text) <= Len(TypeNames[i])
                                            /\ SubSeq(TypeNames[i], 1, Len(text)) = text}
    IN  IF starts = {} THEN "NOT_FOUND" ELSE TypeNames[Min(starts)]

\* No type is taken for another, when its name is given whole.
ASSUME NamesAreExact == \A t \in DOMAIN DataSize : TypeNamed(t) = t

\* rtde_control_package_resp_validate(): the name of a type ends before a comma or,
\* the last one, before its last character; the search for the next end begins at
\* the second character behind it.
Refusal == {"NOT_FOUND", "IN_USE"}

Validated(text) ==
    LET ends(start) == {p \in start + (IF start = 1 THEN 0 ELSE 1) .. Len(text) :
                            SubSeq(text, p, p) = "," \/ p = Len(text)}
        valid[start \in 1 .. Len(text) + 1] ==
            ends(start) # {} =>
                /\ TypeNamed(SubSeq(text, start, Min(ends(start)) - 1)) \notin Refusal
                /\ valid[Min(ends(start)) + 1]
    IN  valid[1]

\* The types of a reply, as the controller writes them.
Joined(types) == FoldLeft(LAMBDA text, t : IF text = "" THEN t ELSE text \o "," \o t, "", types)

\* The scan of a reply finds every refusal in it, and nothing else, whatever the types
\* (header.cpp:225-271).
ScanIsExactFor(n) ==
    \A types \in [1 .. n -> DOMAIN DataSize] :
        Validated(Joined(types)) <=> Range(types) \cap Refusal = {}

ASSUME ScanIsExact == \A n \in 1 .. MaxFields : ScanIsExactFor(n)

\* rtde_output_names and rtde_input_names, as far as there are names to choose from
OutputType == [timestamp |-> "DOUBLE", speed_scaling |-> "DOUBLE",
               actual_digital_input_bits |-> "UINT64",
               target_q |-> "VECTOR6D", target_qd |-> "VECTOR6D",
               elbow_position |-> "VECTOR3D", elbow_velocity |-> "VECTOR3D",
               output_int_register_0 |-> "INT32", output_double_register_0 |-> "DOUBLE"]
InputType  == [speed_slider_mask |-> "UINT32", input_int_register_0 |-> "INT32",
               input_int_register_1 |-> "INT32", input_double_register_0 |-> "DOUBLE"]

VARIABLES
    recipe,      \* recipe[r]: the members of the recipe
    out,         \* the handler's output recipe
    recipes_in,  \* its input recipes by the id they were added with
    call,        \* the request whose reply is awaited
    result,      \* what the last start() or stop() returned
    storage,     \* the variables the output recipes parse into
    calls,       \* requests so far; the number of a setup is the id it is given
    registered,  \* history: the request for which register_recipe() returned true
    requests,    \* packages, or a part of one, under way to the controller
    stream,      \* packages, or the rest of one, to be read
    accepted,    \* the setups the controller has accepted
    current,     \* the id of its output recipe, 0 for none
    streaming,   \* it sends data packages
    registers,   \* its input registers
    faults,      \* sends and reads that failed or were cut, and text messages, so far
    quiet,       \* history: every request was alone on the connection and got its reply
    whole        \* history: no send was cut short, no read ended in the package it began with

client  == <<recipe, out, recipes_in, call, result, storage, calls, registered>>
remote  == <<accepted, current, streaming, registers>>
history == <<faults, quiet, whole>>
vars    == <<recipe, out, recipes_in, call, result, storage, calls, registered, requests, stream,
             accepted, current, streaming, registers, faults, quiet, whole>>

TypeOf(dir_out) == IF dir_out THEN OutputType ELSE InputType

\* A token of a recipe, or a variable in a package: its place in the payload.
Token(n, dir_out, offset) == [name |-> n, type |-> TypeOf(dir_out)[n], offset |-> offset]
ByteSize(types) ==
    LET sum[i \in 0 .. Len(types)] == IF i = 0 THEN 0 ELSE sum[i - 1] + DataSize[types[i]]
    IN  sum[Len(types)]
NamesOf(fields) == [i \in DOMAIN fields |-> fields[i].name]
TypesOf(fields) == [i \in DOMAIN fields |-> fields[i].type]

\* How the controller lays out the variables of a setup.
Layout(fields) ==
    {[fields[i] EXCEPT !.offset = ByteSize(SubSeq(TypesOf(fields), 1, i - 1))] :
        i \in DOMAIN fields}

\* What is found at the place of token t in a payload with these variables.
Found(t, payload) ==
    IF \E v \in payload : v.offset = t.offset /\ v.type = t.type
    THEN (CHOOSE v \in payload : v.offset = t.offset /\ v.type = t.type).name
    ELSE "garbage"

NewRecipe == [active |-> FALSE, id |-> -1, fields |-> << >>, bytes |-> 0, dir_out |-> TRUE,
              dp |-> [op |-> "data", id |-> 0, bytes |-> 0, payload |-> {}]]

Idle == [op |-> "none", r |-> NoRecipe]
Part == [op |-> "part"]
Rest == [kind |-> "tail"]

Init ==
    /\ recipe = [r \in Recipes |-> NewRecipe]
    /\ out = NoRecipe
    /\ recipes_in = << >>
    /\ call = Idle
    /\ result = FALSE
    /\ storage = [n \in Names \cap DOMAIN OutputType |-> "none"]
    /\ calls = 0
    /\ registered = [r \in Recipes |-> 0]
    /\ requests = << >>
    /\ stream = << >>
    /\ accepted = {}
    /\ current = 0
    /\ streaming = FALSE
    /\ registers = [n \in Names \cap DOMAIN InputType |-> "none"]
    /\ faults = 0
    /\ quiet = TRUE
    /\ whole = TRUE

-----------------------------------------------------------------------------
(* The recipes. *)

Change(r, rec) ==
    /\ call = Idle
    /\ recipe' = [recipe EXCEPT ![r] = rec]
    /\ UNCHANGED <<out, recipes_in, call, result, storage, calls, registered, requests, stream,
                   remote, history>>

\* The mutant takes the offset after the bytes of the field are counted.
AddField_CountsFirst(r, n) ==
    LET rec   == recipe[r]
        bytes == rec.bytes + DataSize[TypeOf(rec.dir_out)[n]]
    IN  /\ n \in DOMAIN TypeOf(rec.dir_out)
        /\ Len(rec.fields) < MaxFields
        /\ bytes <= MaxBytes
        /\ Change(r, [rec EXCEPT !.fields = Append(@, Token(n, rec.dir_out, bytes)),
                                 !.bytes = bytes])

AddField(r, n) ==
    LET rec   == recipe[r]
        token == Token(n, rec.dir_out, rec.bytes)
    IN  /\ n \in DOMAIN TypeOf(rec.dir_out)
        /\ Len(rec.fields) < MaxFields
        /\ rec.bytes + DataSize[token.type] <= MaxBytes
        /\ Change(r, [rec EXCEPT !.fields = Append(@, token),
                                 !.bytes = @ + DataSize[token.type]])

\* The mutant resets the number of bytes, but leaves the recipe registered.
ClearFields_Resets(r) ==
    /\ recipe[r].fields # << >>
    /\ Change(r, [recipe[r] EXCEPT !.fields = << >>, !.bytes = 0])

\* clear_fields() leaves the number of bytes alone.
ClearFields(r) == recipe[r].fields # << >> /\ Change(r, [recipe[r] EXCEPT !.fields = << >>])

SetDir(r) == recipe[r].fields = << >> /\ Change(r, [recipe[r] EXCEPT !.dir_out = ~@])

\* register_response(): the mutants only count the types, and refuse a recipe that is
\* registered again.
Matches_AnyType(resp, rec) ==
    /\ resp.kind = "setup"
    /\ Len(resp.types) = Len(rec.fields)

Matches_Once(resp, rec) ==
    /\ resp.kind = "setup"
    /\ ~rec.active
    /\ [i \in DOMAIN resp.types |-> TypeNamed(resp.types[i])] = TypesOf(rec.fields)

Matches(resp, rec) ==
    /\ resp.kind = "setup"
    /\ [i \in DOMAIN resp.types |-> TypeNamed(resp.types[i])] = TypesOf(rec.fields)
    /\ Validated(Joined(resp.types))

\* store(): the tokens are written into the one data package the recipe has.
Stored(rec) ==
    IF rec.dir_out THEN rec.dp
    ELSE [op |-> "data", id |-> rec.id, bytes |-> rec.bytes,
          payload |-> rec.dp.payload \cup Range(rec.fields)]

-----------------------------------------------------------------------------
(* The handler: a request, and what it makes of the reply. *)

Request(op, r, package) ==
    /\ call = Idle
    /\ calls + faults < MaxCalls
    /\ Len(requests) < MaxStream
    /\ calls' = calls + 1
    /\ call' = [op |-> op, r |-> r]
    /\ requests' = Append(requests, package)
    /\ quiet' = (quiet /\ requests = << >> /\ stream = << >> /\ ~streaming)
    /\ UNCHANGED <<recipe, out, recipes_in, result, storage, registered, stream, remote, faults,
                   whole>>

\* A recipe without fields must not be registered: get_fields() would pop_back()
\* an empty string.
Register(r) ==
    /\ recipe[r].fields # << >>
    /\ Request("register", r, [op |-> "setup", id |-> calls + 1, dir_out |-> recipe[r].dir_out,
                               fields |-> recipe[r].fields])

Start   == Request("start", NoRecipe, [op |-> "start"])
Stop    == Request("stop", NoRecipe, [op |-> "pause"])
Version == Request("version", NoRecipe, [op |-> "version"])   \* set_version(), get_ur_version()

Faults(n) == (n > 0 => calls + faults + n <= MaxCalls) /\ faults' = faults + n
Fault == Faults(1)

\* send_emerg_msg(): a text that has no reply.
SendEmergMsg ==
    /\ call = Idle
    /\ Len(requests) < MaxStream
    /\ Fault
    /\ requests' = Append(requests, [op |-> "text"])
    /\ UNCHANGED <<recipe, out, recipes_in, call, result, storage, calls, registered, stream,
                   remote, quiet, whole>>

\* do_send(): a package is "sent", or "nothing" of it is, or a "part".
Failed == {"nothing", "part"}
DoSend(package, how) ==
    requests' = IF how = "sent" THEN Append(requests, package)
                ELSE IF how = "part" THEN Append(requests, Part)
                ELSE requests

\* What became of a read (cut or not) and a send.
Observed(cut, how) ==
    /\ Faults((IF cut THEN 1 ELSE 0) + (IF how \in Failed THEN 1 ELSE 0))
    /\ whole' = (whole /\ ~cut /\ how # "part")
    /\ quiet' = (quiet /\ ~cut /\ how # "part")

\* A request is not sent: the call returns false.
SendFails ==
    /\ call = Idle
    /\ \E how \in Failed :
           /\ how = "part" => Len(requests) < MaxStream
           /\ DoSend(Part, how)
           /\ Observed(FALSE, how)
    /\ result' = FALSE
    /\ UNCHANGED <<recipe, out, recipes_in, call, storage, calls, registered, stream, remote>>

\* The read of the reply fails.
ReadFails ==
    /\ call # Idle
    /\ Fault
    /\ call' = Idle
    /\ result' = (call.op \notin {"start", "stop"} /\ result)
    /\ quiet' = FALSE
    /\ UNCHANGED <<recipe, out, recipes_in, storage, calls, registered, requests, stream, remote,
                   whole>>

\* A read that ends in the package behind the first n, and leaves the rest of it.
Long == {"data", "text", "setup", "version", "tail"}
CutAfter(n) ==
    /\ n < Len(stream)
    /\ stream[n + 1].kind \in Long
    /\ stream' = <<Rest>> \o SubSeq(stream, n + 2, Len(stream))

\* A read into the whole buffer takes packages; only the first one counts.
Read == \E n \in 1 .. Len(stream) : stream' = SubSeq(stream, n + 1, Len(stream)) \/ CutAfter(n)

\* A read of four bytes takes a reply, or the beginning of a longer package.
Read4 == \/ CutAfter(0)
         \/ /\ stream # << >>
            /\ Head(stream).kind \in {"start", "pause", "version", "tail"}
            /\ stream' = Tail(stream)

\* The call ends without success; start() and stop() have a result of their own.
GivesUp ==
    /\ call' = Idle
    /\ UNCHANGED <<recipe, out, recipes_in, result, storage, calls, registered, requests, remote>>

RegisterFails ==
    /\ call.op = "register"
    /\ stream # << >>
    /\ ~Matches(Head(stream), recipe[call.r])
    /\ Read
    /\ GivesUp
    /\ UNCHANGED history

\* A reply that is cut may be refused for what the buffer holds behind it.
ReplyCut ==
    /\ call.op \in {"register", "version"}
    /\ CutAfter(0)
    /\ GivesUp
    /\ Observed(TRUE, "sent")

\* send() looks for an input recipe that has the id now; the order is that of a hash table.
WithId(id, rs, ins) == {key \in DOMAIN ins : rs[ins[key]].id = id}
Sent(id, rs, ins, how) ==
    \E key \in WithId(id, rs, ins) :
        LET r == ins[key]
        IN  /\ recipe' = [rs EXCEPT ![r].dp = Stored(rs[r])]
            /\ DoSend(Stored(rs[r]), how)

\* The output recipe replaces the one before; an input recipe is inserted (unless
\* the id is taken) and sent at once; if that fails the recipe stays where it is.
Registers(reply, cut) ==
    LET r    == call.r
        id   == reply.id
        rs   == [recipe EXCEPT ![r].id = id, ![r].active = TRUE]
        ins  == [key \in DOMAIN recipes_in \cup {id} |->
                    IF key \in DOMAIN recipes_in THEN recipes_in[key] ELSE r]
        done == [registered EXCEPT ![r] = calls]
    IN  /\ call.op = "register"
        /\ Matches(reply, recipe[r])
        /\ call' = Idle
        /\ \/ /\ recipe[r].dir_out
              /\ recipe' = rs
              /\ out' = r
              /\ registered' = done
              /\ Observed(cut, "sent")
              /\ UNCHANGED <<recipes_in, requests>>
           \/ /\ ~recipe[r].dir_out
              /\ recipes_in' = ins
              /\ \E how \in {"sent"} \cup Failed :
                     /\ Sent(id, rs, ins, how)
                     /\ Observed(cut, how)
                     /\ registered' = IF how = "sent" THEN done ELSE registered
              /\ UNCHANGED out
           \/ /\ ~recipe[r].dir_out
              /\ recipes_in' = ins
              /\ WithId(id, rs, ins) = {}
              /\ recipe' = rs
              /\ Observed(cut, "sent")
              /\ UNCHANGED <<out, requests, registered>>
        /\ UNCHANGED <<result, storage, calls, remote>>

RegisterSucceeds == call.op = "register" /\ Read /\ Registers(Head(stream), FALSE)

\* What is left of a reply: some types, and the beginning of another one.
CutReplies(reply) ==
    UNION {{[reply EXCEPT !.types = Append(SubSeq(@, 1, i - 1), SubSeq(@[i], 1, n))] :
               n \in 1 .. Len(reply.types[i])} : i \in DOMAIN reply.types}

RegisterCut ==
    /\ call.op = "register"
    /\ calls + faults < MaxCalls
    /\ CutAfter(0)
    /\ Head(stream).kind = "setup"
    /\ \E reply \in CutReplies(Head(stream)) : Registers(reply, TRUE)

\* The mutant takes any reply that says "accepted".
StartStopReplied_AnyType ==
    /\ call.op \in {"start", "stop"}
    /\ Read4
    /\ result' = (Head(stream).kind \in {"start", "pause"})
    /\ call' = Idle
    /\ UNCHANGED <<recipe, out, recipes_in, storage, calls, registered, requests, remote, history>>

\* Both replies are validated as replies to START.
StartStopReplied ==
    /\ call.op \in {"start", "stop"}
    /\ Read4
    /\ result' = (Head(stream).kind = "start" /\ Head(stream).accepted)
    /\ call' = Idle
    /\ UNCHANGED <<recipe, out, recipes_in, storage, calls, registered, requests, remote, history>>

VersionReplied == call.op = "version" /\ Read /\ GivesUp /\ UNCHANGED history

Send(id) ==
    /\ call = Idle
    /\ WithId(id, recipe, recipes_in) # {}
    /\ Len(requests) < MaxStream
    /\ \E how \in {"sent"} \cup Failed : Sent(id, recipe, recipes_in, how) /\ Observed(FALSE, how)
    /\ UNCHANGED <<out, recipes_in, call, result, storage, calls, registered, stream, remote>>

\* parse_incoming_data(): a data package of the output recipe and of its size
\* (the mutant does not look at the size) ...
Accepts_AnySize(p) ==
    /\ p.kind = "data"
    /\ recipe[out].id = p.id
    /\ recipe[out].dir_out

Accepts(p) ==
    /\ p.kind = "data"
    /\ recipe[out].id = p.id
    /\ recipe[out].bytes = p.bytes
    /\ recipe[out].dir_out

\* ... is parsed, every token at its offset; the last one of a variable counts.
Parsed(fields, payload) ==
    [n \in DOMAIN storage |->
        LET places == {i \in DOMAIN fields : fields[i].name = n}
        IN  IF places = {} THEN storage[n] ELSE Found(fields[Max(places)], payload)]

\* Before there is an output recipe recv() must not be called: it dereferences out.
Recv ==
    /\ call = Idle
    /\ out # NoRecipe
    /\ Read
    /\ storage' = IF Accepts(Head(stream))
                  THEN Parsed(recipe[out].fields, Head(stream).payload)
                  ELSE storage
    /\ UNCHANGED <<recipe, out, recipes_in, call, result, calls, registered, requests, remote,
                   history>>

\* Nothing compares the size with what was read: the tokens behind the first k are parsed
\* from what the buffer held before.
ParsedCut(fields, payload, k) ==
    [n \in DOMAIN storage |->
        IF \E i \in k + 1 .. Len(fields) : fields[i].name = n THEN "garbage"
        ELSE Parsed(SubSeq(fields, 1, k), payload)[n]]

RecvCut ==
    /\ call = Idle
    /\ out # NoRecipe
    /\ CutAfter(0)
    /\ Observed(TRUE, "sent")
    /\ \/ /\ Accepts(Head(stream))
          /\ \E k \in 0 .. Len(recipe[out].fields) :
                 storage' = ParsedCut(recipe[out].fields, Head(stream).payload, k)
       \/ ~Accepts(Head(stream)) /\ UNCHANGED storage
    /\ UNCHANGED <<recipe, out, recipes_in, call, result, calls, registered, requests, remote>>

-----------------------------------------------------------------------------
(* The controller answers requests in order, and sends data packages.  What *)
(* it does with a setup is its own affair: one that is refused may or may   *)
(* not end the output recipe before it.                                     *)

Reply(p) ==
    /\ Len(stream) < MaxStream
    /\ stream' = Append(stream, p)
    /\ requests' = Tail(requests)
    /\ UNCHANGED <<client, history>>

Pending(op) == requests # << >> /\ Head(requests).op = op

Accept ==
    LET s == Head(requests)
    IN  /\ Pending("setup")
        /\ accepted' = accepted \cup {[id |-> s.id, dir_out |-> s.dir_out,
                                       names |-> NamesOf(s.fields),
                                       bytes |-> ByteSize(TypesOf(s.fields)),
                                       payload |-> Layout(s.fields)]}
        /\ current' = IF s.dir_out THEN s.id ELSE current
        /\ Reply([kind |-> "setup", id |-> s.id, types |-> TypesOf(s.fields)])
        /\ UNCHANGED <<streaming, registers>>

Refuse ==
    LET s == Head(requests)
    IN  /\ Pending("setup")
        /\ current' \in IF s.dir_out THEN {current, 0} ELSE {current}
        /\ \E why \in Refusal, bad \in SUBSET DOMAIN s.fields :
               /\ bad # {}
               /\ Reply([kind |-> "setup", id |-> s.id,
                         types |-> [i \in DOMAIN s.fields |->
                                       IF i \in bad THEN why ELSE s.fields[i].type]])
        /\ UNCHANGED <<accepted, streaming, registers>>

AnswerStart ==
    /\ Pending("start")
    /\ \E ok \in BOOLEAN :
           /\ ok => current > 0
           /\ streaming' = (streaming \/ ok)
           /\ Reply([kind |-> "start", accepted |-> ok])
    /\ UNCHANGED <<accepted, current, registers>>

AnswerPause ==
    /\ Pending("pause")
    /\ streaming' = FALSE
    /\ Reply([kind |-> "pause", accepted |-> TRUE])
    /\ UNCHANGED <<accepted, current, registers>>

AnswerVersion ==
    /\ Pending("version")
    /\ Reply([kind |-> "version"])
    /\ UNCHANGED <<accepted, current, streaming, registers>>

\* A data package of an input recipe sets its registers, if its size is right.
TakeInput ==
    LET dp == Head(requests)
    IN  /\ Pending("data")
        /\ requests' = Tail(requests)
        /\ registers' =
              [n \in DOMAIN registers |->
                 IF \E a \in accepted : a.id = dp.id /\ a.bytes = dp.bytes /\ n \in Range(a.names)
                 THEN LET a == CHOOSE a \in accepted : a.id = dp.id
                          v == CHOOSE v \in a.payload : v.name = n
                      IN  Found(v, dp.payload)
                 ELSE registers[n]]
        /\ UNCHANGED <<client, stream, accepted, current, streaming, history>>

TakeText ==
    /\ Pending("text")
    /\ requests' = Tail(requests)
    /\ UNCHANGED <<client, stream, remote, history>>

\* The part of a package is made whole with the beginning of what follows it; what comes
\* of that is not known, nor where the next package begins.
TakeGarbled ==
    /\ Pending("part")
    /\ \E n \in 2 .. Len(requests), rest \in {<< >>, <<Part>>} :
           requests' = rest \o SubSeq(requests, n + 1, Len(requests))
    /\ \E lost \in SUBSET UNION {Range(a.names) : a \in accepted} :
           registers' = [n \in DOMAIN registers |-> IF n \in lost THEN "garbage" ELSE registers[n]]
    /\ current' \in {current, 0}
    /\ UNCHANGED <<client, stream, accepted, streaming, history>>

SendData ==
    /\ streaming
    /\ Len(stream) < MaxStream
    /\ \E a \in accepted :
           /\ a.id = current
           /\ stream' = Append(stream, [kind |-> "data", id |-> a.id, bytes |-> a.bytes,
                                        payload |-> a.payload])
    /\ UNCHANGED <<client, requests, remote, history>>

SendText ==
    /\ Len(stream) < MaxStream
    /\ Fault
    /\ stream' = Append(stream, [kind |-> "text"])
    /\ quiet' = FALSE
    /\ UNCHANGED <<client, requests, remote, whole>>

-----------------------------------------------------------------------------

RecipeCall == \E r \in Recipes : \/ \E n \in Names : AddField(r, n)
                                 \/ ClearFields(r) \/ SetDir(r)
HandlerCall == \/ \E r \in Recipes : Register(r)
               \/ \E id \in 1 .. MaxCalls : Send(id)
               \/ Start \/ Stop \/ Version \/ SendEmergMsg \/ SendFails \/ Recv
Replied == \/ ReadFails \/ RegisterFails \/ RegisterSucceeds \/ StartStopReplied \/ VersionReplied
CutShort == RegisterCut \/ ReplyCut \/ RecvCut
Controller == \/ Accept \/ Refuse \/ AnswerStart \/ AnswerPause \/ AnswerVersion
              \/ TakeInput \/ TakeText \/ TakeGarbled \/ SendData \/ SendText

Next == RecipeCall \/ HandlerCall \/ Replied \/ CutShort \/ Controller

Spec == Init /\ [][Next]_vars

-----------------------------------------------------------------------------
(* Properties. *)

Field == [name : Names, type : DOMAIN DataSize, offset : 0 .. MaxBytes]
Outputs == Names \cap DOMAIN OutputType
Inputs  == Names \cap DOMAIN InputType

(* The variables keep their types, and the fields of a recipe lie one after *)
(* the other at the end of the bytes it counts.                             *)
TypeOK ==
    /\ \A r \in Recipes :
          LET rec == recipe[r]
          IN  /\ rec.active \in BOOLEAN /\ rec.dir_out \in BOOLEAN
              /\ rec.id \in -1 .. MaxCalls
              /\ rec.bytes \in 0 .. MaxBytes
              /\ Range(rec.fields) \subseteq Field
              /\ LET base == rec.bytes - ByteSize(TypesOf(rec.fields))
                 IN  /\ base >= 0
                     /\ \A i \in DOMAIN rec.fields :
                           rec.fields[i].offset
                             = base + ByteSize(SubSeq(TypesOf(rec.fields), 1, i - 1))
    /\ out \in Recipes \cup {NoRecipe}
    /\ DOMAIN recipes_in \subseteq 1 .. MaxCalls /\ Range(recipes_in) \subseteq Recipes
    /\ call \in [op : {"none", "register", "start", "stop", "version"}, r : Recipes \cup {NoRecipe}]
    /\ result \in BOOLEAN
    /\ storage \in [Outputs -> Names \cup {"none", "garbage"}]
    /\ registers \in [Inputs -> Names \cup {"none", "garbage"}]
    /\ calls \in 0 .. MaxCalls
    /\ registered \in [Recipes -> 0 .. MaxCalls]
    /\ current \in 0 .. MaxCalls
    /\ streaming \in BOOLEAN
    /\ quiet \in BOOLEAN /\ whole \in BOOLEAN /\ (quiet => whole)

(* However requests, replies, data and texts meet on the connection, as     *)
(* long as no send is cut short and no read ends in the package it began    *)
(* with, a value is never put together from bytes of other variables: what  *)
(* is parsed into a storage and what is sent to a register is one whole     *)
(* variable of its type and direction.  The id, the size and the types a    *)
(* recipe was registered with see to it (rtde_handler.cpp:156-169,          *)
(* rtde_recipe.cpp:105-115); nothing sees to it once a package was cut.     *)
WholeValues ==
    whole => /\ \A n \in Outputs : storage[n] \in Outputs \cup {"none"}
             /\ \A n \in Inputs : registers[n] \in Inputs \cup {"none"}

(* As long as every request is alone on the connection and gets its whole   *)
(* reply, that is until the first request after start(), every storage and  *)
(* register gets the very variable it is named for, through registrations,  *)
(* failures and changes of the recipes (rtde_handler.hpp:137-147, 160).     *)
RightVariables ==
    quiet => /\ \A n \in Outputs : storage[n] \in {"none", n}
             /\ \A n \in Inputs : registers[n] \in {"none", n}

(* register_recipe() returns "true if valid recipe and it was accepted by   *)
(* the UR controller" (rtde_handler.hpp:105): an active recipe holds the id *)
(* of a setup the controller has accepted, not one from before it last      *)
(* returned true, and shares it with no other recipe.                       *)
RegisteredIsAccepted ==
    quiet => \A r \in Recipes : recipe[r].active \/ registered[r] > 0 =>
                 /\ \E a \in accepted : a.id = recipe[r].id
                 /\ recipe[r].id >= registered[r]
                 /\ \A other \in Recipes \ {r} : recipe[other].id # recipe[r].id

(* start() returns "true if CON accepted the request" (rtde_handler.hpp:121)*)
(* and then the data flows.                                                 *)
StartConfirmed ==
    [][quiet' /\ call.op = "start" /\ call' = Idle => result' = streaming']_vars

(* register_recipe() takes a setup for what the controller made of it,      *)
(* although the last type of the reply is compared one character short      *)
(* (header.cpp:259-267, magic.h:53-83): the recipe gets the id of the setup *)
(* if and only if it was accepted, the call returns true only then, and for *)
(* an output recipe always then (rtde_handler.hpp:105).                     *)
RegistrationConfirmed ==
    [][quiet' /\ call.op = "register" /\ call' = Idle =>
           LET confirmed == \E a \in accepted : a.id = calls
               rec       == recipe'[call.r]
               returned  == registered'[call.r] = calls
           IN  /\ confirmed <=> rec.active /\ rec.id = calls
               /\ returned => confirmed
               /\ confirmed /\ rec.dir_out => returned]_vars

(* clear_fields() is to "clear all fields stored in the recipe"             *)
(* (rtde_recipe.hpp:52-55): once the recipe is filled and registered again, *)
(* its data packages are accepted.                                          *)
RegisteredDelivers ==
    \A a \in accepted :
        /\ quiet
        /\ out # NoRecipe
        /\ a.id = current
        /\ a.id = recipe[out].id
        /\ a.names = NamesOf(recipe[out].fields)
        => recipe[out].bytes = a.bytes
=============================================================================
