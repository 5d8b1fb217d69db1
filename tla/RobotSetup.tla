------------------------------ MODULE RobotSetup ------------------------------
(***************************************************************************)
(* How urx::Robot sets up its two recipes with the controller (the         *)
(* constructor, init_output(), init_input() and their TCP_pose variants,   *)
(* src/robot.cpp), and what this means for the frames and the commands     *)
(* that follow.  All of these calls hold the mutex from the beginning to   *)
(* the end.                                                                *)
(*                                                                         *)
(* Fields are added in groups, which are taken for fields here: "state"    *)
(* and "answers" (the TCP pose and the results of the inverse kinematics)  *)
(* of the output recipe, "speed" (with the number and the command) and     *)
(* "pose" of the input recipe.  Requests and replies are matched as in     *)
(* module RtdeHandler; here a request is sent and its reply read, or it    *)
(* does not get to the controller.                                         *)
(***************************************************************************)
EXTENDS Integers, Sequences, FiniteSets

CONSTANT MaxCalls  \* bound: calls of the program

ASSUME SetupAssumption == MaxCalls \in Nat

VARIABLES
    connected,        \* the handler's connection is up
    out, in,          \* the recipes: their id, fields and byte count
    out_initialized,
    in_initialized,
    ids,              \* setups the controller has accepted so far
    outputs,          \* the output setup it has accepted last
    inputs,           \* the input setups it has accepted
    calls,            \* calls so far
    ret,              \* the last call, and what it returned
    refused,          \* history: the setup of the output recipe has failed
    settled           \* history: the controller has accepted the last setup of the input recipe

controller == <<ids, outputs, inputs>>
vars == <<connected, out, in, out_initialized, in_initialized, ids, outputs, inputs, calls, ret,
          refused, settled>>

Bytes == [state |-> 204, answers |-> 100, speed |-> 56, pose |-> 48]
Times(group, fields) == Cardinality({i \in DOMAIN fields : fields[i] = group})
Size(fields) == Bytes.state * Times("state", fields) + Bytes.answers * Times("answers", fields)
                + Bytes.speed * Times("speed", fields) + Bytes.pose * Times("pose", fields)

NewRecipe == [id |-> -1, fields |-> << >>, bytes |-> 0]
NoSetup   == [id |-> 0, fields |-> << >>, bytes |-> 0]

\* add_field(), for every field of the groups.
AddFields(r, fields) ==
    [id |-> r.id, fields |-> r.fields \o fields, bytes |-> r.bytes + Size(fields)]

\* The constructor of RTDE_Handler may fail to connect.
Init ==
    /\ connected \in BOOLEAN
    /\ out = NewRecipe /\ in = NewRecipe
    /\ out_initialized = FALSE /\ in_initialized = FALSE
    /\ ids = 0 /\ outputs = NoSetup /\ inputs = {}
    /\ calls = 0
    /\ ret = [call |-> "Robot", ok |-> TRUE]
    /\ refused = FALSE /\ settled = FALSE

Called(name, ok) ==
    /\ calls < MaxCalls
    /\ calls' = calls + 1
    /\ ret' = [call |-> name, ok |-> ok]
    /\ UNCHANGED connected

\* The controller accepts recipe r under the next id.
Accepted(r) ==
    /\ connected
    /\ ids' = ids + 1
Setup(r) == [id |-> ids + 1, fields |-> r.fields, bytes |-> Size(r.fields)]

-----------------------------------------------------------------------------
(* The output recipe. *)

OutputRegistered(name, full) ==
    /\ Called(name, TRUE)
    /\ Accepted(full)
    /\ outputs' = Setup(full)
    /\ out' = [full EXCEPT !.id = ids + 1]
    /\ out_initialized' = TRUE
    /\ UNCHANGED <<in, in_initialized, inputs, refused, settled>>

\* The mutant keeps the fields of a setup that has failed.
OutputRefused_Kept(name, full) ==
    /\ Called(name, FALSE)
    /\ out' = full
    /\ refused' = TRUE
    /\ UNCHANGED <<in, out_initialized, in_initialized, controller, settled>>

\* clear_fields() leaves the byte count as it is.
OutputRefused(name, full) ==
    /\ Called(name, FALSE)
    /\ out' = [full EXCEPT !.fields = << >>]
    /\ refused' = TRUE
    /\ UNCHANGED <<in, out_initialized, in_initialized, controller, settled>>

\* The mutant looks at the flag when the fields have been added.
SetUpOutput_ChecksLate(name, fields) ==
    LET full == AddFields(out, fields)
    IN  IF out_initialized \/ ~connected \/ out.fields # << >>
        THEN /\ Called(name, out_initialized)
             /\ out' = full
             /\ UNCHANGED <<in, out_initialized, in_initialized, controller, refused, settled>>
        ELSE OutputRegistered(name, full) \/ OutputRefused(name, full)

\* A recipe that is set up is left alone, and so is one that has fields.
SetUpOutput(name, fields) ==
    LET full == AddFields(out, fields)
    IN  IF out_initialized \/ ~connected \/ out.fields # << >>
        THEN /\ Called(name, out_initialized)
             /\ UNCHANGED <<out, in, out_initialized, in_initialized, controller, refused, settled>>
        ELSE OutputRegistered(name, full) \/ OutputRefused(name, full)

InitOutput        == SetUpOutput("init_output", <<"state">>)
InitOutputTCPPose == SetUpOutput("init_output_TCP_pose", <<"state", "answers">>)

-----------------------------------------------------------------------------
(* The input recipe: nothing is checked and nothing cleared. *)

\* The package that clears the registers is sent once the recipe is registered.
InputRegistered(name, full) ==
    /\ Accepted(full)
    /\ inputs' = inputs \cup {Setup(full)}
    /\ in' = [full EXCEPT !.id = ids + 1]
    /\ \E sent \in BOOLEAN :
           /\ Called(name, sent)
           /\ in_initialized' = (in_initialized \/ sent)
    /\ settled' = TRUE
    /\ UNCHANGED <<out, out_initialized, outputs, refused>>

\* The mutant takes the id of the reply before it has looked at the rest.
InputRefused_TakesId(name, full) ==
    /\ Called(name, FALSE)
    /\ in' = [full EXCEPT !.id = ids + 1]
    /\ settled' = FALSE
    /\ UNCHANGED <<out, out_initialized, in_initialized, controller, refused>>

\* The fields stay in the recipe, and so do the id and the flag of an earlier setup.
InputRefused(name, full) ==
    /\ Called(name, FALSE)
    /\ in' = full
    /\ settled' = FALSE
    /\ UNCHANGED <<out, out_initialized, in_initialized, controller, refused>>

\* The mutant counts the fields only when they are new.
SetUpInput_CountsOnce(name, fields) ==
    LET full == [AddFields(in, fields) EXCEPT !.bytes = IF in.bytes = 0 THEN @ ELSE in.bytes]
    IN  InputRegistered(name, full) \/ InputRefused(name, full)

SetUpInput(name, fields) ==
    LET full == AddFields(in, fields)
    IN  InputRegistered(name, full) \/ InputRefused(name, full)

InitInput        == SetUpInput("init_input", <<"speed">>)
InitInputTCPPose == SetUpInput("init_input_TCP_pose", <<"speed", "pose">>)

-----------------------------------------------------------------------------
(* Commands need an input recipe that was set up at some time, whichever. *)

Command(name) ==
    /\ \E ok \in {FALSE, in_initialized /\ connected} : Called(name, ok)
    /\ UNCHANGED <<out, in, out_initialized, in_initialized, controller, refused, settled>>

UpdateW       == Command("update_w")
CalculateQRef == Command("calculate_q_ref")

\* RTDE_Handler::connect_ur(), on the handler that the Robot was made with.
ConnectUr ==
    /\ calls < MaxCalls
    /\ calls' = calls + 1
    /\ \E up \in {TRUE, connected} :
           /\ connected' = up
           /\ ret' = [call |-> "connect_ur", ok |-> up]
    /\ UNCHANGED <<out, in, out_initialized, in_initialized, controller, refused, settled>>

-----------------------------------------------------------------------------

Next == \/ ConnectUr
        \/ InitOutput \/ InitOutputTCPPose
        \/ InitInput \/ InitInputTCPPose
        \/ UpdateW \/ CalculateQRef

Spec == Init /\ [][Next]_vars

-----------------------------------------------------------------------------
(* Properties. *)

Groups == DOMAIN Bytes

\* Every variable keeps its type; a recipe's id is one that the controller has
\* given out (rtde_recipe.cpp, register_response()), or -1.
TypeOK ==
    /\ connected \in BOOLEAN
    /\ \A r \in {out, in} :
           /\ r.id \in {-1} \cup 1..ids
           /\ r.fields \in Seq(Groups)
           /\ r.bytes \in Nat
    /\ out_initialized \in BOOLEAN /\ in_initialized \in BOOLEAN
    /\ ids \in 0..calls
    /\ \A s \in inputs \cup {outputs} : s.id \in 0..ids
    /\ calls \in 0..MaxCalls
    /\ ret.ok \in BOOLEAN
    /\ refused \in BOOLEAN /\ settled \in BOOLEAN

\* After any sequence of calls, an output recipe that is not set up can be tried
\* again: it has no fields, which init_output() and init_output_TCP_pose() ask
\* for (robot.cpp:36-39), whichever of them has failed.
OutputRetryable == ~out_initialized => out.fields = << >>

\* If no setup of the output recipe has failed, the recipe that init_output()
\* reports as set up is the one the controller sends: the id and the size are
\* those that parse_incoming_data() compares a frame with, whatever calls to
\* init_output() and init_output_TCP_pose() follow.
FramesAccepted ==
    out_initialized /\ ~refused =>
        outputs.id = out.id /\ outputs.bytes = out.bytes /\ outputs.fields = out.fields

\* "True if valid and successfully sent to remote" (robot.hpp:213, 221): unless the
\* last setup of the input recipe was refused, what update_w() and
\* calculate_q_ref() send has the id and the size of a setup that the controller
\* has accepted, and the fields in its order, whatever setups were refused before,
\* although their fields are still in the recipe, and whatever has become of the
\* package that follows the setup.  After a refusal it does not hold: the recipe
\* has the old id with the fields of both setups, and update_w() still returns true.
CommandsTaken ==
    settled => \E s \in inputs :
        s.id = in.id /\ s.bytes = in.bytes /\ s.fields = in.fields
=============================================================================
