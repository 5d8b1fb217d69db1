# A verification of libURX

libURX connects a C++ program to a Universal Robots controller: it sends commands and
receives the robot's state over RTDE (a TCP connection with typed, fixed-layout packages),
and uploads the URScript program that runs on the controller and executes the commands.
This directory holds TLA+ models of it, TLC configurations that check them on small
instances, and proofs checked by TLAPS.

Run the tools in this directory:

    tlc -workers 2 -config MCRobotState.cfg MCRobotState.tla
    tlapm RobotStateProofs.tla

Source paths below are relative to the repository.

## The system

| part | state | operations | who calls it |
|---|---|---|---|
| `Robot` (src/robot.cpp) | the snapshot `ur_state`, the flags `updated_state_`, `running_`, `out_initialized_`, the command registers `in_seqnr`, `cmd`, `set_qd`, `TCP_pose_ref`, the mutex `bottleneck`, two condition variables, the receiver thread | `init_output()`, `init_input...()`, `start()`, `stop()`, `state()`, `recv()`, `update_w()`, `calculate_q_ref()` | the program's threads; `recv()` also by the receiver thread |
| `RTDE_Handler` (src/rtde_handler.cpp) | the output recipe, the map of input recipes, one buffer for everything that is read | `register_recipe()`, `start()`, `stop()`, `send()`, `recv()`, versions | `Robot`, tools |
| `RTDE_Recipe`, tokens (src/rtde_recipe*.cpp) | fields with type and offset, byte count, direction, id, one data package | `add_field()`, `clear_fields()`, `dir_input()`, `register_response()`, `parse()`, `store()` | `Robot`, the handler |
| packages (src/header.cpp), names and types (include/urx/magic.h) | none | making and validating packages | handler, recipes |
| `Con` (src/con.cpp) | the socket, `connected_` | `do_connect()`, `disconnect()`, `do_send()`, `do_recv()`, `do_send_recv()` | the handlers |
| `URX_Handler`, `URX_Script` (src/urx_handler.cpp, src/urx_script.cpp) | the file name, `parsed_`, the script text | `upload_script()`; `set_script()`, `read_file()`, `get_script()` | `Robot`, tools |
| scripts/tcp_pose.script | the main loop, a thread that moves the joints, a thread for the inverse kinematics, and the variables they share | polls the input registers, writes the output registers | the controller, from the upload on |

They interact in three ways. Threads of the program share `Robot` through one mutex. The
handler talks to the controller by requests and replies and by a stream of data packages on
one and the same connection. The script shares registers with the connection: a data package
of an input recipe overwrites them, and the frames of the output recipe sample them. The
script itself travels on a second connection, as one piece of text.

What makes this hard, and hard to test:

* the interleavings of the receiver, the thread that starts and stops it, and the callers of
  `state()`, with condition variables and time-outs;
* `stop()`, which shares the command registers with `update_w()` but not its mutex;
* registers that are polled at one rate and overwritten at another, where a sequence number is
  all that tells two commands apart;
* replies and data packages on one connection, of which a read takes the first and drops the
  rest, and recipes that change after they were registered;
* reads that take several packages at once, or a package and a half, into one buffer that
  still holds what was read before;
* a program that crashes and is started again, while the controller keeps its registers and
  goes on with the script of the program before;
* sends and reads that are cut anywhere, on a connection where nothing but the sizes of packages
  says where the next one begins;
* files, sends, reads and registrations that fail half-way through an operation, calls that are
  made again after that, and a connection that ends.

PROJECT.json lists these hazards at their lines, each with the properties that are about it or
the reason why none is.

## The modules

    FrameMailbox                        what state() promises: a mailbox with one place
         ^ implemented by
    RobotState  <- RobotStateProofs     Robot's threads, snapshot and life cycle
         | takes frames as promised by
    FrameReader                         what recv() promises about the order of frames
         ^ implemented by
    PackageStream <- PackageStreamProofs, PackageReaderProofs
                                        packages cut into reads, and what recv(), start()
                                        and stop() find in the buffer
    RtdeHandler <- RtdeHandlerProofs, RtdeValuesProofs
                                        requests and replies, recipes and their registration
         | outcomes of a registration as in
    RobotSetup <- RobotSetupProofs      init_output(), init_input() and the TCP_pose variants
    RobotCommands <- RobotCommandsProofs    commands, from the call to the script and back,
                                            with the restart of the program
    ScriptUpload <- ScriptUploadProofs  the script, from the file to the controller

`MCRobotState`, `MCRobotCommands`, `MCRtdeHandler`, `MCPackageStream` and `MCScriptUpload` are
instances for TLC; RobotSetup has a number as its only constant and is checked as it is.

### RobotState

Threads: any number of `Clients` that call `state()`, the `Owner` that initialises, starts and
stops, and the `Receiver` that `start_()` creates. `pc` says where each one is; the other
variables are members of `Robot` under their own names (`running`, `updated_state`,
`ur_state`, `out_initialized`), the members the output recipe parses into (`buf`), what
`state()` returned (`ret`), and the connection: the numbers of frames sent and taken, a PAUSE
under way to the controller (`pausing`) and an answer that lies unread (`replied`).

* `recv()` (robot.cpp:203-237) is `RecvAccept | RecvReject | RecvEof`, `ParseRest`,
  `PublishFirst`, `PublishRest`, `Notify`. Parsing happens without the mutex, publishing under
  it, and the notification after it was released. Two fields stand for all: each of the three
  copies (parse, publish, hand out) takes two steps, so a torn copy would show as
  `seqnr # jq`.
* `RTDE_Handler::recv()` appears by its outcome. A read takes one or more pending frames and
  only the oldest counts. `RecvReject` is everything that is not an accepted frame. `RecvEof`
  is the end of file: `recvfrom()` returns 0, which nobody takes for an error, and the frame
  before is parsed again. The constant `EofReplays` says whether that frame passes the size
  check: it does if it is shorter than 256 bytes, since `buffer_[0] = 0` only clears the high
  byte of its size. Robot's own frames are (208 bytes for `init_output()`).
* `run()` is `RunEntry`, `RunNotify`, `RunLoop`.
* `start_()` is `StartThread`, then the wait for `updated_state_` with its predicate first
  (`StartSeesUpdate`, `StartWaits`), its time-out (`StartExpires`) and its wake-up
  (`RunNotify`). The state "started" is an idle owner whose last `start()` returned true.
  `StartOverJoinable` is a second `start()` while a receiver exists: `std::terminate()`.
* `stop()` is `StopLowers`, `StopJoins`, `StopPauses`, `StopReads`, or `StopNotRunning`. PAUSE may
  fail to be sent, and then the controller goes on sending; if it is sent, `PauseArrives` is the
  controller's part, and `StopReads` blocks until there is something to read: the answer, or a
  part of a frame that was under way before it.
* `state(true)` is `StateNew`, or `StateWaits`, `StateExpires`, `StateGivesUp`; `state(false)`
  is `StateAsync`; the copy made by `loc_state()` is `CopyFirst` and `StateReturns`.
  `Robot_State`'s copy constructor omits `local_ts_us`, which therefore is `Junk`.
* A registration that fails in `init_output()` clears the recipe's fields but not its byte
  count; `sized` records that, and modules RtdeHandler and RobotSetup show why.

### RobotCommands

`m` holds the members the input recipe sends. `update_w()` and `calculate_q_ref()` are `Call`
(take the mutex, copy the argument), `ReadSeqnr` and `AssignSeqnr` (`in_seqnr = ++last_seqnr`
is a read and two writes), `AssignCommand`, `Send` or `SendFails`, `Reset`, and for a pose
`WaitSees` or `WaitExpires`. A second `calculate_q_ref()` waits like the first, although
robot.hpp:209-211 says that it does not: the future that `std::async` returns
(robot.cpp:350) is destroyed at once, and its destructor blocks. `stop()` goes through the same
steps without the mutex. A package carries what the members hold when it is sent. Every call
has a number, which is also its argument and the solution the inverse kinematics finds for it,
so that a mixed-up answer shows.

`SendFails` may leave the bytes of a short send on the connection (con.cpp:58-61); `stream` says
so ("short"), and says "torn" once more was sent behind them. From there on the controller does
not see where packages begin: nothing that is sent arrives as it is, and `DeliverGarbled` may
put a package nobody has sent (one of the constant `Garbles`) into the registers, which the
history variable `garbled` remembers. The library neither notices nor closes the connection, so
that this lasts until the program ends.

On the controller, `Deliver` overwrites the input registers. tcp_pose.script has three threads:
`ScriptLoop` is one iteration of the main loop, `SpeedTakes` and `SpeedStops` are the thread
that keeps the joints moving at `speed` until the script ends, and `InverseKinematics` is the
third. URScript runs what lies between two calls of `sync()` in one piece, and so do the
actions. `Sample` takes the output registers into a frame and `Publish` is what `recv()` makes
of it.

`Upload` stops the script that runs and `ScriptStarts` runs the new one, with its variables as
they are at first. A program may upload once more while it runs commands: the script that is
started over finds the latest command in the registers and executes it again (the history
variable `again`). `Restart` ends the
program at any point and begins the next one: its members are as the constructor made them, its
first package follows what was still under way, and the controller keeps its registers and its
script. Torn bytes end with the connection they were sent on. `earlier` remembers what the
programs before have sent. Since the script does not travel on the connection of the packages,
it may start before or after the first package has arrived; the history variable `clean` says
whether the package came first each time, because `ExecutedAsIssued` depends on it.

`Concurrent` says whether `stop()` may be called while another call is in progress.

### RobotSetup

Each of `init_output()`, `init_output_TCP_pose()`, `init_input()` and `init_input_TCP_pose()` is
one action: they hold the mutex throughout. `out` and `in` are the recipes, `outputs` and
`inputs` what the controller has accepted. The variables are added in groups, with the bytes of
all variables in them. A registration succeeds, or fails at any point before the controller has
accepted it; the package that follows the registration of an input recipe may also fail. The
output recipe refuses to be set up twice and is cleared after a failure (but for its byte count);
the input recipe does neither, so that its fields add up. `settled` says that the controller has
accepted its last setup. If one is refused behind one that was accepted, the flag stays up and
`update_w()` goes on returning true, for packages of the old id and twice the size, which the
controller drops; `CommandsTaken` excludes this by `settled`. `update_w()` and
`calculate_q_ref()` matter only for what they return and over which setup they send.
`connect_ur()` may bring up a connection that the constructor has not.

### RtdeHandler

`recipe[r]` holds a recipe's members, `out` and `recipes_in` are the handler's, `call` is the
request whose reply is awaited. `requests` and `stream` are the two directions of the connection.
A request is one action (`Request`), its reply another (`RegisterSucceeds`, `RegisterFails`,
`StartStopReplied`, `VersionReplied`, `ReadFails`); the controller acts in between. `Read` takes
any number of packages, of which only the first is looked at, and may leave a `Rest` of the
package behind them; `Read4` takes the four bytes of a START or PAUSE reply and may leave the
rest of a longer package behind. `RegisterSucceeds` is all of `register_recipe()` after the
reply: for an input recipe also the insertion into the map, which keeps an id that is taken, and
the first `send()`, which may fail.

A read may also end in the package it began with. `ReplyCut` is a reply that is refused for it,
`RegisterCut` one that passes because what is left of it has the types the recipe has, and
`RecvCut` a data package whose last tokens are parsed from what the buffer held before. A send
that fails leaves nothing or a `Part` of its package in `requests`; `TakeGarbled` is what the
controller makes of such a part with the packages behind it, which is not known. The history
variable `whole` is true until one of these happens; `quiet` is true as long as, moreover, every
request was alone on the connection and got its reply.

The value of a variable is its name. A payload is a set of variables with type and offset, and
`Found` says what is parsed at a token's place: a variable of the token's type that begins
there, or "garbage". Likewise for the registers of the controller.

`SetDir`, `AddField` and `ClearFields` change recipes between calls, also registered ones,
as the interface allows. The controller's actions are external. It lays out data packages by
the setup it accepted, refuses a setup with NOT_FOUND or IN_USE, starts only with an output
recipe, and may send a text message at any time.

When two input recipes have the same id, `Sent` picks either: the order of the handler's map is
that of a hash table. Two calls with undefined behaviour are excluded by guards: `recv()` before
an output recipe is registered (rtde_handler.cpp:160 dereferences `out`), and registering a
recipe without fields (rtde_recipe.cpp:56 pops from an empty string). A variable is always given
the storage of its name, and sizes stay below the 2000 bytes of a package.

`Validated` is the scan of a reply's type names, character by character, with the comparison
of the last name one character short (header.cpp:255-266); `TypeNamed` is
`data_name_to_type()`, which takes the first type that begins like the text. `ScanIsExact`
compares the scan with the plain list of types, for every reply of up to `MaxFields` of all the
types, and `NamesAreExact` says that `TypeNamed` gives each name its own type. They are
assumptions of RtdeHandler because the proofs use them: facts about constants, but no prover
knows strings as sequences of characters. TLC evaluates both when it starts, and
`LongScanIsExact` of MCRtdeHandler, the scan of longer replies than the run's recipes have.

### PackageStream

Here the connection is a sequence of units of four bytes, each of which says which package it
comes from. `Take` is `do_recv()`: up to the size of the buffer, what is there is copied into the
buffer over what was there before (`Filled`), with a terminating 0 behind it unless the buffer is
full. The unit behind the buffer (`Past`) is part of the model and must stay `Foreign`. `Recv` is
`RTDE_Handler::recv()`: what begins at the front of the buffer is parsed if it is a header of a
data package, and the rest is lost. `CallControl` and `ControlReplied` are `start()` and
`stop()`, which read four bytes, whatever they belong to.

`Chunks` says where a read ends: at the end of some package, or where the buffer is full. With
`Segments` it may also end inside a package. `EofReplays` is the constant of RobotState: at the
end of the connection nothing is read, and the 0 byte lands in the header of the frame before.
The payload of a data package is assumed never to look like a header.

### ScriptUpload

`files` may appear, vanish, be replaced and be written over at any time. `URX_Script` is the
variables `fname`, `parsed` (not initialised by the constructor), `script` and the file its
`read_file()` has `open`, for the one of the handler and for others that a program uses by
itself. `Named` and `GetScript` are its functions; `read_file()` is `OpenFile` and one `ReadPart`
for each part of the text and for the end of the file (the code reads line by line). A file that
is replaced or removed while it is open is read on as it was; one that is written over gives its
new text from there on, which the history variable `torn` remembers. `upload_script()` is
`UploadNames`, `UploadOpens`, `UploadReads` and `UploadSends`, with the files changing in
between. `Connect`, `Disconnect` and `DoSend` are `Con`: a send may be refused, or cut short with
its beginning already on the way. `wire` keeps what every descriptor was given.

### FrameMailbox and FrameReader

FrameMailbox: the newest frame, whether it is new, and what each caller got. `Publish` replaces
the frame by a newer one (with `Replays` also by itself), `FetchNew` hands out news once,
`FetchAgain` is a caller that does not insist on news, and `GiveUp` needs that there is none.

FrameReader: the frames that were sent, those that were touched, and the one parsed last.
`Accept` parses the oldest untouched frame and may take others with it; `Lose` touches frames
without parsing any. RobotState's `RecvAccept` and `RecvReject` are these steps.

## The runs

| run | properties | shows |
|---|---|---|
| state_safety | `TypeOK`, `NoTornState`, `ReceiverLifecycle`, `MailboxSpec` | snapshots are whole; the receiver is started, stopped and joined in order; `RobotState` implements `FrameMailbox` |
| state_live | `StopReturns`, `NoLostWakeup`, `CallsReturn` | `stop()` returns while the controller streams or is gone; no wake-up is lost; every call returns |
| commands_safety | `TypeOK`, `SentAsRequested`, `DistinctSeqnrs`, `ExecutedAsIssued`, `ReferenceOfSeqnr`, `MotionFollowsCommands` | what is sent was asked for, the script executes it at most once and in order, the joints go as they were told last, answers belong to their questions, also when the program is started again or its script is uploaded again, up to what is sent behind a cut send |
| commands_live | `LaterCalculationsAnswered`, `SpeedReached`, `CommandEchoed`, `StopReachesScript` | from the second command on, what is not superseded takes effect: a pose is answered, a speed is reached, a number comes back, a stop ends the script |
| rtde_safety | `TypeOK`, `WholeValues`, `RightVariables`, `RegisteredIsAccepted`, `StartConfirmed`, `RegistrationConfirmed` | as long as nothing is cut, no value is put together from bytes of two variables; while requests keep to themselves, every variable ends up where it belongs and calls return what the controller answered |
| stream_safety | `TypeOK`, `WholeFrames`, `Resynchronises`, `ReaderSpec` | when reads end between packages, what is parsed is one whole frame and the oldest untouched one; a receiver that fell behind finds its place again; `PackageStream` implements `FrameReader` |
| script_safety | `TypeOK`, `ScriptOfFile`, `CutIsReported`, `UploadedAsRead` | a script that is reported as uploaded is one text its file has held, whole, or made of such texts in order if the file was written over while it was read; a cut script is reported |
| setup_safety | `TypeOK`, `OutputRetryable`, `FramesAccepted`, `CommandsTaken` | after any failures, the output recipe can be set up again, and what both ends expect of each other agrees |
| commands_race | `SentAsRequested` | violated when `stop()` runs beside `update_w()` |
| commands_first | `CalculationTriggered` | violated: the first command has the number of the initial package |
| rtde_clear | `RegisteredDelivers` | violated: a cleared recipe expects too many bytes |
| stream_cut | `WholeFrames` | violated when a read ends inside a package: the frame is completed from an earlier read |

Each violated property quotes a comment, a document or a test; PROJECT.json has the quotations
under "findings". Every property that holds has a mutant: an operator next to the one it
replaces, with a plausible mistake in it (the lock left out, the flag left up, a size not
compared), and with the mutant in place TLC finds the property violated.

The models contain more that a reader of the code may not expect. No run states it, since it
contradicts no promise, or one whose violation can be seen from a single line; the hazards in
PROJECT.json name the lines:

* `start_()` is satisfied by an update from before, as nothing resets `updated_state_`.
* At the end of the connection the last frame is parsed again and published as a new one.
* `local_ts_us` is not copied with the snapshot.
* A wait for the reference that timed out raises `q_ref_initialized_` all the same.
* A program that is started again may take the answer to an earlier program's question for its
  own: the numbers begin at 1 again.
* `calculate_q_ref()` after `init_input()` returns true although the recipe has no pose.
* `init_output_TCP_pose()` after `init_output()` does nothing and returns true.
* A reader that takes two frames at once keeps the older one.
* After an input setup that was accepted and one that was refused, `update_w()` returns true for
  packages that the controller drops.
* Behind the bytes of a cut send, and after a read that ended inside a package, values and
  commands may be anything.
* A file that is written over while it is read is uploaded as a mixture.

### Bounds

* RobotState: two clients and three frames. A tear needs a copy and one more frame, a
  hand-out twice needs two clients, and an old frame after a new one needs two frames. Two
  frames may be pending, so that a read loses one. The client symmetry is used for safety only.
  The liveness run has one frame, which two clients and `start()` wait for at the same time: the
  first to be woken takes it, the others must not sleep for good. It has no symmetry and no
  replays: replays at the end of the connection would go on for ever and satisfy the waits.
* RobotCommands: two callers, two calls in a program and one restart or second upload, three
  packages under way, and one garbled package: a speed under a number that was not given yet.
  Mixing two commands up needs two callers; a restart may come at any point of the second
  call, with the packages of both still on the wire. The first command shares its number with
  the initial package, so that the liveness run is about the second one: two callers with one
  call each, in either order, or one with both, three packages under way and neither a restart nor
  a second upload.
  `stop()` is not counted among the calls, and its command may overtake theirs on the
  registers. The two violations need one caller and one call.
* RtdeHandler: two recipes of up to two fields, three names (two outputs of the same type, so
  that one could be taken for the other, and an input) of eight bytes each, at most 16 bytes
  per recipe, two packages in each direction, and three requests and faults together
  (`MaxCalls` counts both; a fault is a send or a read that fails or is cut, or a text message).
  Three requests register, start and register again, or register two recipes and start. Recipe
  symmetry is sound, as no action tells recipes apart.
* PackageStream: a frame of four units, a text of two, a buffer of two and a half frames, so
  that the buffer cuts a frame in the middle and a START reply cuts another after its header;
  eight packages and two calls, which is more than the buffer holds twice. For the violation a
  buffer of less than two frames and four packages are enough.
* ScriptUpload: two files, two texts (besides an absent and an empty file) of two parts, a second
  `URX_Script`, two sockets and two uploads: one of each could not be confused with another. One
  change, which may come between any two steps of either upload, and the files may differ from
  the start.
* RobotSetup: five calls. Two failures, a success and two commands fit in, and every fact that
  the code forgets or keeps after a failure shows in the third call.

Deadlock is checked in state_safety, state_live, stream_safety, stream_cut and script_safety,
where the program never has to stop (a program that was terminated, or a connection that has
ended, stutters by an action of its own). In the other runs the bounds end the behaviour: all
calls have been made and all packages delivered.

### Fairness

* A thread that is inside a call goes on (weak fairness per thread): the operating system
  schedules it. A thread that wants the mutex eventually gets it (strong fairness of the
  actions that take it), as others take and release it infinitely often. C++ does not promise
  that a mutex is fair, but the holders of this one sleep in a read of the socket between
  their turns.
* A read returns while the controller streams or the connection is closed. Nothing else makes
  the receiver's read return: `stop()` on a silent connection blocks for good, which is why
  `StopReturns` has its premise. A PAUSE that was sent arrives (`PauseArrives`), so that the read of
  its answer returns.
* Nobody has to make a call, and the controller does not have to send.
* Time-outs are not part of `FairSpec`. `WaitsExpire` is a premise of `CallsReturn` only, so
  that the other properties hold without leaning on a time-out.
* RobotCommands: the connection delivers what was sent (`Deliver`), the controller starts an
  uploaded script (`ScriptStarts`) and runs its three threads (`ScriptLoop`, `SpeedTakes`,
  `SpeedStops`, `InverseKinematics`), and frames are sampled and received (`Sample`,
  `Publish`). Nobody has to upload, to send without fail, or to be restarted, and waits do not
  have to expire. Three premises are in the properties: that the script was uploaded, that the
  command in question is not superseded, and that no send was cut short. A script that polls more
  slowly than commands arrive may miss all of them.

The other modules have no fairness. What they promise is safety, and their environment (files,
sends and packages that may all fail) owes them nothing.

## What is proved

The proofs hold for every value of the constants, with the assumptions that the modules name.
For each of them an invariant was strengthened until it was inductive, checked with TLC, and
then proved with one step per action. Every type invariant, safety invariant, action property
and refinement that a passing run checks is a theorem.

### RobotStateProofs

For every set of clients, every number of frames, with replays or without (from
`ThreadsAssumption`, that the threads differ, and `BoundsAssumption`):

* `TypeCorrect`: `Spec => []TypeOK`;
* `NeverTorn`: `Spec => []NoTornState`;
* `LifecycleCorrect`: `Spec => []ReceiverLifecycle`;
* `ImplementsMailbox`: `Spec => MailboxSpec`, the refinement of FrameMailbox.

None of the three invariants is inductive alone. The inductive one is
`IInv == TypeOK /\ OneWriter /\ Lifecycle /\ Buffers /\ Returned`:

* `OneWriter`: the owner is inside `recv()` only while there is no receiver. `recv()` parses
  without the mutex, so this is what keeps two parsers out of the buffers.
* `Lifecycle`: the receiver is in its loop exactly while `running_` is up or `stop()` waits to
  join it. `ReceiverLifecycle` follows.
* `Buffers`: the buffers are mixed only while somebody parses, the snapshot only while
  somebody publishes, and then it holds the buffers' frame.
* `Returned`: what a client got so far belongs to one frame, or is being copied from the
  snapshot, which nobody changes while the client holds the mutex.

`Inductive` combines one lemma per part, each with a step per action. The refinement needs
one thing more, `NewerFrames`: between parsing and publishing, the buffers hold a frame newer
than the published one (or the same, at the end of a connection that replays). Then every step
of RobotState is a `Publish`, `FetchNew`, `FetchAgain`, `GiveUp` or a stutter (`MailboxStep`).

### RobotCommandsProofs

For any number of callers, calls, restarts and packages:

* `SentCorrect` (`SentAsRequested`) and `NumbersDistinct` (`DistinctSeqnrs`), if `stop()` is not
  called beside another call (`~Concurrent`; commands_race shows that this is needed). `Issuing`
  says that one thread at a time is between taking the mutex and releasing it, and what the
  members hold at each of its steps.
* `ReferenceCorrect` (`ReferenceOfSeqnr`), with `stop()` at any time: `Sourced` follows an
  answer back through frame, registers, script and wire to the command that asked for it. It
  holds until the controller has taken a garbled package (`~garbled`).
* `ExecutionCorrect` (`ExecutedAsIssued`), if `~Concurrent`: `InOrder` says that the numbers
  ascend from the wire back to what was executed, and that a package without a command is only
  ever the first of a program; `Execution` says what the script has executed so far in terms of
  the registers. Both hold until the connection is torn, which it stays (`OrderTorn`); the order is
  strict but for the command a second upload finds in the registers (`again`).
* `MotionCorrect` (`MotionFollowsCommands`), with `stop()` at any time: `Motion` says that what
  the speed thread has not taken yet is the latest control input executed, and that it is no
  speed at all once the script is to end.
* `TypesKept` (`TypeOK`), with `stop()` at any time. The bounds of the counters are what is hard
  in it: two threads that increment `last_seqnr` without a common mutex may lose an increment,
  or write back an old value. `Counting` bounds it by the calls that have taken their number,
  and one more if `stop()` has.

### RobotSetupProofs

For any number of calls: `SetupRetryable` (`OutputRetryable`), `FramesCompared`
(`FramesAccepted`), `CommandsAccepted` (`CommandsTaken`) and `TypesKept` (`TypeOK`).
`IInv` adds to the properties that an output recipe that is not set up has no fields, and no
bytes unless a setup was refused (`Untouched`), and that the input recipe counts the bytes of its
fields, however often they were added (`Counted`). The bytes of a setup are stated by cardinalities
of sets of positions, so that the lemma about appending a group needs no induction.

### RtdeHandlerProofs

For any recipes, names and bounds, as long as every request is alone on the connection
(`quiet`, the premise of both properties):

* `RegistrationsAccepted` (`RegisteredIsAccepted`): the recipes that are active or registered
  have the ids of setups the controller accepted, each its own;
* `StartsConfirmed` (`StartConfirmed`): `start()` returns true if and only if data flows.

Both rest on `Exchange`: while a reply is awaited, there is either the request, alone and with
nothing to be read, or the reply in front of all else. `Ids` adds that numbers of setups are
never given twice, and `RefusalSeen` that a reply which names a refused variable is never taken
for the types of the recipe.

### RtdeValuesProofs

For any recipes, names and bounds:

* `TypesKept` (`TypeOK`), whatever is lost or cut (`Typing`);
* `ValuesAreWhole` (`WholeValues`), as long as nothing is cut (`whole`). Replies, data packages and
  texts may still be taken for one another, and sends and reads may fail. The premise is needed:
  stream_cut shows what a read that ends inside a package does.

As long as every request is alone on the connection and gets its whole reply (`quiet`):

* `VariablesAreRight` (`RightVariables`) and `RegistrationsConfirmed` (`RegistrationConfirmed`).

`WholeValues` compares what is parsed with places in a payload, while the code only compares an
id and a number of bytes. Why that is enough takes the whole life of a recipe.
`ValuesInv == AllTypes /\ Laid /\ Numbers /\ Replies /\ Values /\ WholeStores`:

* `Laid`: the fields lie one after the other behind the bytes of fields that were cleared
  (`Base`).
* `Numbers`: ids are given and answered in order, and each is taken by one recipe.
* `Replies`: a setup reply and a data package belong to a setup the controller has accepted.
* `Values`: a recipe that has the id of an accepted setup counts at least its bytes, and if it
  counts exactly those, its fields have places of the setup. So a field added after the
  registration, or left over from before `clear_fields()`, makes the sizes differ. This is
  where the reply is confused with another one: the types in it are those of the other setup,
  but they are compared with the recipe's, and equal types have equal places.

`RightInv` adds that as long as `quiet` holds the two have the same variables at these places:
`AnswerRight` that the reply awaited is one to the recipe's own fields, `RightRecipes`,
`RightRequests` and `RightStores` that recipes, packages and stores inherit it.

Sizes and offsets are sums over the fields. `ByteSizeSum` turns the fold of the model into a
sum given by its steps, and `SizeAscends` and the others about sums are shown with
`SetInduction`: a set of numbers with 0 and the successor of each of its elements has all of
them, since a set without a least element is empty (`LeastElement`, from the well-foundedness of
`<`). That is induction for a set, where the library's theorem takes an operator.
`RegistrationsConfirmed` uses `NamesAreExact` and `ScanIsExact`.

### PackageStreamProofs and PackageReaderProofs

`FramesWhole` (`WholeFrames`), for frames, texts and buffers of any size, if reads end between
packages or at a full buffer (`~Segments`; stream_cut shows that this is needed). `HeadersLead`
says that on the connection a header is followed by its payload, up to the end of what was
sent; `BufferLeads` that this is also true of the buffer once the connection is empty, when
the end of file has the buffer parsed again.

`ImplementsReader` (`ReaderSpec`), under the same condition: PackageStream implements
FrameReader. `Ordered` says that a header on the connection belongs to the frame with the number
sent less the headers behind it, so that taking the first one is taking the oldest frame of
which nothing was touched; the headers are counted as the cardinality of the set of their
places. `Repeats` says whose header the buffer holds at the end of the connection.

`FindsItsPlace` (`Resynchronises`), under the same condition: a receiver that fell behind, so
that a full buffer cut a frame, rejects less than `FrameUnits \div Stride` reads in a row, where
`Stride` is the greatest number of units that divides frame and buffer. `Chained` says that the
data packages on the connection follow each other whole, `Shifted` that every rejected read has
moved the place of the cut by `BufferUnits`, modulo a frame. After `FrameUnits \div Stride` reads
that is a multiple of a frame, and the cut is gone (`Round`).

`TypesKept` (`TypeOK`) needs no condition on the reads: what lies behind the buffer stays as it is,
wherever they end.

### ScriptUploadProofs

For any files, texts and connections: `TypeCorrect`, `ScriptCorrect` (`ScriptOfFile`),
`CutsReported` (`CutIsReported`) and `UploadCorrect` (the action property `UploadedAsRead`).
`Underway` adds what `upload_script()` knows between its steps: which parts of which texts the
handler's script has so far, that they are those of one text unless the file was written over
meanwhile, and that it is not empty once it is to be sent.

## What is only model-checked

* The liveness properties, which TLAPS cannot prove, since it does not handle fairness and
  ENABLED: `StopReturns`, `NoLostWakeup` and `CallsReturn` of RobotState;
  `LaterCalculationsAnswered`, `SpeedReached`, `CommandEchoed` and `StopReachesScript` of
  RobotCommands.
* The facts about strings, `NamesAreExact` and `ScanIsExact`: TLC evaluates them for replies of
  up to three types, the proofs assume the second for replies of up to `MaxFields`.

## What is not modelled

* Content of no consequence to the properties: byte order, floating-point conversion, logging,
  the wording of messages, the content of the version packages.
* `start_rr()`'s call of the scheduler, the time stamps of reads and `track_ts_ns()`.
* The time log `ts_log`, which only `state(true)` empties: nothing else depends on it.
* Name resolution and the options of the socket in `do_connect()`.
* The stream of packages and the requests are not in one state space: PackageStream has the
  START and PAUSE replies, the only ones that are read while frames flow, and the bytes a cut
  leaves in the buffer; RtdeHandler has the requests, with cuts whose bytes are "garbage". A
  connection that ends is in PackageStream and RobotState. RobotState takes the outcomes of a
  read from what FrameReader allows; RobotCommands takes those of sends and registrations.
* In RtdeHandler no package is cut within its first four bytes, and no rest of one looks like the
  beginning of another; PackageStream assumes the second, too. In RobotCommands torn bytes that
  the controller has not read when the connection is closed are dropped.
* `running_` and `q_ref_initialized_` are `std::atomic<bool>`, and are modelled as such.
  `updated_state_` is a plain `bool`; all its accesses are under the mutex.
* The scripts besides tcp_pose.script: the library does not depend on what they do. The tools,
  tests and mocks were read for how they use the library and what they expect of it. `URX_Con`
  is dead code.

## The plan

What would add most from here:

1. RobotState over PackageStream: the receiver's reads in place of their outcomes, with
   FrameReader as the interface in both directions.
2. RobotSetup over RtdeHandler: the setups over requests and replies, where a text message or a
   frame may take the place of a reply.
3. RobotCommands over RtdeHandler and ScriptUpload: the commands over recipes that are registered
   again, and the script over a file that changes.
