---------------------------- MODULE ScriptUpload ----------------------------
(***************************************************************************)
(* How a script gets from a file to the robot controller: URX_Script       *)
(* (src/urx_script.cpp), URX_Handler::upload_script()                      *)
(* (src/urx_handler.cpp) and the connection it is sent on (src/con.cpp).   *)
(*                                                                         *)
(* Files appear, vanish and change while they are looked up and read: a    *)
(* file is replaced, so that whoever has it open still reads the old text, *)
(* or written over in place.  A script is the sequence of the parts it was *)
(* put together from, each with the text and the file it was read from and *)
(* whether its line ends and tabs were replaced.                           *)
(***************************************************************************)
EXTENDS Integers, Sequences, SequencesExt

CONSTANTS Files,       \* names of files
          NoName,      \* the empty file name
          Texts,       \* what a file may hold
          Absent,      \* a file that does not exist
          Empty,       \* a file without a line
          Parts,       \* the parts a text is read in
          Closed,      \* no file is open
          Here,        \* the open file is the one its name leads to
          Handler,     \* the URX_Script of the handler
          Others,      \* URX_Scripts that are used by themselves
          MaxChanges,  \* bound: changes of files
          MaxSockets,  \* bound: descriptors that are opened
          MaxUploads   \* bound: calls of upload_script()

ASSUME UploadAssumption ==
    /\ NoName \notin Files
    /\ {Absent, Empty, Closed, Here} \cap Texts = {}
    /\ Absent # Empty /\ Closed # Here /\ Empty \notin {Closed, Here}
    /\ Parts \in Nat \ {0}
    /\ Handler \notin Others
    /\ {MaxChanges, MaxSockets, MaxUploads} \subseteq Nat

Scripts  == Others \cup {Handler}
NoSocket == -1

VARIABLES
    files,      \* what the files hold
    changes,    \* changes so far
    fname,      \* fname_ of every URX_Script
    parsed,     \* its parsed_
    script,     \* its script_
    open,       \* the file its read_file() has open, or the text that file held
                \* when it was replaced
    connected,  \* connected_
    sock,       \* sock_
    opened,     \* descriptors 1..opened are open: none is ever closed
    wire,       \* what was sent on the descriptors
    call,       \* where upload_script() is
    uploads,    \* calls of it so far
    held,       \* history: what the file it reads has held since it began
    torn,       \* history: the file was written over while it was read
    failed      \* history: descriptors on which an upload was reported as failed

urxscript  == <<fname, parsed, script, open>>
connection == <<connected, sock, opened, wire>>
upload     == <<call, uploads, held, torn, failed>>
vars == <<files, changes, fname, parsed, script, open, connected, sock, opened, wire, call,
          uploads, held, torn, failed>>

\* parsed_ is not initialised.
Init ==
    /\ files \in [Files -> Texts \cup {Absent, Empty}]
    /\ changes = 0
    /\ fname = [o \in Scripts |-> NoName]
    /\ parsed \in [Scripts -> BOOLEAN]
    /\ script = [o \in Scripts |-> << >>]
    /\ open = [o \in Scripts |-> Closed]
    /\ connected = FALSE
    /\ sock = NoSocket
    /\ opened = 0
    /\ wire = [s \in 1 .. MaxSockets |-> << >>]
    /\ call = "none"
    /\ uploads = 0
    /\ held = {}
    /\ torn = FALSE
    /\ failed = {}

-----------------------------------------------------------------------------
(* The files. *)

\* Whoever has file f open reads on in the text it held when it was replaced.
FileChanges ==
    /\ changes < MaxChanges
    /\ changes' = changes + 1
    /\ \E f \in Files, to \in Texts \cup {Absent, Empty}, inPlace \in BOOLEAN :
          /\ to # files[f]
          /\ inPlace => Absent \notin {to, files[f]}
          /\ files' = [files EXCEPT ![f] = to]
          /\ open' = [o \in Scripts |-> IF ~inPlace /\ fname[o] = f /\ open[o] = Here
                                        THEN files[f] ELSE open[o]]
          /\ held' = IF call # "none" /\ fname[Handler] = f THEN held \cup {to} ELSE held
          /\ torn' = (torn \/ (inPlace /\ fname[Handler] = f /\ open[Handler] = Here))
    /\ UNCHANGED <<fname, parsed, script, connection, call, uploads, failed>>

-----------------------------------------------------------------------------
(* URX_Script, used by its owner o. *)

\* The mutant keeps what was parsed.
Named_Kept(o, f) ==
    /\ files[f] # Absent
    /\ fname' = [fname EXCEPT ![o] = f]
    /\ UNCHANGED <<parsed, script, open>>

\* set_script() returns true; it changes nothing when it returns false.
Named(o, f) ==
    /\ files[f] # Absent
    /\ fname' = [fname EXCEPT ![o] = f]
    /\ parsed' = [parsed EXCEPT ![o] = FALSE]
    /\ UNCHANGED <<script, open>>

\* The mutant keeps what was read before.
OpenFile_Keeps(o) ==
    /\ open' = [open EXCEPT ![o] = IF files[fname[o]] = Absent THEN Closed ELSE Here]
    /\ UNCHANGED <<fname, parsed, script>>

\* read_file() empties the script before it opens the file, which fails if the
\* file has gone.
OpenFile(o) ==
    /\ script' = [script EXCEPT ![o] = << >>]
    /\ open' = [open EXCEPT ![o] = IF files[fname[o]] = Absent THEN Closed ELSE Here]
    /\ UNCHANGED <<fname, parsed>>

\* What is in the file that is open; the part that comes next, if there is one; and
\* the end of the file, where read_file() returns whether it read something: it never
\* lowers parsed_.
Opened(o) == IF open[o] = Here THEN files[fname[o]] ELSE open[o]
Part(text, n, f) == [text |-> text, part |-> n, file |-> f, formatted |-> FALSE]
AtEnd(o) == Opened(o) = Empty \/ Len(script[o]) = Parts

ReadPart(o) ==
    /\ script' = [script EXCEPT ![o] = IF AtEnd(o) THEN @
                      ELSE Append(@, Part(Opened(o), Len(@) + 1, fname[o]))]
    /\ parsed' = [parsed EXCEPT ![o] = @ \/ (AtEnd(o) /\ script[o] # << >>)]
    /\ open' = [open EXCEPT ![o] = IF AtEnd(o) THEN Closed ELSE @]
    /\ UNCHANGED fname

\* get_script() formats the script where it is.  It throws, and changes nothing,
\* if nothing is parsed.
Formatted(s) == [i \in DOMAIN s |-> [s[i] EXCEPT !.formatted = TRUE]]
GetScript(o) ==
    /\ parsed[o]
    /\ script' = [script EXCEPT ![o] = Formatted(@)]
    /\ UNCHANGED <<fname, parsed, open>>

\* read_script() is these, one after the other, until one of them fails.
ScriptCall(o) ==
    /\ \/ /\ open[o] = Closed
          /\ \/ \E f \in Files : Named(o, f)
             \/ fname[o] # NoName /\ OpenFile(o)
             \/ GetScript(o)
       \/ open[o] # Closed /\ ReadPart(o)
    /\ UNCHANGED <<files, changes, connection, upload>>

-----------------------------------------------------------------------------
(* Con. *)

\* do_connect(): socket(), or connect() on the new descriptor, may fail; the
\* descriptor stays open.
Connect ==
    /\ call = "none"
    /\ ~connected
    /\ \/ sock' = NoSocket /\ UNCHANGED <<connected, opened>>
       \/ /\ opened < MaxSockets
          /\ opened' = opened + 1
          /\ sock' = opened'
          /\ connected' \in BOOLEAN
    /\ UNCHANGED <<files, changes, urxscript, wire, upload>>

\* The mutant leaves the flag up.
Disconnect_StillUp ==
    /\ call = "none"
    /\ connected
    /\ sock' = NoSocket
    /\ UNCHANGED <<files, changes, urxscript, connected, opened, wire, upload>>

Disconnect ==
    /\ call = "none"
    /\ connected
    /\ connected' = FALSE
    /\ sock' = NoSocket
    /\ UNCHANGED <<files, changes, urxscript, opened, wire, upload>>

\* What do_send() does to the connection, and whether it succeeds: send() fails,
\* takes the beginning of the data, or all of it.
Sends(data) == [wire EXCEPT ![sock] = Append(@, data)]

\* The mutant takes a short send for a success.
DoSend_Short(s, ok) ==
    \/ ~ok /\ UNCHANGED wire
    \/ ok /\ connected /\ \E whole \in BOOLEAN : wire' = Sends([script |-> s, whole |-> whole])

DoSend(s, ok) ==
    \/ ~ok /\ UNCHANGED wire
    \/ connected /\ wire' = Sends([script |-> s, whole |-> ok])

-----------------------------------------------------------------------------
(* URX_Handler::upload_script(). *)

\* A set_script() that returns false ends the call at once.
UploadNames(f) ==
    /\ call = "none"
    /\ uploads < MaxUploads
    /\ uploads' = uploads + 1
    /\ Named(Handler, f)
    /\ call' = "open"
    /\ held' = {files[f]}
    /\ torn' = FALSE
    /\ UNCHANGED <<files, changes, connection, failed>>

UploadOpens ==
    /\ call = "open"
    /\ OpenFile(Handler)
    /\ call' = IF open'[Handler] = Closed THEN "none" ELSE "read"
    /\ UNCHANGED <<files, changes, connection, uploads, held, torn, failed>>

UploadReads ==
    /\ call = "read"
    /\ ReadPart(Handler)
    /\ call' = IF open'[Handler] # Closed THEN "read"
               ELSE IF script'[Handler] # << >> THEN "send" ELSE "none"
    /\ UNCHANGED <<files, changes, connection, uploads, held, torn, failed>>

\* get_script() and do_send(); ok is what upload_script() returns.
UploadSends(ok) ==
    /\ call = "send"
    /\ GetScript(Handler)
    /\ DoSend(script'[Handler], ok)
    /\ call' = "none"
    /\ failed' = IF ok THEN failed ELSE failed \cup {sock}
    /\ UNCHANGED <<files, changes, connected, sock, opened, uploads, held, torn>>

-----------------------------------------------------------------------------

Next == \/ FileChanges
        \/ \E o \in Others : ScriptCall(o)
        \/ Connect \/ Disconnect
        \/ \E f \in Files : UploadNames(f)
        \/ UploadOpens \/ UploadReads
        \/ \E ok \in BOOLEAN : UploadSends(ok)

Spec == Init /\ [][Next]_vars

-----------------------------------------------------------------------------
(* Properties. *)

Piece == [text : Texts, part : 1 .. Parts, file : Files, formatted : BOOLEAN]

(* The variables keep their types, and connected_ is up only while sock_ is *)
(* a descriptor that was opened for this connection (con.cpp:15-51).        *)
TypeOK ==
    /\ files \in [Files -> Texts \cup {Absent, Empty}]
    /\ fname \in [Scripts -> Files \cup {NoName}]
    /\ parsed \in [Scripts -> BOOLEAN]
    /\ script \in [Scripts -> Seq(Piece)]
    /\ open \in [Scripts -> Texts \cup {Empty, Closed, Here}]
    /\ connected \in BOOLEAN
    /\ opened \in 0 .. MaxSockets
    /\ sock \in (1 .. opened) \cup {NoSocket}
    /\ connected => sock # NoSocket
    /\ wire \in [1 .. MaxSockets -> Seq([script : Seq(Piece), whole : BOOLEAN])]
    /\ \A s \in 1 .. MaxSockets : s > opened => wire[s] = << >>
    /\ call \in {"none", "open", "read", "send"}
    /\ changes \in 0 .. MaxChanges
    /\ uploads \in 0 .. MaxUploads
    /\ held \subseteq Texts \cup {Absent, Empty}
    /\ torn \in BOOLEAN
    /\ failed \subseteq 1 .. MaxSockets \cup {NoSocket}

(* set_script() "will invalidate all prior parsed scripts"                  *)
(* (urx_script.hpp:43-50): whatever the files did, and in whatever order    *)
(* the calls came, get_script() hands out no text of another file than the  *)
(* one that is set.  (It may hand out nothing: parsed_ is not initialised,  *)
(* and stays up when a file that was read has gone.)                        *)
ScriptOfFile ==
    \A o \in Scripts : parsed[o] => \A i \in DOMAIN script[o] : script[o][i].file = fname[o]

Pieces(text, f) == [n \in 1 .. Parts |-> Part(text, n, f)]

(* When upload_script() returns true, the last thing on the connection is a *)
(* script, whole and formatted, whose parts, in their order, the file it    *)
(* was asked for has held since the call began, although the file may have  *)
(* changed after it was looked up, between two lines, and after it was read *)
(* (urx_handler.cpp:10-24, urx_script.cpp:43-45).  Unless the file was      *)
(* written over while it was read, they are one whole text that the file    *)
(* has held: a file that is replaced does no harm.                          *)
UploadedAsRead ==
    [][UploadSends(TRUE) =>
          LET sent == Last(wire'[sock])
          IN  /\ sent.whole /\ sent.script # << >>
              /\ \A n \in DOMAIN sent.script :
                    \E text \in held \ {Absent, Empty} :
                        sent.script[n] = [Part(text, n, fname[Handler]) EXCEPT !.formatted = TRUE]
              /\ ~torn => \E text \in held \ {Absent, Empty} :
                              sent.script = Formatted(Pieces(text, fname[Handler]))]_vars

(* As long as every upload on a connection was reported as successful, or   *)
(* ended before its script was sent, the controller gets nothing but whole  *)
(* scripts (con.cpp:53-64).  After a failure the beginning of a script may  *)
(* lie in front of the next one.                                            *)
CutIsReported ==
    \A s \in 1 .. MaxSockets \ failed : \A i \in DOMAIN wire[s] : wire[s][i].whole
=============================================================================
