-------------------------- MODULE ScriptUploadProofs --------------------------
(***************************************************************************)
(* What holds of ScriptUpload for every set of files, texts and scripts,   *)
(* and any number of changes, connections and uploads.                     *)
(***************************************************************************)
EXTENDS ScriptUpload, TLAPS

Sendings == Seq([script : Seq(Piece), whole : BOOLEAN])

\* The types, as far as the proofs need them.
FileTypes == /\ files \in [Files -> Texts \cup {Absent, Empty}]
             /\ call \in {"none", "open", "read", "send"}
             /\ torn \in BOOLEAN
             /\ fname \in [Scripts -> Files \cup {NoName}]
             /\ call # "none" => fname[Handler] \in Files

ScriptTypes == /\ parsed \in [Scripts -> BOOLEAN]
               /\ script \in [Scripts -> Seq(Piece)]
               /\ open \in [Scripts -> Texts \cup {Empty, Closed, Here}]

WireTypes == /\ opened \in 0 .. MaxSockets
             /\ sock \in (1 .. opened) \cup {NoSocket}
             /\ connected \in BOOLEAN
             /\ connected => sock # NoSocket
             /\ wire \in [1 .. MaxSockets -> Sendings]

Types == FileTypes /\ ScriptTypes /\ WireTypes

\* What a script that is read holds: no more than the parts of a text, all of its
\* file; and the open file is there.
Reading ==
    \A o \in Scripts :
        open[o] # Closed => /\ fname[o] \in Files
                            /\ Len(script[o]) <= Parts
                            /\ \A i \in DOMAIN script[o] : script[o][i].file = fname[o]
                            /\ open[o] = Here => files[fname[o]] # Absent

\* What the upload under way has read the file has held since it began, and it is of
\* one text unless the file was written over.
PartHeld(n) ==
    \E text \in held \ {Absent, Empty} : script[Handler][n] = Part(text, n, fname[Handler])

Underway ==
    /\ call # "none" => files[fname[Handler]] \in held
    /\ call \in {"none", "open", "send"} <=> open[Handler] = Closed
    /\ call = "read" => Opened(Handler) \in held
    /\ call \in {"read", "send"} => \A n \in DOMAIN script[Handler] : PartHeld(n)
    /\ call = "read" /\ ~torn =>
           \A n \in DOMAIN script[Handler] :
               script[Handler][n] = Part(Opened(Handler), n, fname[Handler])
    /\ call = "send" => script[Handler] # << >>
    /\ call = "send" /\ ~torn =>
           \E text \in held \ {Absent, Empty} : script[Handler] = Pieces(text, fname[Handler])

IInv == Types /\ Reading /\ ScriptOfFile /\ CutIsReported /\ Underway

-----------------------------------------------------------------------------
(* The helpers. *)

\* A part is a piece with these fields.
LEMMA PartFields ==
    ASSUME NEW text \in Texts, NEW n \in 1 .. Parts, NEW f \in Files
    PROVE  Part(text, n, f) \in Piece /\ Part(text, n, f).file = f
  BY DEF Part, Piece

\* A file that is open holds a text, or nothing.
LEMMA OpenedText ==
    ASSUME Types, Reading, NEW o \in Scripts, open[o] # Closed
    PROVE  Opened(o) \in Texts \cup {Empty}
<1>1. CASE open[o] = Here
  <2>1. files[fname[o]] \in Texts \cup {Absent, Empty} /\ files[fname[o]] # Absent
    BY <1>1 DEF Types, FileTypes, Reading
  <2> QED
    BY <1>1, <2>1 DEF Opened
<1>2. CASE open[o] # Here
  <2>1. open[o] \in Texts \cup {Empty}
    BY <1>2 DEF Types, ScriptTypes
  <2> QED
    BY <1>2, <2>1 DEF Opened
<1> QED
  BY <1>1, <1>2

\* Reading on puts the next part behind what was read.
LEMMA PartAppended ==
    ASSUME Types, Reading, NEW o \in Scripts, open[o] # Closed, ~AtEnd(o),
           NEW new, new = Append(script[o], Part(Opened(o), Len(script[o]) + 1, fname[o]))
    PROVE  /\ Opened(o) \in Texts
           /\ new \in Seq(Piece) /\ Len(new) = Len(script[o]) + 1 /\ Len(new) <= Parts
           /\ \A n \in DOMAIN script[o] : new[n] = script[o][n]
           /\ new[Len(new)] = Part(Opened(o), Len(new), fname[o])
           /\ new[Len(new)].file = fname[o]
<1>1. Opened(o) \in Texts
  BY OpenedText DEF AtEnd
<1>2. script[o] \in Seq(Piece)
  BY DEF Types, ScriptTypes
<1>3. Len(script[o]) <= Parts /\ Len(script[o]) # Parts /\ fname[o] \in Files
  BY DEF Reading, AtEnd
<1>4. Len(script[o]) + 1 \in 1 .. Parts
  BY <1>2, <1>3, UploadAssumption
<1> DEFINE x == Part(Opened(o), Len(script[o]) + 1, fname[o])
<1>5. x \in Piece /\ x.file = fname[o]
  BY <1>1, <1>3, <1>4, PartFields
<1>6. x = Part(Opened(o), Len(script[o]) + 1, fname[o]) /\ new = Append(script[o], x)
  OBVIOUS
<1> HIDE DEF x
<1>7. /\ new \in Seq(Piece) /\ Len(new) = Len(script[o]) + 1 /\ new[Len(new)] = x
      /\ \A n \in DOMAIN script[o] : new[n] = script[o][n]
  BY <1>2, <1>5, <1>6
<1>8. Len(new) <= Parts
  BY <1>4, <1>7
<1> QED
  BY <1>1, <1>5, <1>6, <1>7, <1>8

\* Formatting a script leaves its pieces where they are, and of the same file.
LEMMA FormattedPieces ==
    ASSUME NEW s \in Seq(Piece)
    PROVE  /\ Formatted(s) \in Seq(Piece)
           /\ DOMAIN Formatted(s) = DOMAIN s /\ Len(Formatted(s)) = Len(s)
           /\ \A i \in DOMAIN s : /\ Formatted(s)[i] = [s[i] EXCEPT !.formatted = TRUE]
                                   /\ Formatted(s)[i].file = s[i].file
<1>1. \A i \in 1 .. Len(s) : s[i] \in Piece
  OBVIOUS
<1>2. \A i \in 1 .. Len(s) : /\ [s[i] EXCEPT !.formatted = TRUE] \in Piece
                             /\ [s[i] EXCEPT !.formatted = TRUE].file = s[i].file
  BY <1>1 DEF Piece
<1>3. DOMAIN s = 1 .. Len(s) /\ Len(s) \in Nat
  OBVIOUS
<1>4. Formatted(s) = [i \in 1 .. Len(s) |-> [s[i] EXCEPT !.formatted = TRUE]]
  BY <1>3 DEF Formatted
<1>5. Formatted(s) \in Seq(Piece)
  BY <1>2, <1>3, <1>4
<1>6. DOMAIN Formatted(s) = 1 .. Len(s)
  BY <1>4
<1>7. Len(Formatted(s)) = Len(s)
  BY <1>3, <1>5, <1>6
<1> QED
  BY <1>2, <1>3, <1>4, <1>5, <1>7

\* What is sent is put behind what the descriptor has, and nowhere else.
LEMMA SendsAppends ==
    ASSUME Types, connected, NEW data \in [script : Seq(Piece), whole : BOOLEAN]
    PROVE  /\ sock \in 1 .. MaxSockets
           /\ Sends(data) \in [1 .. MaxSockets -> Sendings]
           /\ Sends(data)[sock] = Append(wire[sock], data)
           /\ \A s \in 1 .. MaxSockets : s # sock => Sends(data)[s] = wire[s]
<1>1. sock \in 1 .. MaxSockets
  BY UploadAssumption DEF Types, WireTypes, NoSocket
<1>2. wire[sock] \in Sendings
  BY <1>1 DEF Types, WireTypes
<1>3. Append(wire[sock], data) \in Sendings
  BY <1>2 DEF Sendings
<1> QED
  BY <1>1, <1>3 DEF Types, WireTypes, Sends

-----------------------------------------------------------------------------

\* The invariant holds at first.
LEMMA InitIInv == Init => IInv
<1> SUFFICES ASSUME Init PROVE IInv
  OBVIOUS
<1> USE UploadAssumption DEF Init
<1>1. FileTypes /\ ScriptTypes
  <2>1. fname \in [Scripts -> Files \cup {NoName}] /\ parsed \in [Scripts -> BOOLEAN]
    OBVIOUS
  <2>2. << >> \in Seq(Piece)
    OBVIOUS
  <2>3. script \in [Scripts -> Seq(Piece)]
    BY <2>2
  <2>4. open \in [Scripts -> Texts \cup {Empty, Closed, Here}]
    OBVIOUS
  <2>5. call = "none" /\ torn = FALSE /\ files \in [Files -> Texts \cup {Absent, Empty}]
    OBVIOUS
  <2> QED
    BY ONLY <2>1, <2>3, <2>4, <2>5 DEF FileTypes, ScriptTypes
<1>2. WireTypes
  <2>1. << >> \in Sendings
    BY DEF Sendings
  <2>2. wire \in [1 .. MaxSockets -> Sendings]
    BY <2>1
  <2>3. opened \in 0 .. MaxSockets
    OBVIOUS
  <2>4. sock \in (1 .. opened) \cup {NoSocket} /\ connected \in BOOLEAN /\ ~connected
    OBVIOUS
  <2> QED
    BY ONLY <2>2, <2>3, <2>4 DEF WireTypes
<1>3. ScriptOfFile
  BY DEF ScriptOfFile
<1>4. CutIsReported /\ Underway /\ Reading
  BY DEF CutIsReported, Underway, Reading, Scripts
<1> QED
  BY <1>1, <1>2, <1>3, <1>4 DEF IInv, Types

\* A URX_Script that is read or formatted keeps to its file, and the others to theirs.
LEMMA ScriptStep ==
    ASSUME IInv, NEW o \in Scripts, UNCHANGED files,
           \/ open[o] = Closed /\ \E f \in Files : Named(o, f)
           \/ open[o] = Closed /\ fname[o] \in Files /\ OpenFile(o)
           \/ open[o] = Closed /\ GetScript(o)
           \/ open[o] # Closed /\ ReadPart(o)
    PROVE  /\ fname' \in [Scripts -> Files \cup {NoName}] /\ ScriptTypes' /\ ScriptOfFile'
           /\ Reading'
           /\ \A u \in Scripts \ {o} : /\ fname'[u] = fname[u] /\ parsed'[u] = parsed[u]
                                       /\ script'[u] = script[u] /\ open'[u] = open[u]
<1> DEFINE Goal == /\ fname' \in [Scripts -> Files \cup {NoName}] /\ ScriptTypes' /\ ScriptOfFile'
                   /\ Reading'
                   /\ \A u \in Scripts \ {o} :
                         /\ fname'[u] = fname[u] /\ parsed'[u] = parsed[u]
                         /\ script'[u] = script[u] /\ open'[u] = open[u]
<1> USE DEF IInv, Types, FileTypes, ScriptTypes
<1>1. ASSUME open[o] = Closed, NEW f \in Files, Named(o, f) PROVE Goal
  <2>1. /\ fname' = [fname EXCEPT ![o] = f] /\ parsed' = [parsed EXCEPT ![o] = FALSE]
        /\ UNCHANGED <<script, open>>
    BY <1>1 DEF Named
  <2>2. fname' \in [Scripts -> Files \cup {NoName}] /\ ScriptTypes'
    BY <2>1
  <2>3. ScriptOfFile'
    BY <2>1 DEF ScriptOfFile
  <2>4. Reading'
    BY <1>1, <2>1 DEF Reading
  <2> QED
    BY <2>1, <2>2, <2>3, <2>4
<1>2. CASE open[o] = Closed /\ fname[o] \in Files /\ OpenFile(o)
  <2> DEFINE new == IF files[fname[o]] = Absent THEN Closed ELSE Here
  <2>1. /\ script' = [script EXCEPT ![o] = << >>] /\ open' = [open EXCEPT ![o] = new]
        /\ UNCHANGED <<fname, parsed>>
    BY <1>2 DEF OpenFile
  <2>2. << >> \in Seq(Piece) /\ Len(<< >>) = 0 /\ DOMAIN << >> = {}
    OBVIOUS
  <2>3. fname' \in [Scripts -> Files \cup {NoName}] /\ ScriptTypes'
    BY <2>1, <2>2
  <2>4. ScriptOfFile'
    BY <2>1, <2>2 DEF ScriptOfFile
  <2>5. \A u \in Scripts \ {o} : script'[u] = script[u] /\ open'[u] = open[u]
    BY <2>1
  <2>6. script'[o] = << >> /\ open'[o] = new
    BY <2>1
  <2>7. Reading'
    BY <1>2, <2>1, <2>2, <2>5, <2>6, UploadAssumption DEF Reading
  <2> QED
    BY <2>1, <2>3, <2>4, <2>5, <2>7
<1>3. CASE open[o] = Closed /\ GetScript(o)
  <2>1. /\ parsed[o] /\ script' = [script EXCEPT ![o] = Formatted(script[o])]
        /\ UNCHANGED <<fname, parsed, open>>
    BY <1>3 DEF GetScript
  <2>2. Formatted(script[o]) \in Seq(Piece)
    BY FormattedPieces
  <2>3. \A i \in DOMAIN Formatted(script[o]) : Formatted(script[o])[i].file = fname[o]
    <3>1. \A i \in DOMAIN script[o] : script[o][i].file = fname[o]
      BY <2>1 DEF ScriptOfFile
    <3>2. script[o] \in Seq(Piece)
      OBVIOUS
    <3> QED
      BY <3>1, <3>2, FormattedPieces
  <2>4. ScriptTypes'
    BY <2>1, <2>2
  <2>5. \A u \in Scripts \ {o} : script'[u] = script[u]
    BY <2>1
  <2>6. script'[o] = Formatted(script[o])
    BY <2>1
  <2>7. ScriptOfFile'
    BY <2>1, <2>3, <2>5, <2>6 DEF ScriptOfFile
  <2>8. Reading'
    BY <1>3, <2>1, <2>5 DEF Reading
  <2> QED
    BY <2>1, <2>4, <2>5, <2>7, <2>8
<1>4. CASE open[o] # Closed /\ ReadPart(o)
  <2>1. CASE AtEnd(o)
    <3>1. /\ script' = [script EXCEPT ![o] = script[o]]
          /\ parsed' = [parsed EXCEPT ![o] = parsed[o] \/ (AtEnd(o) /\ script[o] # << >>)]
          /\ open' = [open EXCEPT ![o] = Closed] /\ UNCHANGED fname
      BY <1>4, <2>1 DEF ReadPart
    <3>2. parsed' \in [Scripts -> BOOLEAN] /\ \A u \in Scripts \ {o} : parsed'[u] = parsed[u]
      BY <3>1
    <3>3. script' = script /\ open' \in [Scripts -> Texts \cup {Empty, Closed, Here}]
      BY <3>1
    <3>4. \A u \in Scripts \ {o} : open'[u] = open[u]
      BY <3>1
    <3>5. open'[o] = Closed
      BY <3>1
    <3>6. \A i \in DOMAIN script[o] : script[o][i].file = fname[o]
      BY <1>4 DEF Reading
    <3>7. ScriptOfFile'
      BY <3>1, <3>2, <3>3, <3>6 DEF ScriptOfFile
    <3>8. Reading'
      BY <3>1, <3>3, <3>4, <3>5 DEF Reading
    <3> QED
      BY <3>1, <3>2, <3>3, <3>4, <3>7, <3>8
  <2>2. CASE ~AtEnd(o)
    <3> DEFINE new == Append(script[o], Part(Opened(o), Len(script[o]) + 1, fname[o]))
    <3>1. /\ script' = [script EXCEPT ![o] = new]
          /\ parsed' = [parsed EXCEPT ![o] = parsed[o]]
          /\ open' = [open EXCEPT ![o] = open[o]] /\ UNCHANGED fname
      BY <1>4, <2>2 DEF ReadPart
    <3>2. parsed' = parsed /\ open' = open
      BY <3>1
    <3>3. /\ new \in Seq(Piece) /\ Len(new) = Len(script[o]) + 1 /\ Len(new) <= Parts
          /\ \A n \in DOMAIN script[o] : new[n] = script[o][n]
          /\ new[Len(new)].file = fname[o]
      BY <1>4, <2>2, PartAppended
    <3> HIDE DEF new
    <3>4. script' \in [Scripts -> Seq(Piece)] /\ script'[o] = new
      BY <3>1, <3>3
    <3>5. \A u \in Scripts \ {o} : script'[u] = script[u]
      BY <3>1
    <3>6. \A i \in DOMAIN script[o] : script[o][i].file = fname[o]
      BY <1>4 DEF Reading
    <3>7. \A i \in DOMAIN new : new[i].file = fname[o]
      BY <3>3, <3>6
    <3>8. ScriptOfFile'
      BY <3>1, <3>2, <3>4, <3>5, <3>7 DEF ScriptOfFile
    <3>9. Reading'
      <4>1. fname' = fname /\ open' = open /\ files' = files
        BY <3>1, <3>2
      <4>2. Len(script'[o]) <= Parts /\ \A i \in DOMAIN script'[o] : script'[o][i].file = fname[o]
        BY <3>3, <3>4, <3>7
      <4> QED
        BY ONLY <4>1, <4>2, <3>5, Reading DEF Reading
    <3> QED
      BY <3>1, <3>2, <3>4, <3>5, <3>8, <3>9
  <2> QED
    BY <2>1, <2>2
<1> QED
  BY <1>1, <1>2, <1>3, <1>4

-----------------------------------------------------------------------------

\* No step breaks the invariant.
LEMMA InductiveStep == ASSUME IInv, [Next]_vars PROVE IInv'
<1> USE UploadAssumption
    DEF IInv, Types, FileTypes, ScriptTypes, WireTypes, Underway, Scripts,
        urxscript, connection, upload
<1>1. CASE UNCHANGED vars
  <2>1. Types' /\ Reading' /\ ScriptOfFile' /\ CutIsReported'
    BY <1>1 DEF vars, Reading, ScriptOfFile, CutIsReported
  <2>2. Underway'
    BY <1>1 DEF vars, PartHeld, Opened
  <2> QED
    BY <2>1, <2>2
<1>2. CASE FileChanges
  <2>1. PICK f \in Files, to \in Texts \cup {Absent, Empty}, inPlace \in BOOLEAN :
            /\ inPlace => Absent \notin {to, files[f]}
            /\ files' = [files EXCEPT ![f] = to]
            /\ open' = [o \in Scripts |-> IF ~inPlace /\ fname[o] = f /\ open[o] = Here
                                          THEN files[f] ELSE open[o]]
            /\ held' = IF call # "none" /\ fname[Handler] = f THEN held \cup {to} ELSE held
            /\ torn' = (torn \/ (inPlace /\ fname[Handler] = f /\ open[Handler] = Here))
    BY <1>2 DEF FileChanges
  <2>2. UNCHANGED <<fname, parsed, script, connection, call, uploads, failed>>
    BY <1>2 DEF FileChanges
  <2>3. files' \in [Files -> Texts \cup {Absent, Empty}] /\ files'[f] = to
        /\ \A g \in Files \ {f} : files'[g] = files[g]
    BY <2>1
  <2>4. \A o \in Scripts : open[o] = Here => files[fname[o]] \in Texts \cup {Empty}
    BY DEF Reading
  <2>5. open' \in [Scripts -> Texts \cup {Empty, Closed, Here}]
    BY <2>1, <2>4
  <2>6. FileTypes' /\ WireTypes' /\ ScriptTypes'
    <3>1. torn' \in BOOLEAN
      BY <2>1
    <3> QED
      BY <2>2, <2>3, <2>5, <3>1
  <2>7. \A o \in Scripts : (open'[o] = Closed) = (open[o] = Closed)
    BY <2>1, <2>4
  <2>8. ASSUME NEW o \in Scripts, open'[o] = Here PROVE files'[fname[o]] # Absent
    BY <2>1, <2>3, <2>4, <2>8 DEF Reading
  <2>9. Reading'
    BY <2>2, <2>7, <2>8 DEF Reading
  <2>10. ScriptOfFile' /\ CutIsReported'
    BY <2>2 DEF ScriptOfFile, CutIsReported
  <2>11. Underway'
    <3>1. call # "none" => files'[fname[Handler]] \in held'
      BY <2>1, <2>2, <2>3
    <3>2. call \in {"none", "open", "send"} <=> open'[Handler] = Closed
      BY <2>7
    <3>3. \A n \in DOMAIN script[Handler] : PartHeld(n) => PartHeld(n)'
      BY <2>1, <2>2 DEF PartHeld
    <3>4. CASE call = "read" /\ open[Handler] = Here /\ fname[Handler] = f /\ inPlace
      <4>1. torn'
        BY <2>1, <3>4
      <4>2. Opened(Handler)' \in held'
        BY <2>1, <2>2, <2>3, <3>4 DEF Opened
      <4> QED
        BY <2>2, <3>1, <3>2, <3>3, <3>4, <4>1, <4>2
    <3>5. CASE call = "read" /\ ~(open[Handler] = Here /\ fname[Handler] = f /\ inPlace)
      <4>1. Opened(Handler)' = Opened(Handler)
        <5>1. CASE open[Handler] = Here /\ fname[Handler] = f
          <6>1. open'[Handler] = files[f] /\ files[f] # Here
            BY <2>1, <2>4, <3>5, <5>1
          <6> QED
            BY <5>1, <6>1 DEF Opened
        <5>2. CASE open[Handler] = Here /\ fname[Handler] # f
          <6>1. open'[Handler] = Here
            BY <2>1, <5>2
          <6> QED
            BY <2>2, <2>3, <5>2, <6>1 DEF Opened
        <5>3. CASE open[Handler] # Here
          <6>1. open'[Handler] = open[Handler]
            BY <2>1, <5>3
          <6> QED
            BY <5>3, <6>1 DEF Opened
        <5> QED
          BY <5>1, <5>2, <5>3
      <4>2. torn' = torn /\ held \subseteq held'
        BY <2>1, <3>5
      <4> QED
        BY <2>2, <3>1, <3>2, <3>3, <3>5, <4>1, <4>2
    <3>6. CASE call # "read"
      <4>1. torn' = torn /\ held \subseteq held'
        BY <2>1, <3>6, UploadAssumption
      <4> QED
        BY <2>2, <3>1, <3>2, <3>3, <3>6, <4>1
    <3> QED
      BY <3>4, <3>5, <3>6
  <2> QED
    BY <2>6, <2>9, <2>10, <2>11
<1>3. ASSUME NEW o \in Others, ScriptCall(o) PROVE IInv'
  <2>1. UNCHANGED <<files, changes, connection, upload>> /\ o # Handler /\ o \in Scripts
    BY <1>3 DEF ScriptCall
  <2>2. /\ fname' \in [Scripts -> Files \cup {NoName}] /\ ScriptTypes' /\ ScriptOfFile' /\ Reading'
        /\ \A u \in Scripts \ {o} : /\ fname'[u] = fname[u] /\ parsed'[u] = parsed[u]
                                    /\ script'[u] = script[u] /\ open'[u] = open[u]
    BY <1>3, <2>1, ScriptStep DEF ScriptCall
  <2>3. /\ fname'[Handler] = fname[Handler] /\ script'[Handler] = script[Handler]
        /\ open'[Handler] = open[Handler]
    BY <2>1, <2>2
  <2>4. FileTypes' /\ WireTypes' /\ Underway'
    <3>1. Opened(Handler)' = Opened(Handler)
      BY <2>1, <2>3 DEF Opened
    <3>2. FileTypes' /\ WireTypes'
      BY <2>1, <2>2, <2>3
    <3>3. \A n : PartHeld(n)' = PartHeld(n)
      BY <2>1, <2>3 DEF PartHeld
    <3> QED
      BY <2>1, <2>3, <3>1, <3>2, <3>3
  <2>5. CutIsReported'
    BY <2>1 DEF CutIsReported
  <2> QED
    BY <2>2, <2>4, <2>5
<1>4. CASE Connect
  <2>1. WireTypes'
    BY <1>4 DEF Connect, NoSocket
  <2>2. UNCHANGED <<files, changes, urxscript, wire, upload>>
    BY <1>4 DEF Connect
  <2>3. FileTypes' /\ ScriptTypes' /\ Reading' /\ ScriptOfFile' /\ CutIsReported'
    BY <2>2 DEF Reading, ScriptOfFile, CutIsReported
  <2>4. Underway'
    BY <2>2 DEF PartHeld, Opened
  <2> QED
    BY <2>1, <2>3, <2>4
<1>5. CASE Disconnect
  <2>1. WireTypes'
    BY <1>5 DEF Disconnect, NoSocket
  <2>2. UNCHANGED <<files, changes, urxscript, wire, upload>>
    BY <1>5 DEF Disconnect
  <2>3. FileTypes' /\ ScriptTypes' /\ Reading' /\ ScriptOfFile' /\ CutIsReported'
    BY <2>2 DEF Reading, ScriptOfFile, CutIsReported
  <2>4. Underway'
    BY <2>2 DEF PartHeld, Opened
  <2> QED
    BY <2>1, <2>3, <2>4
<1>6. ASSUME NEW f \in Files, UploadNames(f) PROVE IInv'
  <2>1. /\ call = "none" /\ call' = "open" /\ held' = {files[f]} /\ Named(Handler, f)
        /\ UNCHANGED <<files, changes, connection, failed>>
    BY <1>6 DEF UploadNames
  <2>2. /\ fname' \in [Scripts -> Files \cup {NoName}] /\ ScriptTypes' /\ ScriptOfFile'
        /\ Reading'
    BY <2>1, ScriptStep
  <2>3. fname'[Handler] = f /\ open' = open
    BY <2>1 DEF Named
  <2>4. FileTypes' /\ WireTypes' /\ Underway'
    <3>1. torn' = FALSE
      BY <1>6 DEF UploadNames
    <3>2. FileTypes' /\ WireTypes'
      BY <2>1, <2>2, <2>3, <3>1
    <3>3. Underway'
      BY <2>1, <2>3
    <3> QED
      BY <3>2, <3>3
  <2>5. CutIsReported'
    BY <2>1 DEF CutIsReported
  <2> QED
    BY <2>2, <2>4, <2>5
<1>7. CASE UploadOpens
  <2>1. /\ call = "open" /\ OpenFile(Handler) /\ open[Handler] = Closed
        /\ call' = IF open'[Handler] = Closed THEN "none" ELSE "read"
        /\ UNCHANGED <<files, changes, connection, uploads, held, torn, failed>>
    BY <1>7 DEF UploadOpens
  <2>2. /\ fname' \in [Scripts -> Files \cup {NoName}] /\ ScriptTypes' /\ ScriptOfFile'
        /\ Reading'
    BY <2>1, ScriptStep
  <2>3. /\ fname' = fname /\ script'[Handler] = << >> /\ DOMAIN script'[Handler] = {}
        /\ open'[Handler] \in {Closed, Here}
    BY <2>1 DEF OpenFile
  <2>4. open'[Handler] = Here => Opened(Handler)' \in held
    BY <2>1, <2>3 DEF Opened
  <2>5. Underway'
    BY <2>1, <2>3, <2>4
  <2>6. FileTypes' /\ WireTypes'
    BY <2>1, <2>2, <2>3
  <2>7. CutIsReported'
    BY <2>1 DEF CutIsReported
  <2> QED
    BY <2>2, <2>5, <2>6, <2>7
<1>9. CASE UploadReads
  <2>1. /\ call = "read" /\ ReadPart(Handler) /\ open[Handler] # Closed
        /\ call' = IF open'[Handler] # Closed THEN "read"
                   ELSE IF script'[Handler] # << >> THEN "send" ELSE "none"
        /\ UNCHANGED <<files, changes, connection, uploads, held, torn, failed>>
    BY <1>9 DEF UploadReads
  <2>2. /\ fname' \in [Scripts -> Files \cup {NoName}] /\ ScriptTypes' /\ ScriptOfFile'
        /\ Reading'
    BY <2>1, ScriptStep
  <2>3. fname' = fname
    BY <2>1 DEF ReadPart
  <2>4. /\ files[fname[Handler]] \in held /\ Opened(Handler) \in held
        /\ \A n \in DOMAIN script[Handler] : PartHeld(n)
        /\ ~torn => \A n \in DOMAIN script[Handler] :
                       script[Handler][n] = Part(Opened(Handler), n, fname[Handler])
    BY <2>1
  <2>5. Underway'
    <3>1. CASE AtEnd(Handler)
      <4>1. script' = script /\ open'[Handler] = Closed
        BY <2>1, <3>1 DEF ReadPart
      <4>2. \A n \in DOMAIN script'[Handler] : PartHeld(n)'
        BY <2>1, <2>3, <2>4, <4>1 DEF PartHeld
      <4>3. ASSUME script[Handler] # << >>, ~torn
            PROVE  /\ Opened(Handler) \in held \ {Absent, Empty}
                   /\ script[Handler] = Pieces(Opened(Handler), fname[Handler])
        <5> DEFINE s == script[Handler]
        <5>1. s \in Seq(Piece) /\ Len(s) \in Nat /\ DOMAIN s = 1 .. Len(s) /\ 1 \in DOMAIN s
          BY <4>3
        <5>2. PICK text \in held \ {Absent, Empty} : s[1] = Part(text, 1, fname[Handler])
          BY <2>4, <5>1 DEF PartHeld
        <5>3. s[1] = Part(Opened(Handler), 1, fname[Handler])
          BY <2>4, <4>3, <5>1
        <5>4. text = Opened(Handler)
          BY <5>2, <5>3 DEF Part
        <5>5. Len(s) = Parts
          BY <3>1, <5>2, <5>4 DEF AtEnd
        <5>6. \A n \in 1 .. Parts : s[n] = Part(Opened(Handler), n, fname[Handler])
          BY <2>4, <4>3, <5>1, <5>5
        <5> HIDE DEF s
        <5>7. s = Pieces(Opened(Handler), fname[Handler])
          BY <5>1, <5>5, <5>6 DEF Pieces
        <5> QED
          BY <5>2, <5>4, <5>7 DEF s
      <4> QED
        BY <2>1, <2>3, <2>4, <4>1, <4>2, <4>3
    <3>2. CASE ~AtEnd(Handler)
      <4> DEFINE s == script[Handler]
                 new == Append(s, Part(Opened(Handler), Len(s) + 1, fname[Handler]))
      <4>1. script' = [script EXCEPT ![Handler] = new] /\ open'[Handler] = open[Handler]
        BY <2>1, <3>2 DEF ReadPart
      <4>2. /\ Opened(Handler) \in Texts
            /\ new \in Seq(Piece) /\ Len(new) = Len(s) + 1
            /\ \A n \in DOMAIN s : new[n] = s[n]
            /\ new[Len(new)] = Part(Opened(Handler), Len(new), fname[Handler])
        BY <2>1, <3>2, PartAppended
      <4>3. s \in Seq(Piece) /\ s = script[Handler]
        OBVIOUS
      <4> HIDE DEF s, new
      <4>4. script'[Handler] = new
        BY <4>1
      <4>5. Opened(Handler)' = Opened(Handler)
        BY <2>1, <2>3, <4>1 DEF Opened
      <4>6. \A n \in DOMAIN new : n = Len(new) \/ n \in DOMAIN s
        BY <4>2, <4>3
      <4>7. Opened(Handler) \notin {Absent, Empty}
        BY <4>2
      <4>8. \A n \in DOMAIN new : PartHeld(n)'
        BY <2>1, <2>3, <2>4, <4>2, <4>3, <4>4, <4>6, <4>7 DEF PartHeld
      <4>9. ~torn => \A n \in DOMAIN new : new[n] = Part(Opened(Handler), n, fname[Handler])
        BY <2>4, <4>2, <4>3, <4>6
      <4> QED
        BY <2>1, <2>3, <2>4, <4>1, <4>4, <4>5, <4>8, <4>9
    <3> QED
      BY <3>1, <3>2
  <2>6. FileTypes' /\ WireTypes'
    BY <2>1, <2>2, <2>3
  <2>7. CutIsReported'
    BY <2>1 DEF CutIsReported
  <2> QED
    BY <2>2, <2>5, <2>6, <2>7
<1>8. ASSUME NEW ok \in BOOLEAN, UploadSends(ok) PROVE IInv'
  <2> DEFINE data == [script |-> script'[Handler], whole |-> ok]
  <2>1. /\ call' = "none" /\ GetScript(Handler) /\ DoSend(script'[Handler], ok)
        /\ failed' = IF ok THEN failed ELSE failed \cup {sock}
        /\ UNCHANGED <<files, changes, connected, sock, opened, uploads, held, torn>>
        /\ call = "send" /\ open[Handler] = Closed
    BY <1>8 DEF UploadSends
  <2>2. /\ fname' \in [Scripts -> Files \cup {NoName}] /\ ScriptTypes' /\ ScriptOfFile'
        /\ Reading'
    BY <2>1, ScriptStep
  <2>3. \/ wire' = wire
        \/ connected /\ wire' = Sends([script |-> script'[Handler], whole |-> ok])
    BY ONLY <2>1, Zenon DEF DoSend
  <2>4. /\ data \in [script : Seq(Piece), whole : BOOLEAN] /\ data.whole = ok
        /\ data = [script |-> script'[Handler], whole |-> ok]
    BY <2>2
  <2> HIDE DEF data
  <2>5. wire' \in [1 .. MaxSockets -> Sendings]
    BY <2>3, <2>4, SendsAppends
  <2>6. FileTypes' /\ WireTypes' /\ Underway'
    BY <2>1, <2>2, <2>5 DEF GetScript
  <2>7. CutIsReported'
    <3>1. CASE wire' = wire
      BY <2>1, <3>1 DEF CutIsReported
    <3>2. CASE connected /\ wire' = Sends(data)
      <4>1. ASSUME NEW s \in 1 .. MaxSockets, s \notin failed', s # sock
            PROVE  \A i \in DOMAIN wire'[s] : wire'[s][i].whole
        BY <2>1, <2>4, <3>2, <4>1, SendsAppends DEF CutIsReported
      <4>2. ASSUME sock \notin failed'
            PROVE  \A i \in DOMAIN wire'[sock] : wire'[sock][i].whole
        <5>1. ok /\ data.whole
          BY <2>1, <2>4, <4>2
        <5>2. wire[sock] \in Sendings /\ sock \in 1 .. MaxSockets
          BY <2>4, <3>2, SendsAppends
        <5>3. \A i \in DOMAIN wire[sock] : wire[sock][i].whole
          BY <2>1, <4>2, <5>1, <5>2 DEF CutIsReported
        <5>4. wire'[sock] = Append(wire[sock], data)
          BY <2>4, <3>2, SendsAppends
        <5> QED
          BY <5>1, <5>2, <5>3, <5>4 DEF Sendings
      <4> QED
        BY <4>1, <4>2 DEF CutIsReported
    <3> QED
      BY ONLY <2>3, <2>4, <3>1, <3>2
  <2> QED
    BY <2>2, <2>6, <2>7
<1> QED
  BY <1>1, <1>2, <1>3, <1>4, <1>5, <1>6, <1>7, <1>8, <1>9 DEF Next

\* It holds in every reachable state.
LEMMA Inductive == Spec => []IInv
<1>1. IInv /\ [Next]_vars => IInv'
  BY InductiveStep
<1> QED
  BY InitIInv, <1>1, PTL DEF Spec

\* What TypeOK says besides.
Bounds ==
    /\ changes \in 0 .. MaxChanges
    /\ uploads \in 0 .. MaxUploads
    /\ held \subseteq Texts \cup {Absent, Empty}
    /\ failed \subseteq 1 .. MaxSockets \cup {NoSocket}
    /\ \A s \in 1 .. MaxSockets : s > opened => wire[s] = << >>

\* No step breaks it, and it holds at first.
LEMMA BoundsStep == ASSUME IInv, Bounds, [Next]_vars PROVE Bounds'
<1> USE UploadAssumption
    DEF IInv, Types, FileTypes, WireTypes, Bounds, Scripts, urxscript, connection, upload
<1>1. CASE UNCHANGED vars
  BY <1>1 DEF vars
<1>2. CASE FileChanges
  BY <1>2 DEF FileChanges
<1>3. ASSUME NEW o \in Others, ScriptCall(o) PROVE Bounds'
  BY <1>3 DEF ScriptCall
<1>4. CASE Connect
  BY <1>4 DEF Connect
<1>5. CASE Disconnect
  BY <1>5 DEF Disconnect
<1>6. ASSUME NEW f \in Files, UploadNames(f) PROVE Bounds'
  <2>1. /\ uploads' \in 0 .. MaxUploads /\ held' = {files[f]}
        /\ UNCHANGED <<files, changes, connection, failed>>
    BY <1>6 DEF UploadNames
  <2>2. held' \subseteq Texts \cup {Absent, Empty}
    BY <2>1
  <2> QED
    BY <2>1, <2>2
<1>7. CASE UploadOpens
  BY <1>7 DEF UploadOpens
<1>9. CASE UploadReads
  BY <1>9 DEF UploadReads
<1>8. ASSUME NEW ok \in BOOLEAN, UploadSends(ok) PROVE Bounds'
  <2>1. /\ failed' = IF ok THEN failed ELSE failed \cup {sock}
        /\ UNCHANGED <<files, changes, connected, sock, opened, uploads, held, torn>>
    BY <1>8 DEF UploadSends
  <2>2. \A s \in 1 .. MaxSockets : s # sock => wire'[s] = wire[s]
    BY <1>8 DEF UploadSends, DoSend, Sends
  <2>3. \A s \in 1 .. MaxSockets : s > opened => s # sock
    BY DEF NoSocket
  <2>4. failed' \subseteq 1 .. MaxSockets \cup {NoSocket}
    BY <2>1
  <2> QED
    BY <2>1, <2>2, <2>3, <2>4
<1> QED
  BY <1>1, <1>2, <1>3, <1>4, <1>5, <1>6, <1>7, <1>8, <1>9 DEF Next

(* The variables keep their types; in particular connected_ is up only      *)
(* while sock_ is a descriptor that is open (con.cpp:15-51).                *)
THEOREM TypeCorrect == Spec => []TypeOK
<1>1. Init => Bounds
  BY UploadAssumption DEF Init, Bounds
<1>2. IInv /\ Bounds /\ [Next]_vars => Bounds'
  BY BoundsStep
<1>3. IInv /\ Bounds => TypeOK
  BY DEF IInv, Types, FileTypes, ScriptTypes, WireTypes, Bounds, TypeOK, Sendings
<1> QED
  BY Inductive, <1>1, <1>2, <1>3, PTL DEF Spec

(* A script never hands out text of another file than the one that is set,  *)
(* in whatever order set_script(), read_file() and get_script() are called  *)
(* and whatever the files do (urx_script.cpp:14-63).                        *)
THEOREM ScriptCorrect == Spec => []ScriptOfFile
  BY Inductive, PTL DEF IInv

(* A script that goes out in parts is reported as failed (con.cpp:53-64).   *)
THEOREM CutsReported == Spec => []CutIsReported
  BY Inductive, PTL DEF IInv

(* What upload_script() reports as uploaded is made of parts that the file  *)
(* has held since the call began, in their order; unless it was written     *)
(* over while it was read, they are one whole text (urx_handler.cpp:10-24,  *)
(* urx_script.cpp:43-45).                                                   *)
THEOREM UploadCorrect == Spec => UploadedAsRead
<1> DEFINE sent == Last(wire'[sock])
           Kept == /\ sent.whole /\ sent.script # << >>
                   /\ \A n \in DOMAIN sent.script :
                         \E text \in held \ {Absent, Empty} :
                             sent.script[n] =
                                 [Part(text, n, fname[Handler]) EXCEPT !.formatted = TRUE]
                   /\ ~torn => \E text \in held \ {Absent, Empty} :
                                   sent.script = Formatted(Pieces(text, fname[Handler]))
<1>1. ASSUME IInv, UploadSends(TRUE) PROVE Kept
  <2> DEFINE s == script[Handler]
             whole == [script |-> Formatted(s), whole |-> TRUE]
  <2>1. s \in Seq(Piece) /\ Handler \in Scripts
    BY <1>1 DEF IInv, Types, ScriptTypes, Scripts
  <2>2. script'[Handler] = Formatted(s)
    BY <1>1, <2>1 DEF IInv, Types, ScriptTypes, UploadSends, GetScript
  <2>3. connected /\ wire' = Sends(whole)
    BY <1>1, <2>2 DEF UploadSends, DoSend
  <2>4. /\ s # << >> /\ \A n \in DOMAIN s : PartHeld(n)
        /\ ~torn => \E text \in held \ {Absent, Empty} : s = Pieces(text, fname[Handler])
    BY <1>1 DEF IInv, Underway, UploadSends
  <2>5. /\ Formatted(s) \in Seq(Piece) /\ DOMAIN Formatted(s) = DOMAIN s
        /\ Len(Formatted(s)) = Len(s)
        /\ \A n \in DOMAIN s : Formatted(s)[n] = [s[n] EXCEPT !.formatted = TRUE]
    BY <2>1, FormattedPieces
  <2>6. whole \in [script : Seq(Piece), whole : BOOLEAN]
    BY <2>5
  <2>7. wire'[sock] = Append(wire[sock], whole) /\ wire[sock] \in Sendings
    BY <1>1, <2>3, <2>6, SendsAppends DEF IInv, Types, WireTypes
  <2>8. sent = whole /\ sent.whole /\ sent.script = Formatted(s)
    BY <2>6, <2>7 DEF Last, Sendings
  <2>9. sent.script # << >>
    <3>1. Len(s) # 0
      BY <2>1, <2>4
    <3> QED
      BY <2>5, <2>8, <3>1
  <2>10. ASSUME NEW n \in DOMAIN sent.script
         PROVE  \E text \in held \ {Absent, Empty} :
                    sent.script[n] = [Part(text, n, fname[Handler]) EXCEPT !.formatted = TRUE]
    <3>1. n \in DOMAIN s
      BY <2>5, <2>8, <2>10
    <3>2. PICK text \in held \ {Absent, Empty} : s[n] = Part(text, n, fname[Handler])
      BY <2>4, <3>1 DEF PartHeld
    <3> QED
      BY <2>5, <2>8, <3>1, <3>2
  <2>11. ~torn => \E text \in held \ {Absent, Empty} :
                      sent.script = Formatted(Pieces(text, fname[Handler]))
    BY <2>4, <2>8
  <2> QED
    BY <2>8, <2>9, <2>10, <2>11
<1> HIDE DEF Kept
<1>2. IInv => [UploadSends(TRUE) => Kept]_vars
  BY <1>1
<1>3. [][UploadSends(TRUE) => Kept]_vars => UploadedAsRead
  BY PTL DEF Kept, UploadedAsRead
<1> QED
  BY Inductive, <1>2, <1>3, PTL
=============================================================================
