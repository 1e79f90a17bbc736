---------------------------- MODULE LanguageServer ----------------------------
(***************************************************************************)
(* The language server (internal/lsp): a store of open documents, a cache  *)
(* of parsed files and the loop that serves one message after the other.   *)
(* Its environment is an editor, which edits buffers and tells the server  *)
(* of every edit through a pipe, and other programs that write the disk.   *)
(*                                                                         *)
(* A text is a sequence of bytes: "a" is a byte of a name, "n" a newline,  *)
(* "w" followed by "c" one character of two bytes.  What the server        *)
(* computes from a text alone (its tree, its diagnostics, its symbols) is  *)
(* represented by the text.  The editor names a file by the URI that       *)
(* PathToURI would write for it, so a file stands for its URI and its path.*)
(***************************************************************************)
EXTENDS Integers, Sequences, FiniteSets

CONSTANTS File,        \* the .tya files of a project
          Openable,    \* those the editor opens
          Inside,      \* those below the directory of tya.toml
          Candidates,  \* where an import of the open file is looked for
          Contents,    \* file -> the texts other programs write to it
          Typed,       \* what the user types: sequences of bytes
          Broken,      \* texts that do not parse
          Clashing,    \* texts that already bind the new name of a rename
          MaxVersion, MaxText, MaxPipe,
          Nothing      \* no document, no file, no cached file

Byte == {"a", "n", "w", "c"}
Document == [version : Nat, text : Seq(Byte)]
Cached == [text : Seq(Byte), from : {"disk", "buffer"}]

ASSUME LspAssumption ==
  /\ Openable \subseteq File /\ Inside \subseteq File
  /\ Candidates \in Seq(File)
  /\ Typed \subseteq Seq(Byte)
  /\ \A f \in File : Contents[f] \subseteq Seq(Byte) \cup {Nothing}
  /\ Nothing \notin Document \cup Cached
  /\ {MaxVersion, MaxText, MaxPipe} \subseteq Nat

VARIABLES
  disk,      \* file -> its text, or Nothing
  editor,    \* file -> the editor's buffer, or Nothing when not open
  pipe,      \* the messages the server has not read
  docs,      \* file -> the stored document, or Nothing (Store.docs)
  parsed,    \* file -> the cached text and where it came from, or Nothing
  root,      \* whether the directory of tya.toml is known (Workspace.Root)
  shown,     \* file -> the version and text of the diagnostics the editor shows
  answer,    \* what the last message was answered: a kind and the texts used
  stopping,  \* shutdown has been served (Server.shuttingDown)
  running    \* the loop of Run goes on

lspVars == <<disk, editor, pipe, docs, parsed, root, shown, answer, stopping, running>>

NoAnswer == [kind |-> "none", uses |-> {}]

---------------------------------------------------------------------------
(* Positions and incremental changes.                                      *)

Newlines(s, k) == {i \in 1..k : s[i] = "n"}

LastNewline(s, k) == IF Newlines(s, k) = {} THEN 0
                     ELSE CHOOSE i \in Newlines(s, k) : \A j \in Newlines(s, k) : j <= i

\* A position counts bytes if the server has announced UTF-8 and UTF-16
\* units otherwise: the second byte of a wide character is then no unit.
Units(s, from, to, bytes) == Cardinality({i \in from..to : bytes \/ s[i] # "c"})

\* The positions the protocol allows for the offset k of s: beyond the end of
\* a line means its end, beyond the last line means the end of the text.
PositionsOf(s, k, bytes) ==
  LET line == Cardinality(Newlines(s, k))
      col == Units(s, LastNewline(s, k) + 1, k, bytes)
  IN {[line |-> line, ch |-> col]}
     \cup (IF k = Len(s) THEN {[line |-> line + 1, ch |-> 0]}
           ELSE IF s[k + 1] = "n" THEN {[line |-> line, ch |-> col + 2]} ELSE {})

\* The line and byte column at which the scan of the code stands at offset k.
ScanLine(s, k) == Cardinality(Newlines(s, k))
ScanCol(s, k) == k - LastNewline(s, k)

\* Mutant of PositionToOffset: a column beyond the end of a line is not clamped.
OffsetUnclamped(s, p) ==
  LET stops == {k \in 0..Len(s) : ScanLine(s, k) = p.line /\ ScanCol(s, k) = p.ch}
  IN IF stops = {} THEN Len(s) ELSE CHOOSE k \in stops : TRUE

\* Offsets at which the scan returns: the position itself, or the newline
\* that ends its line.  The first one counts; else the end of the text.
PositionToOffset(s, p) ==
  LET stops == {k \in 0..(Len(s) - 1) :
                  /\ ScanLine(s, k) = p.line
                  /\ ScanCol(s, k) = p.ch \/ s[k + 1] = "n"}
  IN IF stops = {} THEN Len(s)
     ELSE CHOOSE k \in stops : \A j \in stops : k <= j

Splice(s, from, to, new) == SubSeq(s, 1, from) \o new \o SubSeq(s, to + 1, Len(s))

\* A change without a range, and one whose range ends before it starts,
\* replaces the whole text.
ApplyChange(s, c) ==
  IF ~c.ranged THEN c.text
  ELSE LET from == PositionToOffset(s, c.start)
           to == PositionToOffset(s, c.end)
       IN IF from > to THEN c.text ELSE Splice(s, from, to, c.text)

---------------------------------------------------------------------------
(* The workspace: which files it knows and what it answers from.           *)

\* What a look at file g leaves in the cache: what was there, or the disk's.
Loaded(g) == IF parsed[g] # Nothing THEN parsed[g]
             ELSE IF disk[g] = Nothing THEN Nothing
             ELSE [text |-> disk[g], from |-> "disk"]

AllFiles == {g \in File : \/ parsed[g] # Nothing
                          \/ root /\ g \in Inside /\ disk[g] # Nothing}

LoadAll == [g \in File |-> IF g \in AllFiles THEN Loaded(g) ELSE parsed[g]]

Uses(fs) == {<<g, Loaded(g).text>> : g \in fs}

\* The first candidate of an import that can be loaded.
FirstLoaded == {Candidates[i] : i \in {i \in 1..Len(Candidates) :
                   /\ Loaded(Candidates[i]) # Nothing
                   /\ \A j \in 1..(i - 1) : Loaded(Candidates[j]) = Nothing}}

Mentions(s) == \E i \in 1..Len(s) : s[i] = "a"

---------------------------------------------------------------------------
Init ==
  /\ disk \in {d \in [File -> UNION {Contents[f] : f \in File}] : \A f \in File : d[f] \in Contents[f]}
  /\ editor = [f \in File |-> Nothing]
  /\ pipe = <<>>
  /\ docs = [f \in File |-> Nothing]
  /\ parsed = [f \in File |-> Nothing]
  /\ root = FALSE
  /\ shown = [f \in File |-> Nothing]
  /\ answer = NoAnswer
  /\ stopping = FALSE
  /\ running = TRUE

---------------------------------------------------------------------------
(* The editor and the rest of the world.                                   *)

\* After a shutdown the editor sends nothing but exit.
Ending == stopping \/ \E i \in 1..Len(pipe) : pipe[i].method = "shutdown"

Send(m) == /\ running
           /\ Ending = (m.method = "exit")
           /\ Len(pipe) < MaxPipe
           /\ pipe' = Append(pipe, m)

serverVars == <<docs, parsed, root, shown, answer, stopping, running>>

\* Whether the answer to initialize names an encoding of positions.
AdvertisesBytes == FALSE

EditorOpens(f) ==
  /\ editor[f] = Nothing
  /\ disk[f] # Nothing
  /\ editor' = [editor EXCEPT ![f] = [version |-> 1, text |-> disk[f]]]
  /\ Send([method |-> "didOpen", file |-> f, version |-> 1, text |-> disk[f]])
  /\ UNCHANGED <<disk, serverVars>>

\* The buffer's new text and the change that tells of it.
EditorSends(f, text, change) ==
  LET v == editor[f].version + 1 IN
  /\ v <= MaxVersion
  /\ Len(text) <= MaxText
  /\ editor' = [editor EXCEPT ![f] = [version |-> v, text |-> text]]
  /\ Send([method |-> "didChange", file |-> f, version |-> v, change |-> change])
  /\ UNCHANGED <<disk, serverVars>>

\* Offsets between characters.
Boundaries(s) == {k \in 0..Len(s) : k = Len(s) \/ s[k + 1] # "c"}

EditorTypes(f) ==
  /\ editor[f] # Nothing
  /\ LET s == editor[f].text IN
     \E from, to \in Boundaries(s), new \in Typed :
        /\ from <= to
        /\ \E p \in PositionsOf(s, from, AdvertisesBytes),
              q \in PositionsOf(s, to, AdvertisesBytes) :
             EditorSends(f, Splice(s, from, to, new),
               [ranged |-> TRUE, start |-> p, end |-> q, text |-> new])

EditorReplaces(f) ==
  /\ editor[f] # Nothing
  /\ \E new \in Typed : EditorSends(f, new, [ranged |-> FALSE, text |-> new])

\* A save carries no text: the server has asked for none.
EditorSaves(f) ==
  /\ editor[f] # Nothing
  /\ disk' = [disk EXCEPT ![f] = editor[f].text]
  /\ Send([method |-> "didSave", file |-> f, text |-> Nothing])
  /\ UNCHANGED <<editor, serverVars>>

EditorCloses(f) ==
  /\ editor[f] # Nothing
  /\ editor' = [editor EXCEPT ![f] = Nothing]
  /\ Send([method |-> "didClose", file |-> f])
  /\ UNCHANGED <<disk, serverVars>>

EditorAsks(f) ==
  /\ editor[f] # Nothing
  /\ \E kind \in {"document", "rename", "references", "definition", "symbols"} :
       Send([method |-> kind, file |-> f])
  /\ UNCHANGED <<disk, editor, serverVars>>

EditorEnds ==
  /\ \E method \in {"shutdown", "exit"} : Send([method |-> method])
  /\ UNCHANGED <<disk, editor, serverVars>>

\* Another program writes or removes a file the editor leaves alone.
OutsideWrites(f) ==
  /\ \E text \in Contents[f] \cup {Nothing} : disk' = [disk EXCEPT ![f] = text]
  /\ UNCHANGED <<editor, pipe, serverVars>>

---------------------------------------------------------------------------
(* The server: one action per handler.                                     *)

\* The loop reads the next message.
Reads(method) == /\ running
                 /\ pipe # <<>>
                 /\ Head(pipe).method = method
                 /\ pipe' = Tail(pipe)

\* publish: diagnostics of the stored text, if the document is there.
Published(f, doc) == [shown EXCEPT ![f] = doc]

\* Mutant of PutText: a cached file is not replaced.
PutTextOnce(f, text) ==
  IF parsed[f] # Nothing THEN parsed
  ELSE [parsed EXCEPT ![f] = [text |-> text, from |-> "buffer"]]

PutText(f, text) == [parsed EXCEPT ![f] = [text |-> text, from |-> "buffer"]]

OnDidOpen ==
  /\ Reads("didOpen")
  /\ answer' = NoAnswer
  /\ LET m == Head(pipe)
         d == [version |-> m.version, text |-> m.text] IN
     /\ docs' = [docs EXCEPT ![m.file] = d]
     /\ root' = (root \/ m.file \in Inside)
     /\ parsed' = PutText(m.file, m.text)
     /\ shown' = Published(m.file, d)
  /\ UNCHANGED <<disk, editor, stopping, running>>

\* An unknown document starts empty; a change older than the document is
\* dropped, and the document as it is goes to the cache and to publish.
ApplyChanges(d, m) ==
  IF d # Nothing /\ m.version < d.version THEN d
  ELSE [version |-> m.version,
        text |-> ApplyChange(IF d = Nothing THEN <<>> ELSE d.text, m.change)]

OnDidChange ==
  /\ Reads("didChange")
  /\ answer' = NoAnswer
  /\ LET m == Head(pipe)
         d == ApplyChanges(docs[m.file], m) IN
     /\ docs' = [docs EXCEPT ![m.file] = d]
     /\ parsed' = PutText(m.file, d.text)
     /\ shown' = Published(m.file, d)
  /\ UNCHANGED <<disk, editor, root, stopping, running>>

\* The text of a save replaces the stored one but not the cached one.
OnDidSave ==
  /\ Reads("didSave")
  /\ answer' = NoAnswer
  /\ LET m == Head(pipe)
         d == docs[m.file]
         saved == IF m.text = Nothing \/ d = Nothing THEN d
                  ELSE [d EXCEPT !.text = m.text] IN
     /\ docs' = [docs EXCEPT ![m.file] = saved]
     /\ shown' = IF saved = Nothing THEN shown ELSE Published(m.file, saved)
  /\ UNCHANGED <<disk, editor, parsed, root, stopping, running>>

OnDidClose ==
  /\ Reads("didClose")
  /\ answer' = NoAnswer
  /\ LET f == Head(pipe).file IN
     /\ parsed' = [parsed EXCEPT ![f] = Nothing]
     /\ docs' = [docs EXCEPT ![f] = Nothing]
     /\ shown' = [shown EXCEPT ![f] = Nothing]
  /\ UNCHANGED <<disk, editor, root, stopping, running>>

\* formatting, hover, code actions, symbols of the document, ...: answers
\* that are computed from the stored document, empty ones without it.
OnDocumentRequest ==
  /\ Reads("document")
  /\ LET f == Head(pipe).file IN
     answer' = [kind |-> "document",
                uses |-> IF docs[f] = Nothing THEN {} ELSE {<<f, docs[f].text>>}]
  /\ UNCHANGED <<disk, editor, docs, parsed, root, shown, stopping, running>>

\* references of a top-level name: the stored document and every other file.
OnReferences ==
  /\ Reads("references")
  /\ LET f == Head(pipe).file IN
     IF docs[f] = Nothing \/ docs[f].text \in Broken
     THEN /\ answer' = [kind |-> "references", uses |-> {}]
          /\ UNCHANGED parsed
     ELSE /\ answer' = [kind |-> "references",
                        uses |-> {<<f, docs[f].text>>}
                                 \cup {u \in Uses(AllFiles \ {f}) : u[2] \notin Broken}]
          /\ parsed' = LoadAll
  /\ UNCHANGED <<disk, editor, docs, root, shown, stopping, running>>

\* rename of a top-level name: nothing is changed when any file that parses
\* already binds the new name; a file that does not parse is passed over.
OnRename ==
  /\ Reads("rename")
  /\ LET f == Head(pipe).file
         others == {u \in Uses(AllFiles \ {f}) : u[2] \notin Broken}
         named == {u \in others \cup {<<f, docs[f].text>>} : Mentions(u[2])} IN
     IF \/ docs[f] = Nothing
        \/ docs[f].text \in Broken \cup Clashing
        \/ ~Mentions(docs[f].text)
     THEN /\ answer' = [kind |-> "refused", uses |-> {}]
          /\ UNCHANGED parsed
     ELSE /\ parsed' = LoadAll
          /\ answer' = IF \E u \in others : u[2] \in Clashing
                       THEN [kind |-> "refused", uses |-> {}]
                       ELSE [kind |-> "rename", uses |-> named]
  /\ UNCHANGED <<disk, editor, docs, root, shown, stopping, running>>

\* definition of an imported name: the candidates are tried in order.
OnDefinition ==
  /\ Reads("definition")
  /\ LET f == Head(pipe).file
         found == IF root THEN FirstLoaded ELSE {} IN
     IF docs[f] = Nothing \/ docs[f].text \in Broken
     THEN /\ answer' = [kind |-> "definition", uses |-> {}]
          /\ UNCHANGED parsed
     ELSE /\ answer' = [kind |-> "definition", uses |-> Uses(found)]
          /\ parsed' = [g \in File |-> IF g \in found THEN Loaded(g) ELSE parsed[g]]
  /\ UNCHANGED <<disk, editor, docs, root, shown, stopping, running>>

OnWorkspaceSymbol ==
  /\ Reads("symbols")
  /\ answer' = [kind |-> "symbols",
                uses |-> {u \in Uses(AllFiles) : u[2] \notin Broken}]
  /\ parsed' = LoadAll
  /\ UNCHANGED <<disk, editor, docs, root, shown, stopping, running>>

OnShutdown ==
  /\ Reads("shutdown")
  /\ answer' = NoAnswer
  /\ stopping' = TRUE
  /\ UNCHANGED <<disk, editor, docs, parsed, root, shown, running>>

\* exit ends the loop only after a shutdown.
OnExit ==
  /\ Reads("exit")
  /\ answer' = NoAnswer
  /\ running' = ~stopping
  /\ UNCHANGED <<disk, editor, docs, parsed, root, shown, stopping>>

Serve == \/ OnDidOpen \/ OnDidChange \/ OnDidSave \/ OnDidClose
         \/ OnDocumentRequest \/ OnReferences \/ OnRename \/ OnDefinition
         \/ OnWorkspaceSymbol \/ OnShutdown \/ OnExit

LspNext ==
  \/ Serve
  \/ \E f \in Openable : \/ EditorOpens(f) \/ EditorTypes(f) \/ EditorReplaces(f)
                         \/ EditorSaves(f) \/ EditorCloses(f) \/ EditorAsks(f)
  \/ EditorEnds
  \/ \E f \in File \ Openable : OutsideWrites(f)

LspSpec == Init /\ [][LspNext]_lspVars

---------------------------------------------------------------------------
\* The server has read everything the editor said about f.
CaughtUp(f) == \A i \in 1..Len(pipe) : "file" \in DOMAIN pipe[i] => pipe[i].file # f

\* When the server has caught up, the stored document is the editor's buffer,
\* byte for byte, whatever ranges the editor used to say so, and the diagnostics
\* on the screen are those of its text and version; a closed file has neither
\* (onDidOpen, onDidChange, onDidClose, ApplyChange, publish).
InSync == \A f \in File : CaughtUp(f) => docs[f] = editor[f] /\ shown[f] = editor[f]

\* An answer that spans files uses the stored text of each open one, never an
\* older one of the cache, and of a file that is not open what was on disk:
\* text that was in a buffer but never saved is forgotten with the buffer
\* (PutText, Drop, AllFiles, LoadFromDisk).
AnswersUseBuffers ==
  [][answer' # answer =>
       \A u \in answer'.uses :
         IF docs[u[1]] # Nothing THEN u[2] = docs[u[1]].text
         ELSE parsed'[u[1]].from = "disk"]_lspVars

=============================================================================
