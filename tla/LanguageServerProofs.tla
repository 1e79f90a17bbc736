------------------------- MODULE LanguageServerProofs -------------------------
(***************************************************************************)
(* What holds of the language server for every set of files, every text    *)
(* and every exchange of messages: its answers use the text of what is     *)
(* open, and its documents follow the editor's.  The second rests on       *)
(* PositionRoundTrip: the offset that the editor means by a position is    *)
(* the one the server finds.                                               *)
(***************************************************************************)
EXTENDS LanguageServer, ListFacts, FiniteSetTheorems

-----------------------------------------------------------------------------
(* Positions.                                                              *)

\* The newlines before an offset.
LEMMA NewlineFacts ==
  ASSUME NEW s \in Seq(Byte), NEW k \in 0..Len(s)
  PROVE  /\ IsFiniteSet(Newlines(s, k)) /\ ScanLine(s, k) \in Nat
         /\ \A i \in Newlines(s, k) : i \in 1..k /\ s[i] = "n"
         /\ \A j \in 0..k : /\ Newlines(s, j) \subseteq Newlines(s, k)
                            /\ ScanLine(s, j) <= ScanLine(s, k)
                            /\ ScanLine(s, j) = ScanLine(s, k) => Newlines(s, j) = Newlines(s, k)
<1>1. IsFiniteSet(1..k) /\ k \in Nat
  BY FS_Interval
<1>2. IsFiniteSet(Newlines(s, k))
  BY <1>1, FS_Subset DEF Newlines
<1>3. \A j \in 0..k : Newlines(s, j) \subseteq Newlines(s, k)
  BY DEF Newlines
<1>4. ASSUME NEW j \in 0..k
      PROVE  /\ ScanLine(s, j) <= ScanLine(s, k)
             /\ ScanLine(s, j) = ScanLine(s, k) => Newlines(s, j) = Newlines(s, k)
  BY <1>2, <1>3, FS_Subset DEF ScanLine
<1>5. ScanLine(s, k) \in Nat
  BY <1>2, FS_CardinalityType DEF ScanLine
<1> QED BY <1>2, <1>3, <1>4, <1>5 DEF Newlines

\* The last of them, or none.
LEMMA LastNewlineFacts ==
  ASSUME NEW s \in Seq(Byte), NEW k \in 0..Len(s)
  PROVE  LastNewline(s, k) \in 0..k
<1>1. CASE Newlines(s, k) = {}
  BY <1>1 DEF LastNewline
<1>2. CASE Newlines(s, k) # {}
  <2> DEFINE T == {k - i : i \in Newlines(s, k)}
  <2>1. \A i \in Newlines(s, k) : i \in 1..k /\ k \in Nat
    BY NewlineFacts
  <2>2. T \subseteq Nat /\ T # {}
    BY <1>2, <2>1
  <2>3. PICK n \in T : \A m \in T : n <= m
    <3> HIDE DEF T
    <3> QED BY <2>2, LeastNat
  <2>4. PICK i \in Newlines(s, k) : n = k - i
    BY <2>3
  <2>5. \A j \in Newlines(s, k) : j <= i
    <3>1. ASSUME NEW j \in Newlines(s, k) PROVE j <= i
      <4>1. k - i <= k - j
        BY <2>3, <2>4
      <4>2. i \in 1..k /\ j \in 1..k /\ k \in Nat
        BY <2>1
      <4> QED BY <4>1, <4>2
    <3> QED BY <3>1
  <2>6. LastNewline(s, k) = CHOOSE l \in Newlines(s, k) : \A j \in Newlines(s, k) : j <= l
    BY <1>2 DEF LastNewline
  <2>7. LastNewline(s, k) \in Newlines(s, k)
    BY <2>5, <2>6
  <2> QED BY <2>1, <2>7
<1> QED BY <1>1, <1>2

\* Between two offsets of a line there is no newline, and the columns differ.
LEMMA SameLine ==
  ASSUME NEW s \in Seq(Byte), NEW k \in 0..Len(s), NEW j \in 0..(Len(s) - 1),
         ScanLine(s, j) = ScanLine(s, k)
  PROVE  /\ ScanCol(s, j) - ScanCol(s, k) = j - k
         /\ s[j + 1] = "n" => k <= j
<1>1. Len(s) \in Nat /\ j \in 0..Len(s) /\ j \in Nat /\ k \in Nat
  OBVIOUS
<1>2. Newlines(s, j) = Newlines(s, k)
  <2>1. CASE j <= k
    <3>1. j \in 0..k
      BY <1>1, <2>1
    <3> QED BY <3>1, NewlineFacts
  <2>2. CASE k <= j
    <3>1. k \in 0..j
      BY <1>1, <2>2
    <3> QED BY <1>1, <3>1, NewlineFacts
  <2> QED BY <1>1, <2>1, <2>2
<1>3. LastNewline(s, j) = LastNewline(s, k)
  BY <1>2 DEF LastNewline
<1>4. LastNewline(s, k) \in Int
  BY LastNewlineFacts
<1>5. ScanCol(s, j) - ScanCol(s, k) = j - k
  BY <1>1, <1>3, <1>4 DEF ScanCol
<1>6. ASSUME s[j + 1] = "n", ~(k <= j) PROVE FALSE
  <2>1. j + 1 \in 1..k
    BY <1>1, <1>6
  <2>2. j + 1 \in Newlines(s, k)
    BY <1>6, <2>1 DEF Newlines
  <2>3. j + 1 \in 1..j
    BY <1>1, <1>2, <2>2, NewlineFacts
  <2> QED BY <1>1, <2>3
<1> QED BY <1>5, <1>6

\* The offset of any position is one of the text.
LEMMA OffsetFacts ==
  ASSUME NEW s \in Seq(Byte), NEW p
  PROVE  PositionToOffset(s, p) \in 0..Len(s)
<1> DEFINE stops == {k \in 0..(Len(s) - 1) : /\ ScanLine(s, k) = p.line
                                             /\ ScanCol(s, k) = p.ch \/ s[k + 1] = "n"}
<1>1. PositionToOffset(s, p) = IF stops = {} THEN Len(s)
                               ELSE CHOOSE k \in stops : \A j \in stops : k <= j
  BY DEF PositionToOffset
<1>2. stops \subseteq 0..(Len(s) - 1) /\ Len(s) \in Nat
  OBVIOUS
<1> HIDE DEF stops
<1>3. CASE stops # {}
  <2>1. stops \subseteq Nat
    BY <1>2
  <2>2. \E k \in stops : \A j \in stops : k <= j
    BY <1>3, <2>1, LeastNat
  <2>3. PositionToOffset(s, p) \in stops
    BY <1>1, <1>3, <2>2
  <2>4. PositionToOffset(s, p) \in 0..(Len(s) - 1)
    BY <1>2, <2>3
  <2> QED BY <1>2, <2>4
<1> QED BY <1>1, <1>2, <1>3

\* A text without wide characters.
Narrow(s) == \A i \in 1..Len(s) : s[i] # "c"

\* The units from one byte to another.
LEMMA UnitFacts ==
  ASSUME NEW s \in Seq(Byte), NEW k \in 0..Len(s), NEW l \in 0..k,
         NEW bytes \in BOOLEAN, bytes \/ Narrow(s)
  PROVE  Units(s, l + 1, k, bytes) = k - l
<1>1. {i \in (l + 1)..k : bytes \/ s[i] # "c"} = (l + 1)..k
  BY DEF Narrow
<1>2. Cardinality((l + 1)..k) = k - l
  <2>1. l + 1 \in Int /\ k \in Int
    OBVIOUS
  <2>2. Cardinality((l + 1)..k) = IF l + 1 > k THEN 0 ELSE k - (l + 1) + 1
    BY <2>1, FS_Interval
  <2> QED BY <2>2
<1> QED BY <1>1, <1>2 DEF Units

\* Whatever position the editor names an offset by, the server finds the
\* offset: if they count in the same units or the text has none that differ.
LEMMA PositionRoundTrip ==
  ASSUME NEW s \in Seq(Byte), NEW k \in 0..Len(s),
         NEW bytes \in BOOLEAN, bytes \/ Narrow(s),
         NEW p \in PositionsOf(s, k, bytes)
  PROVE  PositionToOffset(s, p) = k
<1> DEFINE stops == {j \in 0..(Len(s) - 1) : /\ ScanLine(s, j) = p.line
                                             /\ ScanCol(s, j) = p.ch \/ s[j + 1] = "n"}
           line == ScanLine(s, k)
           col == ScanCol(s, k)
<1>1. PositionToOffset(s, p) = IF stops = {} THEN Len(s)
                               ELSE CHOOSE i \in stops : \A j \in stops : i <= j
  BY DEF PositionToOffset
<1>2. /\ Len(s) \in Nat /\ k \in Nat /\ k <= Len(s)
      /\ LastNewline(s, k) \in 0..k /\ line \in Nat /\ col \in Nat
  BY NewlineFacts, LastNewlineFacts DEF ScanCol
<1>3. Units(s, LastNewline(s, k) + 1, k, bytes) = col
  BY <1>2, UnitFacts DEF ScanCol
<1>4. \/ p.line = line /\ p.ch = col
      \/ p.line = line + 1 /\ p.ch = 0 /\ k = Len(s)
      \/ p.line = line /\ p.ch = col + 2 /\ k < Len(s) /\ s[k + 1] = "n"
  BY <1>2, <1>3 DEF PositionsOf, ScanLine
<1>5. ASSUME NEW j \in stops PROVE j \in Nat /\ k <= j
  <2>1. j \in 0..(Len(s) - 1) /\ j \in Nat /\ j \in 0..Len(s)
    OBVIOUS
  <2>2. ScanLine(s, j) = p.line /\ (ScanCol(s, j) = p.ch \/ s[j + 1] = "n")
    OBVIOUS
  <2> HIDE DEF stops
  <2>3. CASE p.line = line
    <3>1. ScanCol(s, j) - col = j - k /\ (s[j + 1] = "n" => k <= j)
      BY <2>1, <2>2, <2>3, SameLine
    <3>2. ScanCol(s, j) \in Int
      BY <2>1, LastNewlineFacts DEF ScanCol
    <3>3. p.ch = col \/ p.ch = col + 2
      BY <1>2, <1>4, <2>3
    <3>4. ASSUME NEW c \in Int, c = col \/ c = col + 2, c - col = j - k PROVE k <= j
      <4>1. col \in Int /\ k \in Int /\ j \in Int
        BY <1>2, <2>1
      <4> HIDE DEF col
      <4> QED BY <3>4, <4>1
    <3> QED BY <2>1, <2>2, <3>1, <3>2, <3>3, <3>4
  <2>4. CASE p.line = line + 1 /\ k = Len(s)
    <3>1. ScanLine(s, j) <= line
      BY <2>1, <2>4, NewlineFacts
    <3> QED BY <1>2, <2>2, <2>4, <3>1
  <2> QED BY <1>4, <2>3, <2>4
<1>6. CASE k = Len(s)
  <2>1. \A j \in stops : j <= Len(s) - 1
    BY <1>2
  <2> HIDE DEF stops
  <2>2. stops = {}
    BY <1>2, <1>5, <1>6, <2>1
  <2> QED BY <1>1, <1>6, <2>2
<1>7. CASE k < Len(s)
  <2>1. k \in stops
    BY <1>2, <1>4, <1>7
  <2> HIDE DEF stops
  <2>2. ASSUME NEW i \in stops, \A j \in stops : i <= j PROVE i = k
    <3>1. i \in Nat /\ k <= i /\ i <= k
      BY <1>5, <2>1, <2>2
    <3> QED BY <1>2, <3>1
  <2>3. \E i \in stops : \A j \in stops : i <= j
    BY <1>5, <2>1
  <2> QED BY <1>1, <2>1, <2>2, <2>3
<1> QED BY <1>2, <1>6, <1>7
-----------------------------------------------------------------------------
(* Types, and what the cache holds.                                        *)

Text == Seq(Byte)
Position == [line : Nat, ch : Nat]
Change == [ranged : {TRUE}, start : Position, end : Position, text : Text]
            \cup [ranged : {FALSE}, text : Text]
Request == {"document", "rename", "references", "definition", "symbols"}

Opening == [method : {"didOpen"}, file : File, version : Nat, text : Text]
Changing == [method : {"didChange"}, file : File, version : Nat, change : Change]
Saving == [method : {"didSave"}, file : File, text : {Nothing}]
Asking == [method : Request \cup {"didClose"}, file : File]
Parting == [method : {"shutdown", "exit"}]
Message == Opening \cup Changing \cup Saving \cup Asking \cup Parting

LspTypes ==
  /\ disk \in [File -> Text \cup {Nothing}]
  /\ editor \in [File -> Document \cup {Nothing}]
  /\ docs \in [File -> Document \cup {Nothing}]
  /\ parsed \in [File -> Cached \cup {Nothing}]
  /\ pipe \in Seq(Message)

\* The cache has the stored text of an open file, and of another one nothing but what
\* was on disk.
CacheFollows ==
  \A f \in File :
    IF docs[f] # Nothing THEN parsed[f] = [text |-> docs[f].text, from |-> "buffer"]
    ELSE parsed[f] = Nothing \/ parsed[f].from = "disk"

LspInv == LspTypes /\ CacheFollows

\* A document, or what is cached, is not nothing.
LEMMA SomeFacts ==
  /\ \A v \in Nat, t \in Text : /\ [version |-> v, text |-> t] \in Document
                                /\ [version |-> v, text |-> t] # Nothing
  /\ \A t \in Text, o \in {"disk", "buffer"} : /\ [text |-> t, from |-> o] \in Cached
                                               /\ [text |-> t, from |-> o] # Nothing
<1>1. \A v \in Nat, t \in Text : [version |-> v, text |-> t] \in Document
  BY DEF Document, Text
<1>2. \A t \in Text, o \in {"disk", "buffer"} : [text |-> t, from |-> o] \in Cached
  BY DEF Cached, Text
<1> QED BY <1>1, <1>2, LspAssumption

\* What a method says of its message.
LEMMA MessageFacts ==
  ASSUME NEW m \in Message
  PROVE  /\ m.method = "didOpen" => m \in Opening
         /\ m.method = "didChange" => m \in Changing
         /\ m.method = "didSave" => m \in Saving
         /\ m.method \in Request \cup {"didClose"} => m \in Asking
         /\ m.method \in {"shutdown", "exit"} => m \in Parting
  BY DEF Message, Opening, Changing, Saving, Asking, Parting, Request

\* A piece of a text replaced.
LEMMA SpliceFacts ==
  ASSUME NEW s \in Text, NEW new \in Text, NEW from \in 0..Len(s), NEW to \in 0..Len(s)
  PROVE  Splice(s, from, to, new) \in Text
<1>1. Len(s) \in Nat /\ \A i \in 1..Len(s) : s[i] \in Byte
  BY DEF Text
<1>2. (\A i \in 1..from : s[i] \in Byte) /\ \A i \in (to + 1)..Len(s) : s[i] \in Byte
  BY <1>1
<1>3. SubSeq(s, 1, from) \in Seq(Byte)
  BY <1>1, <1>2, SubSeqProperties
<1>4. SubSeq(s, to + 1, Len(s)) \in Seq(Byte)
  BY <1>1, <1>2, SubSeqProperties
<1> QED BY <1>3, <1>4 DEF Splice, Text

\* What the editor calls an offset.
LEMMA PositionFacts ==
  ASSUME NEW s \in Text, NEW k \in 0..Len(s), NEW bytes, NEW p \in PositionsOf(s, k, bytes)
  PROVE  p \in Position
<1>1. ScanLine(s, k) \in Nat
  BY NewlineFacts DEF Text
<1>2. Units(s, LastNewline(s, k) + 1, k, bytes) \in Nat
  <2>1. LastNewline(s, k) \in Int /\ k \in Int
    BY LastNewlineFacts DEF Text
  <2>2. IsFiniteSet((LastNewline(s, k) + 1)..k)
    BY <2>1, FS_Interval
  <2>3. IsFiniteSet({i \in (LastNewline(s, k) + 1)..k : bytes \/ s[i] # "c"})
    BY <2>2, FS_Subset
  <2> QED BY <2>3, FS_CardinalityType DEF Units
<1> QED BY <1>1, <1>2 DEF PositionsOf, ScanLine, Position

\* Any change makes a text of a text.
LEMMA ChangeFacts ==
  ASSUME NEW s \in Text, NEW c \in Change
  PROVE  ApplyChange(s, c) \in Text
<1>1. c.text \in Text
  BY DEF Change
<1> DEFINE from == PositionToOffset(s, c.start)
           to == PositionToOffset(s, c.end)
<1>2. from \in 0..Len(s) /\ to \in 0..Len(s) /\ Len(s) \in Nat
  BY OffsetFacts DEF Text
<1>3. ApplyChange(s, c) \in {c.text, Splice(s, from, to, c.text)}
  BY DEF ApplyChange
<1> HIDE DEF from, to
<1>4. Splice(s, from, to, c.text) \in Text
  BY <1>1, <1>2, SpliceFacts
<1> QED BY <1>1, <1>3, <1>4

\* A message sent, or read.
LEMMA SendFacts ==
  ASSUME LspTypes, NEW m \in Message, Send(m)
  PROVE  pipe' \in Seq(Message)
  BY DEF Send, LspTypes

LEMMA ReadFacts ==
  ASSUME LspTypes, NEW method, Reads(method)
  PROVE  /\ pipe' \in Seq(Message)
         /\ Head(pipe) \in Message /\ Head(pipe).method = method
  BY DEF Reads, LspTypes

\* Looking at a file.
LEMMA LoadedFacts ==
  ASSUME LspInv, NEW g \in File
  PROVE  /\ Loaded(g) \in Cached \cup {Nothing}
         /\ docs[g] # Nothing => Loaded(g) = [text |-> docs[g].text, from |-> "buffer"]
         /\ docs[g] = Nothing => Loaded(g) = Nothing \/ Loaded(g).from = "disk"
<1>1. parsed[g] \in Cached \cup {Nothing} /\ disk[g] \in Text \cup {Nothing}
  BY DEF LspInv, LspTypes
<1>2. docs[g] # Nothing => parsed[g] # Nothing
  BY SomeFacts DEF LspInv, LspTypes, CacheFollows, Document, Text
<1>3. disk[g] # Nothing => [text |-> disk[g], from |-> "disk"] \in Cached
  BY <1>1, SomeFacts
<1> QED BY <1>1, <1>2, <1>3 DEF Loaded, LspInv, CacheFollows

\* A query leaves in the cache what it has looked at.
LEMMA QueryInv ==
  ASSUME LspInv, pipe' \in Seq(Message), UNCHANGED <<disk, editor, docs>>,
         NEW S, parsed' = [g \in File |-> IF g \in S THEN Loaded(g) ELSE parsed[g]]
  PROVE  LspInv'
<1>1. \A g \in File : parsed'[g] = Loaded(g) \/ parsed'[g] = parsed[g]
  OBVIOUS
<1>2. \A g \in File : Loaded(g) \in Cached \cup {Nothing} /\ parsed[g] \in Cached \cup {Nothing}
  BY LoadedFacts DEF LspInv, LspTypes
<1>3. LspTypes'
  <2>1. parsed' \in [File -> Cached \cup {Nothing}]
    BY <1>2
  <2> QED BY <2>1 DEF LspInv, LspTypes
<1>4. CacheFollows'
  <2> SUFFICES ASSUME NEW f \in File
               PROVE  IF docs[f] # Nothing
                      THEN parsed'[f] = [text |-> docs[f].text, from |-> "buffer"]
                      ELSE parsed'[f] = Nothing \/ parsed'[f].from = "disk"
    BY DEF CacheFollows
  <2> QED BY <1>1, LoadedFacts DEF LspInv, CacheFollows
<1> QED BY <1>3, <1>4 DEF LspInv

\* A step that leaves the documents and the cache alone.
LEMMA StillInv ==
  ASSUME LspInv, pipe' \in Seq(Message), UNCHANGED <<docs, parsed>>,
         disk' \in [File -> Text \cup {Nothing}],
         editor' \in [File -> Document \cup {Nothing}]
  PROVE  LspInv'
  BY DEF LspInv, LspTypes, CacheFollows

\* The editor, and other programs.
LEMMA EditorInv ==
  ASSUME LspInv, NEW f \in Openable,
         \/ EditorOpens(f) \/ EditorTypes(f) \/ EditorReplaces(f)
         \/ EditorSaves(f) \/ EditorCloses(f) \/ EditorAsks(f)
  PROVE  LspInv'
<1>1. f \in File
  BY LspAssumption
<1>2. LspTypes
  BY DEF LspInv
<1>3. CASE EditorOpens(f)
  <2>1. disk[f] \in Text
    BY <1>1, <1>2, <1>3 DEF EditorOpens, LspTypes
  <2>2. [version |-> 1, text |-> disk[f]] \in Document
    BY <2>1, SomeFacts
  <2>3. [method |-> "didOpen", file |-> f, version |-> 1, text |-> disk[f]] \in Message
    BY <1>1, <2>1 DEF Message, Opening
  <2>4. pipe' \in Seq(Message)
    BY <1>2, <1>3, <2>3, SendFacts DEF EditorOpens
  <2> QED BY <1>2, <1>3, <2>2, <2>4, StillInv DEF EditorOpens, LspTypes, serverVars
<1>4. ASSUME editor[f] # Nothing, NEW text \in Text, NEW change \in Change,
             EditorSends(f, text, change)
      PROVE  LspInv'
  <2>1. editor[f].version + 1 \in Nat
    BY <1>1, <1>2, <1>4 DEF LspTypes, Document
  <2>2. [version |-> editor[f].version + 1, text |-> text] \in Document
    BY <1>4, <2>1, SomeFacts
  <2>3. [method |-> "didChange", file |-> f, version |-> editor[f].version + 1, change |-> change]
          \in Message
    BY <1>1, <1>4, <2>1 DEF Message, Changing
  <2>4. pipe' \in Seq(Message)
    BY <1>2, <1>4, <2>3, SendFacts DEF EditorSends
  <2> QED BY <1>2, <1>4, <2>2, <2>4, StillInv DEF EditorSends, LspTypes, serverVars
<1>5. CASE EditorTypes(f)
  <2> DEFINE s == editor[f].text
  <2>1. PICK from \in Boundaries(s), to \in Boundaries(s), new \in Typed :
          /\ from <= to
          /\ \E p \in PositionsOf(s, from, AdvertisesBytes), q \in PositionsOf(s, to, AdvertisesBytes) :
               EditorSends(f, Splice(s, from, to, new),
                 [ranged |-> TRUE, start |-> p, end |-> q, text |-> new])
    BY <1>5 DEF EditorTypes
  <2>2. PICK p \in PositionsOf(s, from, AdvertisesBytes), q \in PositionsOf(s, to, AdvertisesBytes) :
          EditorSends(f, Splice(s, from, to, new),
            [ranged |-> TRUE, start |-> p, end |-> q, text |-> new])
    BY <2>1
  <2>3. s \in Text /\ editor[f] # Nothing
    BY <1>1, <1>2, <1>5 DEF EditorTypes, LspTypes, Document, Text
  <2>4. from \in 0..Len(s) /\ to \in 0..Len(s) /\ new \in Text
    BY LspAssumption DEF Boundaries, Text
  <2> HIDE DEF s
  <2>5. Splice(s, from, to, new) \in Text
    BY <2>3, <2>4, SpliceFacts
  <2>6. p \in Position /\ q \in Position
    BY <2>3, <2>4, PositionFacts
  <2>7. [ranged |-> TRUE, start |-> p, end |-> q, text |-> new] \in Change
    BY <2>4, <2>6 DEF Change
  <2> QED BY <1>4, <2>2, <2>3, <2>5, <2>7
<1>6. CASE EditorReplaces(f)
  <2>1. PICK new \in Typed : EditorSends(f, new, [ranged |-> FALSE, text |-> new])
    BY <1>6 DEF EditorReplaces
  <2>2. new \in Text /\ [ranged |-> FALSE, text |-> new] \in Change
    BY LspAssumption DEF Change, Text
  <2> QED BY <1>4, <1>6, <2>1, <2>2 DEF EditorReplaces
<1>7. CASE EditorSaves(f)
  <2>1. editor[f].text \in Text
    BY <1>1, <1>2, <1>7 DEF EditorSaves, LspTypes, Document, Text
  <2>2. [method |-> "didSave", file |-> f, text |-> Nothing] \in Message
    BY <1>1 DEF Message, Saving
  <2>3. pipe' \in Seq(Message)
    BY <1>2, <1>7, <2>2, SendFacts DEF EditorSaves
  <2> QED BY <1>2, <1>7, <2>1, <2>3, StillInv DEF EditorSaves, LspTypes, serverVars
<1>8. CASE EditorCloses(f)
  <2>1. [method |-> "didClose", file |-> f] \in Message
    BY <1>1 DEF Message, Asking
  <2>2. pipe' \in Seq(Message)
    BY <1>2, <1>8, <2>1, SendFacts DEF EditorCloses
  <2> QED BY <1>2, <1>8, <2>2, StillInv DEF EditorCloses, LspTypes, serverVars
<1>9. CASE EditorAsks(f)
  <2>1. \A kind \in Request : [method |-> kind, file |-> f] \in Message
    BY <1>1 DEF Message, Asking
  <2>2. pipe' \in Seq(Message)
    BY <1>2, <1>9, <2>1, SendFacts DEF EditorAsks, Request
  <2> QED BY <1>2, <1>9, <2>2, StillInv DEF EditorAsks, LspTypes, serverVars
<1> QED BY <1>3, <1>5, <1>6, <1>7, <1>8, <1>9

LEMMA WorldInv ==
  ASSUME LspInv, EditorEnds \/ \E f \in File \ Openable : OutsideWrites(f)
  PROVE  LspInv'
<1>1. LspTypes
  BY DEF LspInv
<1>2. CASE EditorEnds
  <2>1. \A method \in {"shutdown", "exit"} : [method |-> method] \in Message
    BY DEF Message, Parting
  <2>2. pipe' \in Seq(Message)
    BY <1>1, <1>2, <2>1, SendFacts DEF EditorEnds
  <2> QED BY <1>1, <1>2, <2>2, StillInv DEF EditorEnds, LspTypes, serverVars
<1>3. ASSUME NEW f \in File \ Openable, OutsideWrites(f) PROVE LspInv'
  <2>1. disk' \in [File -> Text \cup {Nothing}]
    BY <1>1, <1>3, LspAssumption DEF OutsideWrites, LspTypes, Text
  <2> QED BY <1>1, <1>3, <2>1, StillInv DEF OutsideWrites, LspTypes, serverVars
<1> QED BY <1>2, <1>3

\* A file whose text goes to the store and the cache.
LEMMA StoreInv ==
  ASSUME LspInv, NEW f \in File, NEW d \in Document, pipe' \in Seq(Message),
         docs' = [docs EXCEPT ![f] = d], parsed' = PutText(f, d.text),
         UNCHANGED <<disk, editor>>
  PROVE  LspInv'
<1>1. d # Nothing /\ d.text \in Text
  BY LspAssumption DEF Document, Text
<1>2. [text |-> d.text, from |-> "buffer"] \in Cached
  BY <1>1, SomeFacts
<1> QED BY <1>1, <1>2 DEF LspInv, LspTypes, CacheFollows, PutText

\* The server.
LEMMA ServeInv == ASSUME LspInv, Serve PROVE LspInv'
<1>1. LspTypes
  BY DEF LspInv
<1>2. CASE OnDidOpen
  <2>1. Head(pipe) \in Opening /\ pipe' \in Seq(Message)
    BY <1>1, <1>2, ReadFacts, MessageFacts DEF OnDidOpen
  <2> DEFINE m == Head(pipe)
             d == [version |-> m.version, text |-> m.text]
  <2>2. m.file \in File /\ m.version \in Nat /\ m.text \in Text
    BY <2>1 DEF Opening
  <2>3. d \in Document /\ d.text = m.text
    BY <2>2, SomeFacts
  <2>4. docs' = [docs EXCEPT ![m.file] = d] /\ parsed' = PutText(m.file, m.text)
        /\ UNCHANGED <<disk, editor>>
    BY <1>2 DEF OnDidOpen
  <2> HIDE DEF m, d
  <2> QED BY <2>1, <2>2, <2>3, <2>4, StoreInv
<1>3. CASE OnDidChange
  <2>1. Head(pipe) \in Changing /\ pipe' \in Seq(Message)
    BY <1>1, <1>3, ReadFacts, MessageFacts DEF OnDidChange
  <2> DEFINE m == Head(pipe)
             d == ApplyChanges(docs[m.file], m)
  <2>2. m.file \in File /\ m.version \in Nat /\ m.change \in Change
    BY <2>1 DEF Changing
  <2>3. docs[m.file] \in Document \cup {Nothing}
    BY <1>1, <2>2 DEF LspTypes
  <2>4. d \in Document
    <3>1. CASE docs[m.file] = Nothing
      <4>1. <<>> \in Text
        BY DEF Text
      <4>2. ApplyChange(<<>>, m.change) \in Text
        BY <2>2, <4>1, ChangeFacts
      <4>3. d = [version |-> m.version, text |-> ApplyChange(<<>>, m.change)]
        BY <3>1 DEF ApplyChanges
      <4> QED BY <2>2, <4>2, <4>3, SomeFacts
    <3>2. CASE docs[m.file] # Nothing
      <4>1. docs[m.file].text \in Text
        BY <2>3, <3>2 DEF Document, Text
      <4>2. ApplyChange(docs[m.file].text, m.change) \in Text
        BY <2>2, <4>1, ChangeFacts
      <4>3. d \in {docs[m.file],
                   [version |-> m.version, text |-> ApplyChange(docs[m.file].text, m.change)]}
        BY <3>2 DEF ApplyChanges
      <4> QED BY <2>2, <2>3, <3>2, <4>2, <4>3, SomeFacts
    <3> QED BY <3>1, <3>2
  <2>5. docs' = [docs EXCEPT ![m.file] = d] /\ parsed' = PutText(m.file, d.text)
        /\ UNCHANGED <<disk, editor>>
    BY <1>3 DEF OnDidChange
  <2> HIDE DEF m, d
  <2> QED BY <2>1, <2>2, <2>4, <2>5, StoreInv
<1>4. CASE OnDidSave
  <2>1. Head(pipe) \in Saving /\ pipe' \in Seq(Message)
    BY <1>1, <1>4, ReadFacts, MessageFacts DEF OnDidSave
  <2>2. Head(pipe).file \in File /\ Head(pipe).text = Nothing
    BY <2>1 DEF Saving
  <2>3. docs' = docs /\ UNCHANGED <<parsed, disk, editor>>
    BY <1>1, <1>4, <2>2 DEF OnDidSave, LspTypes
  <2> QED BY <1>1, <2>1, <2>3, StillInv DEF LspTypes
<1>5. CASE OnDidClose
  <2>1. Head(pipe) \in Asking /\ pipe' \in Seq(Message)
    BY <1>1, <1>5, ReadFacts, MessageFacts DEF OnDidClose
  <2>2. Head(pipe).file \in File
    BY <2>1 DEF Asking
  <2> QED BY <1>5, <2>1, <2>2 DEF OnDidClose, LspInv, LspTypes, CacheFollows
<1>6. CASE OnDocumentRequest \/ OnShutdown \/ OnExit
  <2>1. pipe' \in Seq(Message) /\ UNCHANGED <<docs, parsed, disk, editor>>
    BY <1>1, <1>6, ReadFacts DEF OnDocumentRequest, OnShutdown, OnExit
  <2> QED BY <1>1, <2>1, StillInv DEF LspTypes
<1>7. CASE OnReferences \/ OnRename \/ OnDefinition \/ OnWorkspaceSymbol
  <2>1. pipe' \in Seq(Message) /\ UNCHANGED <<docs, disk, editor>>
    BY <1>1, <1>7, ReadFacts DEF OnReferences, OnRename, OnDefinition, OnWorkspaceSymbol
  <2>2. \/ UNCHANGED parsed
        \/ \E S : parsed' = [g \in File |-> IF g \in S THEN Loaded(g) ELSE parsed[g]]
    BY <1>7 DEF OnReferences, OnRename, OnDefinition, OnWorkspaceSymbol, LoadAll
  <2> QED BY <1>1, <2>1, <2>2, StillInv, QueryInv DEF LspTypes
<1> QED BY <1>2, <1>3, <1>4, <1>5, <1>6, <1>7 DEF Serve

LEMMA LspInvInit == Init => LspInv
<1> SUFFICES ASSUME Init PROVE LspInv
  OBVIOUS
<1>1. disk \in [File -> Text \cup {Nothing}]
  BY LspAssumption DEF Init, Text
<1> QED BY <1>1 DEF Init, LspInv, LspTypes, CacheFollows

LEMMA LspInvNext == LspInv /\ [LspNext]_lspVars => LspInv'
<1> SUFFICES ASSUME LspInv, [LspNext]_lspVars PROVE LspInv'
  OBVIOUS
<1>1. CASE LspNext
  BY <1>1, ServeInv, EditorInv, WorldInv DEF LspNext
<1>2. CASE UNCHANGED lspVars
  BY <1>2 DEF lspVars, LspInv, LspTypes, CacheFollows
<1> QED BY <1>1, <1>2

LEMMA LspInvariance == LspSpec => []LspInv
  BY LspInvInit, LspInvNext, PTL DEF LspSpec

\* Texts that were looked up, of files that were found.
LEMMA UsesFacts ==
  ASSUME LspInv, NEW S \in SUBSET File, \A g \in S : Loaded(g) # Nothing,
         \A g \in S : parsed'[g] = Loaded(g), NEW u \in Uses(S)
  PROVE  IF docs[u[1]] # Nothing THEN u[2] = docs[u[1]].text
         ELSE parsed'[u[1]].from = "disk"
<1>1. PICK g \in S : u = <<g, Loaded(g).text>>
  BY DEF Uses
<1> QED BY <1>1, LoadedFacts

\* Whatever is open is answered from the stored text, and whatever is not from the disk
\* (PutText, Drop, AllFiles, LoadFromDisk): for every set of files and every text.
THEOREM AnswersUseBuffersCorrect == LspSpec => AnswersUseBuffers
<1>1. ASSUME LspInv, LspNext, answer' # answer, NEW u \in answer'.uses
      PROVE  IF docs[u[1]] # Nothing THEN u[2] = docs[u[1]].text
             ELSE parsed'[u[1]].from = "disk"
  <2> DEFINE f == Head(pipe).file
             Right(v) == IF docs[v[1]] # Nothing THEN v[2] = docs[v[1]].text
                         ELSE parsed'[v[1]].from = "disk"
  <2>1. AllFiles \in SUBSET File /\ \A g \in AllFiles : Loaded(g) # Nothing
    <3>1. \A g \in File : disk[g] # Nothing => [text |-> disk[g], from |-> "disk"] # Nothing
      BY <1>1, SomeFacts DEF LspInv, LspTypes
    <3> QED BY <3>1 DEF AllFiles, Loaded
  <2>2. \A g \in AllFiles : LoadAll[g] = Loaded(g)
    BY <2>1 DEF LoadAll
  <2>3. parsed' = LoadAll => \A v \in Uses(AllFiles) : Right(v)
    BY <1>1, <2>1, <2>2, UsesFacts
  <2>4. \A S : Uses(AllFiles \ S) \subseteq Uses(AllFiles)
    BY DEF Uses
  <2>5. CASE OnDocumentRequest
    BY <1>1, <2>5 DEF OnDocumentRequest
  <2>6. CASE OnReferences
    <3> DEFINE none == docs[f] = Nothing \/ docs[f].text \in Broken
               others == {v \in Uses(AllFiles \ {f}) : v[2] \notin Broken}
    <3>1. /\ none => answer' = [kind |-> "references", uses |-> {}]
          /\ ~none => /\ answer' = [kind |-> "references", uses |-> {<<f, docs[f].text>>} \cup others]
                      /\ parsed' = LoadAll
      BY <2>6 DEF OnReferences
    <3>2. (~none => docs[f] # Nothing) /\ others \subseteq Uses(AllFiles)
      BY <2>4
    <3> HIDE DEF none, others
    <3>3. ~none /\ (u = <<f, docs[f].text>> \/ u \in others)
      BY <1>1, <3>1
    <3>4. CASE u = <<f, docs[f].text>>
      BY <3>2, <3>3, <3>4
    <3>5. CASE u \in others
      BY <2>3, <3>1, <3>2, <3>3, <3>5
    <3> QED BY <3>3, <3>4, <3>5
  <2>7. CASE OnRename
    <3> DEFINE none == \/ docs[f] = Nothing
                       \/ docs[f].text \in Broken \cup Clashing
                       \/ ~Mentions(docs[f].text)
               others == {v \in Uses(AllFiles \ {f}) : v[2] \notin Broken}
               named == {v \in others \cup {<<f, docs[f].text>>} : Mentions(v[2])}
    <3>1. /\ none => answer' = [kind |-> "refused", uses |-> {}]
          /\ ~none => /\ \/ answer' = [kind |-> "refused", uses |-> {}]
                         \/ answer' = [kind |-> "rename", uses |-> named]
                      /\ parsed' = LoadAll
      BY <2>7 DEF OnRename
    <3>2. /\ ~none => docs[f] # Nothing
          /\ others \subseteq Uses(AllFiles)
          /\ named \subseteq others \cup {<<f, docs[f].text>>}
      BY <2>4
    <3> HIDE DEF none, others, named
    <3>3. ~none /\ u \in named
      BY <1>1, <3>1
    <3>4. CASE u = <<f, docs[f].text>>
      BY <3>2, <3>3, <3>4
    <3>5. CASE u \in others
      BY <2>3, <3>1, <3>2, <3>3, <3>5
    <3> QED BY <3>2, <3>3, <3>4, <3>5
  <2>8. CASE OnDefinition
    <3> DEFINE found == IF root THEN FirstLoaded ELSE {}
    <3>1. u \in Uses(found)
          /\ parsed' = [g \in File |-> IF g \in found THEN Loaded(g) ELSE parsed[g]]
      BY <1>1, <2>8 DEF OnDefinition
    <3>2. found \in SUBSET File /\ \A g \in found : Loaded(g) # Nothing
      BY LspAssumption DEF FirstLoaded
    <3> HIDE DEF found
    <3>3. \A g \in found : parsed'[g] = Loaded(g)
      BY <3>1, <3>2
    <3> QED BY <1>1, <3>1, <3>2, <3>3, UsesFacts
  <2>9. CASE OnWorkspaceSymbol
    <3>1. parsed' = LoadAll /\ u \in Uses(AllFiles)
      BY <1>1, <2>9 DEF OnWorkspaceSymbol
    <3> QED BY <2>3, <3>1
  <2>10. CASE OnDidOpen \/ OnDidChange \/ OnDidSave \/ OnDidClose \/ OnShutdown \/ OnExit
    BY <1>1, <2>10 DEF OnDidOpen, OnDidChange, OnDidSave, OnDidClose, OnShutdown, OnExit, NoAnswer
  <2>11. CASE ~Serve
    <3>1. ASSUME NEW g \in Openable,
                 \/ EditorOpens(g) \/ EditorTypes(g) \/ EditorReplaces(g)
                 \/ EditorSaves(g) \/ EditorCloses(g) \/ EditorAsks(g)
          PROVE  UNCHANGED answer
      <4>1. CASE EditorOpens(g) \/ EditorSaves(g) \/ EditorCloses(g) \/ EditorAsks(g)
        BY <4>1 DEF EditorOpens, EditorSaves, EditorCloses, EditorAsks, serverVars
      <4>2. \A text, change : EditorSends(g, text, change) => UNCHANGED answer
        BY DEF EditorSends, serverVars
      <4>3. CASE EditorTypes(g)
        BY <4>2, <4>3 DEF EditorTypes
      <4>4. CASE EditorReplaces(g)
        BY <4>2, <4>4 DEF EditorReplaces
      <4> QED BY <3>1, <4>1, <4>3, <4>4
    <3>2. ASSUME NEW g \in File \ Openable, OutsideWrites(g) PROVE UNCHANGED answer
      BY <3>2 DEF OutsideWrites, serverVars
    <3>3. ASSUME EditorEnds PROVE UNCHANGED answer
      <4>1. UNCHANGED serverVars
        BY <3>3 DEF EditorEnds
      <4> QED BY <4>1 DEF serverVars
    <3> QED BY <1>1, <2>11, <3>1, <3>2, <3>3 DEF LspNext
  <2> QED BY <2>5, <2>6, <2>7, <2>8, <2>9, <2>10, <2>11 DEF Serve
<1>2. LspInv /\ [LspNext]_lspVars =>
        [answer' # answer => \A u \in answer'.uses :
           IF docs[u[1]] # Nothing THEN u[2] = docs[u[1]].text
           ELSE parsed'[u[1]].from = "disk"]_lspVars
  BY <1>1
<1> QED BY <1>2, LspInvariance, PTL DEF LspSpec, AnswersUseBuffers
-----------------------------------------------------------------------------
(* The documents are the editor's, as long as nobody types a character that *)
(* the editor counts as one unit and the server as more: positions that the *)
(* server takes for byte columns are UTF-16 columns for the editor.         *)

OneByte ==
  /\ \A t \in Typed : Narrow(t)
  /\ \A f \in File : \A t \in Contents[f] \ {Nothing} : Narrow(t)

NarrowTexts ==
  \A f \in File : /\ disk[f] # Nothing => Narrow(disk[f])
                  /\ editor[f] # Nothing => Narrow(editor[f].text)

\* What a message makes of the documents.
Tells(m, before, after) ==
  \/ /\ m.method = "didOpen"
     /\ after = [before EXCEPT ![m.file] = [version |-> m.version, text |-> m.text]]
  \/ /\ m.method = "didChange"
     /\ before[m.file] # Nothing /\ before[m.file].version < m.version
     /\ after = [before EXCEPT ![m.file] =
                   [version |-> m.version, text |-> ApplyChange(before[m.file].text, m.change)]]
  \/ m.method = "didClose" /\ after = [before EXCEPT ![m.file] = Nothing]
  \/ m.method \in Request \cup {"didSave", "shutdown", "exit"} /\ after = before

\* The messages in the pipe make of the documents what the editor has.
Told ==
  \E h \in [0..Len(pipe) -> [File -> Document \cup {Nothing}]] :
    /\ h[0] = docs /\ h[Len(pipe)] = editor
    /\ \A i \in 1..Len(pipe) : Tells(pipe[i], h[i - 1], h[i])

SyncInv == LspInv /\ NarrowTexts /\ Told /\ shown = docs

\* What has no wide character before a change has none after it.
LEMMA NarrowSplice ==
  ASSUME NEW s \in Text, NEW new \in Text, NEW from \in 0..Len(s), NEW to \in 0..Len(s),
         Narrow(s), Narrow(new)
  PROVE  Narrow(Splice(s, from, to, new))
<1>1. Len(s) \in Nat /\ Len(new) \in Nat /\ \A i \in 1..Len(s) : s[i] \in Byte
  BY DEF Text
<1>2. (\A i \in 1..from : s[i] \in Byte) /\ \A i \in (to + 1)..Len(s) : s[i] \in Byte
  BY <1>1
<1> DEFINE a == SubSeq(s, 1, from)
           z == SubSeq(s, to + 1, Len(s))
<1>3. a \in Seq(Byte) /\ Len(a) = from /\ \A i \in 1..from : a[i] = s[i]
  BY <1>1, <1>2, SubSeqProperties
<1>4. /\ z \in Seq(Byte) /\ Len(z) = Len(s) - to
      /\ \A i \in 1..(Len(s) - to) : z[i] = s[to + i]
  BY <1>1, <1>2, SubSeqProperties
<1> HIDE DEF a, z
<1>5. Narrow(a) /\ Narrow(z)
  BY <1>1, <1>3, <1>4 DEF Narrow
<1>6. \A x, y \in Seq(Byte) : Narrow(x) /\ Narrow(y) => x \o y \in Seq(Byte) /\ Narrow(x \o y)
  BY DEF Narrow
<1>7. Narrow((a \o new) \o z)
  BY <1>3, <1>4, <1>5, <1>6 DEF Text
<1> QED BY <1>7 DEF Splice, a, z

\* The editor tells of what it does.
LEMMA ToldMore ==
  ASSUME LspTypes, LspTypes', Told, NEW m \in Message, Send(m), Tells(m, editor, editor'),
         UNCHANGED docs
  PROVE  Told'
<1>1. PICK h \in [0..Len(pipe) -> [File -> Document \cup {Nothing}]] :
        /\ h[0] = docs /\ h[Len(pipe)] = editor
        /\ \A i \in 1..Len(pipe) : Tells(pipe[i], h[i - 1], h[i])
  BY DEF Told
<1>2. /\ Len(pipe) \in Nat /\ Len(pipe') = Len(pipe) + 1
      /\ \A i \in 1..Len(pipe) : pipe'[i] = pipe[i]
      /\ pipe'[Len(pipe) + 1] = m
  BY DEF Send, LspTypes
<1> DEFINE n == Len(pipe)
           g == [i \in 0..(n + 1) |-> IF i <= n THEN h[i] ELSE editor']
<1>3. editor' \in [File -> Document \cup {Nothing}]
  BY DEF LspTypes
<1> HIDE DEF n
<1>4. n \in Nat /\ h \in [0..n -> [File -> Document \cup {Nothing}]]
  BY <1>1, <1>2 DEF n
<1>5. g \in [0..(n + 1) -> [File -> Document \cup {Nothing}]]
  BY <1>3, <1>4
<1>6. (\A i \in 0..n : g[i] = h[i]) /\ g[n + 1] = editor'
  BY <1>4
<1> HIDE DEF g
<1>7. ASSUME NEW i \in 1..(n + 1) PROVE Tells(pipe'[i], g[i - 1], g[i])
  <2>1. CASE i \in 1..n
    <3>1. i \in 0..n /\ i - 1 \in 0..n
      BY <1>4, <2>1
    <3> QED BY <1>1, <1>2, <1>6, <2>1, <3>1 DEF n
  <2>2. CASE i = n + 1
    <3>1. g[i - 1] = editor /\ g[i] = editor' /\ pipe'[i] = m
      BY <1>1, <1>2, <1>4, <1>6, <2>2 DEF n
    <3> QED BY <3>1
  <2> QED BY <1>4, <2>1, <2>2
<1>8. g[0] = docs' /\ g[n + 1] = editor'
  BY <1>1, <1>4, <1>6
<1> QED BY <1>2, <1>5, <1>7, <1>8 DEF Told, n

\* The server makes of the documents what the message tells.
LEMMA ToldLess ==
  ASSUME LspTypes, Told, pipe # <<>>, pipe' = Tail(pipe), UNCHANGED editor,
         \A after : Tells(Head(pipe), docs, after) => docs' = after
  PROVE  Told'
<1>1. PICK h \in [0..Len(pipe) -> [File -> Document \cup {Nothing}]] :
        /\ h[0] = docs /\ h[Len(pipe)] = editor
        /\ \A i \in 1..Len(pipe) : Tells(pipe[i], h[i - 1], h[i])
  BY DEF Told
<1>2. /\ Len(pipe) \in Nat \ {0} /\ Len(pipe') = Len(pipe) - 1 /\ Head(pipe) = pipe[1]
      /\ \A i \in 1..(Len(pipe) - 1) : pipe'[i] = pipe[i + 1]
  BY DEF LspTypes
<1> DEFINE n == Len(pipe)
           g == [i \in 0..(n - 1) |-> h[i + 1]]
<1> HIDE DEF n
<1>3. n \in Nat \ {0} /\ h \in [0..n -> [File -> Document \cup {Nothing}]]
  BY <1>1, <1>2 DEF n
<1>4. g \in [0..(n - 1) -> [File -> Document \cup {Nothing}]]
  BY <1>3
<1>5. \A i \in 0..(n - 1) : g[i] = h[i + 1]
  BY <1>3
<1> HIDE DEF g
<1>6. ASSUME NEW i \in 1..(n - 1) PROVE Tells(pipe'[i], g[i - 1], g[i])
  <2>1. i - 1 \in 0..(n - 1) /\ i \in 0..(n - 1) /\ i + 1 \in 1..n /\ i - 1 + 1 = i /\ i + 1 - 1 = i
    BY <1>3
  <2>2. Tells(pipe[i + 1], h[i], h[i + 1])
    BY <1>1, <2>1 DEF n
  <2>3. g[i - 1] = h[i] /\ g[i] = h[i + 1]
    BY <1>5, <2>1
  <2>4. pipe'[i] = pipe[i + 1]
    BY <1>2 DEF n
  <2> QED BY <2>2, <2>3, <2>4
<1>7. g[0] = docs'
  <2>1. 1 \in 1..n /\ 0 \in 0..(n - 1)
    BY <1>3
  <2>2. Tells(pipe[1], h[0], h[1])
    BY <1>1, <2>1 DEF n
  <2> QED BY <1>1, <1>2, <1>5, <2>1, <2>2
<1>8. g[n - 1] = editor'
  <2>1. n - 1 \in 0..(n - 1) /\ n - 1 + 1 = n
    BY <1>3
  <2> QED BY <1>1, <1>5, <2>1 DEF n
<1>9. Len(pipe') = n - 1
  BY <1>2 DEF n
<1> QED BY <1>4, <1>6, <1>7, <1>8, <1>9 DEF Told

\* A file that no message is about is as the editor has it.
LEMMA ToldAll ==
  ASSUME LspTypes, Told, NEW f \in File, CaughtUp(f)
  PROVE  docs[f] = editor[f]
<1>1. PICK h \in [0..Len(pipe) -> [File -> Document \cup {Nothing}]] :
        /\ h[0] = docs /\ h[Len(pipe)] = editor
        /\ \A i \in 1..Len(pipe) : Tells(pipe[i], h[i - 1], h[i])
  BY DEF Told
<1> DEFINE n == Len(pipe)
           T == {i \in 0..n : h[i][f] # docs[f]}
<1>2. n \in Nat /\ pipe \in Seq(Message)
  BY DEF LspTypes
<1>3. ASSUME NEW i \in 1..n PROVE h[i][f] = h[i - 1][f]
  <2>1. pipe[i] \in Message /\ Tells(pipe[i], h[i - 1], h[i])
    BY <1>1, <1>2
  <2>2. pipe[i].method \in {"didOpen", "didChange", "didClose"} => pipe[i].file # f
    <3>1. pipe[i] \in Opening \cup Changing \cup Asking => "file" \in DOMAIN pipe[i]
      BY DEF Opening, Changing, Asking
    <3> QED BY <1>2, <2>1, <3>1, MessageFacts DEF CaughtUp
  <2>3. i - 1 \in 0..n /\ i \in 0..n
    BY <1>2
  <2>4. h[i - 1] \in [File -> Document \cup {Nothing}]
    BY <1>1, <2>3
  <2> HIDE DEF n
  <2> QED BY <2>1, <2>2, <2>4 DEF Tells
<1>4. CASE T = {}
  <2>1. n \in 0..n
    BY <1>2
  <2>2. n \notin T
    BY <1>4
  <2> QED BY <1>1, <2>1, <2>2
<1>5. CASE T # {}
  <2>1. T \subseteq Nat
    BY <1>2
  <2>2. PICK i \in T : \A j \in T : i <= j
    <3> HIDE DEF T
    <3> QED BY <1>5, <2>1, LeastNat
  <2>3. i \in 0..n /\ h[i][f] # docs[f] /\ i # 0
    BY <1>1
  <2>4. i \in 1..n /\ i - 1 \in 0..n /\ i \in Nat /\ ~(i <= i - 1)
    BY <1>2, <2>3
  <2>5. i - 1 \notin T
    BY <2>2, <2>4
  <2> QED BY <1>3, <2>3, <2>4, <2>5
<1> QED BY <1>4, <1>5

\* A change that the editor sends.
LEMMA SyncSends ==
  ASSUME SyncInv, LspInv', NEW f \in File, editor[f] # Nothing,
         NEW text \in Text, Narrow(text), NEW change \in Change,
         ApplyChange(editor[f].text, change) = text, EditorSends(f, text, change)
  PROVE  SyncInv'
<1> DEFINE v == editor[f].version + 1
           m == [method |-> "didChange", file |-> f, version |-> v, change |-> change]
<1>1. /\ editor' = [editor EXCEPT ![f] = [version |-> v, text |-> text]]
      /\ Send(m) /\ UNCHANGED <<disk, docs, shown>>
  BY DEF EditorSends, serverVars
<1>2. editor \in [File -> Document \cup {Nothing}] /\ editor[f].version \in Nat
  BY DEF SyncInv, LspInv, LspTypes, Document
<1>3. m \in Message
  BY <1>2 DEF Message, Changing
<1>4. /\ m.method = "didChange" /\ m.file = f /\ m.version = v /\ m.change = change
      /\ editor[f].version < v
  BY <1>2
<1> HIDE DEF m, v
<1>5. Tells(m, editor, editor')
  BY <1>1, <1>4 DEF Tells
<1>6. Told'
  BY <1>1, <1>3, <1>5, ToldMore DEF SyncInv, LspInv
<1>7. NarrowTexts'
  BY <1>1, <1>2 DEF SyncInv, NarrowTexts
<1> QED BY <1>1, <1>6, <1>7 DEF SyncInv

\* What the user types reaches the server as the same text.
LEMMA SyncTypes ==
  ASSUME OneByte, SyncInv, LspInv', NEW f \in File, EditorTypes(f) \/ EditorReplaces(f)
  PROVE  SyncInv'
<1> DEFINE s == editor[f].text
<1>1. editor[f] # Nothing
  BY DEF EditorTypes, EditorReplaces
<1>2. s \in Text /\ Narrow(s)
  BY <1>1 DEF SyncInv, LspInv, LspTypes, NarrowTexts, Document, Text
<1>3. CASE EditorTypes(f)
  <2>1. PICK from \in Boundaries(s), to \in Boundaries(s), new \in Typed :
          /\ from <= to
          /\ \E p \in PositionsOf(s, from, AdvertisesBytes), q \in PositionsOf(s, to, AdvertisesBytes) :
               EditorSends(f, Splice(s, from, to, new),
                 [ranged |-> TRUE, start |-> p, end |-> q, text |-> new])
    BY <1>3 DEF EditorTypes
  <2>2. PICK p \in PositionsOf(s, from, AdvertisesBytes), q \in PositionsOf(s, to, AdvertisesBytes) :
          EditorSends(f, Splice(s, from, to, new),
            [ranged |-> TRUE, start |-> p, end |-> q, text |-> new])
    BY <2>1
  <2>3. from \in 0..Len(s) /\ to \in 0..Len(s) /\ new \in Text /\ Narrow(new)
    BY LspAssumption DEF Boundaries, Text, OneByte
  <2> DEFINE change == [ranged |-> TRUE, start |-> p, end |-> q, text |-> new]
  <2> HIDE DEF s
  <2>4. Splice(s, from, to, new) \in Text /\ Narrow(Splice(s, from, to, new))
    BY <1>2, <2>3, SpliceFacts, NarrowSplice
  <2>5. PositionToOffset(s, p) = from /\ PositionToOffset(s, q) = to
    BY <1>2, <2>3, PositionRoundTrip DEF AdvertisesBytes, Text
  <2>6. p \in Position /\ q \in Position
    BY <1>2, <2>3, PositionFacts
  <2>7. change \in Change
    BY <2>3, <2>6 DEF Change
  <2>8. from \in Int /\ to \in Int /\ ~(from > to)
    BY <2>1, <2>3
  <2>9. ApplyChange(s, change) = Splice(s, from, to, new)
    BY <2>5, <2>8 DEF ApplyChange
  <2> HIDE DEF change
  <2>10. EditorSends(f, Splice(s, from, to, new), change)
    BY <2>2 DEF change
  <2> QED BY <1>1, <2>4, <2>7, <2>9, <2>10, SyncSends DEF s
<1>4. CASE EditorReplaces(f)
  <2>1. PICK new \in Typed : EditorSends(f, new, [ranged |-> FALSE, text |-> new])
    BY <1>4 DEF EditorReplaces
  <2>2. new \in Text /\ [ranged |-> FALSE, text |-> new] \in Change /\ Narrow(new)
    BY LspAssumption DEF Change, Text, OneByte
  <2>3. ApplyChange(s, [ranged |-> FALSE, text |-> new]) = new
    BY DEF ApplyChange
  <2> QED BY <1>1, <2>1, <2>2, <2>3, SyncSends
<1> QED BY <1>3, <1>4

\* The editor's other messages, and other programs.
LEMMA SyncOthers ==
  ASSUME OneByte, SyncInv, LspInv',
         \/ \E f \in Openable : EditorOpens(f) \/ EditorSaves(f) \/ EditorCloses(f) \/ EditorAsks(f)
         \/ EditorEnds
         \/ \E f \in File \ Openable : OutsideWrites(f)
  PROVE  SyncInv'
<1>1. LspTypes /\ LspTypes' /\ Told /\ NarrowTexts /\ shown = docs
  BY DEF SyncInv, LspInv
<1>2. ASSUME NEW m \in Message, Send(m), Tells(m, editor, editor'), UNCHANGED <<docs, shown>>,
             NarrowTexts'
      PROVE  SyncInv'
  BY <1>1, <1>2, ToldMore DEF SyncInv
<1>3. ASSUME NEW f \in Openable, EditorOpens(f) PROVE SyncInv'
  <2> DEFINE m == [method |-> "didOpen", file |-> f, version |-> 1, text |-> disk[f]]
  <2>1. f \in File /\ disk[f] \in Text /\ Narrow(disk[f])
    BY <1>1, <1>3, LspAssumption DEF EditorOpens, LspTypes, NarrowTexts
  <2>2. m \in Message
    BY <2>1 DEF Message, Opening
  <2>3. /\ editor' = [editor EXCEPT ![f] = [version |-> 1, text |-> disk[f]]]
        /\ Send(m) /\ UNCHANGED <<disk, docs, shown>>
    BY <1>3 DEF EditorOpens, serverVars
  <2>4. Tells(m, editor, editor')
    BY <2>3 DEF Tells
  <2>5. NarrowTexts'
    BY <1>1, <2>1, <2>3 DEF NarrowTexts, LspTypes
  <2> QED BY <1>2, <2>2, <2>3, <2>4, <2>5
<1>4. ASSUME NEW f \in Openable, EditorSaves(f) PROVE SyncInv'
  <2> DEFINE m == [method |-> "didSave", file |-> f, text |-> Nothing]
  <2>1. f \in File /\ editor[f] # Nothing
    BY <1>4, LspAssumption DEF EditorSaves
  <2>2. m \in Message
    BY <2>1 DEF Message, Saving
  <2>3. disk' = [disk EXCEPT ![f] = editor[f].text] /\ Send(m) /\ UNCHANGED <<editor, docs, shown>>
    BY <1>4 DEF EditorSaves, serverVars
  <2>4. Tells(m, editor, editor')
    BY <2>3 DEF Tells
  <2>5. NarrowTexts'
    BY <1>1, <2>1, <2>3 DEF NarrowTexts, LspTypes
  <2> QED BY <1>2, <2>2, <2>3, <2>4, <2>5
<1>5. ASSUME NEW f \in Openable, EditorCloses(f) PROVE SyncInv'
  <2> DEFINE m == [method |-> "didClose", file |-> f]
  <2>1. f \in File
    BY LspAssumption
  <2>2. m \in Message
    BY <2>1 DEF Message, Asking
  <2>3. editor' = [editor EXCEPT ![f] = Nothing] /\ Send(m) /\ UNCHANGED <<disk, docs, shown>>
    BY <1>5 DEF EditorCloses, serverVars
  <2>4. Tells(m, editor, editor')
    BY <2>3 DEF Tells
  <2>5. NarrowTexts'
    BY <1>1, <2>1, <2>3 DEF NarrowTexts, LspTypes
  <2> QED BY <1>2, <2>2, <2>3, <2>4, <2>5
<1>6. ASSUME NEW f \in Openable, EditorAsks(f) PROVE SyncInv'
  <2>1. PICK kind \in Request : Send([method |-> kind, file |-> f])
    BY <1>6 DEF EditorAsks, Request
  <2>2. [method |-> kind, file |-> f] \in Message
    BY LspAssumption DEF Message, Asking
  <2>3. UNCHANGED <<disk, editor, docs, shown>>
    BY <1>6 DEF EditorAsks, serverVars
  <2>4. Tells([method |-> kind, file |-> f], editor, editor')
    BY <2>3 DEF Tells
  <2>5. NarrowTexts'
    BY <1>1, <2>3 DEF NarrowTexts
  <2> QED BY <1>2, <2>1, <2>2, <2>3, <2>4, <2>5
<1>7. CASE EditorEnds
  <2>1. PICK method \in {"shutdown", "exit"} : Send([method |-> method])
    BY <1>7 DEF EditorEnds
  <2>2. [method |-> method] \in Message
    BY DEF Message, Parting
  <2>3. UNCHANGED <<disk, editor, docs, shown>>
    BY <1>7 DEF EditorEnds, serverVars
  <2>4. Tells([method |-> method], editor, editor')
    BY <2>3 DEF Tells
  <2>5. NarrowTexts'
    BY <1>1, <2>3 DEF NarrowTexts
  <2> QED BY <1>2, <2>1, <2>2, <2>3, <2>4, <2>5
<1>8. ASSUME NEW f \in File \ Openable, OutsideWrites(f) PROVE SyncInv'
  <2>1. PICK text \in Contents[f] \cup {Nothing} : disk' = [disk EXCEPT ![f] = text]
    BY <1>8 DEF OutsideWrites
  <2>2. UNCHANGED <<editor, pipe, docs, shown>>
    BY <1>8 DEF OutsideWrites, serverVars
  <2>3. NarrowTexts'
    BY <1>1, <2>1, <2>2 DEF NarrowTexts, LspTypes, OneByte
  <2>4. Told'
    BY <1>1, <2>2 DEF Told
  <2> QED BY <1>1, <2>2, <2>3, <2>4 DEF SyncInv
<1> QED BY <1>3, <1>4, <1>5, <1>6, <1>7, <1>8

\* The server follows.
LEMMA SyncServe == ASSUME SyncInv, LspInv', Serve PROVE SyncInv'
<1> DEFINE m == Head(pipe)
<1>1. LspTypes /\ Told /\ NarrowTexts /\ shown = docs
  BY DEF SyncInv, LspInv
<1>2. ASSUME pipe # <<>>, pipe' = Tail(pipe), UNCHANGED <<disk, editor>>, shown' = docs',
             \A after : Tells(m, docs, after) => docs' = after
      PROVE  SyncInv'
  <2>1. Told'
    BY <1>1, <1>2, ToldLess
  <2>2. NarrowTexts'
    BY <1>1, <1>2 DEF NarrowTexts
  <2> QED BY <1>2, <2>1, <2>2 DEF SyncInv
<1>3. CASE OnDidOpen
  <2> DEFINE d == [version |-> m.version, text |-> m.text]
  <2>1. /\ pipe # <<>> /\ pipe' = Tail(pipe) /\ m.method = "didOpen"
        /\ docs' = [docs EXCEPT ![m.file] = d] /\ shown' = [shown EXCEPT ![m.file] = d]
        /\ UNCHANGED <<disk, editor>>
    BY <1>3 DEF OnDidOpen, Reads, Published
  <2> HIDE DEF m
  <2>2. \A after : Tells(m, docs, after) => docs' = after
    BY <2>1 DEF Tells, Request
  <2> QED BY <1>1, <1>2, <2>1, <2>2
<1>4. CASE OnDidChange
  <2> DEFINE d == ApplyChanges(docs[m.file], m)
  <2>1. /\ pipe # <<>> /\ pipe' = Tail(pipe) /\ m.method = "didChange"
        /\ docs' = [docs EXCEPT ![m.file] = d] /\ shown' = [shown EXCEPT ![m.file] = d]
        /\ UNCHANGED <<disk, editor>>
    BY <1>4 DEF OnDidChange, Reads, Published
  <2>2. ASSUME NEW after, Tells(m, docs, after) PROVE docs' = after
    <3>1. /\ docs[m.file] # Nothing /\ docs[m.file].version < m.version
          /\ after = [docs EXCEPT ![m.file] =
                [version |-> m.version, text |-> ApplyChange(docs[m.file].text, m.change)]]
      <4> HIDE DEF m
      <4> QED BY <2>1, <2>2 DEF Tells, Request
    <3>2. docs[m.file].version \in Nat /\ m.version \in Nat
      <4>1. m \in Changing
        BY <1>1, <1>4, ReadFacts, MessageFacts DEF OnDidChange
      <4>2. m.file \in File /\ m.version \in Nat
        BY <4>1 DEF Changing
      <4> QED BY <1>1, <3>1, <4>2 DEF LspTypes, Document
    <3>3. d = [version |-> m.version, text |-> ApplyChange(docs[m.file].text, m.change)]
      <4>1. ~(m.version < docs[m.file].version)
        BY <3>1, <3>2
      <4> QED BY <3>1, <4>1 DEF ApplyChanges
    <3> QED BY <2>1, <3>1, <3>3
  <2> QED BY <1>1, <1>2, <2>1, <2>2
<1>5. CASE OnDidSave
  <2>1. m \in Saving
    BY <1>1, <1>5, ReadFacts, MessageFacts DEF OnDidSave
  <2>2. m.file \in File /\ m.text = Nothing /\ m.method = "didSave"
    BY <2>1 DEF Saving
  <2>3. /\ pipe # <<>> /\ pipe' = Tail(pipe) /\ UNCHANGED <<disk, editor>>
        /\ docs' = [docs EXCEPT ![m.file] = docs[m.file]]
        /\ shown' = IF docs[m.file] = Nothing THEN shown ELSE [shown EXCEPT ![m.file] = docs[m.file]]
    BY <1>5, <2>2 DEF OnDidSave, Reads, Published
  <2> HIDE DEF m
  <2>4. docs' = docs /\ shown' = docs
    BY <1>1, <2>2, <2>3 DEF LspTypes
  <2>5. \A after : Tells(m, docs, after) => docs' = after
    BY <2>2, <2>4 DEF Tells
  <2> QED BY <1>2, <2>3, <2>4, <2>5 DEF m
<1>6. CASE OnDidClose
  <2>1. /\ pipe # <<>> /\ pipe' = Tail(pipe) /\ m.method = "didClose"
        /\ docs' = [docs EXCEPT ![m.file] = Nothing] /\ shown' = [shown EXCEPT ![m.file] = Nothing]
        /\ UNCHANGED <<disk, editor>>
    BY <1>6 DEF OnDidClose, Reads
  <2> HIDE DEF m
  <2>2. \A after : Tells(m, docs, after) => docs' = after
    BY <2>1 DEF Tells, Request
  <2> QED BY <1>1, <1>2, <2>1, <2>2
<1>7. CASE \/ OnDocumentRequest \/ OnReferences \/ OnRename \/ OnDefinition
           \/ OnWorkspaceSymbol \/ OnShutdown \/ OnExit
  <2>1. /\ pipe # <<>> /\ pipe' = Tail(pipe) /\ m.method \in Request \cup {"shutdown", "exit"}
        /\ UNCHANGED <<disk, editor, docs, shown>>
    BY <1>7 DEF OnDocumentRequest, OnReferences, OnRename, OnDefinition, OnWorkspaceSymbol,
       OnShutdown, OnExit, Reads, Request
  <2> HIDE DEF m
  <2>2. \A after : Tells(m, docs, after) => docs' = after
    BY <2>1 DEF Tells, Request
  <2> QED BY <1>1, <1>2, <2>1, <2>2 DEF m
<1> QED BY <1>3, <1>4, <1>5, <1>6, <1>7 DEF Serve

LEMMA SyncInit == ASSUME OneByte, Init PROVE SyncInv
<1>1. LspInv
  BY LspInvInit
<1>2. NarrowTexts
  BY <1>1 DEF Init, NarrowTexts, OneByte, LspInv, LspTypes
<1>3. Told
  <2> DEFINE h == [i \in 0..0 |-> docs]
  <2>1. pipe = <<>> /\ docs = editor
    BY DEF Init
  <2>2. Len(pipe) = 0 /\ 0 \in 0..0 /\ 1..0 = {}
    BY <2>1
  <2>3. h \in [0..Len(pipe) -> [File -> Document \cup {Nothing}]]
    BY <1>1, <2>2 DEF LspInv, LspTypes
  <2>4. h[0] = docs /\ h[Len(pipe)] = editor
    BY <2>1, <2>2
  <2> HIDE DEF h
  <2> QED BY <2>2, <2>3, <2>4 DEF Told
<1> QED BY <1>1, <1>2, <1>3 DEF SyncInv, Init

LEMMA SyncNext == ASSUME OneByte, SyncInv, LspInv', [LspNext]_lspVars PROVE SyncInv'
<1>1. CASE Serve
  BY <1>1, SyncServe
<1>2. ASSUME NEW f \in Openable, EditorTypes(f) \/ EditorReplaces(f) PROVE SyncInv'
  BY <1>2, SyncTypes, LspAssumption
<1>3. CASE UNCHANGED lspVars
  <2>1. Told' <=> Told
    BY <1>3 DEF lspVars, Told
  <2>2. NarrowTexts' <=> NarrowTexts
    BY <1>3 DEF lspVars, NarrowTexts
  <2> QED BY <1>3, <2>1, <2>2 DEF lspVars, SyncInv
<1> QED BY <1>1, <1>2, <1>3, SyncOthers DEF LspNext

\* When the server has read what the editor said of a file, it has the editor's text and
\* shows that text's diagnostics, whatever positions the editor used (ApplyChange).
THEOREM InSyncCorrect ==
  ASSUME OneByte
  PROVE  LspSpec => []InSync
<1>1. LspInv /\ LspInv' /\ SyncInv /\ [LspNext]_lspVars => SyncInv'
  BY SyncNext
<1>2. Init => SyncInv
  BY SyncInit
<1>3. SyncInv => InSync
  BY ToldAll DEF SyncInv, LspInv, InSync
<1> QED BY <1>1, <1>2, <1>3, LspInvariance, PTL DEF LspSpec
=============================================================================
