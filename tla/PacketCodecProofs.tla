-------------------------- MODULE PacketCodecProofs -------------------------
(***************************************************************************)
(* What holds of the codecs whatever is received and whatever allocation   *)
(* fails.                                                                  *)
(*                                                                         *)
(* Of any layouts: the type invariant, and that no parser reads behind the *)
(* end of a payload.  That each byte is within the payload follows from    *)
(* the comparison made before it; for a block one must know besides that   *)
(* its length is a number of bytes, which is what the type invariant says  *)
(* of the field it comes from.                                             *)
(*                                                                         *)
(* Of the layouts of packet.c: that all memory that is walked or freed is  *)
(* in use (BlocksInUse).  First come facts about the layouts: those that   *)
(* are parsed or freed are neat, no two of their fields being at one path, *)
(* and what is written mirrors what is parsed (Layouts, FreeLayouts).      *)
(* Then comes the invariant HeapInv, which says for each stage of a call   *)
(* what the fields still on the stack count on.                            *)
(***************************************************************************)
EXTENDS PacketCodec, SequenceTheorems, TLAPS

Stages == {"called", "parsing", "parsed", "encoding", "freeing", "returned"}

Failures == {"none", "INVALID_PACKET", "INVALID_FRAME", "ENOMEM"}

\* The inductive invariant: the type invariant, that the payload is a sequence
\* which begins with the type when a parser reads it, and the bound.
IInv ==
  /\ TypeOK
  /\ read \in Seq(PacketTypes \cup Byte)
  /\ pc = "parsing" => Len(read) > 0
  /\ ReadsInBounds

\* A step which reads nothing and leaves the packet's fields alone.
ReadsNothing ==
  /\ UNCHANGED <<type, payload_length, read, fields>>
  /\ pc' \in Stages
  /\ pc' = "parsing" => pc = "parsing"
  /\ live' \subseteq 0..allocated'
  /\ allocated' \in Nat
  /\ failure' \in Failures

LEMMA ReadsNothingPreserves ==
  ASSUME IInv, ReadsNothing
  PROVE  IInv'
BY DEF IInv, ReadsNothing, TypeOK, ReadsInBounds, Stages, Failures

\* One more block in use.
LEMMA OneMore ==
  ASSUME NEW n \in Nat, NEW S \in SUBSET (0..n)
  PROVE  S \cup {n + 1} \subseteq 0..(n + 1)
OBVIOUS

\* The actions of all three stages that only walk the layout.
LEMMA WalksOnly ==
  ASSUME IInv,
         Branch \/ Repeat \/ ParseEnds \/ Encode \/ Release \/ WriteField
         \/ WriteBytes \/ AddLength \/ WriteForEach \/ FreeForEach
  PROVE  ReadsNothing
<1>1. UNCHANGED <<type, payload_length, read, fields>>
  BY DEF Branch, Repeat, ParseEnds, Encode, Release, WriteField, WriteBytes,
         AddLength, WriteForEach, FreeForEach, Writes, frameVars, packetVars
<1>2. pc' \in Stages /\ (pc' = "parsing" => pc = "parsing")
  BY DEF Branch, Repeat, ParseEnds, Encode, Release, WriteField, WriteBytes,
         AddLength, WriteForEach, FreeForEach, Writes, IInv, TypeOK, Stages
<1>3. UNCHANGED <<live, allocated, failure>>
  BY DEF Branch, Repeat, ParseEnds, Encode, Release, WriteField, WriteBytes,
         AddLength, WriteForEach, FreeForEach, Writes, memoryVars
<1>4. QED
  BY <1>1, <1>2, <1>3 DEF ReadsNothing, IInv, TypeOK, Stages, Failures

\* The actions that return, free, or give up.
LEMMA GivesBack ==
  ASSUME IInv,
         Refuse \/ NoPacket \/ TooShort \/ OutOfMemory \/ NoFrame
         \/ EncodeEnds \/ FreeField \/ FreePacket
  PROVE  ReadsNothing
<1>1. UNCHANGED <<type, payload_length, read, fields>>
  BY DEF Refuse, NoPacket, TooShort, OutOfMemory, NoFrame, EncodeEnds,
         FreeField, FreePacket, GivesUp, frameVars, packetVars
<1>2. pc' \in Stages /\ (pc' = "parsing" => pc = "parsing")
  BY DEF Refuse, NoPacket, TooShort, OutOfMemory, NoFrame, EncodeEnds,
         FreeField, FreePacket, GivesUp, IInv, TypeOK, Stages
<1>3. live' \subseteq live /\ allocated' = allocated
  BY DEF Refuse, NoPacket, TooShort, OutOfMemory, NoFrame, EncodeEnds,
         FreeField, FreePacket, memoryVars
<1>4. failure' \in Failures
  BY DEF Refuse, NoPacket, TooShort, OutOfMemory, NoFrame, EncodeEnds,
         FreeField, FreePacket, GivesUp, IInv, TypeOK, Failures
<1>5. QED
  BY <1>1, <1>2, <1>3, <1>4 DEF ReadsNothing, IInv, TypeOK

\* The actions that allocate, but for ParseBytes.
LEMMA AllocatesOnly ==
  ASSUME IInv, ParseZeros \/ ParseForEach \/ StartFrame
  PROVE  ReadsNothing
<1>1. UNCHANGED <<type, payload_length, read, fields, failure, pc>>
  BY DEF ParseZeros, ParseForEach, StartFrame, Proceeds, frameVars, packetVars
<1>2. live' = live \cup {allocated + 1} /\ allocated' = allocated + 1
  BY DEF ParseZeros, ParseForEach, StartFrame, Allocates
<1>3. live' \subseteq 0..allocated' /\ allocated' \in Nat
  BY <1>2, OneMore DEF IInv, TypeOK
<1>4. QED
  BY <1>1, <1>3 DEF ReadsNothing, IInv, TypeOK, Stages, Failures

-----------------------------------------------------------------------------
\* Setting a field to a byte keeps all fields bytes.
LEMMA SetKeepsBytes ==
  ASSUME NEW f, NEW path, NEW value \in Byte,
         \A p \in DOMAIN f : f[p] \in Byte
  PROVE  \A p \in DOMAIN Set(f, path, value) : Set(f, path, value)[p] \in Byte
BY DEF Set

\* The actions that read one byte into a field.
LEMMA ReadsPreserves ==
  ASSUME IInv, pc = "parsing", NEW b \in Byte, NEW value \in Byte,
         Reads(b, value), UNCHANGED <<type, payload_length>>,
         pc' \in {"parsing", "freeing"}, failure' \in Failures
  PROVE  IInv'
<1>1. /\ read' = Append(read, b)
      /\ read \in Seq(PacketTypes \cup Byte)
      /\ Len(read) < payload_length
  BY DEF Reads, IInv
<1>2. read' \in Seq(PacketTypes \cup Byte) /\ Len(read') = Len(read) + 1
  BY <1>1
<1>3. Len(read) \in Nat /\ Len(read) > 0 /\ payload_length \in Nat
  BY <1>1, CodecAssumption DEF IInv, TypeOK
<1>4. Len(read') <= payload_length
  BY <1>1, <1>2, <1>3
<1>5. read'[1] = type'
  <2>1. read # <<>>
    BY <1>3
  <2>2. QED
    BY <1>1, <1>3, <2>1 DEF IInv, TypeOK
<1>6. \A i \in 2..Len(read') : read'[i] \in Byte
  BY <1>1, <1>2, <1>3 DEF IInv, TypeOK
<1>7. \A path \in DOMAIN fields' : fields'[path] \in Byte
  BY SetKeepsBytes DEF Reads, IInv, TypeOK
<1>8. UNCHANGED <<live, allocated>>
  BY DEF Reads, memoryVars
<1>9. QED
  BY <1>2, <1>3, <1>4, <1>5, <1>6, <1>7, <1>8
     DEF IInv, TypeOK, ReadsInBounds, Failures

LEMMA ParseByte ==
  ASSUME IInv, ParseEnum \/ ParsePlain \/ ParseCount \/ ParseClamped
  PROVE  IInv'
<1>1. CASE ParseEnum
  <2>1. PICK b \in Byte :
          /\ Reads(b, b)
          /\ IF b \in Field.values THEN Proceeds ELSE GivesUp("INVALID_FRAME")
    BY <1>1 DEF ParseEnum
  <2>2. pc = "parsing"
    BY <1>1 DEF ParseEnum, At
  <2>3. /\ UNCHANGED <<type, payload_length>>
        /\ pc' \in {"parsing", "freeing"} /\ failure' \in Failures
    BY <2>1, <2>2 DEF Proceeds, GivesUp, frameVars, IInv, TypeOK, Failures
  <2>4. QED
    BY <2>1, <2>2, <2>3, ReadsPreserves
<1>2. CASE ParsePlain \/ ParseCount
  <2>1. PICK b \in Byte : Reads(b, b) /\ Proceeds
    BY <1>2, CodecAssumption DEF ParsePlain, ParseCount
  <2>2. pc = "parsing"
    BY <1>2 DEF ParsePlain, ParseCount, At
  <2>3. /\ UNCHANGED <<type, payload_length>>
        /\ pc' \in {"parsing", "freeing"} /\ failure' \in Failures
    BY <2>1, <2>2 DEF Proceeds, frameVars, IInv, TypeOK, Failures
  <2>4. QED
    BY <2>1, <2>2, <2>3, ReadsPreserves
<1>3. CASE ParseClamped
  <2>1. PICK b \in Byte : Reads(b, AtMost(b, NameMax)) /\ Proceeds
    BY <1>3, CodecAssumption DEF ParseClamped
  <2>2. pc = "parsing"
    BY <1>3 DEF ParseClamped, At
  <2>3. /\ UNCHANGED <<type, payload_length>>
        /\ pc' \in {"parsing", "freeing"} /\ failure' \in Failures
    BY <2>1, <2>2 DEF Proceeds, frameVars, IInv, TypeOK, Failures
  <2>4. AtMost(b, NameMax) \in Byte
    BY NameMaxAssumption DEF AtMost, Byte
  <2>5. QED
    BY <2>1, <2>2, <2>3, <2>4, ReadsPreserves
<1>4. QED
  BY <1>1, <1>2, <1>3

\* The length of a block is a number, and that of a name at most NameMax.
LEMMA BlockLengthIsNat ==
  ASSUME IInv
  PROVE  BlockLength \in Nat
<1>1. Value(Field.count) \in Byte
  BY DEF Value, FieldAt, IInv, TypeOK, Byte
<1>2. QED
  BY <1>1, NameMaxAssumption DEF BlockLength, AtMost, Byte

LEMMA BlockPreserves ==
  ASSUME IInv, ParseBytes
  PROVE  IInv'
<1> DEFINE n == BlockLength
<1>1. n \in Nat
  BY BlockLengthIsNat
<1>2. PICK block \in [1..n -> Data] : read' = read \o block
  BY DEF ParseBytes
<1>3. block \in Seq(PacketTypes \cup Byte) /\ Len(block) = n
  BY <1>1, <1>2, CodecAssumption
<1>4. \A i \in 1..n : block[i] \in Byte
  BY <1>2, CodecAssumption
<1>5. /\ pc = "parsing" /\ pc' = pc
      /\ UNCHANGED <<type, payload_length, fields, failure>>
      /\ Len(read) + n <= payload_length
  BY DEF ParseBytes, IsBlock, At, Fits, Proceeds, frameVars
<1>6. /\ read \in Seq(PacketTypes \cup Byte) /\ Len(read) \in Nat
      /\ Len(read) > 0
  BY <1>5 DEF IInv
<1>7. /\ read' \in Seq(PacketTypes \cup Byte)
      /\ Len(read') = Len(read) + n
  BY <1>2, <1>3, <1>6, ConcatProperties
<1>8. read'[1] = type'
  <2>1. read # <<>> /\ read[1] = type
    BY <1>6 DEF IInv, TypeOK
  <2>2. read'[1] = read[1]
    BY <1>2, <1>3, <1>6
  <2>3. QED
    BY <2>1, <2>2, <1>5
<1>9. \A i \in 2..Len(read') : read'[i] \in Byte
  <2>1. SUFFICES ASSUME NEW i \in 2..(Len(read) + n)
                 PROVE  read'[i] \in Byte
    BY <1>7
  <2>2. CASE i <= Len(read)
    <3>1. read'[i] = read[i]
      BY <1>2, <1>3, <1>6, <2>2
    <3>2. QED
      BY <3>1, <2>2, <1>6 DEF IInv, TypeOK
  <2>3. CASE i > Len(read)
    <3>1. read'[i] = block[i - Len(read)] /\ i - Len(read) \in 1..n
      BY <1>1, <1>2, <1>3, <1>6, <2>3
    <3>2. QED
      BY <3>1, <1>4
  <2>4. QED
    BY <2>2, <2>3, <1>6
<1>10. live' \subseteq 0..allocated' /\ allocated' \in Nat
  BY OneMore DEF ParseBytes, Allocates, IInv, TypeOK
<1>11. QED
  BY <1>1, <1>5, <1>6, <1>7, <1>8, <1>9, <1>10 DEF IInv, TypeOK, ReadsInBounds

-----------------------------------------------------------------------------
LEMMA InitInv == Init => IInv
<1> SUFFICES ASSUME Init PROVE IInv
  OBVIOUS
<1>1. payload_length \in Nat /\ read = <<>> /\ pc = "called"
  BY CodecAssumption DEF Init
<1>2. fields = <<>> /\ DOMAIN fields = {}
  BY DEF Init
<1>3. QED
  BY <1>1, <1>2 DEF Init, IInv, TypeOK, ReadsInBounds

LEMMA ParsePreserves == IInv /\ Parse => IInv'
<1> SUFFICES ASSUME IInv, Parse PROVE IInv'
  OBVIOUS
<1>1. /\ read' = <<type>> /\ type \in PacketTypes /\ payload_length > 0
      /\ payload_length \in Nat
      /\ live' = {0} /\ pc' = "parsing"
      /\ UNCHANGED <<type, payload_length, fields, allocated, failure>>
  BY CodecAssumption DEF Parse, frameVars, packetVars, PACKET, IInv, TypeOK
<1>2. read' \in Seq(PacketTypes \cup Byte) /\ Len(read') = 1 /\ read'[1] = type
  BY <1>1
<1>3. \A i \in 2..Len(read') : read'[i] \in Byte
  BY <1>2
<1>4. QED
  BY <1>1, <1>2, <1>3 DEF IInv, TypeOK, ReadsInBounds

LEMMA StepInv == IInv /\ [Next]_vars => IInv'
<1> SUFFICES ASSUME IInv, [Next]_vars PROVE IInv'
  OBVIOUS
<1>1. CASE Branch \/ Repeat \/ ParseEnds \/ Encode \/ Release \/ WriteField
           \/ WriteBytes \/ AddLength \/ WriteForEach \/ FreeForEach
  BY <1>1, WalksOnly, ReadsNothingPreserves
<1>2. CASE Refuse \/ NoPacket \/ TooShort \/ OutOfMemory \/ NoFrame
           \/ EncodeEnds \/ FreeField \/ FreePacket
  BY <1>2, GivesBack, ReadsNothingPreserves
<1>3. CASE ParseZeros \/ ParseForEach \/ StartFrame
  BY <1>3, AllocatesOnly, ReadsNothingPreserves
<1>4. CASE ParseEnum \/ ParsePlain \/ ParseCount \/ ParseClamped
  BY <1>4, ParseByte
<1>5. CASE ParseBytes
  BY <1>5, BlockPreserves
<1>6. CASE Parse
  BY <1>6, ParsePreserves
<1>7. CASE UNCHANGED vars
  BY <1>7, ReadsNothingPreserves
     DEF vars, frameVars, packetVars, memoryVars, ReadsNothing, IInv, TypeOK,
         Stages, Failures
<1>8. QED
  BY <1>1, <1>2, <1>3, <1>4, <1>5, <1>6, <1>7 DEF Next, Walk

\* Every variable of the codec keeps its type; in particular the fields of a
\* packet are bytes, and what is in use was allocated.
THEOREM CodecTypeCorrect == Spec => []TypeOK
<1>1. IInv => TypeOK
  BY DEF IInv
<1>2. QED
  BY InitInv, StepInv, <1>1, PTL DEF Spec

\* No parser reads behind the end of a payload, of any length and content.
THEOREM ReadsStayInBounds == Spec => []ReadsInBounds
<1>1. IInv => ReadsInBounds
  BY DEF IInv
<1>2. QED
  BY InitInv, StepInv, <1>1, PTL DEF Spec

-----------------------------------------------------------------------------
(***************************************************************************)
(* Sequences of anything: the layouts hold fields of different kinds.      *)
(***************************************************************************)
IsSeq(s) == \E S : s \in Seq(S)

LEMMA SeqLen ==
  ASSUME NEW s, IsSeq(s)
  PROVE  Len(s) \in Nat /\ DOMAIN s = 1..Len(s) /\ s = [i \in 1..Len(s) |-> s[i]]
BY DEF IsSeq

LEMMA SeqMade ==
  ASSUME NEW n \in Nat, NEW s, s = [i \in 1..n |-> s[i]]
  PROVE  IsSeq(s) /\ Len(s) = n
<1> DEFINE S == {s[i] : i \in 1..n}
<1>1. s \in [1..n -> S]
  OBVIOUS
<1>2. s \in Seq(S)
  BY <1>1, IsASeq
<1>3. DOMAIN s = 1..n /\ DOMAIN s = 1..Len(s) /\ Len(s) \in Nat
  BY <1>1, <1>2
<1> QED
  BY <1>2, <1>3 DEF IsSeq

LEMMA SeqConcat ==
  ASSUME NEW s, NEW t, IsSeq(s), IsSeq(t)
  PROVE  /\ IsSeq(s \o t)
         /\ Len(s \o t) = Len(s) + Len(t)
         /\ \A i \in 1..Len(s) : (s \o t)[i] = s[i]
         /\ \A i \in 1..Len(t) : (s \o t)[Len(s) + i] = t[i]
         /\ \A i \in 1..(Len(s) + Len(t)) :
              (s \o t)[i] = IF i <= Len(s) THEN s[i] ELSE t[i - Len(s)]
<1>1. PICK S : s \in Seq(S)
  BY DEF IsSeq
<1>2. PICK T : t \in Seq(T)
  BY DEF IsSeq
<1>3. s \in Seq(S \cup T) /\ t \in Seq(S \cup T)
  BY <1>1, <1>2, SeqMonotonic
<1>4. /\ s \o t \in Seq(S \cup T)
      /\ Len(s \o t) = Len(s) + Len(t)
      /\ \A i \in 1..(Len(s) + Len(t)) :
           (s \o t)[i] = IF i <= Len(s) THEN s[i] ELSE t[i - Len(s)]
  BY <1>3, ConcatProperties
<1>5. Len(s) \in Nat /\ Len(t) \in Nat
  BY <1>1, <1>2
<1>6. \A i \in 1..Len(t) : Len(s) + i \in 1..(Len(s) + Len(t)) /\ ~(Len(s) + i <= Len(s))
                           /\ Len(s) + i - Len(s) = i
  BY <1>5
<1>7. \A i \in 1..Len(s) : i \in 1..(Len(s) + Len(t)) /\ i <= Len(s)
  BY <1>5
<1>8. \A i \in 1..Len(s) : (s \o t)[i] = s[i]
  BY <1>4, <1>7
<1>9. \A i \in 1..Len(t) : (s \o t)[Len(s) + i] = t[i]
  BY <1>4, <1>6
<1> QED
  BY <1>4, <1>8, <1>9 DEF IsSeq

LEMMA SeqTail ==
  ASSUME NEW s, IsSeq(s), s # <<>>
  PROVE  /\ Len(s) > 0
         /\ Head(s) = s[1]
         /\ IsSeq(Tail(s))
         /\ Len(Tail(s)) = Len(s) - 1
         /\ \A i \in 1..(Len(s) - 1) : Tail(s)[i] = s[i + 1]
<1>1. PICK S : s \in Seq(S)
  BY DEF IsSeq
<1>2. /\ Len(s) > 0 /\ Head(s) = s[1] /\ Tail(s) \in Seq(S) /\ Len(Tail(s)) = Len(s) - 1
      /\ \A i \in 1..Len(Tail(s)) : Tail(s)[i] = s[i + 1]
  BY <1>1, HeadTailProperties
<1> QED
  BY <1>2 DEF IsSeq

LEMMA SeqSame ==
  ASSUME NEW s, NEW t, IsSeq(s), IsSeq(t), Len(s) = Len(t),
         \A i \in 1..Len(s) : s[i] = t[i]
  PROVE  s = t
<1>1. PICK S : s \in Seq(S)
  BY DEF IsSeq
<1>2. PICK T : t \in Seq(T)
  BY DEF IsSeq
<1>3. s \in Seq(S \cup T) /\ t \in Seq(S \cup T)
  BY <1>1, <1>2, SeqMonotonic
<1> QED
  BY <1>3, SeqEqual

LEMMA SeqOne ==
  ASSUME NEW x
  PROVE  IsSeq(<<x>>) /\ Len(<<x>>) = 1 /\ <<x>>[1] = x
<1>1. <<x>> \in Seq({x})
  OBVIOUS
<1> QED
  BY <1>1 DEF IsSeq

LEMMA SeqEnter ==
  ASSUME NEW path, NEW layout, IsSeq(layout)
  PROVE  /\ IsSeq(Enter(path, layout))
         /\ Len(Enter(path, layout)) = Len(layout)
         /\ \A i \in 1..Len(layout) :
              Enter(path, layout)[i] = [path |-> path, field |-> layout[i]]
<1>1. DOMAIN layout = 1..Len(layout) /\ Len(layout) \in Nat
  BY SeqLen
<1> DEFINE e == Enter(path, layout)
<1>2. /\ e = [i \in 1..Len(layout) |-> e[i]]
      /\ \A i \in 1..Len(layout) : e[i] = [path |-> path, field |-> layout[i]]
  BY <1>1 DEF Enter
<1>3. IsSeq(e) /\ Len(e) = Len(layout)
  BY Zenon, <1>1, <1>2, SeqMade
<1> QED
  BY <1>2, <1>3

LEMMA EmptyEnds ==
  ASSUME NEW s, IsSeq(s)
  PROVE  s \o <<>> = s /\ <<>> \o s = s
BY DEF IsSeq

-----------------------------------------------------------------------------
(***************************************************************************)
(* The stack of fields still to come.  An item covers the paths that it,   *)
(* and what it puts on the stack, will set or free; no two items of a      *)
(* stack cover the same path, nor the array that a later one walks.        *)
(***************************************************************************)
Single  == {"enum", "plain", "count", "clamped", "bytes", "name", "free"}
Several == {"each", "loop"}

Spot(item) == Append(item.path, item.field.name)

\* A field of a layout stands for the field of that name, a switch for those
\* of its cases.
Stands(field, name) ==
  IF field.op = "switch"
  THEN \E c \in DOMAIN field.cases :
         \E i \in DOMAIN field.cases[c].layout : field.cases[c].layout[i].name = name
  ELSE name = field.name

Covers(item, q) ==
  LET n == Len(item.path) IN
  /\ IsSeq(q)
  /\ Len(q) > n
  /\ \A i \in 1..n : q[i] = item.path[i]
  /\ Stands(item.field, q[n + 1])
  /\ \/ item.field.op \in Single /\ Len(q) = n + 1
     \/ /\ item.field.op \in Several /\ Len(q) > n + 2
        /\ item.field.op = "loop" => q[n + 2] \notin 1..item.field.done
     \/ item.field.op = "switch"

Touches(item, q) ==
  Covers(item, q) \/ (item.field.op \in Several /\ q = Spot(item))

Distinct(layout) ==
  \A i, j \in DOMAIN layout :
    i < j => \/ \A name : ~(Stands(layout[i], name) /\ Stands(layout[j], name))
             \/ layout[i].op = "zeros"
             \/ layout[i].op = "each" /\ layout[j].op = "free"

\* Layouts without a switch, down to their innermost elements.
Tidy(layout) ==
  \E T : /\ layout \in T
         /\ \A l \in T :
              /\ IsSeq(l) /\ Distinct(l)
              /\ \A i \in DOMAIN l :
                   /\ l[i].op \in Single \cup {"zeros", "each"}
                   /\ l[i].op = "each" => l[i].element \in T

\* A switch has cases without one.
TidyCases(field) == \A c \in DOMAIN field.cases : Tidy(field.cases[c].layout)

Neat(layout) ==
  /\ IsSeq(layout) /\ Distinct(layout)
  /\ \A i \in DOMAIN layout :
       /\ layout[i].op \in Single \cup {"zeros", "each", "switch"}
       /\ layout[i].op = "each" => Tidy(layout[i].element)
       /\ layout[i].op = "switch" => TidyCases(layout[i])

TidyItem(item) ==
  /\ item = [path |-> item.path, field |-> item.field]
  /\ IsSeq(item.path)
  /\ item.field.op \in Single \cup Several \cup {"zeros", "switch"}
  /\ item.field.op = "switch" => TidyCases(item.field)
  /\ item.field.op \in Several => Tidy(item.field.element)
  /\ item.field.op = "loop" =>
       /\ item.field = [op |-> "loop", name |-> item.field.name, count |-> item.field.count,
                        element |-> item.field.element, done |-> item.field.done]
       /\ item.field.done \in Nat

Apart(items) ==
  \A i, j \in 1..Len(items) :
    i < j => \A q : Covers(items[i], q) => ~Touches(items[j], q)

Stack(items) ==
  /\ IsSeq(items)
  /\ \A i \in 1..Len(items) : TidyItem(items[i])
  /\ Apart(items)

LEMMA TidyIs ==
  ASSUME NEW layout, Tidy(layout)
  PROVE  /\ Neat(layout)
         /\ IsSeq(layout) /\ Distinct(layout)
         /\ \A i \in DOMAIN layout :
              /\ layout[i].op \in Single \cup {"zeros", "each"}
              /\ layout[i].op = "each" => Tidy(layout[i].element)
<1>1. PICK T : /\ layout \in T
               /\ \A l \in T :
                    /\ IsSeq(l) /\ Distinct(l)
                    /\ \A i \in DOMAIN l :
                         /\ l[i].op \in Single \cup {"zeros", "each"}
                         /\ l[i].op = "each" => l[i].element \in T
  BY DEF Tidy
<1>2. \A l \in T : Tidy(l)
  BY <1>1, Zenon DEF Tidy
<1>3. /\ IsSeq(layout) /\ Distinct(layout)
      /\ \A i \in DOMAIN layout :
           /\ layout[i].op \in Single \cup {"zeros", "each"}
           /\ layout[i].op = "each" => Tidy(layout[i].element)
  BY <1>1, <1>2
<1> QED
  BY <1>3 DEF Neat, Single

LEMMA SpotIs ==
  ASSUME NEW path, IsSeq(path), NEW name
  PROVE  /\ IsSeq(Append(path, name))
         /\ Len(path) \in Nat
         /\ Len(Append(path, name)) = Len(path) + 1
         /\ \A i \in 1..Len(path) : Append(path, name)[i] = path[i]
         /\ Append(path, name)[Len(path) + 1] = name
<1>1. PICK S : path \in Seq(S)
  BY DEF IsSeq
<1>2. path \in Seq(S \cup {name}) /\ name \in S \cup {name}
  BY <1>1, SeqMonotonic
<1>3. /\ Append(path, name) \in Seq(S \cup {name})
      /\ Len(path) \in Nat
      /\ Len(Append(path, name)) = Len(path) + 1
      /\ \A i \in 1..Len(path) : Append(path, name)[i] = path[i]
      /\ Append(path, name)[Len(path) + 1] = name
  BY <1>2
<1> QED
  BY <1>3 DEF IsSeq

LEMMA CoversSpot ==
  ASSUME NEW item, TidyItem(item), item.field.op \in Single, NEW q
  PROVE  Covers(item, q) <=> q = Spot(item)
<1> DEFINE p == item.path
           s == Append(p, item.field.name)
<1>1. /\ IsSeq(s) /\ Len(p) \in Nat /\ Len(s) = Len(p) + 1
      /\ \A i \in 1..Len(p) : s[i] = p[i]
      /\ s[Len(p) + 1] = item.field.name
  BY SpotIs DEF TidyItem
<1>2. ASSUME Covers(item, q) PROVE q = s
  <2>1. /\ IsSeq(q) /\ Len(q) = Len(p) + 1
        /\ \A i \in 1..Len(p) : q[i] = p[i]
        /\ q[Len(p) + 1] = item.field.name
    BY <1>2 DEF Covers, Stands, Single, Several
  <2>2. \A i \in 1..Len(q) : q[i] = s[i]
    BY <1>1, <2>1
  <2> QED
    BY <1>1, <2>1, <2>2, SeqSame
<1>3. Covers(item, s)
  BY <1>1 DEF Covers, Stands, Single
<1> QED
  BY <1>2, <1>3 DEF Spot

LEMMA StackTail ==
  ASSUME NEW s, Stack(s), s # <<>>
  PROVE  Stack(Tail(s))
<1>1. /\ Len(s) > 0 /\ IsSeq(Tail(s)) /\ Len(Tail(s)) = Len(s) - 1 /\ Len(s) \in Nat
      /\ \A i \in 1..(Len(s) - 1) : Tail(s)[i] = s[i + 1]
  BY SeqTail, SeqLen DEF Stack
<1>2. \A i \in 1..Len(Tail(s)) : i + 1 \in 1..Len(s) /\ Tail(s)[i] = s[i + 1]
  BY <1>1
<1>3. Apart(Tail(s))
  <2> SUFFICES ASSUME NEW i \in 1..Len(Tail(s)), NEW j \in 1..Len(Tail(s)), i < j, NEW q,
                      Covers(Tail(s)[i], q)
               PROVE  ~Touches(Tail(s)[j], q)
    BY DEF Apart
  <2>1. i + 1 < j + 1
    BY <1>1
  <2> QED
    BY <1>2, <2>1 DEF Stack, Apart
<1> QED
  BY <1>1, <1>2, <1>3 DEF Stack

LEMMA StackPush ==
  ASSUME NEW s, Stack(s), s # <<>>, NEW new, Stack(new),
         \A i \in 1..Len(new) : \A q : Covers(new[i], q) => Covers(s[1], q)
  PROVE  /\ Stack(new \o Tail(s))
         /\ Len(new \o Tail(s)) = Len(new) + Len(s) - 1
         /\ \A i \in 1..Len(new \o Tail(s)) :
              \/ i \in 1..Len(new) /\ (new \o Tail(s))[i] = new[i]
              \/ /\ i > Len(new) /\ i - Len(new) + 1 \in 2..Len(s)
                 /\ (new \o Tail(s))[i] = s[i - Len(new) + 1]
<1> DEFINE t == Tail(s)
           r == new \o t
<1>1. /\ Len(s) > 0 /\ IsSeq(t) /\ Len(t) = Len(s) - 1 /\ Len(s) \in Nat /\ IsSeq(new)
      /\ Len(new) \in Nat
      /\ \A i \in 1..(Len(s) - 1) : t[i] = s[i + 1]
  BY SeqTail, SeqLen DEF Stack
<1>2. /\ IsSeq(r) /\ Len(r) = Len(new) + Len(t)
      /\ \A i \in 1..(Len(new) + Len(t)) :
           r[i] = IF i <= Len(new) THEN new[i] ELSE t[i - Len(new)]
  BY <1>1, SeqConcat
<1> HIDE DEF t, r
<1>3. \A i \in 1..Len(r) : \/ i \in 1..Len(new) /\ r[i] = new[i]
                           \/ /\ i > Len(new) /\ i - Len(new) + 1 \in 2..Len(s)
                              /\ r[i] = s[i - Len(new) + 1]
  <2> SUFFICES ASSUME NEW i \in 1..Len(r)
               PROVE  \/ i \in 1..Len(new) /\ r[i] = new[i]
                      \/ /\ i > Len(new) /\ i - Len(new) + 1 \in 2..Len(s)
                         /\ r[i] = s[i - Len(new) + 1]
    OBVIOUS
  <2>1. CASE i <= Len(new)
    BY <1>1, <1>2, <2>1
  <2>2. CASE ~(i <= Len(new))
    <3>1. i - Len(new) \in 1..(Len(s) - 1)
      BY <1>1, <1>2, <2>2
    <3>2. r[i] = s[(i - Len(new)) + 1]
      BY <1>1, <1>2, <2>2, <3>1
    <3> QED
      BY <1>1, <2>2, <3>1, <3>2
  <2> QED
    BY <2>1, <2>2
<1>4. ASSUME NEW i \in 1..Len(r) PROVE TidyItem(r[i])
  <2>1. CASE i \in 1..Len(new) /\ r[i] = new[i]
    BY <2>1 DEF Stack
  <2>2. CASE i - Len(new) + 1 \in 2..Len(s) /\ r[i] = s[i - Len(new) + 1]
    <3>1. i - Len(new) + 1 \in 1..Len(s)
      BY <1>1, <2>2
    <3> QED
      BY <2>2, <3>1 DEF Stack
  <2> QED
    BY <1>3, <2>1, <2>2
<1>5. Apart(r)
  <2> SUFFICES ASSUME NEW i \in 1..Len(r), NEW j \in 1..Len(r), i < j, NEW q, Covers(r[i], q)
               PROVE  ~Touches(r[j], q)
    BY DEF Apart
  <2>1. CASE j \in 1..Len(new) /\ r[j] = new[j]
    <3>1. i \in 1..Len(new) /\ r[i] = new[i]
      BY <1>1, <1>3, <2>1
    <3> QED
      BY <2>1, <3>1 DEF Stack, Apart
  <2>2. CASE /\ j > Len(new) /\ j - Len(new) + 1 \in 2..Len(s)
             /\ r[j] = s[j - Len(new) + 1]
    <3>1. CASE i \in 1..Len(new) /\ r[i] = new[i]
      <4>1. Covers(s[1], q) /\ 1 \in 1..Len(s) /\ 1 < j - Len(new) + 1
            /\ j - Len(new) + 1 \in 1..Len(s)
        BY <1>1, <2>2, <3>1
      <4> QED
        BY <2>2, <4>1 DEF Stack, Apart
    <3>2. CASE /\ i > Len(new) /\ i - Len(new) + 1 \in 2..Len(s)
               /\ r[i] = s[i - Len(new) + 1]
      <4>1. /\ i - Len(new) + 1 < j - Len(new) + 1
            /\ i - Len(new) + 1 \in 1..Len(s) /\ j - Len(new) + 1 \in 1..Len(s)
        BY <1>1, <1>2, <2>2, <3>2
      <4> QED
        BY <2>2, <3>2, <4>1 DEF Stack, Apart
    <3> QED
      BY <1>3, <3>1, <3>2
  <2> QED
    BY <1>3, <2>1, <2>2
<1>6. Len(r) = Len(new) + Len(s) - 1
  BY <1>1, <1>2
<1> QED
  BY <1>2, <1>3, <1>4, <1>5, <1>6 DEF Stack, t, r

-----------------------------------------------------------------------------
(***************************************************************************)
(* What a step puts on the stack covers no more than what it takes off.    *)
(***************************************************************************)
LoopOf(item) ==
  <<[path |-> item.path,
     field |-> [op |-> "loop", name |-> item.field.name, count |-> item.field.count,
                element |-> item.field.element, done |-> 0]]>>

NextElement(item) == item.path \o <<item.field.name, item.field.done + 1>>

Later(item) == [item EXCEPT !.field.done = @ + 1]

TurnOf(item) == Enter(NextElement(item), item.field.element) \o <<Later(item)>>

LEMMA EnterStack ==
  ASSUME NEW path, IsSeq(path), NEW layout, Neat(layout)
  PROVE  /\ Stack(Enter(path, layout))
         /\ Len(Enter(path, layout)) = Len(layout)
         /\ \A i \in 1..Len(layout) :
              Enter(path, layout)[i] = [path |-> path, field |-> layout[i]]
<1> DEFINE e == Enter(path, layout)
<1>1. /\ IsSeq(layout) /\ Distinct(layout)
      /\ \A i \in DOMAIN layout :
           /\ layout[i].op \in Single \cup {"zeros", "each", "switch"}
           /\ layout[i].op = "each" => Tidy(layout[i].element)
           /\ layout[i].op = "switch" => TidyCases(layout[i])
  BY DEF Neat
<1>2. /\ IsSeq(e) /\ Len(e) = Len(layout)
      /\ \A i \in 1..Len(layout) : e[i] = [path |-> path, field |-> layout[i]]
  <2>1. IsSeq(layout)
    BY <1>1
  <2> QED
    BY <2>1, SeqEnter
<1>3. DOMAIN layout = 1..Len(layout) /\ Len(layout) \in Nat
  BY <1>1, SeqLen
<1> HIDE DEF e
<1>4. \A i \in 1..Len(layout) : e[i].path = path /\ e[i].field = layout[i]
  <2> SUFFICES ASSUME NEW i \in 1..Len(layout)
               PROVE  e[i].path = path /\ e[i].field = layout[i]
    OBVIOUS
  <2>1. e[i] = [path |-> path, field |-> layout[i]]
    BY <1>2
  <2> QED
    BY <2>1
<1>5. ASSUME NEW i \in 1..Len(e) PROVE TidyItem(e[i])
  <2>1. i \in DOMAIN layout /\ e[i].path = path /\ e[i].field = layout[i]
        /\ e[i] = [path |-> e[i].path, field |-> e[i].field]
    BY <1>2, <1>3, <1>4
  <2>2. e[i].field.op # "loop"
    BY <1>1, <2>1 DEF Single
  <2> QED
    BY <1>1, <2>1, <2>2 DEF TidyItem, Several, Single
<1>6. Apart(e)
  <2> SUFFICES ASSUME NEW i \in 1..Len(e), NEW j \in 1..Len(e), i < j, NEW q, Covers(e[i], q)
               PROVE  ~Touches(e[j], q)
    BY DEF Apart
  <2>1. /\ i \in DOMAIN layout /\ j \in DOMAIN layout
        /\ e[i].path = path /\ e[i].field = layout[i]
        /\ e[j].path = path /\ e[j].field = layout[j]
    BY <1>2, <1>3, <1>4
  <2>2. \/ \A name : ~(Stands(layout[i], name) /\ Stands(layout[j], name))
        \/ layout[i].op = "zeros"
        \/ layout[i].op = "each" /\ layout[j].op = "free"
    BY <1>1, <2>1 DEF Distinct
  <2>3. /\ IsSeq(q) /\ Stands(layout[i], q[Len(path) + 1])
        /\ layout[i].op \in Single \cup Several \cup {"switch"}
    BY <2>1 DEF Covers
  <2>4. /\ Len(path) \in Nat
        /\ Spot(e[j])[Len(path) + 1] = layout[j].name
    BY <1>1, <2>1, SpotIs DEF Spot
  <2>5. CASE \A name : ~(Stands(layout[i], name) /\ Stands(layout[j], name))
    <3>1. ~Covers(e[j], q)
      BY <2>1, <2>3, <2>5 DEF Covers
    <3>2. layout[j].op \in Several => Stands(layout[j], layout[j].name)
      BY DEF Stands, Several
    <3> QED
      BY <2>1, <2>3, <2>4, <2>5, <3>1, <3>2 DEF Touches
  <2>6. layout[i].op # "zeros"
    BY <2>3 DEF Single, Several
  <2>7. CASE layout[i].op = "each" /\ layout[j].op = "free"
    <3>1. Len(q) > Len(path) + 2
      BY <2>1, <2>7 DEF Covers, Single, Several
    <3>2. ~Covers(e[j], q)
      BY <2>1, <2>4, <2>7, <3>1 DEF Covers, Single, Several
    <3> QED
      BY <2>1, <2>7, <3>2 DEF Touches, Several
  <2> QED
    BY <2>2, <2>5, <2>6, <2>7
<1> QED
  BY <1>2, <1>5, <1>6 DEF Stack, e

LEMMA LoopStack ==
  ASSUME NEW item, TidyItem(item), item.field.op = "each"
  PROVE  /\ Stack(LoopOf(item)) /\ Len(LoopOf(item)) = 1
         /\ LoopOf(item)[1].path = item.path
         /\ LoopOf(item)[1].field =
              [op |-> "loop", name |-> item.field.name, count |-> item.field.count,
               element |-> item.field.element, done |-> 0]
         /\ Spot(LoopOf(item)[1]) = Spot(item)
         /\ \A q : Covers(LoopOf(item)[1], q) => Covers(item, q)
         /\ \A q : Touches(LoopOf(item)[1], q) => Touches(item, q)
<1> DEFINE loop == LoopOf(item)[1]
<1>1. IsSeq(LoopOf(item)) /\ Len(LoopOf(item)) = 1
  BY SeqOne DEF LoopOf
<1>2. /\ loop.path = item.path
      /\ loop.field = [op |-> "loop", name |-> item.field.name, count |-> item.field.count,
                       element |-> item.field.element, done |-> 0]
      /\ loop = [path |-> loop.path, field |-> loop.field]
  BY DEF LoopOf
<1> HIDE DEF loop
<1>3. loop.field.op = "loop" /\ loop.field.name = item.field.name
      /\ loop.field.element = item.field.element /\ loop.field.done = 0
      /\ loop.field.count = item.field.count
  BY <1>2
<1>4. TidyItem(loop)
  <2>1. loop.field = [op |-> "loop", name |-> loop.field.name, count |-> loop.field.count,
                      element |-> loop.field.element, done |-> loop.field.done]
    BY <1>2, <1>3
  <2> QED
    BY <1>2, <1>3, <2>1 DEF TidyItem, Several
<1>5. Spot(loop) = Spot(item)
  BY <1>2, <1>3 DEF Spot
<1>6. ASSUME NEW q, Covers(loop, q) PROVE Covers(item, q)
  BY <1>2, <1>3, <1>6 DEF Covers, Stands, Single, Several
<1>7. ASSUME NEW q, Touches(loop, q) PROVE Touches(item, q)
  BY <1>5, <1>6, <1>7 DEF Touches, Several
<1>8. Apart(LoopOf(item))
  BY <1>1 DEF Apart
<1> QED
  BY <1>1, <1>2, <1>4, <1>5, <1>6, <1>7, <1>8 DEF Stack, loop

LEMMA TwoMore ==
  ASSUME NEW S, NEW s \in Seq(S), NEW a \in S, NEW b \in S
  PROVE  /\ s \o <<a, b>> \in Seq(S)
         /\ Len(s) \in Nat
         /\ Len(s \o <<a, b>>) = Len(s) + 2
         /\ \A i \in 1..Len(s) : (s \o <<a, b>>)[i] = s[i]
         /\ (s \o <<a, b>>)[Len(s) + 1] = a
         /\ (s \o <<a, b>>)[Len(s) + 2] = b
<1>1. <<a, b>> \in Seq(S) /\ Len(<<a, b>>) = 2 /\ <<a, b>>[1] = a /\ <<a, b>>[2] = b
  OBVIOUS
<1> QED
  BY <1>1

LEMMA NextElementIs ==
  ASSUME NEW path, IsSeq(path), NEW name, NEW k
  PROVE  /\ IsSeq(path \o <<name, k>>)
         /\ Len(path) \in Nat
         /\ Len(path \o <<name, k>>) = Len(path) + 2
         /\ \A i \in 1..Len(path) : (path \o <<name, k>>)[i] = path[i]
         /\ (path \o <<name, k>>)[Len(path) + 1] = name
         /\ (path \o <<name, k>>)[Len(path) + 2] = k
<1>1. PICK S : path \in Seq(S)
  BY DEF IsSeq
<1>2. path \in Seq(S \cup {name, k}) /\ name \in S \cup {name, k} /\ k \in S \cup {name, k}
  BY <1>1, SeqMonotonic
<1> QED
  BY <1>2, TwoMore DEF IsSeq

LEMMA LaterIs ==
  ASSUME NEW item, TidyItem(item), item.field.op = "loop"
  PROVE  /\ TidyItem(Later(item))
         /\ Later(item).path = item.path
         /\ Later(item).field = [op |-> "loop", name |-> item.field.name,
                                 count |-> item.field.count, element |-> item.field.element,
                                 done |-> item.field.done + 1]
<1>1. /\ item = [path |-> item.path, field |-> item.field]
      /\ item.field = [op |-> "loop", name |-> item.field.name, count |-> item.field.count,
                        element |-> item.field.element, done |-> item.field.done]
      /\ item.field.done \in Nat
  BY DEF TidyItem
<1>2. /\ DOMAIN item = {"path", "field"}
      /\ DOMAIN item.field = {"op", "name", "count", "element", "done"}
  <2>1. DOMAIN [path |-> item.path, field |-> item.field] = {"path", "field"}
    OBVIOUS
  <2>2. DOMAIN [op |-> "loop", name |-> item.field.name, count |-> item.field.count,
                element |-> item.field.element, done |-> item.field.done]
        = {"op", "name", "count", "element", "done"}
    OBVIOUS
  <2> QED
    BY <1>1, <2>1, <2>2
<1>3. Later(item) = [path |-> item.path,
                     field |-> [item.field EXCEPT !.done = item.field.done + 1]]
  BY <1>1 DEF Later
<1>4. [item.field EXCEPT !.done = item.field.done + 1]
      = [op |-> "loop", name |-> item.field.name,
                                 count |-> item.field.count, element |-> item.field.element,
                                 done |-> item.field.done + 1]
  BY <1>1
<1>5. /\ Later(item).path = item.path
      /\ Later(item).field = [op |-> "loop", name |-> item.field.name,
                                 count |-> item.field.count, element |-> item.field.element,
                                 done |-> item.field.done + 1]
      /\ Later(item) = [path |-> Later(item).path, field |-> Later(item).field]
  BY <1>3, <1>4
<1>6. TidyItem(Later(item))
  <2> DEFINE l == Later(item)
  <2>1. /\ l.field.op = "loop" /\ l.field.name = item.field.name
        /\ l.field.count = item.field.count /\ l.field.element = item.field.element
        /\ l.field.done = item.field.done + 1 /\ l.path = item.path
    BY <1>5
  <2>2. l.field = [op |-> "loop", name |-> l.field.name, count |-> l.field.count,
                   element |-> l.field.element, done |-> l.field.done]
    BY <1>5, <2>1
  <2>3. l = [path |-> l.path, field |-> l.field]
    BY <1>5
  <2> HIDE DEF l
  <2>4. IsSeq(item.path) /\ Tidy(item.field.element)
    BY DEF TidyItem, Several
  <2>5. TidyItem(l)
    BY <1>1, <2>1, <2>2, <2>3, <2>4 DEF TidyItem, Several
  <2> QED
    BY <2>5 DEF l
<1> QED
  BY <1>5, <1>6

LEMMA TurnStack ==
  ASSUME NEW item, TidyItem(item), item.field.op = "loop"
  PROVE  /\ Stack(TurnOf(item))
         /\ IsSeq(NextElement(item))
         /\ IsSeq(item.field.element)
         /\ Len(TurnOf(item)) = Len(item.field.element) + 1
         /\ \A i \in 1..Len(item.field.element) :
              TurnOf(item)[i] = [path |-> NextElement(item), field |-> item.field.element[i]]
         /\ TurnOf(item)[Len(item.field.element) + 1] = Later(item)
         /\ \A i \in 1..Len(TurnOf(item)) : \A q :
              /\ Covers(TurnOf(item)[i], q) => Covers(item, q)
              /\ Touches(TurnOf(item)[i], q) => Touches(item, q)
<1> DEFINE p == item.path
           n == Len(p)
           np == NextElement(item)
           el == item.field.element
           e == Enter(np, el)
           l == Later(item)
           t == TurnOf(item)
<1>1. /\ IsSeq(p) /\ item.field.done \in Nat /\ Tidy(el)
  BY DEF TidyItem, Several
<1>2. /\ IsSeq(np) /\ n \in Nat /\ Len(np) = n + 2
      /\ \A i \in 1..n : np[i] = p[i]
      /\ np[n + 1] = item.field.name
      /\ np[n + 2] = item.field.done + 1
  <2> DEFINE name == item.field.name
             k == item.field.done + 1
  <2>1. /\ IsSeq(p \o <<name, k>>)
        /\ Len(p) \in Nat
        /\ Len(p \o <<name, k>>) = Len(p) + 2
        /\ \A i \in 1..Len(p) : (p \o <<name, k>>)[i] = p[i]
        /\ (p \o <<name, k>>)[Len(p) + 1] = name
        /\ (p \o <<name, k>>)[Len(p) + 2] = k
    <3> HIDE DEF p, name, k
    <3> QED
      BY <1>1, NextElementIs
  <2>2. np = p \o <<name, k>>
    BY DEF NextElement
  <2> HIDE DEF p, np, name, k
  <2>3. /\ IsSeq(np) /\ Len(p) \in Nat /\ Len(np) = Len(p) + 2
        /\ \A i \in 1..Len(p) : np[i] = p[i]
        /\ np[Len(p) + 1] = name
        /\ np[Len(p) + 2] = k
    BY <2>1, <2>2
  <2> QED
    BY <2>3 DEF name, k
<1>3. IsSeq(el) /\ Len(el) \in Nat
  BY <1>1, TidyIs, SeqLen
<1> HIDE DEF np, el
<1>4. /\ Stack(e) /\ Len(e) = Len(el)
      /\ \A i \in 1..Len(el) : e[i] = [path |-> np, field |-> el[i]]
  <2>1. Neat(el)
    BY <1>1, TidyIs
  <2>2. IsSeq(np)
    BY <1>2
  <2> HIDE DEF p, n
  <2> QED
    BY <2>1, <2>2, EnterStack
<1>5. /\ TidyItem(l) /\ l.path = p
      /\ l.field = [op |-> "loop", name |-> item.field.name, count |-> item.field.count,
                    element |-> item.field.element, done |-> item.field.done + 1]
  BY LaterIs
<1>6. IsSeq(<<l>>) /\ Len(<<l>>) = 1 /\ <<l>>[1] = l
  BY SeqOne
<1> HIDE DEF e, l
<1>7. t = e \o <<l>>
  BY DEF TurnOf, e, l, np, el
<1>8. /\ IsSeq(t) /\ Len(t) = Len(el) + 1
      /\ \A i \in 1..Len(el) : t[i] = e[i]
      /\ t[Len(el) + 1] = l
  <2>1. IsSeq(e)
    BY <1>4 DEF Stack
  <2>2. /\ IsSeq(e \o <<l>>) /\ Len(e \o <<l>>) = Len(e) + Len(<<l>>)
        /\ \A i \in 1..Len(e) : (e \o <<l>>)[i] = e[i]
        /\ \A i \in 1..Len(<<l>>) : (e \o <<l>>)[Len(e) + i] = <<l>>[i]
    BY <1>6, <2>1, SeqConcat
  <2>3. 1 \in 1..Len(<<l>>)
    BY <1>6
  <2> QED
    BY <1>4, <1>6, <1>7, <2>2, <2>3
<1> HIDE DEF t
<1>9. \A i \in 1..Len(t) : i \in 1..Len(el) \/ i = Len(el) + 1
  BY <1>3, <1>8
<1>10. ASSUME NEW i \in 1..Len(el)
       PROVE  t[i].path = np /\ t[i].field = el[i] /\ TidyItem(t[i])
  <2>1. t[i] = [path |-> np, field |-> el[i]] /\ TidyItem(e[i]) /\ t[i] = e[i]
    BY <1>4, <1>8 DEF Stack
  <2> QED
    BY <2>1
<1>11. /\ l.field.op = "loop" /\ l.field.name = item.field.name
       /\ l.field.done = item.field.done + 1
  BY <1>5
<1>12. ASSUME NEW q, Covers(l, q) PROVE Covers(item, q)
  <2>1. q[n + 2] \notin 1..item.field.done
    BY <1>1, <1>5, <1>11, <1>12 DEF Covers, Stands, Single, Several
  <2> QED
    BY <1>5, <1>11, <1>12, <2>1 DEF Covers, Stands, Single, Several
<1>13. ASSUME NEW i \in 1..Len(el), NEW q, Covers(t[i], q) \/ q = Spot(t[i])
       PROVE  /\ Covers(item, q) /\ Len(q) > n + 2 /\ q[n + 2] = item.field.done + 1
  <2>1. IsSeq(q) /\ Len(q) > n + 2 /\ \A k \in 1..(n + 2) : q[k] = np[k]
    <3>1. CASE Covers(t[i], q)
      BY <1>2, <1>10, <3>1 DEF Covers
    <3>2. CASE q = Spot(t[i])
      <4>1. IsSeq(np) /\ t[i].path = np
        BY <1>10 DEF TidyItem
      <4> QED
        <5>1. /\ IsSeq(q) /\ Len(q) = Len(np) + 1 /\ Len(np) \in Nat
              /\ \A k \in 1..Len(np) : q[k] = np[k]
          BY <1>2, <3>2, <4>1, SpotIs DEF Spot
        <5> QED
          BY <1>2, <5>1
    <3> QED
      BY <1>13, <3>1, <3>2
  <2>2. /\ \A k \in 1..n : q[k] = p[k]
        /\ q[n + 1] = item.field.name
        /\ q[n + 2] = item.field.done + 1
    <3>1. n + 1 \in 1..(n + 2) /\ n + 2 \in 1..(n + 2) /\ \A k \in 1..n : k \in 1..(n + 2)
      BY <1>2
    <3> QED
      BY <1>2, <2>1, <3>1
  <2>3. item.field.done + 1 \notin 1..item.field.done /\ Len(q) > n
    BY <1>1, <1>2, <2>1
  <2> QED
    BY <2>1, <2>2, <2>3 DEF Covers, Stands, Several
<1>14. ASSUME NEW i \in 1..Len(t), NEW q
       PROVE  /\ Covers(t[i], q) => Covers(item, q)
              /\ Touches(t[i], q) => Touches(item, q)
  <2>1. CASE i \in 1..Len(el)
    BY <1>13, <2>1 DEF Touches
  <2>2. CASE i = Len(el) + 1
    <3>1. t[i] = l /\ Spot(l) = Spot(item)
      BY <1>5, <1>8, <1>11, <2>2 DEF Spot
    <3> QED
      BY <1>12, <3>1 DEF Touches, Several
  <2> QED
    BY <1>9, <2>1, <2>2
<1>15. Apart(t)
  <2> SUFFICES ASSUME NEW i \in 1..Len(t), NEW j \in 1..Len(t), i < j, NEW q, Covers(t[i], q)
               PROVE  ~Touches(t[j], q)
    BY DEF Apart
  <2>1. i \in 1..Len(el)
    BY <1>3, <1>8
  <2>2. CASE j \in 1..Len(el)
    BY <1>4, <1>8, <2>1, <2>2 DEF Stack, Apart
  <2>3. CASE j = Len(el) + 1
    <3>1. t[j] = l /\ Len(q) > n + 2 /\ q[n + 2] = item.field.done + 1
      BY <1>8, <1>13, <2>1, <2>3
    <3>2. ~Covers(l, q)
      <4>1. item.field.done + 1 \in 1..(item.field.done + 1)
        BY <1>1
      <4> QED
        BY <1>5, <1>11, <3>1, <4>1 DEF Covers, Single, Several
    <3>3. q # Spot(l)
      <4>1. Len(Spot(l)) = n + 1
        BY <1>1, <1>5, <1>11, SpotIs DEF Spot
      <4> QED
        BY <1>2, <3>1, <4>1
    <3> QED
      BY <3>1, <3>2, <3>3 DEF Touches
  <2> QED
    BY <1>9, <2>2, <2>3
<1>16. ASSUME NEW i \in 1..Len(t) PROVE TidyItem(t[i])
  BY <1>5, <1>8, <1>9, <1>10
<1>17. Stack(t)
  BY <1>8, <1>15, <1>16 DEF Stack
<1>18. \A i \in 1..Len(el) : t[i] = [path |-> np, field |-> el[i]]
  BY <1>4, <1>8
<1>19. /\ Stack(t) /\ IsSeq(np) /\ IsSeq(el) /\ Len(t) = Len(el) + 1
       /\ \A i \in 1..Len(el) : t[i] = [path |-> np, field |-> el[i]]
       /\ t[Len(el) + 1] = l
       /\ \A i \in 1..Len(t) : \A q :
            /\ Covers(t[i], q) => Covers(item, q)
            /\ Touches(t[i], q) => Touches(item, q)
  BY <1>2, <1>3, <1>8, <1>14, <1>17, <1>18
<1> QED
  BY Zenon, <1>19 DEF t, np, el, l

CoveredBy(items, q) == \E i \in 1..Len(items) : Covers(items[i], q)
TouchedBy(items, q) == \E i \in 1..Len(items) : Touches(items[i], q)

\* What is pushed covers no more than the item that is popped.
LEMMA PushWithin ==
  ASSUME NEW s, Stack(s), s # <<>>, NEW new, Stack(new),
         \A i \in 1..Len(new) : \A q : /\ Covers(new[i], q) => Covers(s[1], q)
                                       /\ Touches(new[i], q) => Touches(s[1], q)
  PROVE  /\ Stack(new \o Tail(s))
         /\ \A q : CoveredBy(new \o Tail(s), q) => CoveredBy(s, q)
         /\ \A q : TouchedBy(new \o Tail(s), q) => TouchedBy(s, q)
<1> DEFINE r == new \o Tail(s)
<1>1. /\ Stack(r)
      /\ \A i \in 1..Len(r) :
           \/ i \in 1..Len(new) /\ r[i] = new[i]
           \/ /\ i > Len(new) /\ i - Len(new) + 1 \in 2..Len(s)
              /\ r[i] = s[i - Len(new) + 1]
  BY StackPush
<1>2. 1 \in 1..Len(s) /\ Len(s) \in Nat
  BY SeqTail, SeqLen DEF Stack
<1> HIDE DEF r
<1>3. ASSUME NEW i \in 1..Len(r)
      PROVE  \E j \in 1..Len(s) : \A q : /\ Covers(r[i], q) => Covers(s[j], q)
                                         /\ Touches(r[i], q) => Touches(s[j], q)
  <2>1. CASE i \in 1..Len(new) /\ r[i] = new[i]
    BY <1>2, <2>1
  <2>2. CASE /\ i > Len(new) /\ i - Len(new) + 1 \in 2..Len(s)
             /\ r[i] = s[i - Len(new) + 1]
    <3>1. i - Len(new) + 1 \in 1..Len(s)
      BY <1>2, <2>2
    <3> QED
      BY <2>2, <3>1
  <2> QED
    BY <1>1, <2>1, <2>2
<1>4. \A q : CoveredBy(r, q) => CoveredBy(s, q)
  BY <1>3 DEF CoveredBy
<1>5. \A q : TouchedBy(r, q) => TouchedBy(s, q)
  BY <1>3 DEF TouchedBy
<1> QED
  BY <1>1, <1>4, <1>5 DEF r

LEMMA TailWithin ==
  ASSUME NEW s, Stack(s), s # <<>>
  PROVE  /\ Stack(Tail(s))
         /\ \A q : CoveredBy(Tail(s), q) => CoveredBy(s, q)
         /\ \A q : TouchedBy(Tail(s), q) => TouchedBy(s, q)
<1>1. /\ Len(s) \in Nat /\ Len(Tail(s)) = Len(s) - 1
      /\ \A i \in 1..(Len(s) - 1) : Tail(s)[i] = s[i + 1]
  BY SeqTail, SeqLen DEF Stack
<1>2. \A i \in 1..Len(Tail(s)) : i + 1 \in 1..Len(s) /\ Tail(s)[i] = s[i + 1]
  BY <1>1
<1>3. \A q : CoveredBy(Tail(s), q) => CoveredBy(s, q)
  BY <1>2 DEF CoveredBy
<1>4. \A q : TouchedBy(Tail(s), q) => TouchedBy(s, q)
  BY <1>2 DEF TouchedBy
<1> QED
  BY <1>3, <1>4, StackTail

\* What the first item covers, none of the others touches.
LEMMA TailApart ==
  ASSUME NEW s, Stack(s), s # <<>>, NEW q, Covers(s[1], q)
  PROVE  ~TouchedBy(Tail(s), q) /\ ~CoveredBy(Tail(s), q)
<1>1. /\ Len(s) \in Nat /\ Len(s) > 0 /\ Len(Tail(s)) = Len(s) - 1
      /\ \A i \in 1..(Len(s) - 1) : Tail(s)[i] = s[i + 1]
  BY SeqTail, SeqLen DEF Stack
<1>2. \A i \in 1..Len(Tail(s)) : i + 1 \in 1..Len(s) /\ 1 \in 1..Len(s) /\ 1 < i + 1
                                 /\ Tail(s)[i] = s[i + 1]
  BY <1>1
<1>3. \A i \in 1..Len(Tail(s)) : ~Touches(Tail(s)[i], q)
  BY <1>2 DEF Stack, Apart
<1> QED
  BY <1>3 DEF TouchedBy, CoveredBy, Touches

LEMMA CaseStack ==
  ASSUME NEW item, TidyItem(item), item.field.op = "switch",
         NEW c \in DOMAIN item.field.cases
  PROVE  /\ Stack(Enter(item.path, item.field.cases[c].layout))
         /\ \A i \in 1..Len(Enter(item.path, item.field.cases[c].layout)) : \A q :
              LET it == Enter(item.path, item.field.cases[c].layout)[i] IN
              /\ Covers(it, q) => Covers(item, q)
              /\ Touches(it, q) => Touches(item, q)
<1> DEFINE l == item.field.cases[c].layout
           p == item.path
           e == Enter(p, l)
<1>1. Tidy(l) /\ IsSeq(p)
  BY DEF TidyItem, TidyCases
<1>2. /\ IsSeq(l) /\ Neat(l)
      /\ \A i \in DOMAIN l : l[i].op \in Single \cup {"zeros", "each"}
  BY <1>1, TidyIs
<1>3. /\ Stack(e) /\ Len(e) = Len(l)
      /\ \A i \in 1..Len(l) : e[i] = [path |-> p, field |-> l[i]]
  <2> HIDE DEF p, l
  <2> QED
    BY <1>1, <1>2, EnterStack
<1>4. DOMAIN l = 1..Len(l)
  BY <1>2, SeqLen
<1>5. ASSUME NEW i \in 1..Len(e)
      PROVE  /\ i \in DOMAIN l /\ e[i].path = p /\ e[i].field = l[i]
             /\ l[i].op \in Single \cup {"zeros", "each"}
  <2>1. i \in DOMAIN l /\ e[i] = [path |-> p, field |-> l[i]]
    BY <1>3, <1>4
  <2> HIDE DEF e, l, p
  <2> QED
    BY <1>2, <2>1
<1>6. \A i \in DOMAIN l : Stands(item.field, l[i].name)
  BY DEF Stands
<1> HIDE DEF e, l
<1>7. ASSUME NEW i \in 1..Len(e), NEW q, Covers(e[i], q)
      PROVE  Covers(item, q)
  <2>1. Stands(l[i], q[Len(p) + 1]) /\ l[i].op # "switch"
    BY <1>5, <1>7 DEF Covers, Single
  <2>2. Stands(item.field, q[Len(p) + 1])
    BY <1>5, <1>6, <2>1 DEF Stands
  <2> QED
    BY <1>5, <1>7, <2>2 DEF Covers
<1>8. ASSUME NEW i \in 1..Len(e), NEW q, q = Spot(e[i])
      PROVE  Covers(item, q)
  <2>1. /\ IsSeq(q) /\ Len(p) \in Nat /\ Len(q) = Len(p) + 1
        /\ \A k \in 1..Len(p) : q[k] = p[k]
        /\ q[Len(p) + 1] = l[i].name
    <3>1. q = Append(p, l[i].name)
      BY <1>5, <1>8 DEF Spot
    <3> HIDE DEF p
    <3> QED
      BY <1>1, <3>1, SpotIs
  <2> QED
    BY <1>5, <1>6, <2>1 DEF Covers
<1>9. \A i \in 1..Len(e) : \A q : /\ Covers(e[i], q) => Covers(item, q)
                                  /\ Touches(e[i], q) => Touches(item, q)
  BY <1>7, <1>8 DEF Touches
<1> QED
  BY <1>3, <1>9 DEF e, l

Within(t, s) ==
  /\ \A q : CoveredBy(t, q) => CoveredBy(s, q)
  /\ \A q : TouchedBy(t, q) => TouchedBy(s, q)

LEMMA BranchWalks ==
  ASSUME Stack(todo), Branch
  PROVE  Stack(todo') /\ Within(todo', todo)
<1> DEFINE item == todo[1]
           cases == {i \in DOMAIN Field.cases : Value(Field.name) \in Field.cases[i].values}
<1>1. /\ todo # <<>> /\ Field.op = "switch" /\ Head(todo) = item /\ TidyItem(item)
      /\ Field = item.field
  <2>1. todo # <<>> /\ Field.op = "switch"
    BY DEF Branch, At
  <2>2. Head(todo) = item /\ 1 \in 1..Len(todo)
    BY <2>1, SeqTail, SeqLen DEF Stack
  <2> QED
    BY <2>1, <2>2 DEF Stack, Field
<1>2. CASE cases = {}
  <2>1. todo' = Tail(todo)
    BY <1>2 DEF Branch
  <2> QED
    BY <1>1, <2>1, TailWithin DEF Within
<1>3. CASE cases # {}
  <2>1. PICK c \in DOMAIN item.field.cases :
          todo' = Enter(item.path, item.field.cases[c].layout) \o Tail(todo)
    <3>1. (CHOOSE i \in cases : TRUE) \in cases
      BY <1>3
    <3> QED
      BY <1>1, <1>3, <3>1 DEF Branch
  <2> DEFINE new == Enter(item.path, item.field.cases[c].layout)
  <2>2. /\ Stack(new)
        /\ \A i \in 1..Len(new) : \A q : /\ Covers(new[i], q) => Covers(item, q)
                                         /\ Touches(new[i], q) => Touches(item, q)
    BY <1>1, CaseStack
  <2> HIDE DEF new
  <2> QED
    BY <1>1, <2>1, <2>2, PushWithin DEF Within, new
<1> QED
  BY <1>2, <1>3

LEMMA RepeatWalks ==
  ASSUME Stack(todo), Repeat
  PROVE  Stack(todo') /\ Within(todo', todo)
<1> DEFINE item == todo[1]
<1>1. /\ todo # <<>> /\ Field.op = "loop" /\ Head(todo) = item /\ TidyItem(item)
      /\ Field = item.field
  <2>1. todo # <<>> /\ Field.op = "loop"
    BY DEF Repeat, At
  <2>2. Head(todo) = item /\ 1 \in 1..Len(todo)
    BY <2>1, SeqTail, SeqLen DEF Stack
  <2> QED
    BY <2>1, <2>2 DEF Stack, Field
<1>2. CASE todo' = Tail(todo)
  BY <1>1, <1>2, TailWithin DEF Within
<1>3. CASE todo' = TurnOf(item) \o Tail(todo)
  <2>1. /\ Stack(TurnOf(item))
        /\ \A i \in 1..Len(TurnOf(item)) : \A q :
             /\ Covers(TurnOf(item)[i], q) => Covers(item, q)
             /\ Touches(TurnOf(item)[i], q) => Touches(item, q)
    BY <1>1, TurnStack
  <2> QED
    BY <1>1, <1>3, <2>1, PushWithin DEF Within
<1>4. todo' = Tail(todo) \/ todo' = TurnOf(item) \o Tail(todo)
  BY <1>1 DEF Repeat, TurnOf, NextElement, Later
<1> QED
  BY <1>2, <1>3, <1>4

LEMMA PopWalks ==
  ASSUME Stack(todo), todo # <<>>, todo' = Tail(todo)
  PROVE  Stack(todo') /\ Within(todo', todo)
BY TailWithin DEF Within

LEMMA LoopWalks ==
  ASSUME Stack(todo), todo # <<>>, Field.op = "each", todo' = Loop \o Tail(todo)
  PROVE  Stack(todo') /\ Within(todo', todo)
<1> DEFINE item == todo[1]
<1>1. Field.op = "each" /\ Head(todo) = item /\ TidyItem(item) /\ Field = item.field
  BY SeqTail DEF Stack, Field
<1>2. todo' = LoopOf(item) \o Tail(todo)
  BY <1>1 DEF Loop, LoopOf
<1>3. /\ Stack(LoopOf(item)) /\ Len(LoopOf(item)) = 1
      /\ \A q : Covers(LoopOf(item)[1], q) => Covers(item, q)
      /\ \A q : Touches(LoopOf(item)[1], q) => Touches(item, q)
  BY <1>1, LoopStack
<1>4. \A i \in 1..Len(LoopOf(item)) : \A q :
        /\ Covers(LoopOf(item)[i], q) => Covers(item, q)
        /\ Touches(LoopOf(item)[i], q) => Touches(item, q)
  BY <1>3
<1> QED
  BY <1>2, <1>3, <1>4, PushWithin DEF Within

-----------------------------------------------------------------------------
(***************************************************************************)
(* The order of the fields of a layout, and what makes a layout tidy.      *)
(***************************************************************************)
Readers == {"enum", "plain", "count", "clamped"}

\* A count is read before the array it counts, a choice before the switch on
\* it; and there is one case for a value.
Ordered(l) ==
  /\ \A i \in DOMAIN l : l[i].op = "each" =>
       \E j \in DOMAIN l : j < i /\ l[j].op \in Readers /\ l[j].name = l[i].count
  /\ \A i \in DOMAIN l : l[i].op = "switch" =>
       /\ \E j \in DOMAIN l : j < i /\ l[j].op \in Readers /\ l[j].name = l[i].name
       /\ \A c, d \in DOMAIN l[i].cases :
            c # d => l[i].cases[c].values \cap l[i].cases[d].values = {}

OrderlySet(T) ==
  \A l \in T :
    /\ Ordered(l)
    /\ \A i \in DOMAIN l : l[i].op = "each" => l[i].element \in T
    /\ \A i \in DOMAIN l : l[i].op = "switch" =>
         \A c \in DOMAIN l[i].cases : l[i].cases[c].layout \in T

Orderly(l) == \E T : l \in T /\ OrderlySet(T)

LEMMA OrderlyIs ==
  ASSUME NEW l, Orderly(l)
  PROVE  /\ Ordered(l)
         /\ \A i \in DOMAIN l : l[i].op = "each" => Orderly(l[i].element)
         /\ \A i \in DOMAIN l : l[i].op = "switch" =>
              \A c \in DOMAIN l[i].cases : Orderly(l[i].cases[c].layout)
<1>1. PICK T : l \in T /\ OrderlySet(T)
  BY DEF Orderly
<1>2. \A m \in T : Orderly(m)
  BY <1>1, Zenon DEF Orderly
<1> QED
  BY <1>1, <1>2 DEF OrderlySet

\* Both in one union, of the sets of the parts.
LEMMA OrderlyIntro ==
  ASSUME NEW l, Ordered(l), NEW P,
         \A m \in P : Orderly(m),
         \A i \in DOMAIN l : l[i].op = "each" => l[i].element \in P,
         \A i \in DOMAIN l : l[i].op = "switch" =>
           \A c \in DOMAIN l[i].cases : l[i].cases[c].layout \in P
  PROVE  Orderly(l)
<1> DEFINE Of(m) == CHOOSE T : m \in T /\ OrderlySet(T)
           T == {l} \cup UNION {Of(m) : m \in P}
<1>1. \A m \in P : m \in Of(m) /\ OrderlySet(Of(m))
  BY Zenon DEF Orderly
<1>2. P \subseteq T
  BY <1>1
<1>3. ASSUME NEW x \in T
      PROVE  /\ Ordered(x)
             /\ \A i \in DOMAIN x : x[i].op = "each" => x[i].element \in T
             /\ \A i \in DOMAIN x : x[i].op = "switch" =>
                  \A c \in DOMAIN x[i].cases : x[i].cases[c].layout \in T
  <2>1. CASE x = l
    BY <1>2, <2>1
  <2>2. ASSUME NEW m \in P, x \in Of(m)
        PROVE  /\ Ordered(x)
               /\ \A i \in DOMAIN x : x[i].op = "each" => x[i].element \in T
               /\ \A i \in DOMAIN x : x[i].op = "switch" =>
                    \A c \in DOMAIN x[i].cases : x[i].cases[c].layout \in T
    <3>1. OrderlySet(Of(m)) /\ Of(m) \subseteq T
      BY <1>1
    <3> HIDE DEF T, Of
    <3> QED
      BY <2>2, <3>1 DEF OrderlySet
  <2> QED
    BY <2>1, <2>2
<1> HIDE DEF T
<1>4. OrderlySet(T)
  BY <1>3 DEF OrderlySet
<1>5. l \in T
  BY DEF T
<1> QED
  BY <1>4, <1>5, Zenon DEF Orderly

TidySet(T) ==
  \A l \in T :
    /\ IsSeq(l) /\ Distinct(l)
    /\ \A i \in DOMAIN l :
         /\ l[i].op \in Single \cup {"zeros", "each"}
         /\ l[i].op = "each" => l[i].element \in T

LEMMA TidyIntro ==
  ASSUME NEW l, IsSeq(l), Distinct(l), NEW P,
         \A m \in P : Tidy(m),
         \A i \in DOMAIN l : /\ l[i].op \in Single \cup {"zeros", "each"}
                             /\ l[i].op = "each" => l[i].element \in P
  PROVE  Tidy(l)
<1> DEFINE Of(m) == CHOOSE T : m \in T /\ TidySet(T)
           T == {l} \cup UNION {Of(m) : m \in P}
<1>0. \A m : Tidy(m) <=> \E S : m \in S /\ TidySet(S)
  BY Zenon DEF Tidy, TidySet
<1>1. \A m \in P : m \in Of(m) /\ TidySet(Of(m))
  BY <1>0, Zenon
<1>2. P \subseteq T
  BY <1>1
<1>3. ASSUME NEW x \in T
      PROVE  /\ IsSeq(x) /\ Distinct(x)
             /\ \A i \in DOMAIN x :
                  /\ x[i].op \in Single \cup {"zeros", "each"}
                  /\ x[i].op = "each" => x[i].element \in T
  <2>1. CASE x = l
    BY <1>2, <2>1
  <2>2. ASSUME NEW m \in P, x \in Of(m)
        PROVE  /\ IsSeq(x) /\ Distinct(x)
               /\ \A i \in DOMAIN x :
                    /\ x[i].op \in Single \cup {"zeros", "each"}
                    /\ x[i].op = "each" => x[i].element \in T
    <3>1. TidySet(Of(m)) /\ Of(m) \subseteq T
      BY <1>1
    <3> HIDE DEF T, Of
    <3> QED
      BY <2>2, <3>1 DEF TidySet
  <2> QED
    BY <2>1, <2>2
<1> HIDE DEF T
<1>4. TidySet(T) /\ l \in T
  BY <1>3 DEF TidySet, T
<1> QED
  BY <1>0, <1>4, Zenon

-----------------------------------------------------------------------------
(* Layouts of one kind.                                                    *)

\* No arrays, no switch.
Flat(l) ==
  /\ IsSeq(l)
  /\ \A i \in DOMAIN l : l[i].op \in Single \cup {"zeros"}
  /\ \A i, j \in DOMAIN l : i < j => l[i].name # l[j].name \/ l[i].op = "zeros"

\* Arrays of elements of a layout e.
WithArray(l, e) ==
  /\ IsSeq(l)
  /\ \A i \in DOMAIN l : l[i].op \in Single \cup {"zeros", "each"}
  /\ \A i \in DOMAIN l : l[i].op = "each" => l[i].element = e
  /\ \A i, j \in DOMAIN l :
       i < j => \/ l[i].name # l[j].name
                \/ l[i].op = "zeros"
                \/ l[i].op = "each" /\ l[j].op = "free"

Counted(l) ==
  \A i \in DOMAIN l : l[i].op = "each" =>
    \E j \in DOMAIN l : j < i /\ l[j].op \in Readers /\ l[j].name = l[i].count

LEMMA FlatIs ==
  ASSUME NEW l, Flat(l)
  PROVE  Tidy(l) /\ Orderly(l)
<1>1. \A i \in DOMAIN l : l[i].op # "switch" /\ l[i].op # "each"
  BY DEF Flat, Single
<1>2. Distinct(l)
  BY <1>1 DEF Flat, Distinct, Stands
<1>3. Ordered(l)
  BY <1>1 DEF Ordered
<1>4. Tidy(l)
  <2> DEFINE P == {}
  <2>1. \A i \in DOMAIN l : /\ l[i].op \in Single \cup {"zeros", "each"}
                            /\ l[i].op = "each" => l[i].element \in P
    BY <1>1 DEF Flat
  <2>2. (\A m \in P : Tidy(m)) /\ IsSeq(l)
    BY DEF Flat
  <2> HIDE DEF P
  <2> QED
    BY <1>2, <2>1, <2>2, TidyIntro
<1>5. Orderly(l)
  <2> DEFINE P == {}
  <2>1. \A i \in DOMAIN l : l[i].op = "each" => l[i].element \in P
    BY <1>1
  <2>2. \A i \in DOMAIN l : l[i].op = "switch" =>
           \A c \in DOMAIN l[i].cases : l[i].cases[c].layout \in P
    BY <1>1
  <2>3. \A m \in P : Orderly(m)
    OBVIOUS
  <2> HIDE DEF P
  <2> QED
    BY <1>3, <2>1, <2>2, <2>3, OrderlyIntro
<1> QED
  BY <1>4, <1>5

LEMMA ArrayIs ==
  ASSUME NEW l, NEW e, WithArray(l, e), Tidy(e)
  PROVE  /\ Tidy(l)
         /\ Counted(l) /\ Orderly(e) => Orderly(l)
<1>1. \A i \in DOMAIN l : l[i].op # "switch"
  BY DEF WithArray, Single
<1>2. Distinct(l)
  BY <1>1 DEF WithArray, Distinct, Stands
<1>3. Tidy(l)
  <2>1. \A i \in DOMAIN l : /\ l[i].op \in Single \cup {"zeros", "each"}
                            /\ l[i].op = "each" => l[i].element \in {e}
    BY DEF WithArray
  <2> QED
    BY <1>2, <2>1, TidyIntro DEF WithArray
<1>4. ASSUME Counted(l), Orderly(e) PROVE Orderly(l)
  <2>1. Ordered(l)
    BY <1>1, <1>4 DEF Ordered, Counted
  <2> DEFINE P == {e}
  <2>2. \A i \in DOMAIN l : l[i].op = "each" => l[i].element \in P
    BY DEF WithArray
  <2>3. \A i \in DOMAIN l : l[i].op = "switch" =>
           \A c \in DOMAIN l[i].cases : l[i].cases[c].layout \in P
    BY <1>1
  <2>4. \A m \in P : Orderly(m)
    BY <1>4
  <2> HIDE DEF P
  <2> QED
    BY <1>4, <2>1, <2>2, <2>3, <2>4, OrderlyIntro
<1> QED
  BY <1>3, <1>4

\* Fields of their own, and a switch at the end.
EndsInSwitch(l) ==
  /\ IsSeq(l)
  /\ \A i \in DOMAIN l : \/ l[i].op \in Single /\ i < Len(l)
                         \/ l[i].op = "switch" /\ i = Len(l)
  /\ \A i, j \in DOMAIN l : i < j /\ j < Len(l) => l[i].name # l[j].name
  /\ \A c \in DOMAIN l[Len(l)].cases : Tidy(l[Len(l)].cases[c].layout)
  /\ \A c \in DOMAIN l[Len(l)].cases : \A k \in DOMAIN l[Len(l)].cases[c].layout :
       \A i \in DOMAIN l : i < Len(l) => l[i].name # l[Len(l)].cases[c].layout[k].name

LEMMA SwitchIs ==
  ASSUME NEW l, EndsInSwitch(l)
  PROVE  /\ Neat(l)
         /\ Ordered(l) /\ (\A c \in DOMAIN l[Len(l)].cases : Orderly(l[Len(l)].cases[c].layout))
              => Orderly(l)
<1>1. Distinct(l)
  <2> SUFFICES ASSUME NEW i \in DOMAIN l, NEW j \in DOMAIN l, i < j, NEW name,
                      Stands(l[i], name), Stands(l[j], name)
               PROVE  FALSE
    BY DEF Distinct
  <2>1. DOMAIN l = 1..Len(l) /\ Len(l) \in Nat
    BY SeqLen DEF EndsInSwitch
  <2>2. i < Len(l) /\ l[i].op \in Single
    BY <2>1 DEF EndsInSwitch
  <2>3. name = l[i].name
    BY <2>2 DEF Stands, Single
  <2>4. CASE j < Len(l)
    BY <2>1, <2>3, <2>4 DEF Stands, EndsInSwitch, Single
  <2>5. CASE j = Len(l)
    BY <2>1, <2>2, <2>3, <2>5 DEF Stands, EndsInSwitch, Single
  <2> QED
    BY <2>1, <2>4, <2>5
<1>2. Neat(l)
  <2>1. \A i \in DOMAIN l : l[i].op \in Single \cup {"zeros", "each", "switch"}
    BY DEF EndsInSwitch
  <2>2. \A i \in DOMAIN l : l[i].op # "each"
    BY DEF EndsInSwitch, Single
  <2>3. \A i \in DOMAIN l : l[i].op = "switch" => TidyCases(l[i])
    BY DEF EndsInSwitch, Single, TidyCases
  <2> QED
    BY <1>1, <2>1, <2>2, <2>3 DEF Neat, EndsInSwitch
<1>3. ASSUME Ordered(l), \A c \in DOMAIN l[Len(l)].cases : Orderly(l[Len(l)].cases[c].layout)
      PROVE  Orderly(l)
  <2> DEFINE P == {l[Len(l)].cases[c].layout : c \in DOMAIN l[Len(l)].cases}
  <2>1. \A i \in DOMAIN l : l[i].op = "each" => l[i].element \in P
    BY DEF EndsInSwitch, Single
  <2>2. \A i \in DOMAIN l : l[i].op = "switch" =>
          \A c \in DOMAIN l[i].cases : l[i].cases[c].layout \in P
    BY DEF EndsInSwitch, Single
  <2>3. \A m \in P : Orderly(m)
    BY <1>3
  <2> HIDE DEF P
  <2> QED
    BY <1>3, <2>1, <2>2, <2>3, OrderlyIntro
<1> QED
  BY <1>2, <1>3

-----------------------------------------------------------------------------
(***************************************************************************)
(* The layouts that are parsed: each is neat and orderly.                  *)
(***************************************************************************)
LEMMA Tuple1 ==
  \A a : IsSeq(<<a>>) /\ Len(<<a>>) = 1 /\ DOMAIN <<a>> = 1..1
<1> TAKE a
<1>1. <<a>> \in Seq({a}) /\ Len(<<a>>) = 1 /\ DOMAIN <<a>> = 1..1
  OBVIOUS
<1> QED
  BY <1>1, Zenon DEF IsSeq

LEMMA Tuple2 ==
  \A a, b : IsSeq(<<a, b>>) /\ Len(<<a, b>>) = 2 /\ DOMAIN <<a, b>> = 1..2
<1> TAKE a, b
<1>1. <<a, b>> \in Seq({a, b}) /\ Len(<<a, b>>) = 2 /\ DOMAIN <<a, b>> = 1..2
  OBVIOUS
<1> QED
  BY <1>1, Zenon DEF IsSeq

LEMMA Tuple3 ==
  \A a, b, c : IsSeq(<<a, b, c>>) /\ Len(<<a, b, c>>) = 3 /\ DOMAIN <<a, b, c>> = 1..3
<1> TAKE a, b, c
<1>1. <<a, b, c>> \in Seq({a, b, c}) /\ Len(<<a, b, c>>) = 3 /\ DOMAIN <<a, b, c>> = 1..3
  OBVIOUS
<1> QED
  BY <1>1, Zenon DEF IsSeq

LEMMA Tuple4 ==
  \A a, b, c, d : IsSeq(<<a, b, c, d>>) /\ Len(<<a, b, c, d>>) = 4 /\ DOMAIN <<a, b, c, d>> = 1..4
<1> TAKE a, b, c, d
<1>1. /\ <<a, b, c, d>> \in Seq({a, b, c, d})
      /\ Len(<<a, b, c, d>>) = 4
      /\ DOMAIN <<a, b, c, d>> = 1..4
  OBVIOUS
<1> QED
  BY <1>1, Zenon DEF IsSeq

LEMMA Tuple5 ==
  \A a, b, c, d, e :
    /\ IsSeq(<<a, b, c, d, e>>)
    /\ Len(<<a, b, c, d, e>>) = 5
    /\ DOMAIN <<a, b, c, d, e>> = 1..5
<1> TAKE a, b, c, d, e
<1>1. /\ <<a, b, c, d, e>> \in Seq({a, b, c, d, e})
      /\ Len(<<a, b, c, d, e>>) = 5
      /\ DOMAIN <<a, b, c, d, e>> = 1..5
  OBVIOUS
<1> QED
  BY <1>1, Zenon DEF IsSeq

LEMMA Tuple6 ==
  \A a, b, c, d, e, f :
    /\ IsSeq(<<a, b, c, d, e, f>>)
    /\ Len(<<a, b, c, d, e, f>>) = 6
    /\ DOMAIN <<a, b, c, d, e, f>> = 1..6
<1> TAKE a, b, c, d, e, f
<1>1. /\ <<a, b, c, d, e, f>> \in Seq({a, b, c, d, e, f})
      /\ Len(<<a, b, c, d, e, f>>) = 6
      /\ DOMAIN <<a, b, c, d, e, f>> = 1..6
  OBVIOUS
<1> QED
  BY <1>1, Zenon DEF IsSeq

LEMMA Tuple10 ==
  \A a, b, c, d, e, f, g, h, x, y :
    /\ IsSeq(<<a, b, c, d, e, f, g, h, x, y>>)
    /\ Len(<<a, b, c, d, e, f, g, h, x, y>>) = 10
    /\ DOMAIN <<a, b, c, d, e, f, g, h, x, y>> = 1..10
<1> TAKE a, b, c, d, e, f, g, h, x, y
<1>1. /\ <<a, b, c, d, e, f, g, h, x, y>> \in Seq({a, b, c, d, e, f, g, h, x, y})
      /\ Len(<<a, b, c, d, e, f, g, h, x, y>>) = 10
      /\ DOMAIN <<a, b, c, d, e, f, g, h, x, y>> = 1..10
  OBVIOUS
<1> QED
  BY <1>1, Zenon DEF IsSeq

LEMMA DeviceInfoParseOrderly == Neat(DeviceInfoParse) /\ Orderly(DeviceInfoParse)
<1> DEFINE c1 == << Count("len"), Zeros("string"), NameBytes("string", "len") >>
           c2 == << Enum("series", Series), Enum("color", Colors) >>
           c3 == << Count("num_guidance_categories"),
                    Each("guidance_categories", "num_guidance_categories",
                         << Enum("guidance_category", GuidanceCategories) >>) >>
           cs == << Case(Name, c1), Case(SeriesAndColor, c2), Case(InstructionGuide, c3) >>
           l == << Inquired(DeviceInfoInquired), Switch("inquired_type", cs) >>
<1>1. Tidy(c1) /\ Orderly(c1) /\ \A k \in DOMAIN c1 : c1[k].name \notin {"inquired_type"}
  <2>1. Flat(c1)
    BY Tuple3 DEF Flat, Count, Zeros, NameBytes, Single
  <2>2. \A k \in DOMAIN c1 : c1[k].name \notin {"inquired_type"}
    BY Tuple3 DEF Count, Zeros, NameBytes
  <2> QED
    BY <2>1, <2>2, FlatIs
<1>2. Tidy(c2) /\ Orderly(c2) /\ \A k \in DOMAIN c2 : c2[k].name \notin {"inquired_type"}
  <2>1. Flat(c2)
    BY Tuple2 DEF Flat, Enum, Single
  <2>2. \A k \in DOMAIN c2 : c2[k].name \notin {"inquired_type"}
    BY Tuple2 DEF Enum
  <2> QED
    BY <2>1, <2>2, FlatIs
<1>3. Tidy(c3) /\ Orderly(c3) /\ \A k \in DOMAIN c3 : c3[k].name \notin {"inquired_type"}
  <2> DEFINE e == << Enum("guidance_category", GuidanceCategories) >>
  <2>1. Flat(e)
    BY Tuple1 DEF Flat, Enum, Single
  <2> HIDE DEF e
  <2>2. WithArray(c3, e) /\ Counted(c3)
    BY Tuple2 DEF WithArray, Counted, Readers, Count, Each, Single, e
  <2>3. \A k \in DOMAIN c3 : c3[k].name \notin {"inquired_type"}
    BY Tuple2 DEF Count, Each
  <2> HIDE DEF c3
  <2>4. Tidy(e) /\ Orderly(e)
    BY <2>1, FlatIs
  <2> QED
    BY <2>2, <2>3, <2>4, ArrayIs
<1> HIDE DEF c1, c2, c3
<1>4. /\ DOMAIN cs = 1..3
      /\ cs[1].layout = c1 /\ cs[1].values = Name
      /\ cs[2].layout = c2 /\ cs[2].values = SeriesAndColor
      /\ cs[3].layout = c3 /\ cs[3].values = InstructionGuide
  BY Tuple3 DEF Case
<1> HIDE DEF cs
<1>5. \A c \in DOMAIN cs : /\ Tidy(cs[c].layout) /\ Orderly(cs[c].layout)
                               /\ \A k \in DOMAIN cs[c].layout :
                                    cs[c].layout[k].name \notin {"inquired_type"}
  BY <1>1, <1>2, <1>3, <1>4
<1>6. \A c, d \in DOMAIN cs : c # d => cs[c].values \cap cs[d].values = {}
  BY <1>4 DEF Name, SeriesAndColor, InstructionGuide
<1>7. /\ DOMAIN l = 1..2 /\ Len(l) = 2 /\ IsSeq(l)
      /\ l[2].op = "switch" /\ l[2].name = "inquired_type" /\ l[2].cases = cs
      /\ l[1].op = "enum" /\ l[1].name = "inquired_type"
  BY Tuple2 DEF Switch, Inquired, Enum
<1> HIDE DEF l
<1>8. EndsInSwitch(l)
  BY <1>5, <1>7 DEF EndsInSwitch, Single
<1>9. Ordered(l)
  BY <1>6, <1>7 DEF Ordered, Readers
<1>10. Neat(l) /\ Orderly(l)
  BY <1>5, <1>7, <1>8, <1>9, SwitchIs
<1>11. DeviceInfoParse = l
  BY DEF DeviceInfoParse, l, cs, c1, c2, c3
<1> QED
  BY <1>10, <1>11

LEMMA SupportFunctionParseOrderly == Neat(SupportFunctionParse) /\ Orderly(SupportFunctionParse)
<1> DEFINE e == << Enum("function_type", FunctionTypes) >>
<1>1. Flat(e)
  BY Tuple1 DEF Flat, Enum, Single
<1>2. Tidy(e) /\ Orderly(e)
  BY <1>1, FlatIs
<1>3. WithArray(SupportFunctionParse, e) /\ Counted(SupportFunctionParse)
  BY Tuple3 DEF WithArray, Counted, Readers, SupportFunctionParse, Enum, Count, Each, Single
<1> HIDE DEF e
<1> QED
  BY <1>2, <1>3, ArrayIs, TidyIs

LEMMA BatteryParseOrderly == Neat(BatteryParse) /\ Orderly(BatteryParse)
<1> DEFINE c1 == << Plain("level"), Plain("charging") >>
           c2 == << Plain("left.level"), Plain("left.charging"),
                  Plain("right.level"), Plain("right.charging") >>
           cs == << Case(OneBattery, c1), Case(LeftRightBattery, c2) >>
           l == << Inquired(BatteryInquired), Switch("inquired_type", cs) >>
<1>1. Tidy(c1) /\ Orderly(c1) /\ \A k \in DOMAIN c1 : c1[k].name \notin {"inquired_type"}
  <2>1. Flat(c1)
    BY Tuple2 DEF Flat, Plain, Single
  <2>2. \A k \in DOMAIN c1 : c1[k].name \notin {"inquired_type"}
    BY Tuple2 DEF Plain
  <2> QED
    BY <2>1, <2>2, FlatIs
<1>2. Tidy(c2) /\ Orderly(c2) /\ \A k \in DOMAIN c2 : c2[k].name \notin {"inquired_type"}
  <2>1. Flat(c2)
    BY Tuple4 DEF Flat, Plain, Single
  <2>2. \A k \in DOMAIN c2 : c2[k].name \notin {"inquired_type"}
    BY Tuple4 DEF Plain
  <2> QED
    BY <2>1, <2>2, FlatIs
<1> HIDE DEF c1, c2
<1>3. /\ DOMAIN cs = 1..2
      /\ cs[1].layout = c1 /\ cs[1].values = OneBattery
      /\ cs[2].layout = c2 /\ cs[2].values = LeftRightBattery
  BY Tuple2 DEF Case
<1> HIDE DEF cs
<1>4. \A c \in DOMAIN cs : /\ Tidy(cs[c].layout) /\ Orderly(cs[c].layout)
                               /\ \A k \in DOMAIN cs[c].layout :
                                    cs[c].layout[k].name \notin {"inquired_type"}
  BY <1>1, <1>2, <1>3
<1>5. \A c, d \in DOMAIN cs : c # d => cs[c].values \cap cs[d].values = {}
  BY <1>3 DEF OneBattery, LeftRightBattery
<1>6. /\ DOMAIN l = 1..2 /\ Len(l) = 2 /\ IsSeq(l)
      /\ l[2].op = "switch" /\ l[2].name = "inquired_type" /\ l[2].cases = cs
      /\ l[1].op = "enum" /\ l[1].name = "inquired_type"
  BY Tuple2 DEF Switch, Inquired, Enum
<1> HIDE DEF l
<1>7. EndsInSwitch(l)
  BY <1>4, <1>6 DEF EndsInSwitch, Single
<1>8. Ordered(l)
  BY <1>5, <1>6 DEF Ordered, Readers
<1>9. Neat(l) /\ Orderly(l)
  BY <1>4, <1>6, <1>7, <1>8, SwitchIs
<1>10. BatteryParse = l
  BY DEF BatteryParse, l, cs, c1, c2
<1> QED
  BY <1>9, <1>10

LEMMA ConnectionStatusParseOrderly == Neat(ConnectionStatusParse) /\ Orderly(ConnectionStatusParse)
<1> DEFINE c1 == << Enum("left_status", OnOff), Enum("right_status", OnOff) >>
           cs == << Case({1}, c1) >>
           l == << Inquired({1}), Switch("inquired_type", cs) >>
<1>1. Tidy(c1) /\ Orderly(c1) /\ \A k \in DOMAIN c1 : c1[k].name \notin {"inquired_type"}
  <2>1. Flat(c1)
    BY Tuple2 DEF Flat, Enum, Single
  <2>2. \A k \in DOMAIN c1 : c1[k].name \notin {"inquired_type"}
    BY Tuple2 DEF Enum
  <2> QED
    BY <2>1, <2>2, FlatIs
<1> HIDE DEF c1
<1>2. /\ DOMAIN cs = 1..1
      /\ cs[1].layout = c1 /\ cs[1].values = {1}
  BY Tuple1 DEF Case
<1> HIDE DEF cs
<1>3. \A c \in DOMAIN cs : /\ Tidy(cs[c].layout) /\ Orderly(cs[c].layout)
                               /\ \A k \in DOMAIN cs[c].layout :
                                    cs[c].layout[k].name \notin {"inquired_type"}
  BY <1>1, <1>2
<1>4. \A c, d \in DOMAIN cs : c # d => cs[c].values \cap cs[d].values = {}
  BY <1>2
<1>5. /\ DOMAIN l = 1..2 /\ Len(l) = 2 /\ IsSeq(l)
      /\ l[2].op = "switch" /\ l[2].name = "inquired_type" /\ l[2].cases = cs
      /\ l[1].op = "enum" /\ l[1].name = "inquired_type"
  BY Tuple2 DEF Switch, Inquired, Enum
<1> HIDE DEF l
<1>6. EndsInSwitch(l)
  BY <1>3, <1>5 DEF EndsInSwitch, Single
<1>7. Ordered(l)
  BY <1>4, <1>5 DEF Ordered, Readers
<1>8. Neat(l) /\ Orderly(l)
  BY <1>3, <1>5, <1>6, <1>7, SwitchIs
<1>9. ConnectionStatusParse = l
  BY DEF ConnectionStatusParse, l, cs, c1
<1> QED
  BY <1>8, <1>9

LEMMA EqCapabilityParseOrderly == Neat(EqCapabilityParse) /\ Orderly(EqCapabilityParse)
<1> DEFINE c1 == << Plain("band_count"), Plain("level_steps"), Count("num_presets"),
                    Each("presets", "num_presets",
                         << Enum("preset_id", EqPresetIds), Count("name_len"),
                          Bytes("name", "name_len") >>) >>
           c2 == << Plain("min_level"), Plain("max_level") >>
           cs == << Case(PresetEq, c1), Case(Ebb, c2) >>
           l == << Inquired(EqebbInquired), Switch("inquired_type", cs) >>
<1>1. Tidy(c1) /\ Orderly(c1) /\ \A k \in DOMAIN c1 : c1[k].name \notin {"inquired_type"}
  <2> DEFINE e == << Enum("preset_id", EqPresetIds), Count("name_len"),
                          Bytes("name", "name_len") >>
  <2>1. Flat(e)
    BY Tuple3 DEF Flat, Enum, Count, Bytes, Single
  <2> HIDE DEF e
  <2>2. WithArray(c1, e) /\ Counted(c1)
    BY Tuple4 DEF WithArray, Counted, Readers, Plain, Count, Each, Single, e
  <2>3. \A k \in DOMAIN c1 : c1[k].name \notin {"inquired_type"}
    BY Tuple4 DEF Plain, Count, Each
  <2> HIDE DEF c1
  <2>4. Tidy(e) /\ Orderly(e)
    BY <2>1, FlatIs
  <2> QED
    BY <2>2, <2>3, <2>4, ArrayIs
<1>2. Tidy(c2) /\ Orderly(c2) /\ \A k \in DOMAIN c2 : c2[k].name \notin {"inquired_type"}
  <2>1. Flat(c2)
    BY Tuple2 DEF Flat, Plain, Single
  <2>2. \A k \in DOMAIN c2 : c2[k].name \notin {"inquired_type"}
    BY Tuple2 DEF Plain
  <2> QED
    BY <2>1, <2>2, FlatIs
<1> HIDE DEF c1, c2
<1>3. /\ DOMAIN cs = 1..2
      /\ cs[1].layout = c1 /\ cs[1].values = PresetEq
      /\ cs[2].layout = c2 /\ cs[2].values = Ebb
  BY Tuple2 DEF Case
<1> HIDE DEF cs
<1>4. \A c \in DOMAIN cs : /\ Tidy(cs[c].layout) /\ Orderly(cs[c].layout)
                               /\ \A k \in DOMAIN cs[c].layout :
                                    cs[c].layout[k].name \notin {"inquired_type"}
  BY <1>1, <1>2, <1>3
<1>5. \A c, d \in DOMAIN cs : c # d => cs[c].values \cap cs[d].values = {}
  BY <1>3 DEF PresetEq, Ebb
<1>6. /\ DOMAIN l = 1..2 /\ Len(l) = 2 /\ IsSeq(l)
      /\ l[2].op = "switch" /\ l[2].name = "inquired_type" /\ l[2].cases = cs
      /\ l[1].op = "enum" /\ l[1].name = "inquired_type"
  BY Tuple2 DEF Switch, Inquired, Enum
<1> HIDE DEF l
<1>7. EndsInSwitch(l)
  BY <1>4, <1>6 DEF EndsInSwitch, Single
<1>8. Ordered(l)
  BY <1>5, <1>6 DEF Ordered, Readers
<1>9. Neat(l) /\ Orderly(l)
  BY <1>4, <1>6, <1>7, <1>8, SwitchIs
<1>10. EqCapabilityParse = l
  BY DEF EqCapabilityParse, l, cs, c1, c2
<1> QED
  BY <1>9, <1>10

LEMMA EqParamParseOrderly == Neat(EqParamParse) /\ Orderly(EqParamParse)
<1> DEFINE c1 == << Enum("preset_id", EqPresetIds), Count("num_levels"),
                  Bytes("levels", "num_levels") >>
           c2 == << Plain("level") >>
           cs == << Case(PresetEq, c1), Case(Ebb, c2) >>
           l == << Inquired(EqebbInquired), Switch("inquired_type", cs) >>
<1>1. Tidy(c1) /\ Orderly(c1) /\ \A k \in DOMAIN c1 : c1[k].name \notin {"inquired_type"}
  <2>1. Flat(c1)
    BY Tuple3 DEF Flat, Enum, Count, Bytes, Single
  <2>2. \A k \in DOMAIN c1 : c1[k].name \notin {"inquired_type"}
    BY Tuple3 DEF Enum, Count, Bytes
  <2> QED
    BY <2>1, <2>2, FlatIs
<1>2. Tidy(c2) /\ Orderly(c2) /\ \A k \in DOMAIN c2 : c2[k].name \notin {"inquired_type"}
  <2>1. Flat(c2)
    BY Tuple1 DEF Flat, Plain, Single
  <2>2. \A k \in DOMAIN c2 : c2[k].name \notin {"inquired_type"}
    BY Tuple1 DEF Plain
  <2> QED
    BY <2>1, <2>2, FlatIs
<1> HIDE DEF c1, c2
<1>3. /\ DOMAIN cs = 1..2
      /\ cs[1].layout = c1 /\ cs[1].values = PresetEq
      /\ cs[2].layout = c2 /\ cs[2].values = Ebb
  BY Tuple2 DEF Case
<1> HIDE DEF cs
<1>4. \A c \in DOMAIN cs : /\ Tidy(cs[c].layout) /\ Orderly(cs[c].layout)
                               /\ \A k \in DOMAIN cs[c].layout :
                                    cs[c].layout[k].name \notin {"inquired_type"}
  BY <1>1, <1>2, <1>3
<1>5. \A c, d \in DOMAIN cs : c # d => cs[c].values \cap cs[d].values = {}
  BY <1>3 DEF PresetEq, Ebb
<1>6. /\ DOMAIN l = 1..2 /\ Len(l) = 2 /\ IsSeq(l)
      /\ l[2].op = "switch" /\ l[2].name = "inquired_type" /\ l[2].cases = cs
      /\ l[1].op = "enum" /\ l[1].name = "inquired_type"
  BY Tuple2 DEF Switch, Inquired, Enum
<1> HIDE DEF l
<1>7. EndsInSwitch(l)
  BY <1>4, <1>6 DEF EndsInSwitch, Single
<1>8. Ordered(l)
  BY <1>5, <1>6 DEF Ordered, Readers
<1>9. Neat(l) /\ Orderly(l)
  BY <1>4, <1>6, <1>7, <1>8, SwitchIs
<1>10. EqParamParse = l
  BY DEF EqParamParse, l, cs, c1, c2
<1> QED
  BY <1>9, <1>10

LEMMA NcasmParamParseOrderly == Neat(NcasmParamParse) /\ Orderly(NcasmParamParse)
<1> DEFINE c1 == << Enum("nc_setting_type", OnOff), Enum("nc_setting_value", OnOff) >>
           c2 == << Enum("ncasm_effect", NcasmEffects), Enum("ncasm_setting_type", {0, 1, 2}),
                  Plain("ncasm_amount"), Enum("asm_setting_type", OnOff),
                  Enum("asm_id", {0, 1}), Plain("asm_amount") >>
           c3 == << Enum("ncasm_effect", NcasmEffects), Enum("asm_setting_type", OnOff),
                  Enum("asm_id", {0, 1}), Plain("asm_amount") >>
           cs == << Case(Nc, c1), Case(NcAndAsm, c2), Case(Asm, c3) >>
           l == << Inquired(NcasmInquired), Switch("inquired_type", cs) >>
<1>1. Tidy(c1) /\ Orderly(c1) /\ \A k \in DOMAIN c1 : c1[k].name \notin {"inquired_type"}
  <2>1. Flat(c1)
    BY Tuple2 DEF Flat, Enum, Single
  <2>2. \A k \in DOMAIN c1 : c1[k].name \notin {"inquired_type"}
    BY Tuple2 DEF Enum
  <2> QED
    BY <2>1, <2>2, FlatIs
<1>2. Tidy(c2) /\ Orderly(c2) /\ \A k \in DOMAIN c2 : c2[k].name \notin {"inquired_type"}
  <2>1. Flat(c2)
    BY Tuple6 DEF Flat, Enum, Plain, Single
  <2>2. \A k \in DOMAIN c2 : c2[k].name \notin {"inquired_type"}
    BY Tuple6 DEF Enum, Plain
  <2> QED
    BY <2>1, <2>2, FlatIs
<1>3. Tidy(c3) /\ Orderly(c3) /\ \A k \in DOMAIN c3 : c3[k].name \notin {"inquired_type"}
  <2>1. Flat(c3)
    BY Tuple4 DEF Flat, Enum, Plain, Single
  <2>2. \A k \in DOMAIN c3 : c3[k].name \notin {"inquired_type"}
    BY Tuple4 DEF Enum, Plain
  <2> QED
    BY <2>1, <2>2, FlatIs
<1> HIDE DEF c1, c2, c3
<1>4. /\ DOMAIN cs = 1..3
      /\ cs[1].layout = c1 /\ cs[1].values = Nc
      /\ cs[2].layout = c2 /\ cs[2].values = NcAndAsm
      /\ cs[3].layout = c3 /\ cs[3].values = Asm
  BY Tuple3 DEF Case
<1> HIDE DEF cs
<1>5. \A c \in DOMAIN cs : /\ Tidy(cs[c].layout) /\ Orderly(cs[c].layout)
                               /\ \A k \in DOMAIN cs[c].layout :
                                    cs[c].layout[k].name \notin {"inquired_type"}
  BY <1>1, <1>2, <1>3, <1>4
<1>6. \A c, d \in DOMAIN cs : c # d => cs[c].values \cap cs[d].values = {}
  BY <1>4 DEF Nc, NcAndAsm, Asm
<1>7. /\ DOMAIN l = 1..2 /\ Len(l) = 2 /\ IsSeq(l)
      /\ l[2].op = "switch" /\ l[2].name = "inquired_type" /\ l[2].cases = cs
      /\ l[1].op = "enum" /\ l[1].name = "inquired_type"
  BY Tuple2 DEF Switch, Inquired, Enum
<1> HIDE DEF l
<1>8. EndsInSwitch(l)
  BY <1>5, <1>7 DEF EndsInSwitch, Single
<1>9. Ordered(l)
  BY <1>6, <1>7 DEF Ordered, Readers
<1>10. Neat(l) /\ Orderly(l)
  BY <1>5, <1>7, <1>8, <1>9, SwitchIs
<1>11. NcasmParamParse = l
  BY DEF NcasmParamParse, l, cs, c1, c2, c3
<1> QED
  BY <1>10, <1>11

LEMMA PlayParamParseOrderly == Neat(PlayParamParse) /\ Orderly(PlayParamParse)
<1> DEFINE c1 == << Enum("status", {0, 1, 2}), Clamped("len"), Bytes("data", "len") >>
           c2 == << Plain("volume") >>
           cs == << Case(Names, c1), Case({Volume}, c2) >>
           l == << Inquired({1}), Enum("detailed_data_type", PlayDetailed), Switch("detailed_data_type", cs) >>
<1>1. Tidy(c1) /\ Orderly(c1) /\ \A k \in DOMAIN c1 : c1[k].name \notin {"detailed_data_type", "inquired_type"}
  <2>1. Flat(c1)
    BY Tuple3 DEF Flat, Enum, Clamped, Bytes, Single
  <2>2. \A k \in DOMAIN c1 : c1[k].name \notin {"detailed_data_type", "inquired_type"}
    BY Tuple3 DEF Enum, Clamped, Bytes
  <2> QED
    BY <2>1, <2>2, FlatIs
<1>2. Tidy(c2) /\ Orderly(c2) /\ \A k \in DOMAIN c2 : c2[k].name \notin {"detailed_data_type", "inquired_type"}
  <2>1. Flat(c2)
    BY Tuple1 DEF Flat, Plain, Single
  <2>2. \A k \in DOMAIN c2 : c2[k].name \notin {"detailed_data_type", "inquired_type"}
    BY Tuple1 DEF Plain
  <2> QED
    BY <2>1, <2>2, FlatIs
<1> HIDE DEF c1, c2
<1>3. /\ DOMAIN cs = 1..2
      /\ cs[1].layout = c1 /\ cs[1].values = Names
      /\ cs[2].layout = c2 /\ cs[2].values = {Volume}
  BY Tuple2 DEF Case
<1> HIDE DEF cs
<1>4. \A c \in DOMAIN cs : /\ Tidy(cs[c].layout) /\ Orderly(cs[c].layout)
                               /\ \A k \in DOMAIN cs[c].layout :
                                    cs[c].layout[k].name \notin {"detailed_data_type", "inquired_type"}
  BY <1>1, <1>2, <1>3
<1>5. \A c, d \in DOMAIN cs : c # d => cs[c].values \cap cs[d].values = {}
  BY <1>3 DEF Names, Volume
<1>6. /\ DOMAIN l = 1..3 /\ Len(l) = 3 /\ IsSeq(l)
      /\ l[3].op = "switch" /\ l[3].name = "detailed_data_type" /\ l[3].cases = cs
      /\ l[1].op = "enum" /\ l[1].name = "inquired_type"
      /\ l[2].op = "enum" /\ l[2].name = "detailed_data_type"
  BY Tuple3 DEF Switch, Inquired, Enum
<1> HIDE DEF l
<1>7. EndsInSwitch(l)
  BY <1>4, <1>6 DEF EndsInSwitch, Single
<1>8. Ordered(l)
  BY <1>5, <1>6 DEF Ordered, Readers
<1>9. Neat(l) /\ Orderly(l)
  BY <1>4, <1>6, <1>7, <1>8, SwitchIs
<1>10. PlayParamParse = l
  <2> DEFINE x == Inquired({1})
             y == Enum("detailed_data_type", PlayDetailed)
             z == Switch("detailed_data_type", cs)
  <2>1. PlayParamParse = <<x, y>> \o <<z>> /\ l = <<x, y, z>>
    BY Zenon DEF PlayParamParse, l, cs, c1, c2, PlayGetParse
  <2> HIDE DEF x, y, z
  <2>2. <<x, y>> \o <<z>> = <<x, y, z>>
    <3>1. /\ IsSeq(<<x, y>> \o <<z>>) /\ Len(<<x, y>> \o <<z>>) = 3
          /\ \A i \in 1..3 : (<<x, y>> \o <<z>>)[i] = IF i <= 2 THEN <<x, y>>[i] ELSE <<z>>[i - 2]
      BY Tuple1, Tuple2, SeqConcat
    <3>2. \A i \in 1..3 : (<<x, y>> \o <<z>>)[i] = <<x, y, z>>[i]
      BY <3>1
    <3>3. IsSeq(<<x, y, z>>) /\ Len(<<x, y, z>>) = 3
      BY Tuple3
    <3> DEFINE u == <<x, y>> \o <<z>>
               v == <<x, y, z>>
    <3> HIDE DEF u, v
    <3>4. u = v
      BY <3>1, <3>2, <3>3, SeqSame DEF u, v
    <3> QED
      BY <3>4 DEF u, v
  <2> QED
    BY <2>1, <2>2
<1> QED
  BY <1>9, <1>10

LEMMA AssignableCapabilityParseOrderly ==
  /\ Tidy(AssignableCapabilityParse) /\ Orderly(AssignableCapabilityParse)
  /\ \A k \in DOMAIN AssignableCapabilityParse : AssignableCapabilityParse[k].name # "inquired_type"
<1> DEFINE e3 == << Enum("action", ButtonActions), Enum("function", ButtonFunctions) >>
           e2 == << Enum("preset", ButtonPresets), Count("num_capability_actions"),
                    Each("capability_actions", "num_capability_actions", e3) >>
           e1 == << Enum("key", {0, 1, 2, 3}), Enum("key_type", {0, 1}),
                    Enum("default_preset", ButtonPresets), Count("num_capability_presets"),
                    Each("capability_presets", "num_capability_presets", e2) >>
           l == << Count("num_capability_keys"),
                   Each("capability_keys", "num_capability_keys", e1) >>
<1>1. Tidy(e3) /\ Orderly(e3)
  <2>1. Flat(e3)
    BY Tuple2 DEF Flat, Enum, Single
  <2> HIDE DEF e3
  <2> QED
    BY <2>1, FlatIs
<1> HIDE DEF e3
<1>2. Tidy(e2) /\ Orderly(e2)
  <2>1. WithArray(e2, e3) /\ Counted(e2)
    BY Tuple3 DEF WithArray, Counted, Readers, Enum, Count, Each, Single
  <2> HIDE DEF e2
  <2> QED
    BY <1>1, <2>1, ArrayIs
<1> HIDE DEF e2
<1>3. Tidy(e1) /\ Orderly(e1)
  <2>1. WithArray(e1, e2) /\ Counted(e1)
    BY Tuple5 DEF WithArray, Counted, Readers, Enum, Count, Each, Single
  <2> HIDE DEF e1
  <2> QED
    BY <1>2, <2>1, ArrayIs
<1> HIDE DEF e1
<1>4. Tidy(l) /\ Orderly(l) /\ \A k \in DOMAIN l : l[k].name # "inquired_type"
  <2>1. WithArray(l, e1) /\ Counted(l) /\ \A k \in DOMAIN l : l[k].name # "inquired_type"
    BY Tuple2 DEF WithArray, Counted, Readers, Count, Each, Single
  <2> HIDE DEF l
  <2> QED
    BY <1>3, <2>1, ArrayIs
<1>5. AssignableCapabilityParse = l
  BY DEF AssignableCapabilityParse, e1, e2, e3
<1> HIDE DEF l
<1> QED
  BY <1>4, <1>5

LEMMA SystemCapabilityParseOrderly == Neat(SystemCapabilityParse) /\ Orderly(SystemCapabilityParse)
<1> DEFINE c1 == << Enum("setting_type", {0}) >>
           c2 == << Count("element_id_count"),
                    Each("element_ids", "element_id_count", << Enum("element_id", AutoPowerOffIds) >>) >>
           c3 == << Enum("setting_type", {0}), Enum("preview_type", {0, 1}),
                  Enum("detail_setting", {0}),
                  Enum("detection_sensitivity_type", {0}),
                  Enum("voice_focus_type", {0}),
                  Enum("mode_out_time_type_t", {0}),
                  Plain("timeouts[0]"), Plain("timeouts[1]"),
                  Plain("timeouts[2]"), Plain("timeouts[3]") >>
           c4 == AssignableCapabilityParse
           cs == << Case(OnOffSetting, c1), Case(AutoPowerOff, c2), Case(SmartTalking, c3), Case(AssignableKeys, c4) >>
           l == << Inquired(SystemInquired), Switch("inquired_type", cs) >>
<1>1. Tidy(c1) /\ Orderly(c1) /\ \A k \in DOMAIN c1 : c1[k].name \notin {"inquired_type"}
  <2>1. Flat(c1)
    BY Tuple1 DEF Flat, Enum, Single
  <2>2. \A k \in DOMAIN c1 : c1[k].name \notin {"inquired_type"}
    BY Tuple1 DEF Enum
  <2> QED
    BY <2>1, <2>2, FlatIs
<1>2. Tidy(c2) /\ Orderly(c2) /\ \A k \in DOMAIN c2 : c2[k].name \notin {"inquired_type"}
  <2> DEFINE e == << Enum("element_id", AutoPowerOffIds) >>
  <2>1. Flat(e)
    BY Tuple1 DEF Flat, Enum, Single
  <2> HIDE DEF e
  <2>2. WithArray(c2, e) /\ Counted(c2)
    BY Tuple2 DEF WithArray, Counted, Readers, Count, Each, Single, e
  <2>3. \A k \in DOMAIN c2 : c2[k].name \notin {"inquired_type"}
    BY Tuple2 DEF Count, Each
  <2> HIDE DEF c2
  <2>4. Tidy(e) /\ Orderly(e)
    BY <2>1, FlatIs
  <2> QED
    BY <2>2, <2>3, <2>4, ArrayIs
<1>3. Tidy(c3) /\ Orderly(c3) /\ \A k \in DOMAIN c3 : c3[k].name \notin {"inquired_type"}
  <2>1. Flat(c3)
    BY Tuple10 DEF Flat, Enum, Plain, Single
  <2>2. \A k \in DOMAIN c3 : c3[k].name \notin {"inquired_type"}
    BY Tuple10 DEF Enum, Plain
  <2> QED
    BY <2>1, <2>2, FlatIs
<1>4. Tidy(c4) /\ Orderly(c4) /\ \A k \in DOMAIN c4 : c4[k].name \notin {"inquired_type"}
  BY AssignableCapabilityParseOrderly
<1> HIDE DEF c1, c2, c3, c4
<1>5. /\ DOMAIN cs = 1..4
      /\ cs[1].layout = c1 /\ cs[1].values = OnOffSetting
      /\ cs[2].layout = c2 /\ cs[2].values = AutoPowerOff
      /\ cs[3].layout = c3 /\ cs[3].values = SmartTalking
      /\ cs[4].layout = c4 /\ cs[4].values = AssignableKeys
  BY Tuple4 DEF Case
<1> HIDE DEF cs
<1>6. \A c \in DOMAIN cs : /\ Tidy(cs[c].layout) /\ Orderly(cs[c].layout)
                               /\ \A k \in DOMAIN cs[c].layout :
                                    cs[c].layout[k].name \notin {"inquired_type"}
  BY <1>1, <1>2, <1>3, <1>4, <1>5
<1>7. \A c, d \in DOMAIN cs : c # d => cs[c].values \cap cs[d].values = {}
  BY <1>5 DEF OnOffSetting, AutoPowerOff, SmartTalking, AssignableKeys
<1>8. /\ DOMAIN l = 1..2 /\ Len(l) = 2 /\ IsSeq(l)
      /\ l[2].op = "switch" /\ l[2].name = "inquired_type" /\ l[2].cases = cs
      /\ l[1].op = "enum" /\ l[1].name = "inquired_type"
  BY Tuple2 DEF Switch, Inquired, Enum
<1> HIDE DEF l
<1>9. EndsInSwitch(l)
  BY <1>6, <1>8 DEF EndsInSwitch, Single
<1>10. Ordered(l)
  BY <1>7, <1>8 DEF Ordered, Readers
<1>11. Neat(l) /\ Orderly(l)
  BY <1>6, <1>8, <1>9, <1>10, SwitchIs
<1>12. SystemCapabilityParse = l
  BY DEF SystemCapabilityParse, l, cs, c1, c2, c3, c4
<1> QED
  BY <1>11, <1>12

LEMMA SystemParamParseOrderly == Neat(SystemParamParse) /\ Orderly(SystemParamParse)
<1> DEFINE c1 == << Enum("setting_type", {0}), Enum("setting_value", OnOff) >>
           c2 == << Enum("parameter_type", {1}), Enum("element_id", AutoPowerOffIds),
                  Enum("select_time_element_id", AutoPowerOffIds) >>
           c3 == << Count("num_presets"), Each("presets", "num_presets", << Enum("preset", ButtonPresets) >>) >>
           cs == << Case(OnOffSetting \cup SmartTalking, c1), Case(AutoPowerOff, c2), Case(AssignableKeys, c3) >>
           l == << Inquired(SystemInquired), Switch("inquired_type", cs) >>
<1>1. Tidy(c1) /\ Orderly(c1) /\ \A k \in DOMAIN c1 : c1[k].name \notin {"inquired_type"}
  <2>1. Flat(c1)
    BY Tuple2 DEF Flat, Enum, Single
  <2>2. \A k \in DOMAIN c1 : c1[k].name \notin {"inquired_type"}
    BY Tuple2 DEF Enum
  <2> QED
    BY <2>1, <2>2, FlatIs
<1>2. Tidy(c2) /\ Orderly(c2) /\ \A k \in DOMAIN c2 : c2[k].name \notin {"inquired_type"}
  <2>1. Flat(c2)
    BY Tuple3 DEF Flat, Enum, Single
  <2>2. \A k \in DOMAIN c2 : c2[k].name \notin {"inquired_type"}
    BY Tuple3 DEF Enum
  <2> QED
    BY <2>1, <2>2, FlatIs
<1>3. Tidy(c3) /\ Orderly(c3) /\ \A k \in DOMAIN c3 : c3[k].name \notin {"inquired_type"}
  <2> DEFINE e == << Enum("preset", ButtonPresets) >>
  <2>1. Flat(e)
    BY Tuple1 DEF Flat, Enum, Single
  <2> HIDE DEF e
  <2>2. WithArray(c3, e) /\ Counted(c3)
    BY Tuple2 DEF WithArray, Counted, Readers, Count, Each, Single, e
  <2>3. \A k \in DOMAIN c3 : c3[k].name \notin {"inquired_type"}
    BY Tuple2 DEF Count, Each
  <2> HIDE DEF c3
  <2>4. Tidy(e) /\ Orderly(e)
    BY <2>1, FlatIs
  <2> QED
    BY <2>2, <2>3, <2>4, ArrayIs
<1> HIDE DEF c1, c2, c3
<1>4. /\ DOMAIN cs = 1..3
      /\ cs[1].layout = c1 /\ cs[1].values = OnOffSetting \cup SmartTalking
      /\ cs[2].layout = c2 /\ cs[2].values = AutoPowerOff
      /\ cs[3].layout = c3 /\ cs[3].values = AssignableKeys
  BY Tuple3 DEF Case
<1> HIDE DEF cs
<1>5. \A c \in DOMAIN cs : /\ Tidy(cs[c].layout) /\ Orderly(cs[c].layout)
                               /\ \A k \in DOMAIN cs[c].layout :
                                    cs[c].layout[k].name \notin {"inquired_type"}
  BY <1>1, <1>2, <1>3, <1>4
<1>6. \A c, d \in DOMAIN cs : c # d => cs[c].values \cap cs[d].values = {}
  BY <1>4 DEF OnOffSetting, SmartTalking, AutoPowerOff, AssignableKeys
<1>7. /\ DOMAIN l = 1..2 /\ Len(l) = 2 /\ IsSeq(l)
      /\ l[2].op = "switch" /\ l[2].name = "inquired_type" /\ l[2].cases = cs
      /\ l[1].op = "enum" /\ l[1].name = "inquired_type"
  BY Tuple2 DEF Switch, Inquired, Enum
<1> HIDE DEF l
<1>8. EndsInSwitch(l)
  BY <1>5, <1>7 DEF EndsInSwitch, Single
<1>9. Ordered(l)
  BY <1>6, <1>7 DEF Ordered, Readers
<1>10. Neat(l) /\ Orderly(l)
  BY <1>5, <1>7, <1>8, <1>9, SwitchIs
<1>11. SystemParamParse = l
  BY DEF SystemParamParse, l, cs, c1, c2, c3
<1> QED
  BY <1>10, <1>11

LEMMA ConnectParseOrderly ==
  \A t \in DOMAIN ConnectParse : Neat(ConnectParse[t]) /\ Orderly(ConnectParse[t])
<1> DEFINE a1 == << Enum("fixed_value", {0}) >>
           a2 == << Enum("fixed_value", {0}), Plain("version_high"), Plain("version_low") >>
           a3 == << Inquired(DeviceInfoInquired) >>
<1>1. Neat(a1) /\ Orderly(a1)
  <2>1. Flat(a1)
    BY Tuple1 DEF Flat, Enum, Single
  <2> HIDE DEF a1
  <2> QED
    BY <2>1, FlatIs, TidyIs
<1>2. Neat(a2) /\ Orderly(a2)
  <2>1. Flat(a2)
    BY Tuple3 DEF Flat, Enum, Plain, Single
  <2> HIDE DEF a2
  <2> QED
    BY <2>1, FlatIs, TidyIs
<1>3. Neat(a3) /\ Orderly(a3)
  <2>1. Flat(a3)
    BY Tuple1 DEF Flat, Inquired, Enum, Single
  <2> HIDE DEF a3
  <2> QED
    BY <2>1, FlatIs, TidyIs
<1>4. \A t \in DOMAIN ConnectParse : ConnectParse[t] \in {a1, a2, a3, DeviceInfoParse, SupportFunctionParse}
  BY DEF ConnectParse
<1> HIDE DEF a1, a2, a3
<1> QED
  BY <1>1, <1>2, <1>3, <1>4, DeviceInfoParseOrderly, SupportFunctionParseOrderly

LEMMA CommonParseOrderly ==
  \A t \in DOMAIN CommonParse : Neat(CommonParse[t]) /\ Orderly(CommonParse[t])
<1> DEFINE a1 == << Inquired(BatteryInquired) >>
           a2 == << Inquired({0}), Enum("setting_value", {1}) >>
           a3 == << Inquired({1}) >>
<1>1. Neat(a1) /\ Orderly(a1)
  <2>1. Flat(a1)
    BY Tuple1 DEF Flat, Inquired, Enum, Single
  <2> HIDE DEF a1
  <2> QED
    BY <2>1, FlatIs, TidyIs
<1>2. Neat(a2) /\ Orderly(a2)
  <2>1. Flat(a2)
    BY Tuple2 DEF Flat, Inquired, Enum, Single
  <2> HIDE DEF a2
  <2> QED
    BY <2>1, FlatIs, TidyIs
<1>3. Neat(a3) /\ Orderly(a3)
  <2>1. Flat(a3)
    BY Tuple1 DEF Flat, Inquired, Enum, Single
  <2> HIDE DEF a3
  <2> QED
    BY <2>1, FlatIs, TidyIs
<1>4. \A t \in DOMAIN CommonParse : CommonParse[t] \in {a1, a2, a3, BatteryParse, ConnectionStatusParse}
  BY DEF CommonParse
<1> HIDE DEF a1, a2, a3
<1> QED
  BY <1>1, <1>2, <1>3, <1>4, BatteryParseOrderly, ConnectionStatusParseOrderly

LEMMA EqebbParseOrderly ==
  \A t \in DOMAIN EqebbParse : Neat(EqebbParse[t]) /\ Orderly(EqebbParse[t])
<1> DEFINE a1 == << Inquired(EqebbInquired), Enum("display_language", DisplayLanguages) >>
           a2 == << Inquired(EqebbInquired) >>
<1>1. Neat(a1) /\ Orderly(a1)
  <2>1. Flat(a1)
    BY Tuple2 DEF Flat, Inquired, Enum, Single
  <2> HIDE DEF a1
  <2> QED
    BY <2>1, FlatIs, TidyIs
<1>2. Neat(a2) /\ Orderly(a2)
  <2>1. Flat(a2)
    BY Tuple1 DEF Flat, Inquired, Enum, Single
  <2> HIDE DEF a2
  <2> QED
    BY <2>1, FlatIs, TidyIs
<1>3. \A t \in DOMAIN EqebbParse : EqebbParse[t] \in {a1, a2, EqCapabilityParse, EqParamParse}
  BY DEF EqebbParse
<1> HIDE DEF a1, a2
<1> QED
  BY <1>1, <1>2, <1>3, EqCapabilityParseOrderly, EqParamParseOrderly

LEMMA NcasmParseOrderly ==
  \A t \in DOMAIN NcasmParse : Neat(NcasmParse[t]) /\ Orderly(NcasmParse[t])
<1> DEFINE a1 == << Inquired(NcasmInquired) >>
<1>1. Neat(a1) /\ Orderly(a1)
  <2>1. Flat(a1)
    BY Tuple1 DEF Flat, Inquired, Enum, Single
  <2> HIDE DEF a1
  <2> QED
    BY <2>1, FlatIs, TidyIs
<1>2. \A t \in DOMAIN NcasmParse : NcasmParse[t] \in {a1, NcasmParamParse}
  BY DEF NcasmParse
<1> HIDE DEF a1
<1> QED
  BY <1>1, <1>2, NcasmParamParseOrderly

LEMMA PlayParseOrderly ==
  \A t \in DOMAIN PlayParse : Neat(PlayParse[t]) /\ Orderly(PlayParse[t])
<1> DEFINE a1 == << Inquired({1}), Enum("detailed_data_type", PlayDetailed) >>
<1>1. Neat(a1) /\ Orderly(a1)
  <2>1. Flat(a1)
    BY Tuple2 DEF Flat, Inquired, Enum, Single
  <2> HIDE DEF a1
  <2> QED
    BY <2>1, FlatIs, TidyIs
<1>2. \A t \in DOMAIN PlayParse : PlayParse[t] \in {a1, PlayParamParse}
  BY DEF PlayParse, PlayGetParse
<1> HIDE DEF a1
<1> QED
  BY <1>1, <1>2, PlayParamParseOrderly

LEMMA SystemParseOrderly ==
  \A t \in DOMAIN SystemParse : Neat(SystemParse[t]) /\ Orderly(SystemParse[t])
<1> DEFINE a1 == << Inquired(SystemInquired) >>
<1>1. Neat(a1) /\ Orderly(a1)
  <2>1. Flat(a1)
    BY Tuple1 DEF Flat, Inquired, Enum, Single
  <2> HIDE DEF a1
  <2> QED
    BY <2>1, FlatIs, TidyIs
<1>2. \A t \in DOMAIN SystemParse : SystemParse[t] \in {a1, SystemCapabilityParse, SystemParamParse}
  BY DEF SystemParse
<1> HIDE DEF a1
<1> QED
  BY <1>1, <1>2, SystemCapabilityParseOrderly, SystemParamParseOrderly

LEMMA ParseDomains ==
  /\ DOMAIN ConnectParse =
        {"CONNECT_GET_PROTOCOL_INFO", "CONNECT_RET_PROTOCOL_INFO",
         "CONNECT_GET_DEVICE_INFO", "CONNECT_RET_DEVICE_INFO",
         "CONNECT_GET_SUPPORT_FUNCTION", "CONNECT_RET_SUPPORT_FUNCTION"}
  /\ DOMAIN CommonParse =
        {"COMMON_GET_BATTERY_LEVEL", "COMMON_RET_BATTERY_LEVEL",
         "COMMON_NTFY_BATTERY_LEVEL", "COMMON_SET_POWER_OFF",
         "COMMON_GET_CONNECTION_STATUS", "COMMON_RET_CONNECTION_STATUS",
         "COMMON_NTFY_CONNECTION_STATUS"}
  /\ DOMAIN EqebbParse =
        {"EQEBB_GET_CAPABILITY", "EQEBB_RET_CAPABILITY", "EQEBB_GET_PARAM",
         "EQEBB_RET_PARAM", "EQEBB_SET_PARAM", "EQEBB_NTFY_PARAM"}
  /\ DOMAIN NcasmParse =
        {"NCASM_GET_PARAM", "NCASM_RET_PARAM", "NCASM_SET_PARAM", "NCASM_NTFY_PARAM"}
  /\ DOMAIN PlayParse =
        {"PLAY_GET_PARAM", "PLAY_RET_PARAM", "PLAY_SET_PARAM", "PLAY_NTFY_PARAM"}
  /\ DOMAIN SystemParse =
        {"SYSTEM_GET_CAPABILITY", "SYSTEM_RET_CAPABILITY", "SYSTEM_GET_PARAM",
         "SYSTEM_RET_PARAM", "SYSTEM_SET_PARAM", "SYSTEM_NTFY_PARAM"}
BY DEF ConnectParse, CommonParse, EqebbParse, NcasmParse, PlayParse, SystemParse

-----------------------------------------------------------------------------
(***************************************************************************)
(* The layouts that are freed: each is neat.                               *)
(***************************************************************************)
LEMMA DeviceInfoFreeNeat ==
  Neat(<< Switch("inquired_type",
           << Case(Name, << Free("string") >>),
              Case(InstructionGuide, << Free("guidance_categories") >>) >>) >>)
<1> DEFINE c1 == << Free("string") >>
           c2 == << Free("guidance_categories") >>
           cs == << Case(Name, c1), Case(InstructionGuide, c2) >>
           l == << Switch("inquired_type", cs) >>
<1>1. Tidy(c1)
  <2>1. Flat(c1)
    BY Tuple1 DEF Flat, Free, Single
  <2> QED
    BY <2>1, FlatIs
<1>2. Tidy(c2)
  <2>1. Flat(c2)
    BY Tuple1 DEF Flat, Free, Single
  <2> QED
    BY <2>1, FlatIs
<1> HIDE DEF c1, c2
<1>3. DOMAIN cs = 1..2 /\ cs[1].layout = c1 /\ cs[2].layout = c2
  BY Tuple2 DEF Case
<1> HIDE DEF cs
<1>4. IsSeq(l) /\ DOMAIN l = 1..1 /\ Len(l) = 1 /\ l[1].op = "switch" /\ l[1].cases = cs
  BY Tuple1 DEF Switch
<1> HIDE DEF l
<1>5. EndsInSwitch(l)
  BY <1>1, <1>2, <1>3, <1>4 DEF EndsInSwitch
<1>6. Neat(l)
  BY <1>5, SwitchIs
<1> QED
  BY <1>6, Zenon DEF l, cs, c1, c2

LEMMA EqCapabilityFreeNeat ==
  Neat(<< Switch("inquired_type",
           << Case(PresetEq,
                   << Each("presets", "num_presets", << Free("name") >>),
                      Free("presets") >>) >>) >>)
<1> DEFINE c1 == << Each("presets", "num_presets", << Free("name") >>), Free("presets") >>
           cs == << Case(PresetEq, c1) >>
           l == << Switch("inquired_type", cs) >>
<1>1. Tidy(c1)
  <2> DEFINE e == << Free("name") >>
  <2>1. Tidy(e)
    <3>1. Flat(e)
      BY Tuple1 DEF Flat, Free, Single
    <3> QED
      BY <3>1, FlatIs
  <2> HIDE DEF e
  <2>2. WithArray(c1, e)
    BY Tuple2 DEF WithArray, Each, Free, Single, e
  <2> HIDE DEF c1
  <2> QED
    BY <2>1, <2>2, ArrayIs
<1> HIDE DEF c1
<1>2. DOMAIN cs = 1..1 /\ cs[1].layout = c1
  BY Tuple1 DEF Case
<1> HIDE DEF cs
<1>3. IsSeq(l) /\ DOMAIN l = 1..1 /\ Len(l) = 1 /\ l[1].op = "switch" /\ l[1].cases = cs
  BY Tuple1 DEF Switch
<1> HIDE DEF l
<1>4. EndsInSwitch(l)
  BY <1>1, <1>2, <1>3 DEF EndsInSwitch
<1>5. Neat(l)
  BY <1>4, SwitchIs
<1> QED
  BY <1>5, Zenon DEF l, cs, c1

LEMMA EqParamFreeNeat ==
  Neat(EqParamFree)
<1> DEFINE c1 == << Free("levels") >>
           cs == << Case(PresetEq, c1) >>
           l == << Switch("inquired_type", cs) >>
<1>1. Tidy(c1)
  <2>1. Flat(c1)
    BY Tuple1 DEF Flat, Free, Single
  <2> QED
    BY <2>1, FlatIs
<1> HIDE DEF c1
<1>2. DOMAIN cs = 1..1 /\ cs[1].layout = c1
  BY Tuple1 DEF Case
<1> HIDE DEF cs
<1>3. IsSeq(l) /\ DOMAIN l = 1..1 /\ Len(l) = 1 /\ l[1].op = "switch" /\ l[1].cases = cs
  BY Tuple1 DEF Switch
<1> HIDE DEF l
<1>4. EndsInSwitch(l)
  BY <1>1, <1>2, <1>3 DEF EndsInSwitch
<1>5. Neat(l)
  BY <1>4, SwitchIs
<1> QED
  BY <1>5, Zenon DEF EqParamFree, l, cs, c1

LEMMA PlayParamFreeNeat ==
  Neat(PlayParamFree)
<1> DEFINE c1 == << Free("data") >>
           cs == << Case(Names, c1) >>
           l == << Switch("detailed_data_type", cs) >>
<1>1. Tidy(c1)
  <2>1. Flat(c1)
    BY Tuple1 DEF Flat, Free, Single
  <2> QED
    BY <2>1, FlatIs
<1> HIDE DEF c1
<1>2. DOMAIN cs = 1..1 /\ cs[1].layout = c1
  BY Tuple1 DEF Case
<1> HIDE DEF cs
<1>3. IsSeq(l) /\ DOMAIN l = 1..1 /\ Len(l) = 1 /\ l[1].op = "switch" /\ l[1].cases = cs
  BY Tuple1 DEF Switch
<1> HIDE DEF l
<1>4. EndsInSwitch(l)
  BY <1>1, <1>2, <1>3 DEF EndsInSwitch
<1>5. Neat(l)
  BY <1>4, SwitchIs
<1> QED
  BY <1>5, Zenon DEF PlayParamFree, l, cs, c1

LEMMA SystemParamFreeNeat ==
  Neat(SystemParamFree)
<1> DEFINE c1 == << Free("presets") >>
           cs == << Case(AssignableKeys, c1) >>
           l == << Switch("inquired_type", cs) >>
<1>1. Tidy(c1)
  <2>1. Flat(c1)
    BY Tuple1 DEF Flat, Free, Single
  <2> QED
    BY <2>1, FlatIs
<1> HIDE DEF c1
<1>2. DOMAIN cs = 1..1 /\ cs[1].layout = c1
  BY Tuple1 DEF Case
<1> HIDE DEF cs
<1>3. IsSeq(l) /\ DOMAIN l = 1..1 /\ Len(l) = 1 /\ l[1].op = "switch" /\ l[1].cases = cs
  BY Tuple1 DEF Switch
<1> HIDE DEF l
<1>4. EndsInSwitch(l)
  BY <1>1, <1>2, <1>3 DEF EndsInSwitch
<1>5. Neat(l)
  BY <1>4, SwitchIs
<1> QED
  BY <1>5, Zenon DEF SystemParamFree, l, cs, c1

LEMMA SystemCapabilityFreeNeat ==
  Neat(<< Switch("inquired_type",
           << Case(AutoPowerOff, << Free("element_ids") >>),
              Case(AssignableKeys,
                << Each("capability_keys", "num_capability_keys",
                     << Each("capability_presets", "num_capability_presets",
                             << Free("capability_actions") >>),
                        Free("capability_presets") >>),
                   Free("capability_keys") >>) >>) >>)
<1> DEFINE c1 == << Free("element_ids") >>
           c2 == << Each("capability_keys", "num_capability_keys",
                           << Each("capability_presets", "num_capability_presets",
                                   << Free("capability_actions") >>),
                              Free("capability_presets") >>),
                    Free("capability_keys") >>
           cs == << Case(AutoPowerOff, c1), Case(AssignableKeys, c2) >>
           l == << Switch("inquired_type", cs) >>
<1>1. Tidy(c1)
  <2>1. Flat(c1)
    BY Tuple1 DEF Flat, Free, Single
  <2> QED
    BY <2>1, FlatIs
<1>2. Tidy(c2)
  <2> DEFINE e == << Each("capability_presets", "num_capability_presets",
                          << Free("capability_actions") >>),
                     Free("capability_presets") >>
  <2>1. Tidy(e)
    <3> DEFINE d == << Free("capability_actions") >>
    <3>1. Flat(d)
      BY Tuple1 DEF Flat, Free, Single
    <3>2. Tidy(d)
      BY <3>1, FlatIs
    <3> HIDE DEF d
    <3>3. WithArray(<< Each("capability_presets", "num_capability_presets", d),
                       Free("capability_presets") >>, d)
      BY Tuple2 DEF WithArray, Each, Free, Single
    <3> QED
      BY <3>2, <3>3, ArrayIs DEF d
  <2> HIDE DEF e
  <2>2. WithArray(c2, e)
    BY Tuple2 DEF WithArray, Each, Free, Single, e
  <2> HIDE DEF c2
  <2> QED
    BY <2>1, <2>2, ArrayIs
<1> HIDE DEF c1, c2
<1>3. DOMAIN cs = 1..2 /\ cs[1].layout = c1 /\ cs[2].layout = c2
  BY Tuple2 DEF Case
<1> HIDE DEF cs
<1>4. IsSeq(l) /\ DOMAIN l = 1..1 /\ Len(l) = 1 /\ l[1].op = "switch" /\ l[1].cases = cs
  BY Tuple1 DEF Switch
<1> HIDE DEF l
<1>5. EndsInSwitch(l)
  BY <1>1, <1>2, <1>3, <1>4 DEF EndsInSwitch
<1>6. Neat(l)
  BY <1>5, SwitchIs
<1> QED
  BY <1>6, Zenon DEF l, cs, c1, c2

LEMMA NoneNeat == Neat(<<>>)
<1>1. IsSeq(<<>>) /\ DOMAIN <<>> = {}
  <2>1. <<>> \in Seq({}) /\ DOMAIN <<>> = {}
    OBVIOUS
  <2> QED
    BY <2>1, Zenon DEF IsSeq
<1> QED
  BY <1>1 DEF Neat, Distinct

LEMMA FreeDomains ==
  /\ DOMAIN ConnectFree = {"CONNECT_RET_DEVICE_INFO", "CONNECT_RET_SUPPORT_FUNCTION"}
  /\ DOMAIN EqebbFree = {"EQEBB_RET_CAPABILITY", "EQEBB_RET_PARAM", "EQEBB_SET_PARAM", "EQEBB_NTFY_PARAM"}
  /\ DOMAIN PlayFree = {"PLAY_RET_PARAM", "PLAY_SET_PARAM", "PLAY_NTFY_PARAM"}
  /\ DOMAIN SystemFree = {"SYSTEM_RET_CAPABILITY", "SYSTEM_RET_PARAM", "SYSTEM_SET_PARAM", "SYSTEM_NTFY_PARAM"}
BY DEF ConnectFree, EqebbFree, PlayFree, SystemFree

LEMMA ConnectFreeNeat == \A t \in DOMAIN ConnectFree : Neat(ConnectFree[t])
<1> DEFINE a == << Switch("inquired_type",
                    << Case(Name, << Free("string") >>),
                       Case(InstructionGuide, << Free("guidance_categories") >>) >>) >>
           b == << Free("function_types") >>
<1>1. Neat(b)
  <2>1. Flat(b)
    BY Tuple1 DEF Flat, Free, Single
  <2> QED
    BY <2>1, FlatIs, TidyIs
<1>2. Neat(a)
  BY DeviceInfoFreeNeat
<1>3. \A t \in DOMAIN ConnectFree : ConnectFree[t] \in {a, b}
  BY DEF ConnectFree
<1> HIDE DEF a, b
<1> QED
  BY <1>1, <1>2, <1>3

LEMMA EqebbFreeNeat == \A t \in DOMAIN EqebbFree : Neat(EqebbFree[t])
<1> DEFINE a == << Switch("inquired_type",
                    << Case(PresetEq,
                            << Each("presets", "num_presets", << Free("name") >>),
                               Free("presets") >>) >>) >>
<1>1. Neat(a)
  BY EqCapabilityFreeNeat
<1>2. \A t \in DOMAIN EqebbFree : EqebbFree[t] \in {a, EqParamFree}
  BY DEF EqebbFree
<1> HIDE DEF a
<1> QED
  BY <1>1, <1>2, EqParamFreeNeat

LEMMA PlayFreeNeat == \A t \in DOMAIN PlayFree : Neat(PlayFree[t])
<1>1. \A t \in DOMAIN PlayFree : PlayFree[t] = PlayParamFree
  BY DEF PlayFree
<1> QED
  BY <1>1, PlayParamFreeNeat

LEMMA SystemFreeNeat == \A t \in DOMAIN SystemFree : Neat(SystemFree[t])
<1> DEFINE a == << Switch("inquired_type",
                    << Case(AutoPowerOff, << Free("element_ids") >>),
                       Case(AssignableKeys,
                         << Each("capability_keys", "num_capability_keys",
                              << Each("capability_presets", "num_capability_presets",
                                      << Free("capability_actions") >>),
                                 Free("capability_presets") >>),
                            Free("capability_keys") >>) >>) >>
<1>1. Neat(a)
  BY SystemCapabilityFreeNeat
<1>2. \A t \in DOMAIN SystemFree : SystemFree[t] \in {a, SystemParamFree}
  BY DEF SystemFree
<1> HIDE DEF a
<1> QED
  BY <1>1, <1>2, SystemParamFreeNeat

LEMMA FreeIs ==
  ASSUME NEW t
  PROVE  /\ t \in DOMAIN ConnectFree => mdr_packet_free(t) = ConnectFree[t]
         /\ t \in DOMAIN EqebbFree => mdr_packet_free(t) = EqebbFree[t]
         /\ t \in DOMAIN PlayFree => mdr_packet_free(t) = PlayFree[t]
         /\ t \in DOMAIN SystemFree => mdr_packet_free(t) = SystemFree[t]
         /\ t \notin DOMAIN ConnectFree \cup DOMAIN EqebbFree \cup DOMAIN PlayFree \cup DOMAIN SystemFree =>
              mdr_packet_free(t) = <<>>
<1>1. ASSUME t \in DOMAIN ConnectFree
      PROVE  mdr_packet_free(t) = ConnectFree[t]
  <2>1. t \notin DOMAIN EqebbFree /\ t \notin DOMAIN PlayFree /\ t \notin DOMAIN SystemFree
    BY <1>1, FreeDomains
  <2>2. IsSeq(ConnectFree[t])
    BY <1>1, ConnectFreeNeat DEF Neat
  <2>3. mdr_packet_free(t) = ConnectFree[t]
    <3> DEFINE x == ConnectFree[t]
    <3>1. mdr_packet_free(t) = x \o <<>> \o <<>> \o <<>>
      BY <1>1, <2>1, Zenon DEF mdr_packet_free, In
    <3>2. <<>> \o <<>> = <<>> /\ x \o <<>> = x /\ <<>> \o x = x
      BY <2>2, EmptyEnds
    <3> HIDE DEF x
    <3>3. x \o <<>> \o <<>> \o <<>> = x
      BY <3>2
    <3> QED
      BY <3>1, <3>3 DEF x
  <2> QED
    BY <2>3
<1>2. ASSUME t \in DOMAIN EqebbFree
      PROVE  mdr_packet_free(t) = EqebbFree[t]
  <2>1. t \notin DOMAIN ConnectFree /\ t \notin DOMAIN PlayFree /\ t \notin DOMAIN SystemFree
    BY <1>2, FreeDomains
  <2>2. IsSeq(EqebbFree[t])
    BY <1>2, EqebbFreeNeat DEF Neat
  <2>3. mdr_packet_free(t) = EqebbFree[t]
    <3> DEFINE x == EqebbFree[t]
    <3>1. mdr_packet_free(t) = <<>> \o x \o <<>> \o <<>>
      BY <1>2, <2>1, Zenon DEF mdr_packet_free, In
    <3>2. <<>> \o <<>> = <<>> /\ x \o <<>> = x /\ <<>> \o x = x
      BY <2>2, EmptyEnds
    <3> HIDE DEF x
    <3>3. <<>> \o x \o <<>> \o <<>> = x
      BY <3>2
    <3> QED
      BY <3>1, <3>3 DEF x
  <2> QED
    BY <2>3
<1>3. ASSUME t \in DOMAIN PlayFree
      PROVE  mdr_packet_free(t) = PlayFree[t]
  <2>1. t \notin DOMAIN ConnectFree /\ t \notin DOMAIN EqebbFree /\ t \notin DOMAIN SystemFree
    BY <1>3, FreeDomains
  <2>2. IsSeq(PlayFree[t])
    BY <1>3, PlayFreeNeat DEF Neat
  <2>3. mdr_packet_free(t) = PlayFree[t]
    <3> DEFINE x == PlayFree[t]
    <3>1. mdr_packet_free(t) = <<>> \o <<>> \o x \o <<>>
      BY <1>3, <2>1, Zenon DEF mdr_packet_free, In
    <3>2. <<>> \o <<>> = <<>> /\ x \o <<>> = x /\ <<>> \o x = x
      BY <2>2, EmptyEnds
    <3> HIDE DEF x
    <3>3. <<>> \o <<>> \o x \o <<>> = x
      BY <3>2
    <3> QED
      BY <3>1, <3>3 DEF x
  <2> QED
    BY <2>3
<1>4. ASSUME t \in DOMAIN SystemFree
      PROVE  mdr_packet_free(t) = SystemFree[t]
  <2>1. t \notin DOMAIN ConnectFree /\ t \notin DOMAIN EqebbFree /\ t \notin DOMAIN PlayFree
    BY <1>4, FreeDomains
  <2>2. IsSeq(SystemFree[t])
    BY <1>4, SystemFreeNeat DEF Neat
  <2>3. mdr_packet_free(t) = SystemFree[t]
    <3> DEFINE x == SystemFree[t]
    <3>1. mdr_packet_free(t) = <<>> \o <<>> \o <<>> \o x
      BY <1>4, <2>1, Zenon DEF mdr_packet_free, In
    <3>2. <<>> \o <<>> = <<>> /\ x \o <<>> = x /\ <<>> \o x = x
      BY <2>2, EmptyEnds
    <3> HIDE DEF x
    <3>3. <<>> \o <<>> \o <<>> \o x = x
      BY <3>2
    <3> QED
      BY <3>1, <3>3 DEF x
  <2> QED
    BY <2>3
<1>5. ASSUME t \notin DOMAIN ConnectFree \cup DOMAIN EqebbFree \cup DOMAIN PlayFree \cup DOMAIN SystemFree
      PROVE  mdr_packet_free(t) = <<>>
  <2>1. mdr_packet_free(t) = <<>> \o <<>> \o <<>> \o <<>>
    <3>1. /\ t \notin DOMAIN ConnectFree /\ t \notin DOMAIN EqebbFree
          /\ t \notin DOMAIN PlayFree /\ t \notin DOMAIN SystemFree
      BY <1>5
    <3> QED
      BY <3>1, Zenon DEF mdr_packet_free, In
  <2>2. <<>> \o <<>> \o <<>> \o <<>> = <<>>
    OBVIOUS
  <2> QED
    BY <2>1, <2>2
<1> QED
  BY <1>1, <1>2, <1>3, <1>4, <1>5

LEMMA FreeLayouts ==
  ASSUME NEW t
  PROVE  Neat(mdr_packet_free(t))
BY FreeIs, ConnectFreeNeat, EqebbFreeNeat, PlayFreeNeat, SystemFreeNeat, NoneNeat

-----------------------------------------------------------------------------
(***************************************************************************)
(* What is written, beside what is parsed: the same arrays, of the same    *)
(* counts, in the same cases.                                              *)
(***************************************************************************)
MirrorStep(w, l, S) ==
  /\ IsSeq(w)
  /\ \A i \in DOMAIN w :
       /\ w[i].op \notin {"enum", "loop"}
       /\ w[i].op = "each" =>
            \E j \in DOMAIN l :
              /\ l[j].op = "each" /\ l[j].name = w[i].name /\ l[j].count = w[i].count
              /\ <<w[i].element, l[j].element>> \in S
       /\ w[i].op = "switch" =>
            \E j \in DOMAIN l :
              /\ l[j].op = "switch" /\ l[j].name = w[i].name
              /\ \A c \in DOMAIN w[i].cases : \E d \in DOMAIN l[j].cases :
                   /\ l[j].cases[d].values = w[i].cases[c].values
                   /\ <<w[i].cases[c].layout, l[j].cases[d].layout>> \in S

MirrorSet(S) == \A w, l : <<w, l>> \in S => MirrorStep(w, l, S)

Mirror(w, l) == \E S : <<w, l>> \in S /\ MirrorSet(S)

LEMMA MirrorMore ==
  ASSUME NEW S, NEW T, S \subseteq T, NEW w, NEW l, MirrorStep(w, l, S)
  PROVE  MirrorStep(w, l, T)
<1> SUFFICES ASSUME NEW i \in DOMAIN w
             PROVE  /\ w[i].op \notin {"enum", "loop"}
                    /\ w[i].op = "each" =>
                         \E j \in DOMAIN l :
                           /\ l[j].op = "each" /\ l[j].name = w[i].name
                           /\ l[j].count = w[i].count
                           /\ <<w[i].element, l[j].element>> \in T
                    /\ w[i].op = "switch" =>
                         \E j \in DOMAIN l :
                           /\ l[j].op = "switch" /\ l[j].name = w[i].name
                           /\ \A c \in DOMAIN w[i].cases : \E d \in DOMAIN l[j].cases :
                                /\ l[j].cases[d].values = w[i].cases[c].values
                                /\ <<w[i].cases[c].layout, l[j].cases[d].layout>> \in T
  BY DEF MirrorStep
<1>1. w[i].op \notin {"enum", "loop"}
  BY DEF MirrorStep
<1>2. CASE w[i].op = "each"
  <2>1. PICK j \in DOMAIN l :
              /\ l[j].op = "each" /\ l[j].name = w[i].name /\ l[j].count = w[i].count
              /\ <<w[i].element, l[j].element>> \in S
    BY <1>2 DEF MirrorStep
  <2> QED
    BY <1>2, <2>1
<1>3. CASE w[i].op = "switch"
  <2>1. PICK j \in DOMAIN l :
              /\ l[j].op = "switch" /\ l[j].name = w[i].name
              /\ \A c \in DOMAIN w[i].cases : \E d \in DOMAIN l[j].cases :
                   /\ l[j].cases[d].values = w[i].cases[c].values
                   /\ <<w[i].cases[c].layout, l[j].cases[d].layout>> \in S
    BY <1>3 DEF MirrorStep
  <2> QED
    BY <1>3, <2>1
<1> QED
  BY <1>1, <1>2, <1>3

LEMMA MirrorIntro ==
  ASSUME NEW w, NEW l, NEW P, MirrorStep(w, l, P),
         \A m \in P : m = <<m[1], m[2]>> /\ Mirror(m[1], m[2])
  PROVE  Mirror(w, l)
<1> DEFINE Of(m) == CHOOSE S : m \in S /\ MirrorSet(S)
           T == {<<w, l>>} \cup UNION {Of(m) : m \in P}
<1>1. \A m \in P : m \in Of(m) /\ MirrorSet(Of(m))
  <2> SUFFICES ASSUME NEW m \in P PROVE \E S : m \in S /\ MirrorSet(S)
    BY Zenon
  <2>1. m = <<m[1], m[2]>> /\ \E S : <<m[1], m[2]>> \in S /\ MirrorSet(S)
    BY Zenon DEF Mirror
  <2>2. PICK S : <<m[1], m[2]>> \in S /\ MirrorSet(S)
    BY <2>1, Zenon
  <2>3. m \in S
    <3> DEFINE n == <<m[1], m[2]>>
    <3>1. m = n /\ n \in S
      BY <2>1, <2>2, Zenon
    <3> HIDE DEF n
    <3> QED
      BY <3>1
  <2> QED
    BY <2>2, <2>3, Zenon
<1>2. P \subseteq T /\ <<w, l>> \in T /\ \A m \in P : Of(m) \subseteq T
  BY <1>1
<1>3. ASSUME NEW x, NEW y, <<x, y>> \in T
      PROVE  MirrorStep(x, y, T)
  <2>1. CASE x = w /\ y = l
    BY <1>2, <2>1, MirrorMore
  <2>2. ASSUME NEW m \in P, <<x, y>> \in Of(m)
        PROVE  MirrorStep(x, y, T)
    <3>1. MirrorSet(Of(m)) /\ Of(m) \subseteq T
      BY <1>1, <1>2
    <3> HIDE DEF T, Of
    <3>2. MirrorStep(x, y, Of(m))
      BY <2>2, <3>1, Zenon DEF MirrorSet
    <3> QED
      BY <3>1, <3>2, MirrorMore
  <2> QED
    BY <1>3, <2>1, <2>2
<1> HIDE DEF T
<1>4. MirrorSet(T)
  BY <1>3, Zenon DEF MirrorSet
<1> QED
  BY <1>2, <1>4, Zenon DEF Mirror

-----------------------------------------------------------------------------
\* No arrays, no switch.
Bare(w) == IsSeq(w) /\ \A i \in DOMAIN w : w[i].op \notin {"each", "switch", "enum", "loop"}

HasStart(w) == \E i \in DOMAIN w : w[i].op = "start"

LEMMA BareMirror ==
  ASSUME NEW w, Bare(w), NEW l
  PROVE  Mirror(w, l)
<1> DEFINE P == {}
<1>1. MirrorStep(w, l, P)
  BY DEF MirrorStep, Bare
<1>2. \A m \in P : m = <<m[1], m[2]>> /\ Mirror(m[1], m[2])
  OBVIOUS
<1> HIDE DEF P
<1> QED
  BY <1>1, <1>2, MirrorIntro

LEMMA BareConcat ==
  ASSUME NEW u, NEW v, Bare(u), Bare(v)
  PROVE  Bare(u \o v) /\ (HasStart(u) => HasStart(u \o v))
<1>1. /\ IsSeq(u \o v)
      /\ Len(u \o v) = Len(u) + Len(v)
      /\ \A i \in 1..Len(u) : (u \o v)[i] = u[i]
      /\ \A i \in 1..(Len(u) + Len(v)) :
              (u \o v)[i] = IF i <= Len(u) THEN u[i] ELSE v[i - Len(u)]
  BY SeqConcat DEF Bare
<1>2. /\ DOMAIN (u \o v) = 1..Len(u \o v) /\ DOMAIN u = 1..Len(u) /\ DOMAIN v = 1..Len(v)
      /\ Len(u) \in Nat /\ Len(v) \in Nat
  BY <1>1, SeqLen DEF Bare
<1> DEFINE r == u \o v
<1> HIDE DEF r
<1>3. ASSUME NEW i \in DOMAIN r PROVE r[i].op \notin {"each", "switch", "enum", "loop"}
  <2>1. CASE i <= Len(u)
    BY <1>1, <1>2, <2>1 DEF Bare, r
  <2>2. CASE i > Len(u)
    <3>1. i - Len(u) \in DOMAIN v /\ r[i] = v[i - Len(u)]
      BY <1>1, <1>2, <2>2 DEF r
    <3> QED
      BY <3>1 DEF Bare
  <2> QED
    BY <1>1, <1>2, <2>1, <2>2 DEF r
<1>4. HasStart(u) => HasStart(r)
  BY <1>1, <1>2 DEF HasStart, r
<1> QED
  BY <1>1, <1>3, <1>4 DEF Bare, r

LEMMA PutsBare ==
  ASSUME NEW names, IsSeq(names)
  PROVE  Bare(Puts(names))
<1>1. DOMAIN names = 1..Len(names) /\ Len(names) \in Nat
  BY SeqLen
<1> DEFINE p == Puts(names)
<1>2. p = [i \in 1..Len(names) |-> p[i]] /\ \A i \in 1..Len(names) : p[i].op = "put"
  BY <1>1 DEF Puts, Put
<1>3. IsSeq(p)
  <2> HIDE DEF p
  <2> QED
    BY <1>1, <1>2, SeqMade
<1>4. DOMAIN p = 1..Len(names)
  BY <1>1 DEF Puts
<1> QED
  BY <1>2, <1>3, <1>4 DEF Bare

LEMMA StartBare ==
  ASSUME NEW n, NEW count, NEW names, IsSeq(names)
  PROVE  Bare(<<Start(n, count)>> \o Puts(names)) /\ HasStart(<<Start(n, count)>> \o Puts(names))
<1>1. Bare(<<Start(n, count)>>) /\ HasStart(<<Start(n, count)>>)
  BY Tuple1 DEF Bare, HasStart, Start
<1> QED
  BY <1>1, PutsBare, BareConcat

LEMMA Tuple7 ==
  \A a, b, c, d, e, f, g : IsSeq(<<a, b, c, d, e, f, g>>) /\ Len(<<a, b, c, d, e, f, g>>) = 7
                          /\ DOMAIN <<a, b, c, d, e, f, g>> = 1..7
<1> TAKE a, b, c, d, e, f, g
<1>1. /\ <<a, b, c, d, e, f, g>> \in Seq({a, b, c, d, e, f, g})
      /\ Len(<<a, b, c, d, e, f, g>>) = 7 /\ DOMAIN <<a, b, c, d, e, f, g>> = 1..7
  OBVIOUS
<1> QED
  BY <1>1, Zenon DEF IsSeq

\* A layout with a WRITE_START, or a switch with one in each case and a case
\* for each value that is accepted.
StartReady(w, l) ==
  \/ HasStart(w)
  \/ \E i \in DOMAIN w :
       /\ w[i].op = "switch"
       /\ \A c \in DOMAIN w[i].cases : HasStart(w[i].cases[c].layout)
       /\ \E j \in DOMAIN l :
            /\ l[j].op = "enum" /\ l[j].name = w[i].name
            /\ \A v \in l[j].values : \E c \in DOMAIN w[i].cases : v \in w[i].cases[c].values

Mirrored(w, l) == Mirror(w, l) /\ StartReady(w, l)

\* The switch of a packet, the last of its fields, in both tables.
LEMMA SwitchMirror ==
  ASSUME NEW name, NEW n \in Nat, NEW w, NEW l,
         IsSeq(w), Len(w) = 1, w[1].op = "switch", w[1].name = name,
         IsSeq(l), Len(l) = n + 1, l[n + 1].op = "switch", l[n + 1].name = name,
         n > 0, l[n].op = "enum", l[n].name = name,
         DOMAIN w[1].cases = DOMAIN l[n + 1].cases,
         \A c \in DOMAIN w[1].cases :
           /\ l[n + 1].cases[c].values = w[1].cases[c].values
           /\ Mirror(w[1].cases[c].layout, l[n + 1].cases[c].layout)
           /\ HasStart(w[1].cases[c].layout),
         \A v \in l[n].values : \E c \in DOMAIN w[1].cases : v \in w[1].cases[c].values
  PROVE  Mirrored(w, l)
<1> DEFINE P == {<<w[1].cases[c].layout, l[n + 1].cases[c].layout>> : c \in DOMAIN w[1].cases}
<1>1. DOMAIN w = {1} /\ n \in DOMAIN l /\ n + 1 \in DOMAIN l
  BY SeqLen
<1>2. MirrorStep(w, l, P)
  BY <1>1 DEF MirrorStep
<1>3. \A m \in P : m = <<m[1], m[2]>> /\ Mirror(m[1], m[2])
  OBVIOUS
<1> HIDE DEF P
<1>4. Mirror(w, l)
  BY <1>2, <1>3, MirrorIntro
<1>5. StartReady(w, l)
  BY <1>1 DEF StartReady
<1> QED
  BY <1>4, <1>5 DEF Mirrored

\* An array.
LEMMA ArrayMirror ==
  ASSUME NEW w, NEW l, NEW we, NEW le, IsSeq(w),
         \A i \in DOMAIN w : w[i].op \notin {"switch", "enum", "loop"},
         \A i \in DOMAIN w : w[i].op = "each" =>
           /\ w[i].element = we
           /\ \E j \in DOMAIN l :
                /\ l[j].op = "each" /\ l[j].name = w[i].name /\ l[j].count = w[i].count
                /\ l[j].element = le,
         Mirror(we, le)
  PROVE  Mirror(w, l)
<1> DEFINE P == {<<we, le>>}
<1>1. MirrorStep(w, l, P)
  BY DEF MirrorStep
<1>2. \A m \in P : m = <<m[1], m[2]>> /\ Mirror(m[1], m[2])
  OBVIOUS
<1> HIDE DEF P
<1> QED
  BY <1>1, <1>2, MirrorIntro

-----------------------------------------------------------------------------
(***************************************************************************)
(* The layouts that are written: each mirrors the one that is parsed.      *)
(***************************************************************************)
LEMMA TwoAndOne ==
  ASSUME NEW x, NEW y, NEW z
  PROVE  <<x, y>> \o <<z>> = <<x, y, z>>
<1> DEFINE u == <<x, y>> \o <<z>>
           v == <<x, y, z>>
<1>1. /\ IsSeq(u) /\ Len(u) = 3
      /\ \A i \in 1..3 : u[i] = IF i <= 2 THEN <<x, y>>[i] ELSE <<z>>[i - 2]
  BY Tuple1, Tuple2, SeqConcat
<1>2. \A i \in 1..3 : u[i] = v[i]
  BY <1>1
<1>3. IsSeq(v) /\ Len(v) = 3
  BY Tuple3
<1> HIDE DEF u, v
<1>4. u = v
  BY <1>1, <1>2, <1>3, SeqSame
<1> QED
  BY <1>4 DEF u, v

LEMMA DeviceInfoWriteMirrors == Mirrored(DeviceInfoWrite, DeviceInfoParse)
<1> DEFINE w1 == << Start(2, "len"), Put("inquired_type"), Put("len"),
                  PutBytes("string", "len") >>
           c1 == << Count("len"), Zeros("string"), NameBytes("string", "len") >>
           w2 == <<Start(3, None)>> \o
                   Puts(<<"inquired_type", "series", "color">>)
           c2 == << Enum("series", Series), Enum("color", Colors) >>
           w3 == << Start(2, "num_guidance_categories"), Put("inquired_type"),
                  Put("num_guidance_categories"),
                  Each("guidance_categories", "num_guidance_categories",
                       << Put("guidance_category") >>) >>
           c3 == << Count("num_guidance_categories"),
                    Each("guidance_categories", "num_guidance_categories",
                         << Enum("guidance_category", GuidanceCategories) >>) >>
           ws == << Case(Name, w1), Case(SeriesAndColor, w2), Case(InstructionGuide, w3) >>
           cs == << Case(Name, c1), Case(SeriesAndColor, c2), Case(InstructionGuide, c3) >>
           w == << Switch("inquired_type", ws) >>
           l == << Inquired(DeviceInfoInquired), Switch("inquired_type", cs) >>
<1>1. Mirror(w1, c1) /\ HasStart(w1)
  <2>1. Bare(w1) /\ HasStart(w1)
    BY Tuple4 DEF Bare, HasStart, Start, Put, PutBytes
  <2> QED
    BY <2>1, BareMirror
<1>2. Mirror(w2, c2) /\ HasStart(w2)
  BY Tuple3, StartBare, BareMirror
<1>3. Mirror(w3, c3) /\ HasStart(w3)
  <2> DEFINE we == << Put("guidance_category") >>
             le == << Enum("guidance_category", GuidanceCategories) >>
  <2>1. Bare(we)
    BY Tuple1 DEF Bare, Put
  <2> HIDE DEF we, le
  <2>2. Mirror(we, le)
    BY <2>1, BareMirror
  <2>3. IsSeq(w3) /\ DOMAIN w3 = 1..4 /\ DOMAIN c3 = 1..2
    BY Tuple4, Tuple2
  <2>4. /\ \A k \in DOMAIN w3 : w3[k].op \notin {"switch", "enum", "loop"}
        /\ HasStart(w3)
        /\ \A k \in DOMAIN w3 : w3[k].op = "each" =>
             /\ w3[k].element = we
             /\ \E j \in DOMAIN c3 :
                  /\ c3[j].op = "each" /\ c3[j].name = w3[k].name
                  /\ c3[j].count = w3[k].count /\ c3[j].element = le
    BY <2>3 DEF HasStart, Start, Put, Each, Count, Each, we, le
  <2> HIDE DEF w3, c3
  <2> QED
    BY <2>2, <2>3, <2>4, ArrayMirror
<1> HIDE DEF w1, c1, w2, c2, w3, c3
<1>4. DOMAIN ws = 1..3 /\ DOMAIN cs = 1..3
      /\ ws[1].layout = w1 /\ ws[1].values = Name
      /\ cs[1].layout = c1 /\ cs[1].values = Name
      /\ ws[2].layout = w2 /\ ws[2].values = SeriesAndColor
      /\ cs[2].layout = c2 /\ cs[2].values = SeriesAndColor
      /\ ws[3].layout = w3 /\ ws[3].values = InstructionGuide
      /\ cs[3].layout = c3 /\ cs[3].values = InstructionGuide
  BY Tuple3 DEF Case
<1> HIDE DEF ws, cs
<1>5. /\ IsSeq(w) /\ Len(w) = 1 /\ w[1].op = "switch" /\ w[1].name = "inquired_type" /\ w[1].cases = ws
      /\ IsSeq(l) /\ Len(l) = 1 + 1 /\ l[1 + 1].op = "switch"
      /\ l[1 + 1].name = "inquired_type" /\ l[1 + 1].cases = cs
      /\ l[1].op = "enum" /\ l[1].name = "inquired_type" /\ l[1].values = DeviceInfoInquired
  BY Tuple1, Tuple2 DEF Switch, Inquired, Enum
<1>6. \A c \in DOMAIN ws : /\ cs[c].values = ws[c].values
                               /\ Mirror(ws[c].layout, cs[c].layout) /\ HasStart(ws[c].layout)
  <2>1. \A c \in DOMAIN ws : cs[c].values = ws[c].values
    BY <1>4
  <2>2. \A c \in DOMAIN ws : Mirror(ws[c].layout, cs[c].layout) /\ HasStart(ws[c].layout)
    BY <1>1, <1>2, <1>3, <1>4
  <2> QED
    BY <2>1, <2>2
<1>7. \A v \in DeviceInfoInquired : \E c \in DOMAIN ws : v \in ws[c].values
  BY <1>4 DEF DeviceInfoInquired, Name, SeriesAndColor, InstructionGuide
<1>8. DeviceInfoWrite = w /\ DeviceInfoParse = l
  BY Zenon DEF DeviceInfoWrite, DeviceInfoParse, l, w, ws, cs, w1, c1, w2, c2, w3, c3
<1> HIDE DEF w, l
<1>9. 1 \in Nat /\ 1 > 0
  OBVIOUS
<1>10. Mirrored(w, l)
  BY <1>4, <1>5, <1>6, <1>7, <1>9, SwitchMirror
<1> QED
  BY <1>8, <1>10

LEMMA SupportFunctionWriteMirrors == Mirrored(SupportFunctionWrite, SupportFunctionParse)
<1> DEFINE we == << Put("function_type") >>
           le == << Enum("function_type", FunctionTypes) >>
           w == << Start(2, "num_function_types"), Put("fixed_value"),
                   Put("num_function_types"),
                   Each("function_types", "num_function_types", we) >>
           l == << Enum("fixed_value", {0}), Count("num_function_types"),
                   Each("function_types", "num_function_types", le) >>
<1>1. Bare(we)
  BY Tuple1 DEF Bare, Put
<1>2. SupportFunctionWrite = w /\ SupportFunctionParse = l
  BY Zenon DEF SupportFunctionWrite, SupportFunctionParse
<1> HIDE DEF we, le
<1>3. Mirror(we, le)
  BY <1>1, BareMirror
<1>4. IsSeq(w) /\ DOMAIN w = 1..4 /\ DOMAIN l = 1..3
  BY Tuple4, Tuple3
<1>5. /\ \A k \in DOMAIN w : w[k].op \notin {"switch", "enum", "loop"}
      /\ HasStart(w)
      /\ \A k \in DOMAIN w : w[k].op = "each" =>
             /\ w[k].element = we
             /\ \E j \in DOMAIN l :
                  /\ l[j].op = "each" /\ l[j].name = w[k].name
                  /\ l[j].count = w[k].count /\ l[j].element = le
  BY <1>4 DEF HasStart, Start, Put, Each, Count, Enum
<1> HIDE DEF w, l
<1>6. Mirror(w, l)
  BY <1>3, <1>4, <1>5, ArrayMirror
<1> QED
  BY <1>2, <1>5, <1>6 DEF Mirrored, StartReady

LEMMA BatteryWriteMirrors == Mirrored(BatteryWrite, BatteryParse)
<1> DEFINE w1 == <<Start(3, None)>> \o
                   Puts(<<"level", "charging">>)
           c1 == << Plain("level"), Plain("charging") >>
           w2 == <<Start(5, None)>> \o
                   Puts(<<"left.level", "left.charging", "right.level", "right.charging">>)
           c2 == << Plain("left.level"), Plain("left.charging"),
                  Plain("right.level"), Plain("right.charging") >>
           ws == << Case(OneBattery, w1), Case(LeftRightBattery, w2) >>
           cs == << Case(OneBattery, c1), Case(LeftRightBattery, c2) >>
           w == << Switch("inquired_type", ws) >>
           l == << Inquired(BatteryInquired), Switch("inquired_type", cs) >>
<1>1. Mirror(w1, c1) /\ HasStart(w1)
  BY Tuple2, StartBare, BareMirror
<1>2. Mirror(w2, c2) /\ HasStart(w2)
  BY Tuple4, StartBare, BareMirror
<1> HIDE DEF w1, c1, w2, c2
<1>3. DOMAIN ws = 1..2 /\ DOMAIN cs = 1..2
      /\ ws[1].layout = w1 /\ ws[1].values = OneBattery
      /\ cs[1].layout = c1 /\ cs[1].values = OneBattery
      /\ ws[2].layout = w2 /\ ws[2].values = LeftRightBattery
      /\ cs[2].layout = c2 /\ cs[2].values = LeftRightBattery
  BY Tuple2 DEF Case
<1> HIDE DEF ws, cs
<1>4. /\ IsSeq(w) /\ Len(w) = 1 /\ w[1].op = "switch" /\ w[1].name = "inquired_type" /\ w[1].cases = ws
      /\ IsSeq(l) /\ Len(l) = 1 + 1 /\ l[1 + 1].op = "switch"
      /\ l[1 + 1].name = "inquired_type" /\ l[1 + 1].cases = cs
      /\ l[1].op = "enum" /\ l[1].name = "inquired_type" /\ l[1].values = BatteryInquired
  BY Tuple1, Tuple2 DEF Switch, Inquired, Enum
<1>5. \A c \in DOMAIN ws : /\ cs[c].values = ws[c].values
                               /\ Mirror(ws[c].layout, cs[c].layout) /\ HasStart(ws[c].layout)
  <2>1. \A c \in DOMAIN ws : cs[c].values = ws[c].values
    BY <1>3
  <2>2. \A c \in DOMAIN ws : Mirror(ws[c].layout, cs[c].layout) /\ HasStart(ws[c].layout)
    BY <1>1, <1>2, <1>3
  <2> QED
    BY <2>1, <2>2
<1>6. \A v \in BatteryInquired : \E c \in DOMAIN ws : v \in ws[c].values
  BY <1>3 DEF BatteryInquired, OneBattery, LeftRightBattery
<1>7. BatteryWrite = w /\ BatteryParse = l
  BY Zenon DEF BatteryWrite, BatteryParse, l, w, ws, cs, w1, c1, w2, c2
<1> HIDE DEF w, l
<1>8. 1 \in Nat /\ 1 > 0
  OBVIOUS
<1>9. Mirrored(w, l)
  BY <1>3, <1>4, <1>5, <1>6, <1>8, SwitchMirror
<1> QED
  BY <1>7, <1>9

LEMMA ConnectionStatusWriteMirrors == Mirrored(ConnectionStatusWrite, ConnectionStatusParse)
<1> DEFINE w1 == <<Start(3, None)>> \o
                   Puts(<<"inquired_type", "left_status", "right_status">>)
           c1 == << Enum("left_status", OnOff), Enum("right_status", OnOff) >>
           ws == << Case({1}, w1) >>
           cs == << Case({1}, c1) >>
           w == << Switch("inquired_type", ws) >>
           l == << Inquired({1}), Switch("inquired_type", cs) >>
<1>1. Mirror(w1, c1) /\ HasStart(w1)
  BY Tuple3, StartBare, BareMirror
<1> HIDE DEF w1, c1
<1>2. DOMAIN ws = 1..1 /\ DOMAIN cs = 1..1
      /\ ws[1].layout = w1 /\ ws[1].values = {1}
      /\ cs[1].layout = c1 /\ cs[1].values = {1}
  BY Tuple1 DEF Case
<1> HIDE DEF ws, cs
<1>3. /\ IsSeq(w) /\ Len(w) = 1 /\ w[1].op = "switch" /\ w[1].name = "inquired_type" /\ w[1].cases = ws
      /\ IsSeq(l) /\ Len(l) = 1 + 1 /\ l[1 + 1].op = "switch"
      /\ l[1 + 1].name = "inquired_type" /\ l[1 + 1].cases = cs
      /\ l[1].op = "enum" /\ l[1].name = "inquired_type" /\ l[1].values = {1}
  BY Tuple1, Tuple2 DEF Switch, Inquired, Enum
<1>4. \A c \in DOMAIN ws : /\ cs[c].values = ws[c].values
                               /\ Mirror(ws[c].layout, cs[c].layout) /\ HasStart(ws[c].layout)
  <2>1. \A c \in DOMAIN ws : cs[c].values = ws[c].values
    BY <1>2
  <2>2. \A c \in DOMAIN ws : Mirror(ws[c].layout, cs[c].layout) /\ HasStart(ws[c].layout)
    BY <1>1, <1>2
  <2> QED
    BY <2>1, <2>2
<1>5. \A v \in {1} : \E c \in DOMAIN ws : v \in ws[c].values
  BY <1>2
<1>6. ConnectionStatusWrite = w /\ ConnectionStatusParse = l
  BY Zenon DEF ConnectionStatusWrite, ConnectionStatusParse, l, w, ws, cs, w1, c1
<1> HIDE DEF w, l
<1>7. 1 \in Nat /\ 1 > 0
  OBVIOUS
<1>8. Mirrored(w, l)
  BY <1>2, <1>3, <1>4, <1>5, <1>7, SwitchMirror
<1> QED
  BY <1>6, <1>8

LEMMA EqCapabilityWriteMirrors == Mirrored(EqCapabilityWrite, EqCapabilityParse)
<1> DEFINE w1 == << Each("presets", "num_presets", << Add(2, 1, "name_len") >>),
                  Start(4, None), Put("inquired_type"), Put("band_count"),
                  Put("level_steps"), Put("num_presets"),
                  Each("presets", "num_presets", << Put("preset_id"), Put("name_len"),
                            PutBytes("name", "name_len") >>) >>
           c1 == << Plain("band_count"), Plain("level_steps"), Count("num_presets"),
                    Each("presets", "num_presets",
                         << Enum("preset_id", EqPresetIds), Count("name_len"),
                          Bytes("name", "name_len") >>) >>
           w2 == <<Start(3, None)>> \o
                   Puts(<<"inquired_type", "min_level", "max_level">>)
           c2 == << Plain("min_level"), Plain("max_level") >>
           ws == << Case(PresetEq, w1), Case(Ebb, w2) >>
           cs == << Case(PresetEq, c1), Case(Ebb, c2) >>
           w == << Switch("inquired_type", ws) >>
           l == << Inquired(EqebbInquired), Switch("inquired_type", cs) >>
<1>1. Mirror(w1, c1) /\ HasStart(w1)
  <2> DEFINE wa == << Add(2, 1, "name_len") >>
             we == << Put("preset_id"), Put("name_len"), PutBytes("name", "name_len") >>
             le == << Enum("preset_id", EqPresetIds), Count("name_len"),
                      Bytes("name", "name_len") >>
             P == {<<wa, le>>, <<we, le>>}
  <2>1. Bare(wa) /\ Bare(we)
    BY Tuple1, Tuple3 DEF Bare, Add, Put, PutBytes
  <2> HIDE DEF wa, we, le
  <2>2. \A m \in P : m = <<m[1], m[2]>> /\ Mirror(m[1], m[2])
    BY <2>1, BareMirror
  <2>3. IsSeq(w1) /\ DOMAIN w1 = 1..7 /\ DOMAIN c1 = 1..4
    BY Tuple7, Tuple4
  <2>4. HasStart(w1)
    BY <2>3 DEF HasStart, Start
  <2>5. /\ \A i \in 1..7 : w1[i].op \notin {"switch", "enum", "loop"}
        /\ \A i \in 2..6 : w1[i].op # "each"
    BY DEF Start, Put, Each
  <2>6. /\ w1[1].name = "presets" /\ w1[1].count = "num_presets" /\ w1[1].element = wa
        /\ w1[7].name = "presets" /\ w1[7].count = "num_presets" /\ w1[7].element = we
        /\ c1[4].op = "each"
        /\ c1[4].name = "presets" /\ c1[4].count = "num_presets" /\ c1[4].element = le
    BY DEF Each, wa, we, le
  <2> HIDE DEF w1, c1
  <2>7. MirrorStep(w1, c1, P)
    <3>1. \A i \in DOMAIN w1 : w1[i].op = "each" => i = 1 \/ i = 7
      BY <2>3, <2>5
    <3> QED
      BY <2>3, <2>5, <2>6, <3>1 DEF MirrorStep
  <2> HIDE DEF P
  <2> QED
    BY <2>2, <2>4, <2>7, MirrorIntro
<1>2. Mirror(w2, c2) /\ HasStart(w2)
  BY Tuple3, StartBare, BareMirror
<1> HIDE DEF w1, c1, w2, c2
<1>3. DOMAIN ws = 1..2 /\ DOMAIN cs = 1..2
      /\ ws[1].layout = w1 /\ ws[1].values = PresetEq
      /\ cs[1].layout = c1 /\ cs[1].values = PresetEq
      /\ ws[2].layout = w2 /\ ws[2].values = Ebb
      /\ cs[2].layout = c2 /\ cs[2].values = Ebb
  BY Tuple2 DEF Case
<1> HIDE DEF ws, cs
<1>4. /\ IsSeq(w) /\ Len(w) = 1 /\ w[1].op = "switch" /\ w[1].name = "inquired_type" /\ w[1].cases = ws
      /\ IsSeq(l) /\ Len(l) = 1 + 1 /\ l[1 + 1].op = "switch"
      /\ l[1 + 1].name = "inquired_type" /\ l[1 + 1].cases = cs
      /\ l[1].op = "enum" /\ l[1].name = "inquired_type" /\ l[1].values = EqebbInquired
  BY Tuple1, Tuple2 DEF Switch, Inquired, Enum
<1>5. \A c \in DOMAIN ws : /\ cs[c].values = ws[c].values
                               /\ Mirror(ws[c].layout, cs[c].layout) /\ HasStart(ws[c].layout)
  <2>1. \A c \in DOMAIN ws : cs[c].values = ws[c].values
    BY <1>3
  <2>2. \A c \in DOMAIN ws : Mirror(ws[c].layout, cs[c].layout) /\ HasStart(ws[c].layout)
    BY <1>1, <1>2, <1>3
  <2> QED
    BY <2>1, <2>2
<1>6. \A v \in EqebbInquired : \E c \in DOMAIN ws : v \in ws[c].values
  BY <1>3 DEF EqebbInquired, PresetEq, Ebb
<1>7. EqCapabilityWrite = w /\ EqCapabilityParse = l
  BY Zenon DEF EqCapabilityWrite, EqCapabilityParse, l, w, ws, cs, w1, c1, w2, c2
<1> HIDE DEF w, l
<1>8. 1 \in Nat /\ 1 > 0
  OBVIOUS
<1>9. Mirrored(w, l)
  BY <1>3, <1>4, <1>5, <1>6, <1>8, SwitchMirror
<1> QED
  BY <1>7, <1>9

LEMMA EqParamWriteMirrors == Mirrored(EqParamWrite, EqParamParse)
<1> DEFINE w1 == << Start(3, "num_levels"), Put("inquired_type"), Put("preset_id"),
                  Put("num_levels"), PutBytes("levels", "num_levels") >>
           c1 == << Enum("preset_id", EqPresetIds), Count("num_levels"),
                  Bytes("levels", "num_levels") >>
           w2 == <<Start(2, None)>> \o
                   Puts(<<"inquired_type", "level">>)
           c2 == << Plain("level") >>
           ws == << Case(PresetEq, w1), Case(Ebb, w2) >>
           cs == << Case(PresetEq, c1), Case(Ebb, c2) >>
           w == << Switch("inquired_type", ws) >>
           l == << Inquired(EqebbInquired), Switch("inquired_type", cs) >>
<1>1. Mirror(w1, c1) /\ HasStart(w1)
  <2>1. Bare(w1) /\ HasStart(w1)
    BY Tuple5 DEF Bare, HasStart, Start, Put, PutBytes
  <2> QED
    BY <2>1, BareMirror
<1>2. Mirror(w2, c2) /\ HasStart(w2)
  BY Tuple2, StartBare, BareMirror
<1> HIDE DEF w1, c1, w2, c2
<1>3. DOMAIN ws = 1..2 /\ DOMAIN cs = 1..2
      /\ ws[1].layout = w1 /\ ws[1].values = PresetEq
      /\ cs[1].layout = c1 /\ cs[1].values = PresetEq
      /\ ws[2].layout = w2 /\ ws[2].values = Ebb
      /\ cs[2].layout = c2 /\ cs[2].values = Ebb
  BY Tuple2 DEF Case
<1> HIDE DEF ws, cs
<1>4. /\ IsSeq(w) /\ Len(w) = 1 /\ w[1].op = "switch" /\ w[1].name = "inquired_type" /\ w[1].cases = ws
      /\ IsSeq(l) /\ Len(l) = 1 + 1 /\ l[1 + 1].op = "switch"
      /\ l[1 + 1].name = "inquired_type" /\ l[1 + 1].cases = cs
      /\ l[1].op = "enum" /\ l[1].name = "inquired_type" /\ l[1].values = EqebbInquired
  BY Tuple1, Tuple2 DEF Switch, Inquired, Enum
<1>5. \A c \in DOMAIN ws : /\ cs[c].values = ws[c].values
                               /\ Mirror(ws[c].layout, cs[c].layout) /\ HasStart(ws[c].layout)
  <2>1. \A c \in DOMAIN ws : cs[c].values = ws[c].values
    BY <1>3
  <2>2. \A c \in DOMAIN ws : Mirror(ws[c].layout, cs[c].layout) /\ HasStart(ws[c].layout)
    BY <1>1, <1>2, <1>3
  <2> QED
    BY <2>1, <2>2
<1>6. \A v \in EqebbInquired : \E c \in DOMAIN ws : v \in ws[c].values
  BY <1>3 DEF EqebbInquired, PresetEq, Ebb
<1>7. EqParamWrite = w /\ EqParamParse = l
  BY Zenon DEF EqParamWrite, EqParamParse, l, w, ws, cs, w1, c1, w2, c2
<1> HIDE DEF w, l
<1>8. 1 \in Nat /\ 1 > 0
  OBVIOUS
<1>9. Mirrored(w, l)
  BY <1>3, <1>4, <1>5, <1>6, <1>8, SwitchMirror
<1> QED
  BY <1>7, <1>9

LEMMA NcasmParamWriteMirrors == Mirrored(NcasmParamWrite, NcasmParamParse)
<1> DEFINE w1 == <<Start(3, None)>> \o
                   Puts(<<"inquired_type", "nc_setting_type", "nc_setting_value">>)
           c1 == << Enum("nc_setting_type", OnOff), Enum("nc_setting_value", OnOff) >>
           w2 == <<Start(7, None)>> \o
                   Puts(<<"inquired_type", "ncasm_effect", "ncasm_setting_type", "ncasm_amount", "asm_setting_type", "asm_id", "asm_amount">>)
           c2 == << Enum("ncasm_effect", NcasmEffects), Enum("ncasm_setting_type", {0, 1, 2}),
                  Plain("ncasm_amount"), Enum("asm_setting_type", OnOff),
                  Enum("asm_id", {0, 1}), Plain("asm_amount") >>
           w3 == <<Start(5, None)>> \o
                   Puts(<<"inquired_type", "ncasm_effect", "asm_setting_type", "asm_id", "asm_id">>)
           c3 == << Enum("ncasm_effect", NcasmEffects), Enum("asm_setting_type", OnOff),
                  Enum("asm_id", {0, 1}), Plain("asm_amount") >>
           ws == << Case(Nc, w1), Case(NcAndAsm, w2), Case(Asm, w3) >>
           cs == << Case(Nc, c1), Case(NcAndAsm, c2), Case(Asm, c3) >>
           w == << Switch("inquired_type", ws) >>
           l == << Inquired(NcasmInquired), Switch("inquired_type", cs) >>
<1>1. Mirror(w1, c1) /\ HasStart(w1)
  BY Tuple3, StartBare, BareMirror
<1>2. Mirror(w2, c2) /\ HasStart(w2)
  BY Tuple7, StartBare, BareMirror
<1>3. Mirror(w3, c3) /\ HasStart(w3)
  BY Tuple5, StartBare, BareMirror
<1> HIDE DEF w1, c1, w2, c2, w3, c3
<1>4. DOMAIN ws = 1..3 /\ DOMAIN cs = 1..3
      /\ ws[1].layout = w1 /\ ws[1].values = Nc
      /\ cs[1].layout = c1 /\ cs[1].values = Nc
      /\ ws[2].layout = w2 /\ ws[2].values = NcAndAsm
      /\ cs[2].layout = c2 /\ cs[2].values = NcAndAsm
      /\ ws[3].layout = w3 /\ ws[3].values = Asm
      /\ cs[3].layout = c3 /\ cs[3].values = Asm
  BY Tuple3 DEF Case
<1> HIDE DEF ws, cs
<1>5. /\ IsSeq(w) /\ Len(w) = 1 /\ w[1].op = "switch" /\ w[1].name = "inquired_type" /\ w[1].cases = ws
      /\ IsSeq(l) /\ Len(l) = 1 + 1 /\ l[1 + 1].op = "switch"
      /\ l[1 + 1].name = "inquired_type" /\ l[1 + 1].cases = cs
      /\ l[1].op = "enum" /\ l[1].name = "inquired_type" /\ l[1].values = NcasmInquired
  BY Tuple1, Tuple2 DEF Switch, Inquired, Enum
<1>6. \A c \in DOMAIN ws : /\ cs[c].values = ws[c].values
                               /\ Mirror(ws[c].layout, cs[c].layout) /\ HasStart(ws[c].layout)
  <2>1. \A c \in DOMAIN ws : cs[c].values = ws[c].values
    BY <1>4
  <2>2. \A c \in DOMAIN ws : Mirror(ws[c].layout, cs[c].layout) /\ HasStart(ws[c].layout)
    BY <1>1, <1>2, <1>3, <1>4
  <2> QED
    BY <2>1, <2>2
<1>7. \A v \in NcasmInquired : \E c \in DOMAIN ws : v \in ws[c].values
  BY <1>4 DEF NcasmInquired, Nc, NcAndAsm, Asm
<1>8. NcasmParamWrite = w /\ NcasmParamParse = l
  BY Zenon DEF NcasmParamWrite, NcasmParamParse, l, w, ws, cs, w1, c1, w2, c2, w3, c3
<1> HIDE DEF w, l
<1>9. 1 \in Nat /\ 1 > 0
  OBVIOUS
<1>10. Mirrored(w, l)
  BY <1>4, <1>5, <1>6, <1>7, <1>9, SwitchMirror
<1> QED
  BY <1>8, <1>10

LEMMA PlayParamWriteMirrors == Mirrored(PlayParamWrite, PlayParamParse)
<1> DEFINE w1 == <<Start(4, "len")>> \o
                   Puts(<<"inquired_type", "detailed_data_type", "status", "len">>) \o <<PutBytes("data", "len")>>
           c1 == << Enum("status", {0, 1, 2}), Clamped("len"), Bytes("data", "len") >>
           w2 == <<Start(3, None)>> \o
                   Puts(<<"inquired_type", "detailed_data_type", "volume">>)
           c2 == << Plain("volume") >>
           ws == << Case(Names, w1), Case({Volume}, w2) >>
           cs == << Case(Names, c1), Case({Volume}, c2) >>
           w == << Switch("detailed_data_type", ws) >>
           l == << Inquired({1}), Enum("detailed_data_type", PlayDetailed), Switch("detailed_data_type", cs) >>
<1>1. Mirror(w1, c1) /\ HasStart(w1)
  <2> DEFINE s == <<Start(4, "len")>> \o
                    Puts(<<"inquired_type", "detailed_data_type", "status", "len">>)
             b == <<PutBytes("data", "len")>>
  <2>1. Bare(s) /\ HasStart(s)
    BY Tuple4, StartBare
  <2>2. Bare(b)
    BY Tuple1 DEF Bare, PutBytes
  <2>3. w1 = s \o b
    OBVIOUS
  <2> HIDE DEF s, b, w1
  <2>4. Bare(w1) /\ HasStart(w1)
    BY <2>1, <2>2, <2>3, BareConcat
  <2> QED
    BY <2>4, BareMirror
<1>2. Mirror(w2, c2) /\ HasStart(w2)
  BY Tuple3, StartBare, BareMirror
<1> HIDE DEF w1, c1, w2, c2
<1>3. DOMAIN ws = 1..2 /\ DOMAIN cs = 1..2
      /\ ws[1].layout = w1 /\ ws[1].values = Names
      /\ cs[1].layout = c1 /\ cs[1].values = Names
      /\ ws[2].layout = w2 /\ ws[2].values = {Volume}
      /\ cs[2].layout = c2 /\ cs[2].values = {Volume}
  BY Tuple2 DEF Case
<1> HIDE DEF ws, cs
<1>4. /\ IsSeq(w) /\ Len(w) = 1 /\ w[1].op = "switch" /\ w[1].name = "detailed_data_type" /\ w[1].cases = ws
      /\ IsSeq(l) /\ Len(l) = 2 + 1 /\ l[2 + 1].op = "switch"
      /\ l[2 + 1].name = "detailed_data_type" /\ l[2 + 1].cases = cs
      /\ l[2].op = "enum" /\ l[2].name = "detailed_data_type" /\ l[2].values = PlayDetailed
  BY Tuple1, Tuple3 DEF Switch, Inquired, Enum
<1>5. \A c \in DOMAIN ws : /\ cs[c].values = ws[c].values
                               /\ Mirror(ws[c].layout, cs[c].layout) /\ HasStart(ws[c].layout)
  <2>1. \A c \in DOMAIN ws : cs[c].values = ws[c].values
    BY <1>3
  <2>2. \A c \in DOMAIN ws : Mirror(ws[c].layout, cs[c].layout) /\ HasStart(ws[c].layout)
    BY <1>1, <1>2, <1>3
  <2> QED
    BY <2>1, <2>2
<1>6. \A v \in PlayDetailed : \E c \in DOMAIN ws : v \in ws[c].values
  BY <1>3 DEF PlayDetailed, Names, Volume
<1>7. PlayParamWrite = w /\ PlayParamParse = l
  <2> DEFINE x == Inquired({1})
             y == Enum("detailed_data_type", PlayDetailed)
             z == Switch("detailed_data_type", cs)
  <2>1. PlayParamParse = <<x, y>> \o <<z>> /\ l = <<x, y, z>> /\ PlayParamWrite = w
    BY Zenon DEF PlayParamParse, PlayParamWrite, l, w, ws, cs, w1, c1, w2, c2, PlayGetParse
  <2> HIDE DEF x, y, z
  <2>2. <<x, y>> \o <<z>> = <<x, y, z>>
    BY TwoAndOne
  <2> QED
    BY <2>1, <2>2
<1> HIDE DEF w, l
<1>8. 2 \in Nat /\ 2 > 0
  OBVIOUS
<1>9. Mirrored(w, l)
  BY <1>3, <1>4, <1>5, <1>6, <1>8, SwitchMirror
<1> QED
  BY <1>7, <1>9

LEMMA AssignableCapabilityWriteMirrors ==
  Mirror(AssignableCapabilityWrite, AssignableCapabilityParse) /\ HasStart(AssignableCapabilityWrite)
<1> DEFINE e3 == << Enum("action", ButtonActions), Enum("function", ButtonFunctions) >>
           e2 == << Enum("preset", ButtonPresets), Count("num_capability_actions"),
                    Each("capability_actions", "num_capability_actions", e3) >>
           e1 == << Enum("key", {0, 1, 2, 3}), Enum("key_type", {0, 1}),
                    Enum("default_preset", ButtonPresets), Count("num_capability_presets"),
                    Each("capability_presets", "num_capability_presets", e2) >>
           l == << Count("num_capability_keys"),
                   Each("capability_keys", "num_capability_keys", e1) >>
           a2 == << Add(2, 2, "num_capability_actions") >>
           a1 == << Add(4, 0, None),
                    Each("capability_presets", "num_capability_presets", a2) >>
           w3 == << Put("action"), Put("function") >>
           w2 == << Put("preset"), Put("num_capability_actions"),
                    Each("capability_actions", "num_capability_actions", w3) >>
           p1 == Puts(<<"key", "key_type", "default_preset", "num_capability_presets">>)
           q1 == << Each("capability_presets", "num_capability_presets", w2) >>
           w1 == p1 \o q1
           w == << Each("capability_keys", "num_capability_keys", a1),
                   Start(2, None), Put("inquired_type"), Put("num_capability_keys"),
                   Each("capability_keys", "num_capability_keys", w1) >>
<1>1. Mirror(w3, e3)
  <2>1. Bare(w3)
    BY Tuple2 DEF Bare, Put
  <2> HIDE DEF w3, e3
  <2> QED
    BY <2>1, BareMirror
<1> HIDE DEF w3, e3
<1>2. Mirror(w2, e2)
  <2>1. IsSeq(w2) /\ DOMAIN w2 = 1..3 /\ DOMAIN e2 = 1..3
    BY Tuple3
  <2>2. /\ \A k \in DOMAIN w2 : w2[k].op \notin {"switch", "enum", "loop"}
        /\ \A k \in DOMAIN w2 : w2[k].op = "each" =>
             /\ w2[k].element = w3
             /\ \E j \in DOMAIN e2 :
                  /\ e2[j].op = "each" /\ e2[j].name = w2[k].name
                  /\ e2[j].count = w2[k].count /\ e2[j].element = e3
    BY <2>1 DEF Put, Each, Count, Enum
  <2> HIDE DEF w2, e2
  <2> QED
    BY <1>1, <2>1, <2>2, ArrayMirror
<1>3. Mirror(a2, e2)
  <2>1. Bare(a2)
    BY Tuple1 DEF Bare, Add
  <2> HIDE DEF a2, e2
  <2> QED
    BY <2>1, BareMirror
<1> HIDE DEF w2, e2, a2
<1>4. Mirror(a1, e1)
  <2>1. IsSeq(a1) /\ DOMAIN a1 = 1..2 /\ DOMAIN e1 = 1..5
    BY Tuple2, Tuple5
  <2>2. /\ \A k \in DOMAIN a1 : a1[k].op \notin {"switch", "enum", "loop"}
        /\ \A k \in DOMAIN a1 : a1[k].op = "each" =>
             /\ a1[k].element = a2
             /\ \E j \in DOMAIN e1 :
                  /\ e1[j].op = "each" /\ e1[j].name = a1[k].name
                  /\ e1[j].count = a1[k].count /\ e1[j].element = e2
    BY <2>1 DEF Add, Each, Count, Enum
  <2> HIDE DEF a1, e1
  <2> QED
    BY <1>3, <2>1, <2>2, ArrayMirror
<1>5. Mirror(w1, e1)
  <2>1. Bare(p1)
    BY Tuple4, PutsBare
  <2>2. IsSeq(q1) /\ Len(q1) = 1 /\ q1[1] = Each("capability_presets", "num_capability_presets", w2)
    BY Tuple1
  <2>3. DOMAIN e1 = 1..5 /\ e1[5] = Each("capability_presets", "num_capability_presets", e2)
    BY Tuple5
  <2> HIDE DEF p1, q1, e1
  <2>4. /\ IsSeq(w1) /\ DOMAIN w1 = 1..Len(w1) /\ Len(w1) = Len(p1) + 1 /\ Len(p1) \in Nat
        /\ DOMAIN p1 = 1..Len(p1)
        /\ \A i \in 1..(Len(p1) + 1) : w1[i] = IF i <= Len(p1) THEN p1[i] ELSE q1[i - Len(p1)]
    <3>1. IsSeq(p1) /\ Len(p1) \in Nat /\ DOMAIN p1 = 1..Len(p1)
      BY <2>1, SeqLen DEF Bare
    <3> HIDE DEF q1
    <3>2. /\ IsSeq(w1) /\ Len(w1) = Len(p1) + Len(q1)
          /\ \A i \in 1..(Len(p1) + Len(q1)) :
                w1[i] = IF i <= Len(p1) THEN p1[i] ELSE q1[i - Len(p1)]
      BY <2>2, <3>1, SeqConcat
    <3> HIDE DEF w1
    <3>3. DOMAIN w1 = 1..Len(w1)
      BY <3>2, SeqLen
    <3> QED
      BY <2>2, <3>1, <3>2, <3>3
  <2>5. ASSUME NEW k \in DOMAIN w1
        PROVE  \/ w1[k].op \notin {"each", "switch", "enum", "loop"}
               \/ w1[k] = Each("capability_presets", "num_capability_presets", w2)
    <3>1. CASE k <= Len(p1)
      BY <2>1, <2>4, <3>1 DEF Bare
    <3>2. CASE k > Len(p1)
      <4>1. k - Len(p1) = 1 /\ w1[k] = q1[k - Len(p1)]
        BY <2>4, <3>2
      <4> QED
        BY <2>2, <4>1
    <3> QED
      BY <2>4, <3>1, <3>2
  <2> HIDE DEF w1
  <2>6. /\ \A k \in DOMAIN w1 : w1[k].op \notin {"switch", "enum", "loop"}
        /\ \A k \in DOMAIN w1 : w1[k].op = "each" =>
             /\ w1[k].element = w2
             /\ \E j \in DOMAIN e1 :
                  /\ e1[j].op = "each" /\ e1[j].name = w1[k].name
                  /\ e1[j].count = w1[k].count /\ e1[j].element = e2
    BY <2>3, <2>5 DEF Each
  <2> QED
    BY <1>2, <2>4, <2>6, ArrayMirror
<1> HIDE DEF a1, w1, e1
<1>6. Mirror(w, l) /\ HasStart(w)
  <2> DEFINE P == {<<a1, e1>>, <<w1, e1>>}
  <2>1. \A m \in P : m = <<m[1], m[2]>> /\ Mirror(m[1], m[2])
    BY <1>4, <1>5
  <2>2. IsSeq(w) /\ DOMAIN w = 1..5 /\ DOMAIN l = 1..2
    BY Tuple5, Tuple2
  <2>3. HasStart(w)
    BY <2>2 DEF HasStart, Start
  <2>4. MirrorStep(w, l, P)
    BY <2>2 DEF MirrorStep, Start, Put, Each, Count
  <2> HIDE DEF P, w, l
  <2> QED
    BY <2>1, <2>3, <2>4, MirrorIntro
<1>7. AssignableCapabilityWrite = w /\ AssignableCapabilityParse = l
  BY Zenon DEF AssignableCapabilityWrite, AssignableCapabilityParse, w, l, w1, p1, q1, w2, w3,
               a1, a2, e1, e2, e3
<1> QED
  BY <1>6, <1>7, Zenon

LEMMA Tuple11 ==
  \A a, b, c, d, e, f, g, h, x, y, z : IsSeq(<<a, b, c, d, e, f, g, h, x, y, z>>)
<1> TAKE a, b, c, d, e, f, g, h, x, y, z
<1>1. <<a, b, c, d, e, f, g, h, x, y, z>> \in Seq({a, b, c, d, e, f, g, h, x, y, z})
  OBVIOUS
<1> QED
  BY <1>1, Zenon DEF IsSeq

LEMMA SystemCapabilityWriteMirrors == Mirrored(SystemCapabilityWrite, SystemCapabilityParse)
<1> DEFINE w1 == <<Start(2, None)>> \o
                   Puts(<<"inquired_type", "setting_type">>)
           c1 == << Enum("setting_type", {0}) >>
           w2 == << Start(2, "element_id_count"), Put("inquired_type"),
                  Put("element_id_count"),
                  Each("element_ids", "element_id_count", << Put("element_id") >>) >>
           c2 == << Count("element_id_count"),
                    Each("element_ids", "element_id_count", << Enum("element_id", AutoPowerOffIds) >>) >>
           w3 == <<Start(11, None)>> \o
                   Puts(<<"inquired_type", "setting_type", "preview_type", "detail_setting", "detection_sensitivity_type", "voice_focus_type", "mode_out_time_type_t", "timeouts[0]", "timeouts[1]", "timeouts[2]", "timeouts[3]">>) \o
                 <<Start(2, None)>> \o Puts(<<"inquired_type", "setting_type">>)
           c3 == << Enum("setting_type", {0}), Enum("preview_type", {0, 1}),
                  Enum("detail_setting", {0}),
                  Enum("detection_sensitivity_type", {0}),
                  Enum("voice_focus_type", {0}),
                  Enum("mode_out_time_type_t", {0}),
                  Plain("timeouts[0]"), Plain("timeouts[1]"),
                  Plain("timeouts[2]"), Plain("timeouts[3]") >>
           w4 == AssignableCapabilityWrite
           c4 == AssignableCapabilityParse
           ws == << Case(OnOffSetting, w1), Case(AutoPowerOff, w2), Case(SmartTalking, w3), Case(AssignableKeys, w4) >>
           cs == << Case(OnOffSetting, c1), Case(AutoPowerOff, c2), Case(SmartTalking, c3), Case(AssignableKeys, c4) >>
           w == << Switch("inquired_type", ws) >>
           l == << Inquired(SystemInquired), Switch("inquired_type", cs) >>
<1>1. Mirror(w1, c1) /\ HasStart(w1)
  BY Tuple2, StartBare, BareMirror
<1>2. Mirror(w2, c2) /\ HasStart(w2)
  <2> DEFINE we == << Put("element_id") >>
             le == << Enum("element_id", AutoPowerOffIds) >>
  <2>1. Bare(we)
    BY Tuple1 DEF Bare, Put
  <2> HIDE DEF we, le
  <2>2. Mirror(we, le)
    BY <2>1, BareMirror
  <2>3. IsSeq(w2) /\ DOMAIN w2 = 1..4 /\ DOMAIN c2 = 1..2
    BY Tuple4, Tuple2
  <2>4. /\ \A k \in DOMAIN w2 : w2[k].op \notin {"switch", "enum", "loop"}
        /\ HasStart(w2)
        /\ \A k \in DOMAIN w2 : w2[k].op = "each" =>
             /\ w2[k].element = we
             /\ \E j \in DOMAIN c2 :
                  /\ c2[j].op = "each" /\ c2[j].name = w2[k].name
                  /\ c2[j].count = w2[k].count /\ c2[j].element = le
    BY <2>3 DEF HasStart, Start, Put, Each, Count, Each, we, le
  <2> HIDE DEF w2, c2
  <2> QED
    BY <2>2, <2>3, <2>4, ArrayMirror
<1>3. Mirror(w3, c3) /\ HasStart(w3)
  <2> DEFINE s == <<Start(11, None)>> \o Puts(<<"inquired_type", "setting_type", "preview_type", "detail_setting", "detection_sensitivity_type", "voice_focus_type", "mode_out_time_type_t", "timeouts[0]", "timeouts[1]", "timeouts[2]", "timeouts[3]">>)
             b == <<Start(2, None)>>
             d == Puts(<<"inquired_type", "setting_type">>)
  <2>1. Bare(s) /\ HasStart(s)
    BY Tuple11, StartBare
  <2>2. Bare(b)
    BY Tuple1 DEF Bare, Start
  <2>3. Bare(d)
    BY Tuple2, PutsBare
  <2>4. w3 = s \o b \o d
    BY Zenon
  <2> HIDE DEF s, b, d, w3
  <2>5. Bare(w3) /\ HasStart(w3)
    BY <2>1, <2>2, <2>3, <2>4, BareConcat
  <2> QED
    BY <2>5, BareMirror
<1>4. Mirror(w4, c4) /\ HasStart(w4)
  BY AssignableCapabilityWriteMirrors
<1> HIDE DEF w1, c1, w2, c2, w3, c3, w4, c4
<1>5. DOMAIN ws = 1..4 /\ DOMAIN cs = 1..4
      /\ ws[1].layout = w1 /\ ws[1].values = OnOffSetting
      /\ cs[1].layout = c1 /\ cs[1].values = OnOffSetting
      /\ ws[2].layout = w2 /\ ws[2].values = AutoPowerOff
      /\ cs[2].layout = c2 /\ cs[2].values = AutoPowerOff
      /\ ws[3].layout = w3 /\ ws[3].values = SmartTalking
      /\ cs[3].layout = c3 /\ cs[3].values = SmartTalking
      /\ ws[4].layout = w4 /\ ws[4].values = AssignableKeys
      /\ cs[4].layout = c4 /\ cs[4].values = AssignableKeys
  BY Tuple4 DEF Case
<1> HIDE DEF ws, cs
<1>6. /\ IsSeq(w) /\ Len(w) = 1 /\ w[1].op = "switch" /\ w[1].name = "inquired_type" /\ w[1].cases = ws
      /\ IsSeq(l) /\ Len(l) = 1 + 1 /\ l[1 + 1].op = "switch"
      /\ l[1 + 1].name = "inquired_type" /\ l[1 + 1].cases = cs
      /\ l[1].op = "enum" /\ l[1].name = "inquired_type" /\ l[1].values = SystemInquired
  BY Tuple1, Tuple2 DEF Switch, Inquired, Enum
<1>7. \A c \in DOMAIN ws : /\ cs[c].values = ws[c].values
                               /\ Mirror(ws[c].layout, cs[c].layout) /\ HasStart(ws[c].layout)
  <2>1. \A c \in DOMAIN ws : cs[c].values = ws[c].values
    BY <1>5
  <2>2. \A c \in DOMAIN ws : Mirror(ws[c].layout, cs[c].layout) /\ HasStart(ws[c].layout)
    BY <1>1, <1>2, <1>3, <1>4, <1>5
  <2> QED
    BY <2>1, <2>2
<1>8. \A v \in SystemInquired : \E c \in DOMAIN ws : v \in ws[c].values
  BY <1>5 DEF SystemInquired, OnOffSetting, AutoPowerOff, SmartTalking, AssignableKeys
<1>9. SystemCapabilityWrite = w /\ SystemCapabilityParse = l
  BY Zenon DEF SystemCapabilityWrite, SystemCapabilityParse, l, w, ws, cs, w1, c1, w2, c2, w3, c3, w4, c4
<1> HIDE DEF w, l
<1>10. 1 \in Nat /\ 1 > 0
  OBVIOUS
<1>11. Mirrored(w, l)
  BY <1>5, <1>6, <1>7, <1>8, <1>10, SwitchMirror
<1> QED
  BY <1>9, <1>11

LEMMA SystemParamWriteMirrors == Mirrored(SystemParamWrite, SystemParamParse)
<1> DEFINE w1 == <<Start(3, None)>> \o
                   Puts(<<"inquired_type", "setting_type", "setting_value">>)
           c1 == << Enum("setting_type", {0}), Enum("setting_value", OnOff) >>
           w2 == <<Start(4, None)>> \o
                   Puts(<<"inquired_type", "parameter_type", "element_id", "select_time_element_id">>)
           c2 == << Enum("parameter_type", {1}), Enum("element_id", AutoPowerOffIds),
                  Enum("select_time_element_id", AutoPowerOffIds) >>
           w3 == << Start(2, "num_presets"), Put("inquired_type"), Put("num_presets"),
                  Each("presets", "num_presets", << Put("preset") >>) >>
           c3 == << Count("num_presets"), Each("presets", "num_presets", << Enum("preset", ButtonPresets) >>) >>
           ws == << Case(OnOffSetting \cup SmartTalking, w1), Case(AutoPowerOff, w2), Case(AssignableKeys, w3) >>
           cs == << Case(OnOffSetting \cup SmartTalking, c1), Case(AutoPowerOff, c2), Case(AssignableKeys, c3) >>
           w == << Switch("inquired_type", ws) >>
           l == << Inquired(SystemInquired), Switch("inquired_type", cs) >>
<1>1. Mirror(w1, c1) /\ HasStart(w1)
  BY Tuple3, StartBare, BareMirror
<1>2. Mirror(w2, c2) /\ HasStart(w2)
  BY Tuple4, StartBare, BareMirror
<1>3. Mirror(w3, c3) /\ HasStart(w3)
  <2> DEFINE we == << Put("preset") >>
             le == << Enum("preset", ButtonPresets) >>
  <2>1. Bare(we)
    BY Tuple1 DEF Bare, Put
  <2> HIDE DEF we, le
  <2>2. Mirror(we, le)
    BY <2>1, BareMirror
  <2>3. IsSeq(w3) /\ DOMAIN w3 = 1..4 /\ DOMAIN c3 = 1..2
    BY Tuple4, Tuple2
  <2>4. /\ \A k \in DOMAIN w3 : w3[k].op \notin {"switch", "enum", "loop"}
        /\ HasStart(w3)
        /\ \A k \in DOMAIN w3 : w3[k].op = "each" =>
             /\ w3[k].element = we
             /\ \E j \in DOMAIN c3 :
                  /\ c3[j].op = "each" /\ c3[j].name = w3[k].name
                  /\ c3[j].count = w3[k].count /\ c3[j].element = le
    BY <2>3 DEF HasStart, Start, Put, Each, Count, Each, we, le
  <2> HIDE DEF w3, c3
  <2> QED
    BY <2>2, <2>3, <2>4, ArrayMirror
<1> HIDE DEF w1, c1, w2, c2, w3, c3
<1>4. DOMAIN ws = 1..3 /\ DOMAIN cs = 1..3
      /\ ws[1].layout = w1 /\ ws[1].values = OnOffSetting \cup SmartTalking
      /\ cs[1].layout = c1 /\ cs[1].values = OnOffSetting \cup SmartTalking
      /\ ws[2].layout = w2 /\ ws[2].values = AutoPowerOff
      /\ cs[2].layout = c2 /\ cs[2].values = AutoPowerOff
      /\ ws[3].layout = w3 /\ ws[3].values = AssignableKeys
      /\ cs[3].layout = c3 /\ cs[3].values = AssignableKeys
  BY Tuple3 DEF Case
<1> HIDE DEF ws, cs
<1>5. /\ IsSeq(w) /\ Len(w) = 1 /\ w[1].op = "switch" /\ w[1].name = "inquired_type" /\ w[1].cases = ws
      /\ IsSeq(l) /\ Len(l) = 1 + 1 /\ l[1 + 1].op = "switch"
      /\ l[1 + 1].name = "inquired_type" /\ l[1 + 1].cases = cs
      /\ l[1].op = "enum" /\ l[1].name = "inquired_type" /\ l[1].values = SystemInquired
  BY Tuple1, Tuple2 DEF Switch, Inquired, Enum
<1>6. \A c \in DOMAIN ws : /\ cs[c].values = ws[c].values
                               /\ Mirror(ws[c].layout, cs[c].layout) /\ HasStart(ws[c].layout)
  <2>1. \A c \in DOMAIN ws : cs[c].values = ws[c].values
    BY <1>4
  <2>2. \A c \in DOMAIN ws : Mirror(ws[c].layout, cs[c].layout) /\ HasStart(ws[c].layout)
    BY <1>1, <1>2, <1>3, <1>4
  <2> QED
    BY <2>1, <2>2
<1>7. \A v \in SystemInquired : \E c \in DOMAIN ws : v \in ws[c].values
  BY <1>4 DEF SystemInquired, OnOffSetting, SmartTalking, AutoPowerOff, AssignableKeys
<1>8. SystemParamWrite = w /\ SystemParamParse = l
  BY Zenon DEF SystemParamWrite, SystemParamParse, l, w, ws, cs, w1, c1, w2, c2, w3, c3
<1> HIDE DEF w, l
<1>9. 1 \in Nat /\ 1 > 0
  OBVIOUS
<1>10. Mirrored(w, l)
  BY <1>4, <1>5, <1>6, <1>7, <1>9, SwitchMirror
<1> QED
  BY <1>8, <1>10

LEMMA BareMirrored ==
  ASSUME NEW w, Bare(w), HasStart(w)
  PROVE  \A l : Mirrored(w, l)
BY BareMirror DEF Mirrored, StartReady

LEMMA ConnectMirrored ==
  /\ DOMAIN ConnectWrite = DOMAIN ConnectParse
  /\ \A t \in DOMAIN ConnectParse : Mirrored(ConnectWrite[t], ConnectParse[t])
<1> DEFINE a1 == WriteOne("fixed_value")
           a2 == <<Start(3, None)>> \o Puts(<<"fixed_value", "version_high", "version_low">>)
           a3 == WriteOne("inquired_type")
<1>1. \A l : Mirrored(a1, l)
  BY Tuple2, BareMirrored DEF WriteOne, Bare, HasStart, Start, Put
<1>2. \A l : Mirrored(a2, l)
  BY Tuple3, StartBare, BareMirrored
<1>3. \A l : Mirrored(a3, l)
  BY Tuple2, BareMirrored DEF WriteOne, Bare, HasStart, Start, Put
<1>4. DOMAIN ConnectWrite = DOMAIN ConnectParse
  BY DEF ConnectWrite, ConnectParse
<1>5. \A t \in DOMAIN ConnectParse :
        \/ ConnectWrite[t] \in {a1, a2, a3}
        \/ ConnectWrite[t] = DeviceInfoWrite /\ ConnectParse[t] = DeviceInfoParse
        \/ ConnectWrite[t] = SupportFunctionWrite /\ ConnectParse[t] = SupportFunctionParse
  BY DEF ConnectWrite, ConnectParse
<1> HIDE DEF a1, a2, a3
<1> QED
  BY <1>1, <1>2, <1>3, <1>4, <1>5, DeviceInfoWriteMirrors, SupportFunctionWriteMirrors

LEMMA CommonMirrored ==
  /\ DOMAIN CommonWrite = DOMAIN CommonParse
  /\ \A t \in DOMAIN CommonParse : Mirrored(CommonWrite[t], CommonParse[t])
<1> DEFINE a1 == WriteOne("inquired_type")
           a2 == <<Start(2, None)>> \o Puts(<<"inquired_type", "setting_value">>)
<1>1. \A l : Mirrored(a1, l)
  BY Tuple2, BareMirrored DEF WriteOne, Bare, HasStart, Start, Put
<1>2. \A l : Mirrored(a2, l)
  BY Tuple2, StartBare, BareMirrored
<1>3. DOMAIN CommonWrite = DOMAIN CommonParse
  BY DEF CommonWrite, CommonParse
<1>4. \A t \in DOMAIN CommonParse :
        \/ CommonWrite[t] \in {a1, a2}
        \/ CommonWrite[t] = BatteryWrite /\ CommonParse[t] = BatteryParse
        \/ CommonWrite[t] = ConnectionStatusWrite /\ CommonParse[t] = ConnectionStatusParse
  BY DEF CommonWrite, CommonParse
<1> HIDE DEF a1, a2
<1> QED
  BY <1>1, <1>2, <1>3, <1>4, BatteryWriteMirrors, ConnectionStatusWriteMirrors

LEMMA EqebbMirrored ==
  /\ DOMAIN EqebbWrite = DOMAIN EqebbParse
  /\ \A t \in DOMAIN EqebbParse : Mirrored(EqebbWrite[t], EqebbParse[t])
<1> DEFINE a1 == <<Start(2, None)>> \o Puts(<<"inquired_type", "display_language">>)
           a2 == WriteOne("inquired_type")
<1>1. \A l : Mirrored(a1, l)
  BY Tuple2, StartBare, BareMirrored
<1>2. \A l : Mirrored(a2, l)
  BY Tuple2, BareMirrored DEF WriteOne, Bare, HasStart, Start, Put
<1>3. DOMAIN EqebbWrite = DOMAIN EqebbParse
  BY DEF EqebbWrite, EqebbParse
<1>4. \A t \in DOMAIN EqebbParse :
        \/ EqebbWrite[t] \in {a1, a2}
        \/ EqebbWrite[t] = EqCapabilityWrite /\ EqebbParse[t] = EqCapabilityParse
        \/ EqebbWrite[t] = EqParamWrite /\ EqebbParse[t] = EqParamParse
  BY DEF EqebbWrite, EqebbParse
<1> HIDE DEF a1, a2
<1> QED
  BY <1>1, <1>2, <1>3, <1>4, EqCapabilityWriteMirrors, EqParamWriteMirrors

LEMMA NcasmMirrored ==
  /\ DOMAIN NcasmWrite = DOMAIN NcasmParse
  /\ \A t \in DOMAIN NcasmParse : Mirrored(NcasmWrite[t], NcasmParse[t])
<1> DEFINE a1 == WriteOne("inquired_type")
<1>1. \A l : Mirrored(a1, l)
  BY Tuple2, BareMirrored DEF WriteOne, Bare, HasStart, Start, Put
<1>2. DOMAIN NcasmWrite = DOMAIN NcasmParse
  BY DEF NcasmWrite, NcasmParse
<1>3. \A t \in DOMAIN NcasmParse :
        \/ NcasmWrite[t] \in {a1}
        \/ NcasmWrite[t] = NcasmParamWrite /\ NcasmParse[t] = NcasmParamParse
  BY DEF NcasmWrite, NcasmParse
<1> HIDE DEF a1
<1> QED
  BY <1>1, <1>2, <1>3, NcasmParamWriteMirrors

LEMMA PlayMirrored ==
  /\ DOMAIN PlayWrite = DOMAIN PlayParse
  /\ \A t \in DOMAIN PlayParse : Mirrored(PlayWrite[t], PlayParse[t])
<1> DEFINE a1 == <<Start(2, None)>> \o Puts(<<"inquired_type", "detailed_data_type">>)
<1>1. \A l : Mirrored(a1, l)
  BY Tuple2, StartBare, BareMirrored
<1>2. DOMAIN PlayWrite = DOMAIN PlayParse
  BY DEF PlayWrite, PlayParse
<1>3. \A t \in DOMAIN PlayParse :
        \/ PlayWrite[t] \in {a1}
        \/ PlayWrite[t] = PlayParamWrite /\ PlayParse[t] = PlayParamParse
  BY DEF PlayWrite, PlayParse
<1> HIDE DEF a1
<1> QED
  BY <1>1, <1>2, <1>3, PlayParamWriteMirrors

LEMMA SystemMirrored ==
  /\ DOMAIN SystemWrite = DOMAIN SystemParse
  /\ \A t \in DOMAIN SystemParse : Mirrored(SystemWrite[t], SystemParse[t])
<1> DEFINE a1 == WriteOne("inquired_type")
<1>1. \A l : Mirrored(a1, l)
  BY Tuple2, BareMirrored DEF WriteOne, Bare, HasStart, Start, Put
<1>2. DOMAIN SystemWrite = DOMAIN SystemParse
  BY DEF SystemWrite, SystemParse
<1>3. \A t \in DOMAIN SystemParse :
        \/ SystemWrite[t] \in {a1}
        \/ SystemWrite[t] = SystemCapabilityWrite /\ SystemParse[t] = SystemCapabilityParse
        \/ SystemWrite[t] = SystemParamWrite /\ SystemParse[t] = SystemParamParse
  BY DEF SystemWrite, SystemParse
<1> HIDE DEF a1
<1> QED
  BY <1>1, <1>2, <1>3, SystemCapabilityWriteMirrors, SystemParamWriteMirrors

\* The dispatch by the type finds the layouts of one group.
LEMMA LayoutsAre ==
  ASSUME NEW t
  PROVE  /\ t \in DOMAIN ConnectParse =>
              /\ mdr_packet_from_frame(t) = ConnectParse[t]
              /\ mdr_packet_to_frame(t) = ConnectWrite[t]
         /\ t \in DOMAIN CommonParse =>
              /\ mdr_packet_from_frame(t) = CommonParse[t]
              /\ mdr_packet_to_frame(t) = CommonWrite[t]
         /\ t \in DOMAIN EqebbParse =>
              /\ mdr_packet_from_frame(t) = EqebbParse[t]
              /\ mdr_packet_to_frame(t) = EqebbWrite[t]
         /\ t \in DOMAIN NcasmParse =>
              /\ mdr_packet_from_frame(t) = NcasmParse[t]
              /\ mdr_packet_to_frame(t) = NcasmWrite[t]
         /\ t \in DOMAIN PlayParse =>
              /\ mdr_packet_from_frame(t) = PlayParse[t]
              /\ mdr_packet_to_frame(t) = PlayWrite[t]
         /\ t \in DOMAIN SystemParse =>
              /\ mdr_packet_from_frame(t) = SystemParse[t]
              /\ mdr_packet_to_frame(t) = SystemWrite[t]
<1>1. ASSUME t \in DOMAIN ConnectParse
      PROVE  /\ mdr_packet_from_frame(t) = ConnectParse[t]
             /\ mdr_packet_to_frame(t) = ConnectWrite[t]
  <2> DEFINE p == ConnectParse[t]
             w == ConnectWrite[t]
  <2>1. t \in DOMAIN ConnectWrite
        /\ t \notin DOMAIN CommonParse /\ t \notin DOMAIN EqebbParse /\ t \notin DOMAIN NcasmParse /\ t \notin DOMAIN PlayParse /\ t \notin DOMAIN SystemParse
        /\ t \notin DOMAIN CommonWrite /\ t \notin DOMAIN EqebbWrite /\ t \notin DOMAIN NcasmWrite /\ t \notin DOMAIN PlayWrite /\ t \notin DOMAIN SystemWrite
    BY <1>1, ParseDomains, ConnectMirrored, CommonMirrored, EqebbMirrored, NcasmMirrored, PlayMirrored, SystemMirrored
  <2>2. Neat(p) /\ Orderly(p) /\ IsSeq(p)
    BY <1>1, ConnectParseOrderly DEF Neat
  <2>3. Mirrored(w, p) /\ IsSeq(w)
    BY <1>1, ConnectMirrored DEF Mirrored, Mirror, MirrorSet, MirrorStep
  <2>4. /\ mdr_packet_from_frame(t) = p \o <<>> \o <<>> \o <<>> \o <<>> \o <<>>
        /\ mdr_packet_to_frame(t) = w \o <<>> \o <<>> \o <<>> \o <<>> \o <<>>
    BY <1>1, <2>1, Zenon DEF mdr_packet_from_frame, mdr_packet_to_frame, In
  <2> HIDE DEF p, w
  <2>5. mdr_packet_from_frame(t) = p /\ mdr_packet_to_frame(t) = w
    <3>1. <<>> \o <<>> = <<>>
      OBVIOUS
    <3>2. p \o <<>> = p /\ <<>> \o p = p /\ w \o <<>> = w /\ <<>> \o w = w
      BY <2>2, <2>3, EmptyEnds
    <3>3. p \o <<>> \o <<>> \o <<>> \o <<>> \o <<>> = p /\ w \o <<>> \o <<>> \o <<>> \o <<>> \o <<>> = w
      BY <3>1, <3>2
    <3> QED
      BY <2>4, <3>3
  <2> QED
    BY <2>5 DEF p, w
<1>2. ASSUME t \in DOMAIN CommonParse
      PROVE  /\ mdr_packet_from_frame(t) = CommonParse[t]
             /\ mdr_packet_to_frame(t) = CommonWrite[t]
  <2> DEFINE p == CommonParse[t]
             w == CommonWrite[t]
  <2>1. t \in DOMAIN CommonWrite
        /\ t \notin DOMAIN ConnectParse /\ t \notin DOMAIN EqebbParse /\ t \notin DOMAIN NcasmParse /\ t \notin DOMAIN PlayParse /\ t \notin DOMAIN SystemParse
        /\ t \notin DOMAIN ConnectWrite /\ t \notin DOMAIN EqebbWrite /\ t \notin DOMAIN NcasmWrite /\ t \notin DOMAIN PlayWrite /\ t \notin DOMAIN SystemWrite
    BY <1>2, ParseDomains, ConnectMirrored, CommonMirrored, EqebbMirrored, NcasmMirrored, PlayMirrored, SystemMirrored
  <2>2. Neat(p) /\ Orderly(p) /\ IsSeq(p)
    BY <1>2, CommonParseOrderly DEF Neat
  <2>3. Mirrored(w, p) /\ IsSeq(w)
    BY <1>2, CommonMirrored DEF Mirrored, Mirror, MirrorSet, MirrorStep
  <2>4. /\ mdr_packet_from_frame(t) = <<>> \o p \o <<>> \o <<>> \o <<>> \o <<>>
        /\ mdr_packet_to_frame(t) = <<>> \o w \o <<>> \o <<>> \o <<>> \o <<>>
    BY <1>2, <2>1, Zenon DEF mdr_packet_from_frame, mdr_packet_to_frame, In
  <2> HIDE DEF p, w
  <2>5. mdr_packet_from_frame(t) = p /\ mdr_packet_to_frame(t) = w
    <3>1. <<>> \o <<>> = <<>>
      OBVIOUS
    <3>2. p \o <<>> = p /\ <<>> \o p = p /\ w \o <<>> = w /\ <<>> \o w = w
      BY <2>2, <2>3, EmptyEnds
    <3>3. <<>> \o p \o <<>> \o <<>> \o <<>> \o <<>> = p /\ <<>> \o w \o <<>> \o <<>> \o <<>> \o <<>> = w
      BY <3>1, <3>2
    <3> QED
      BY <2>4, <3>3
  <2> QED
    BY <2>5 DEF p, w
<1>3. ASSUME t \in DOMAIN EqebbParse
      PROVE  /\ mdr_packet_from_frame(t) = EqebbParse[t]
             /\ mdr_packet_to_frame(t) = EqebbWrite[t]
  <2> DEFINE p == EqebbParse[t]
             w == EqebbWrite[t]
  <2>1. t \in DOMAIN EqebbWrite
        /\ t \notin DOMAIN ConnectParse /\ t \notin DOMAIN CommonParse /\ t \notin DOMAIN NcasmParse /\ t \notin DOMAIN PlayParse /\ t \notin DOMAIN SystemParse
        /\ t \notin DOMAIN ConnectWrite /\ t \notin DOMAIN CommonWrite /\ t \notin DOMAIN NcasmWrite /\ t \notin DOMAIN PlayWrite /\ t \notin DOMAIN SystemWrite
    BY <1>3, ParseDomains, ConnectMirrored, CommonMirrored, EqebbMirrored, NcasmMirrored, PlayMirrored, SystemMirrored
  <2>2. Neat(p) /\ Orderly(p) /\ IsSeq(p)
    BY <1>3, EqebbParseOrderly DEF Neat
  <2>3. Mirrored(w, p) /\ IsSeq(w)
    BY <1>3, EqebbMirrored DEF Mirrored, Mirror, MirrorSet, MirrorStep
  <2>4. /\ mdr_packet_from_frame(t) = <<>> \o <<>> \o p \o <<>> \o <<>> \o <<>>
        /\ mdr_packet_to_frame(t) = <<>> \o <<>> \o w \o <<>> \o <<>> \o <<>>
    BY <1>3, <2>1, Zenon DEF mdr_packet_from_frame, mdr_packet_to_frame, In
  <2> HIDE DEF p, w
  <2>5. mdr_packet_from_frame(t) = p /\ mdr_packet_to_frame(t) = w
    <3>1. <<>> \o <<>> = <<>>
      OBVIOUS
    <3>2. p \o <<>> = p /\ <<>> \o p = p /\ w \o <<>> = w /\ <<>> \o w = w
      BY <2>2, <2>3, EmptyEnds
    <3>3. <<>> \o <<>> \o p \o <<>> \o <<>> \o <<>> = p /\ <<>> \o <<>> \o w \o <<>> \o <<>> \o <<>> = w
      BY <3>1, <3>2
    <3> QED
      BY <2>4, <3>3
  <2> QED
    BY <2>5 DEF p, w
<1>4. ASSUME t \in DOMAIN NcasmParse
      PROVE  /\ mdr_packet_from_frame(t) = NcasmParse[t]
             /\ mdr_packet_to_frame(t) = NcasmWrite[t]
  <2> DEFINE p == NcasmParse[t]
             w == NcasmWrite[t]
  <2>1. t \in DOMAIN NcasmWrite
        /\ t \notin DOMAIN ConnectParse /\ t \notin DOMAIN CommonParse /\ t \notin DOMAIN EqebbParse /\ t \notin DOMAIN PlayParse /\ t \notin DOMAIN SystemParse
        /\ t \notin DOMAIN ConnectWrite /\ t \notin DOMAIN CommonWrite /\ t \notin DOMAIN EqebbWrite /\ t \notin DOMAIN PlayWrite /\ t \notin DOMAIN SystemWrite
    BY <1>4, ParseDomains, ConnectMirrored, CommonMirrored, EqebbMirrored, NcasmMirrored, PlayMirrored, SystemMirrored
  <2>2. Neat(p) /\ Orderly(p) /\ IsSeq(p)
    BY <1>4, NcasmParseOrderly DEF Neat
  <2>3. Mirrored(w, p) /\ IsSeq(w)
    BY <1>4, NcasmMirrored DEF Mirrored, Mirror, MirrorSet, MirrorStep
  <2>4. /\ mdr_packet_from_frame(t) = <<>> \o <<>> \o <<>> \o p \o <<>> \o <<>>
        /\ mdr_packet_to_frame(t) = <<>> \o <<>> \o <<>> \o w \o <<>> \o <<>>
    BY <1>4, <2>1, Zenon DEF mdr_packet_from_frame, mdr_packet_to_frame, In
  <2> HIDE DEF p, w
  <2>5. mdr_packet_from_frame(t) = p /\ mdr_packet_to_frame(t) = w
    <3>1. <<>> \o <<>> = <<>>
      OBVIOUS
    <3>2. p \o <<>> = p /\ <<>> \o p = p /\ w \o <<>> = w /\ <<>> \o w = w
      BY <2>2, <2>3, EmptyEnds
    <3>3. <<>> \o <<>> \o <<>> \o p \o <<>> \o <<>> = p /\ <<>> \o <<>> \o <<>> \o w \o <<>> \o <<>> = w
      BY <3>1, <3>2
    <3> QED
      BY <2>4, <3>3
  <2> QED
    BY <2>5 DEF p, w
<1>5. ASSUME t \in DOMAIN PlayParse
      PROVE  /\ mdr_packet_from_frame(t) = PlayParse[t]
             /\ mdr_packet_to_frame(t) = PlayWrite[t]
  <2> DEFINE p == PlayParse[t]
             w == PlayWrite[t]
  <2>1. t \in DOMAIN PlayWrite
        /\ t \notin DOMAIN ConnectParse /\ t \notin DOMAIN CommonParse /\ t \notin DOMAIN EqebbParse /\ t \notin DOMAIN NcasmParse /\ t \notin DOMAIN SystemParse
        /\ t \notin DOMAIN ConnectWrite /\ t \notin DOMAIN CommonWrite /\ t \notin DOMAIN EqebbWrite /\ t \notin DOMAIN NcasmWrite /\ t \notin DOMAIN SystemWrite
    BY <1>5, ParseDomains, ConnectMirrored, CommonMirrored, EqebbMirrored, NcasmMirrored, PlayMirrored, SystemMirrored
  <2>2. Neat(p) /\ Orderly(p) /\ IsSeq(p)
    BY <1>5, PlayParseOrderly DEF Neat
  <2>3. Mirrored(w, p) /\ IsSeq(w)
    BY <1>5, PlayMirrored DEF Mirrored, Mirror, MirrorSet, MirrorStep
  <2>4. /\ mdr_packet_from_frame(t) = <<>> \o <<>> \o <<>> \o <<>> \o p \o <<>>
        /\ mdr_packet_to_frame(t) = <<>> \o <<>> \o <<>> \o <<>> \o w \o <<>>
    BY <1>5, <2>1, Zenon DEF mdr_packet_from_frame, mdr_packet_to_frame, In
  <2> HIDE DEF p, w
  <2>5. mdr_packet_from_frame(t) = p /\ mdr_packet_to_frame(t) = w
    <3>1. <<>> \o <<>> = <<>>
      OBVIOUS
    <3>2. p \o <<>> = p /\ <<>> \o p = p /\ w \o <<>> = w /\ <<>> \o w = w
      BY <2>2, <2>3, EmptyEnds
    <3>3. <<>> \o <<>> \o <<>> \o <<>> \o p \o <<>> = p /\ <<>> \o <<>> \o <<>> \o <<>> \o w \o <<>> = w
      BY <3>1, <3>2
    <3> QED
      BY <2>4, <3>3
  <2> QED
    BY <2>5 DEF p, w
<1>6. ASSUME t \in DOMAIN SystemParse
      PROVE  /\ mdr_packet_from_frame(t) = SystemParse[t]
             /\ mdr_packet_to_frame(t) = SystemWrite[t]
  <2> DEFINE p == SystemParse[t]
             w == SystemWrite[t]
  <2>1. t \in DOMAIN SystemWrite
        /\ t \notin DOMAIN ConnectParse /\ t \notin DOMAIN CommonParse /\ t \notin DOMAIN EqebbParse /\ t \notin DOMAIN NcasmParse /\ t \notin DOMAIN PlayParse
        /\ t \notin DOMAIN ConnectWrite /\ t \notin DOMAIN CommonWrite /\ t \notin DOMAIN EqebbWrite /\ t \notin DOMAIN NcasmWrite /\ t \notin DOMAIN PlayWrite
    BY <1>6, ParseDomains, ConnectMirrored, CommonMirrored, EqebbMirrored, NcasmMirrored, PlayMirrored, SystemMirrored
  <2>2. Neat(p) /\ Orderly(p) /\ IsSeq(p)
    BY <1>6, SystemParseOrderly DEF Neat
  <2>3. Mirrored(w, p) /\ IsSeq(w)
    BY <1>6, SystemMirrored DEF Mirrored, Mirror, MirrorSet, MirrorStep
  <2>4. /\ mdr_packet_from_frame(t) = <<>> \o <<>> \o <<>> \o <<>> \o <<>> \o p
        /\ mdr_packet_to_frame(t) = <<>> \o <<>> \o <<>> \o <<>> \o <<>> \o w
    BY <1>6, <2>1, Zenon DEF mdr_packet_from_frame, mdr_packet_to_frame, In
  <2> HIDE DEF p, w
  <2>5. mdr_packet_from_frame(t) = p /\ mdr_packet_to_frame(t) = w
    <3>1. <<>> \o <<>> = <<>>
      OBVIOUS
    <3>2. p \o <<>> = p /\ <<>> \o p = p /\ w \o <<>> = w /\ <<>> \o w = w
      BY <2>2, <2>3, EmptyEnds
    <3>3. <<>> \o <<>> \o <<>> \o <<>> \o <<>> \o p = p /\ <<>> \o <<>> \o <<>> \o <<>> \o <<>> \o w = w
      BY <3>1, <3>2
    <3> QED
      BY <2>4, <3>3
  <2> QED
    BY <2>5 DEF p, w
<1> QED
  BY <1>1, <1>2, <1>3, <1>4, <1>5, <1>6

LEMMA Layouts ==
  ASSUME NEW t \in PacketTypes
  PROVE  /\ Neat(mdr_packet_from_frame(t)) /\ Orderly(mdr_packet_from_frame(t))
         /\ IsSeq(mdr_packet_to_frame(t))
         /\ Mirrored(mdr_packet_to_frame(t), mdr_packet_from_frame(t))
<1>1. CASE t \in DOMAIN ConnectParse
  <2>1. Neat(ConnectParse[t]) /\ Orderly(ConnectParse[t])
    BY <1>1, ConnectParseOrderly
  <2>2. Mirrored(ConnectWrite[t], ConnectParse[t]) /\ IsSeq(ConnectWrite[t])
    BY <1>1, ConnectMirrored DEF Mirrored, Mirror, MirrorSet, MirrorStep
  <2> QED
    BY <1>1, <2>1, <2>2, LayoutsAre
<1>2. CASE t \in DOMAIN CommonParse
  <2>1. Neat(CommonParse[t]) /\ Orderly(CommonParse[t])
    BY <1>2, CommonParseOrderly
  <2>2. Mirrored(CommonWrite[t], CommonParse[t]) /\ IsSeq(CommonWrite[t])
    BY <1>2, CommonMirrored DEF Mirrored, Mirror, MirrorSet, MirrorStep
  <2> QED
    BY <1>2, <2>1, <2>2, LayoutsAre
<1>3. CASE t \in DOMAIN EqebbParse
  <2>1. Neat(EqebbParse[t]) /\ Orderly(EqebbParse[t])
    BY <1>3, EqebbParseOrderly
  <2>2. Mirrored(EqebbWrite[t], EqebbParse[t]) /\ IsSeq(EqebbWrite[t])
    BY <1>3, EqebbMirrored DEF Mirrored, Mirror, MirrorSet, MirrorStep
  <2> QED
    BY <1>3, <2>1, <2>2, LayoutsAre
<1>4. CASE t \in DOMAIN NcasmParse
  <2>1. Neat(NcasmParse[t]) /\ Orderly(NcasmParse[t])
    BY <1>4, NcasmParseOrderly
  <2>2. Mirrored(NcasmWrite[t], NcasmParse[t]) /\ IsSeq(NcasmWrite[t])
    BY <1>4, NcasmMirrored DEF Mirrored, Mirror, MirrorSet, MirrorStep
  <2> QED
    BY <1>4, <2>1, <2>2, LayoutsAre
<1>5. CASE t \in DOMAIN PlayParse
  <2>1. Neat(PlayParse[t]) /\ Orderly(PlayParse[t])
    BY <1>5, PlayParseOrderly
  <2>2. Mirrored(PlayWrite[t], PlayParse[t]) /\ IsSeq(PlayWrite[t])
    BY <1>5, PlayMirrored DEF Mirrored, Mirror, MirrorSet, MirrorStep
  <2> QED
    BY <1>5, <2>1, <2>2, LayoutsAre
<1>6. CASE t \in DOMAIN SystemParse
  <2>1. Neat(SystemParse[t]) /\ Orderly(SystemParse[t])
    BY <1>6, SystemParseOrderly
  <2>2. Mirrored(SystemWrite[t], SystemParse[t]) /\ IsSeq(SystemWrite[t])
    BY <1>6, SystemMirrored DEF Mirrored, Mirror, MirrorSet, MirrorStep
  <2> QED
    BY <1>6, <2>1, <2>2, LayoutsAre
<1> QED
  BY <1>1, <1>2, <1>3, <1>4, <1>5, <1>6 DEF PacketTypes

-----------------------------------------------------------------------------
(***************************************************************************)
(* What a parser has done when it is at a stack s, with the fields F and   *)
(* the pointers Q of the packet set: for each layout that was entered, a   *)
(* field of it is still on the stack, or done.                             *)
(***************************************************************************)
On(s, path, field) == \E i \in 1..Len(s) : s[i] = [path |-> path, field |-> field]

LoopField(f, d) ==
  [op |-> "loop", name |-> f.name, count |-> f.count, element |-> f.element, done |-> d]

Done(f, p, T, s, F, Q) ==
  /\ f.op = "enum" => Append(p, f.name) \in DOMAIN F /\ F[Append(p, f.name)] \in f.values
  /\ f.op = "each" =>
       /\ Append(p, f.count) \in DOMAIN F
       /\ Append(p, f.name) \in DOMAIN Q
       /\ \A k \in 1..F[Append(p, f.count)] :
            \/ <<f.element, p \o <<f.name, k>>>> \in T
            \/ \E d \in Nat : d < k /\ On(s, p, LoopField(f, d))
  /\ f.op = "switch" =>
       /\ Append(p, f.name) \in DOMAIN F
       /\ \A c \in DOMAIN f.cases :
            F[Append(p, f.name)] \in f.cases[c].values => <<f.cases[c].layout, p>> \in T

Built(T, s, F, Q) ==
  \A l, p : <<l, p>> \in T =>
    \A i \in DOMAIN l : On(s, p, l[i]) \/ Done(l[i], p, T, s, F, Q)

LEMMA OnPush ==
  ASSUME NEW s, Stack(s), s # <<>>, NEW new, IsSeq(new), NEW p, NEW f
  PROVE  /\ On(s, p, f) => s[1] = [path |-> p, field |-> f] \/ On(new \o Tail(s), p, f)
         /\ On(new, p, f) => On(new \o Tail(s), p, f)
<1> DEFINE t == Tail(s)
           r == new \o t
<1>1. /\ Len(s) \in Nat /\ Len(s) > 0 /\ IsSeq(t) /\ Len(t) = Len(s) - 1
      /\ \A i \in 1..(Len(s) - 1) : t[i] = s[i + 1]
  BY SeqTail, SeqLen DEF Stack
<1>2. /\ IsSeq(r) /\ Len(r) = Len(new) + Len(t) /\ Len(new) \in Nat
      /\ \A i \in 1..Len(new) : r[i] = new[i]
      /\ \A i \in 1..Len(t) : r[Len(new) + i] = t[i]
  <2>1. IsSeq(t) /\ IsSeq(new) /\ Len(new) \in Nat
    BY <1>1, SeqLen
  <2> HIDE DEF t
  <2>2. /\ IsSeq(r) /\ Len(r) = Len(new) + Len(t)
        /\ \A i \in 1..Len(new) : r[i] = new[i]
        /\ \A i \in 1..Len(t) : r[Len(new) + i] = t[i]
    BY <2>1, SeqConcat
  <2> QED
    BY <2>1, <2>2
<1> HIDE DEF t, r
<1>3. ASSUME NEW i \in 1..Len(s), s[i] = [path |-> p, field |-> f], i # 1
      PROVE  On(r, p, f)
  <2>1. i - 1 \in 1..Len(t) /\ i - 1 \in 1..(Len(s) - 1) /\ (i - 1) + 1 = i
    BY <1>1, <1>3
  <2>2. r[Len(new) + (i - 1)] = s[i]
    <3>1. t[i - 1] = s[(i - 1) + 1]
      BY <1>1, <2>1
    <3> QED
      BY <1>2, <2>1, <3>1
  <2>3. Len(new) + (i - 1) \in 1..Len(r)
    BY <1>1, <1>2, <2>1
  <2> QED
    BY <1>3, <2>2, <2>3 DEF On
<1>4. On(s, p, f) => s[1] = [path |-> p, field |-> f] \/ On(r, p, f)
  BY <1>3 DEF On
<1>5. On(new, p, f) => On(r, p, f)
  BY <1>1, <1>2 DEF On
<1> QED
  BY <1>4, <1>5 DEF r, t

LEMMA BuiltPush ==
  ASSUME NEW s, Stack(s), s # <<>>, NEW new, IsSeq(new),
         NEW T, NEW T2, T \subseteq T2, NEW F, NEW F2, NEW Q, NEW Q2,
         \A q \in DOMAIN F : q \in DOMAIN F2 /\ F2[q] = F[q],
         DOMAIN Q \subseteq DOMAIN Q2,
         Built(T, s, F, Q),
         \A l, p : <<l, p>> \in T => \A i \in DOMAIN l :
           s[1] = [path |-> p, field |-> l[i]] =>
             Done(l[i], p, T2, new \o Tail(s), F2, Q2),
         \A f, p : \A d \in Nat :
           s[1] = [path |-> p, field |-> LoopField(f, d)] =>
             \A k \in 1..F[Append(p, f.count)] : d < k =>
               \/ <<f.element, p \o <<f.name, k>>>> \in T2
               \/ \E e \in Nat : e < k /\ On(new, p, LoopField(f, e)),
         \A l, p : <<l, p>> \in T2 /\ <<l, p>> \notin T => \A i \in DOMAIN l : On(new, p, l[i])
  PROVE  Built(T2, new \o Tail(s), F2, Q2)
<1> DEFINE r == new \o Tail(s)
<1> SUFFICES ASSUME NEW l, NEW p, <<l, p>> \in T2, NEW i \in DOMAIN l, ~On(r, p, l[i])
             PROVE  Done(l[i], p, T2, r, F2, Q2)
  BY DEF Built
<1>1. <<l, p>> \in T
  BY OnPush
<1>2. CASE s[1] = [path |-> p, field |-> l[i]]
  BY <1>1, <1>2
<1>3. CASE s[1] # [path |-> p, field |-> l[i]]
  <2> DEFINE f == l[i]
  <2>1. Done(f, p, T, s, F, Q)
    <3>1. ~On(s, p, f)
      BY <1>3, OnPush
    <3> QED
      BY <1>1, <3>1 DEF Built
  <2> HIDE DEF f, r
  <2>2. f.op = "enum" => Append(p, f.name) \in DOMAIN F2 /\ F2[Append(p, f.name)] \in f.values
    BY <2>1 DEF Done
  <2>3. f.op = "switch" =>
       /\ Append(p, f.name) \in DOMAIN F2
       /\ \A c \in DOMAIN f.cases :
            F2[Append(p, f.name)] \in f.cases[c].values => <<f.cases[c].layout, p>> \in T2
    BY <2>1 DEF Done
  <2>4. ASSUME f.op = "each"
        PROVE  /\ Append(p, f.count) \in DOMAIN F2
               /\ Append(p, f.name) \in DOMAIN Q2
               /\ \A k \in 1..F2[Append(p, f.count)] :
                    \/ <<f.element, p \o <<f.name, k>>>> \in T2
                    \/ \E d \in Nat : d < k /\ On(r, p, LoopField(f, d))
    <3>1. /\ Append(p, f.count) \in DOMAIN F
          /\ Append(p, f.name) \in DOMAIN Q
          /\ \A k \in 1..F[Append(p, f.count)] :
               \/ <<f.element, p \o <<f.name, k>>>> \in T
               \/ \E d \in Nat : d < k /\ On(s, p, LoopField(f, d))
      BY <2>1, <2>4 DEF Done
    <3>2. F2[Append(p, f.count)] = F[Append(p, f.count)] /\ Append(p, f.count) \in DOMAIN F2
          /\ Append(p, f.name) \in DOMAIN Q2
      BY <3>1
    <3>3. ASSUME NEW k \in 1..F[Append(p, f.count)]
          PROVE  \/ <<f.element, p \o <<f.name, k>>>> \in T2
                 \/ \E d \in Nat : d < k /\ On(r, p, LoopField(f, d))
      <4>1. CASE <<f.element, p \o <<f.name, k>>>> \in T
        BY <4>1
      <4>2. ASSUME NEW d \in Nat, d < k, On(s, p, LoopField(f, d))
            PROVE  \/ <<f.element, p \o <<f.name, k>>>> \in T2
                   \/ \E e \in Nat : e < k /\ On(r, p, LoopField(f, e))
        <5>1. CASE On(r, p, LoopField(f, d))
          BY <4>2, <5>1
        <5>2. CASE s[1] = [path |-> p, field |-> LoopField(f, d)]
          <6>1. \/ <<f.element, p \o <<f.name, k>>>> \in T2
                \/ \E e \in Nat : e < k /\ On(new, p, LoopField(f, e))
            BY <4>2, <5>2
          <6>2. \A e : On(new, p, LoopField(f, e)) => On(r, p, LoopField(f, e))
            BY OnPush DEF r
          <6> QED
            BY <6>1, <6>2
        <5> QED
          BY <4>2, <5>1, <5>2, OnPush DEF r
      <4> QED
        BY <3>1, <4>1, <4>2
    <3> QED
      BY <3>2, <3>3
  <2> QED
    BY <2>2, <2>3, <2>4 DEF Done, f
<1> QED
  BY <1>2, <1>3

\* The field at q is set, or will be before the item at m is reached.
Known(q, m, s, F) ==
  \/ q \in DOMAIN F
  \/ \E k \in 1..Len(s) : k < m /\ s[k].field.op \in Readers /\ Spot(s[k]) = q

CountsKnown(s, F) ==
  \A m \in 1..Len(s) :
    /\ s[m].field.op = "each" => Known(Append(s[m].path, s[m].field.count), m, s, F)
    /\ s[m].field.op = "loop" => Append(s[m].path, s[m].field.count) \in DOMAIN F
    /\ s[m].field.op = "switch" => Known(Spot(s[m]), m, s, F)

OrderlyItem(item) ==
  /\ item.field.op \in Several => Orderly(item.field.element)
  /\ item.field.op = "switch" =>
       /\ \A c \in DOMAIN item.field.cases : Orderly(item.field.cases[c].layout)
       /\ \A c, d \in DOMAIN item.field.cases :
            c # d => item.field.cases[c].values \cap item.field.cases[d].values = {}

LoopsHeld(s, Q) == \A m \in 1..Len(s) : s[m].field.op = "loop" => Spot(s[m]) \in DOMAIN Q

Walked(s, F, Q) ==
  /\ Stack(s)
  /\ \A m \in 1..Len(s) : OrderlyItem(s[m])
  /\ CountsKnown(s, F)
  /\ \A q \in DOMAIN F : ~CoveredBy(s, q)
  /\ LoopsHeld(s, Q)

\* The items of new \o Tail(s), one by one.
LEMMA PushItems ==
  ASSUME NEW s, Stack(s), s # <<>>, NEW new, Stack(new)
  PROVE  LET r == new \o Tail(s) IN
         /\ Len(new) \in Nat /\ Len(s) \in Nat /\ Len(r) = Len(new) + Len(s) - 1
         /\ \A i \in 1..Len(new) : i \in 1..Len(r) /\ r[i] = new[i]
         /\ \A i \in 2..Len(s) : Len(new) + i - 1 \in 1..Len(r) /\ r[Len(new) + i - 1] = s[i]
         /\ \A m \in 1..Len(r) : \/ m \in 1..Len(new)
                                 \/ \E i \in 2..Len(s) : m = Len(new) + i - 1
<1> DEFINE t == Tail(s)
           r == new \o t
<1>1. /\ Len(s) \in Nat /\ Len(s) > 0 /\ IsSeq(t) /\ Len(t) = Len(s) - 1
      /\ \A i \in 1..(Len(s) - 1) : t[i] = s[i + 1]
  BY SeqTail, SeqLen DEF Stack
<1>2. IsSeq(new) /\ Len(new) \in Nat
  BY SeqLen DEF Stack
<1>3. /\ Len(r) = Len(new) + Len(t)
      /\ \A i \in 1..Len(new) : r[i] = new[i]
      /\ \A i \in 1..Len(t) : r[Len(new) + i] = t[i]
  <2>1. IsSeq(t) /\ IsSeq(new)
    BY <1>1, <1>2
  <2> HIDE DEF t
  <2> QED
    BY <2>1, SeqConcat
<1> HIDE DEF t, r
<1>4. ASSUME NEW i \in 2..Len(s)
      PROVE  Len(new) + i - 1 \in 1..Len(r) /\ r[Len(new) + i - 1] = s[i]
  <2>1. i - 1 \in 1..Len(t) /\ i - 1 \in 1..(Len(s) - 1) /\ (i - 1) + 1 = i
        /\ Len(new) + i - 1 = Len(new) + (i - 1)
    BY <1>1, <1>2
  <2>2. t[i - 1] = s[(i - 1) + 1]
    BY <1>1, <2>1
  <2>3. r[Len(new) + (i - 1)] = t[i - 1]
    BY <1>3, <2>1
  <2>4. Len(new) + i - 1 \in 1..Len(r)
    BY <1>1, <1>2, <1>3
  <2> QED
    BY <2>1, <2>2, <2>3, <2>4
<1>5. \A i \in 1..Len(new) : i \in 1..Len(r)
  BY <1>1, <1>2, <1>3
<1>6. ASSUME NEW m \in 1..Len(r), m \notin 1..Len(new)
      PROVE  \E i \in 2..Len(s) : m = Len(new) + i - 1
  <2>1. m - Len(new) + 1 \in 2..Len(s) /\ m = Len(new) + (m - Len(new) + 1) - 1
    BY <1>1, <1>2, <1>3, <1>6
  <2> QED
    BY <2>1
<1>7. Len(r) = Len(new) + Len(s) - 1
  BY <1>1, <1>2, <1>3
<1> QED
  BY <1>1, <1>2, <1>3, <1>4, <1>5, <1>6, <1>7 DEF r, t

LEMMA WalkedPush ==
  ASSUME NEW s, NEW F, NEW Q, Walked(s, F, Q), s # <<>>,
         NEW new, Stack(new), NEW F2, NEW Q2,
         \A m \in 1..Len(new) : OrderlyItem(new[m]),
         CountsKnown(new, F2), LoopsHeld(new, Q2),
         \A m \in 1..Len(new) : \A q : /\ Covers(new[m], q) => Covers(s[1], q)
                                       /\ Touches(new[m], q) => Touches(s[1], q),
         DOMAIN F \subseteq DOMAIN F2, DOMAIN Q \subseteq DOMAIN Q2,
         \A q \in DOMAIN F2 : q \in DOMAIN F \/ (Covers(s[1], q) /\ new = <<>>),
         s[1].field.op \in Readers => Spot(s[1]) \in DOMAIN F2
  PROVE  Walked(new \o Tail(s), F2, Q2)
<1> DEFINE r == new \o Tail(s)
           n == Len(new)
<1>1. /\ Stack(s) /\ CountsKnown(s, F) /\ LoopsHeld(s, Q)
      /\ \A m \in 1..Len(s) : OrderlyItem(s[m])
      /\ \A q \in DOMAIN F : ~CoveredBy(s, q)
  BY DEF Walked
<1>2. /\ n \in Nat /\ Len(s) \in Nat /\ Len(r) = n + Len(s) - 1
      /\ \A i \in 1..n : i \in 1..Len(r) /\ r[i] = new[i]
      /\ \A i \in 2..Len(s) : n + i - 1 \in 1..Len(r) /\ r[n + i - 1] = s[i]
      /\ \A m \in 1..Len(r) : m \in 1..n \/ \E i \in 2..Len(s) : m = n + i - 1
  BY <1>1, PushItems
<1>3. Stack(r) /\ \A q : CoveredBy(r, q) => CoveredBy(s, q)
  BY <1>1, PushWithin
<1>4. new = <<>> => r = Tail(s)
  <2>1. IsSeq(Tail(s))
    BY <1>1, SeqTail DEF Stack
  <2> QED
    BY <2>1, EmptyEnds
<1>5. ASSUME NEW q, Covers(s[1], q) PROVE ~CoveredBy(Tail(s), q)
  BY <1>1, <1>5, TailApart
<1> HIDE DEF r, n
<1>6. \A q \in DOMAIN F2 : ~CoveredBy(r, q)
  BY <1>1, <1>3, <1>4, <1>5
<1>7. \A i \in 2..Len(s) : i \in 1..Len(s)
  BY <1>2
<1>8. \A m \in 1..Len(r) : OrderlyItem(r[m])
  <2> SUFFICES ASSUME NEW m \in 1..Len(r) PROVE OrderlyItem(r[m])
    OBVIOUS
  <2>1. CASE m \in 1..n
    BY <1>2, <2>1 DEF n
  <2>2. ASSUME NEW i \in 2..Len(s), m = n + i - 1 PROVE OrderlyItem(r[m])
    BY <1>1, <1>2, <1>7, <2>2
  <2> QED
    BY <1>2, <2>1, <2>2
<1>9. LoopsHeld(r, Q2)
  <2> SUFFICES ASSUME NEW m \in 1..Len(r), r[m].field.op = "loop"
               PROVE  Spot(r[m]) \in DOMAIN Q2
    BY DEF LoopsHeld
  <2>1. CASE m \in 1..n
    BY <1>2, <2>1 DEF LoopsHeld, n
  <2>2. ASSUME NEW i \in 2..Len(s), m = n + i - 1 PROVE Spot(r[m]) \in DOMAIN Q2
    BY <1>1, <1>2, <1>7, <2>2 DEF LoopsHeld
  <2> QED
    BY <1>2, <2>1, <2>2
<1>10. ASSUME NEW i \in 2..Len(s), NEW q, Known(q, i, s, F)
       PROVE  Known(q, n + i - 1, r, F2)
  <2>1. CASE q \in DOMAIN F
    BY <2>1 DEF Known
  <2>2. ASSUME NEW k \in 1..Len(s), k < i, s[k].field.op \in Readers, Spot(s[k]) = q
        PROVE  Known(q, n + i - 1, r, F2)
    <3>1. CASE k = 1
      BY <2>2, <3>1 DEF Known
    <3>2. CASE k # 1
      <4>1. k \in 2..Len(s) /\ n + k - 1 < n + i - 1
        BY <1>2, <2>2, <3>2
      <4> QED
        BY <1>2, <2>2, <4>1 DEF Known
    <3> QED
      BY <3>1, <3>2
  <2> QED
    BY <1>10, <2>1, <2>2 DEF Known
<1>11. ASSUME NEW m \in 1..n, NEW q, Known(q, m, new, F2)
       PROVE  Known(q, m, r, F2)
  <2>1. CASE q \in DOMAIN F2
    BY <2>1 DEF Known
  <2>2. ASSUME NEW k \in 1..Len(new), k < m, new[k].field.op \in Readers, Spot(new[k]) = q
        PROVE  Known(q, m, r, F2)
    BY <1>2, <2>2 DEF Known, n
  <2> QED
    BY <1>11, <2>1, <2>2 DEF Known
<1>12. CountsKnown(r, F2)
  <2> SUFFICES ASSUME NEW m \in 1..Len(r)
      PROVE  /\ r[m].field.op = "each" => Known(Append(r[m].path, r[m].field.count), m, r, F2)
             /\ r[m].field.op = "loop" => Append(r[m].path, r[m].field.count) \in DOMAIN F2
             /\ r[m].field.op = "switch" => Known(Spot(r[m]), m, r, F2)
    BY DEF CountsKnown
  <2>1. CASE m \in 1..n
    BY <1>2, <1>11, <2>1 DEF CountsKnown, n
  <2>2. ASSUME NEW i \in 2..Len(s), m = n + i - 1
        PROVE  /\ r[m].field.op = "each" => Known(Append(r[m].path, r[m].field.count), m, r, F2)
               /\ r[m].field.op = "loop" => Append(r[m].path, r[m].field.count) \in DOMAIN F2
               /\ r[m].field.op = "switch" => Known(Spot(r[m]), m, r, F2)
    <3>1. r[m] = s[i]
      BY <1>2, <2>2
    <3>2. /\ s[i].field.op = "each" => Known(Append(s[i].path, s[i].field.count), i, s, F)
          /\ s[i].field.op = "loop" => Append(s[i].path, s[i].field.count) \in DOMAIN F2
          /\ s[i].field.op = "switch" => Known(Spot(s[i]), i, s, F)
      BY <1>1, <1>7 DEF CountsKnown
    <3> QED
      BY <1>10, <2>2, <3>1, <3>2
  <2> QED
    BY <1>2, <2>1, <2>2
<1> QED
  BY <1>3, <1>6, <1>8, <1>9, <1>12 DEF Walked, r

\* A layout that is entered.
LEMMA EnterOrderly ==
  ASSUME NEW path, IsSeq(path), NEW l, Neat(l), Orderly(l), NEW F, NEW Q
  PROVE  LET e == Enter(path, l) IN
         /\ Stack(e)
         /\ \A m \in 1..Len(e) : OrderlyItem(e[m])
         /\ CountsKnown(e, F)
         /\ LoopsHeld(e, Q)
         /\ \A i \in DOMAIN l : On(e, path, l[i])
<1> DEFINE e == Enter(path, l)
<1>1. /\ Stack(e) /\ Len(e) = Len(l)
      /\ \A i \in 1..Len(l) : e[i] = [path |-> path, field |-> l[i]]
  BY EnterStack
<1>2. DOMAIN l = 1..Len(l)
  BY SeqLen DEF Neat
<1>3. /\ Ordered(l)
      /\ \A i \in DOMAIN l : l[i].op = "each" => Orderly(l[i].element)
      /\ \A i \in DOMAIN l : l[i].op = "switch" =>
           \A c \in DOMAIN l[i].cases : Orderly(l[i].cases[c].layout)
  BY OrderlyIs
<1> HIDE DEF e
<1>4. \A i \in 1..Len(e) : /\ i \in DOMAIN l /\ e[i] = [path |-> path, field |-> l[i]]
                           /\ e[i].path = path /\ e[i].field = l[i]
  BY <1>1, <1>2
<1>5. \A i \in DOMAIN l : On(e, path, l[i])
  BY <1>1, <1>2 DEF On
<1>6. \A i \in DOMAIN l : l[i].op # "loop"
  BY DEF Neat, Single
<1>7. \A m \in 1..Len(e) : OrderlyItem(e[m])
  <2> SUFFICES ASSUME NEW m \in 1..Len(e) PROVE OrderlyItem(e[m])
    OBVIOUS
  <2>1. m \in DOMAIN l /\ e[m].field = l[m] /\ l[m].op # "loop"
    BY <1>4, <1>6
  <2>2. l[m].op = "each" => Orderly(l[m].element)
    BY <1>3, <2>1
  <2>3. l[m].op = "switch" =>
          /\ \A c \in DOMAIN l[m].cases : Orderly(l[m].cases[c].layout)
          /\ \A c, d \in DOMAIN l[m].cases :
               c # d => l[m].cases[c].values \cap l[m].cases[d].values = {}
    BY <1>3, <2>1 DEF Ordered
  <2> QED
    BY <2>1, <2>2, <2>3 DEF OrderlyItem, Several
<1>8. LoopsHeld(e, Q)
  BY <1>4, <1>6 DEF LoopsHeld
<1>9. ASSUME NEW m \in 1..Len(e), NEW q, NEW j \in DOMAIN l, j < m, l[j].op \in Readers,
             q = Append(path, l[j].name)
      PROVE  Known(q, m, e, F)
  <2>1. j \in 1..Len(e) /\ e[j].field.op \in Readers /\ Spot(e[j]) = q
    BY <1>1, <1>2, <1>4, <1>9 DEF Spot
  <2> QED
    BY <1>9, <2>1 DEF Known
<1>10. CountsKnown(e, F)
  BY <1>3, <1>4, <1>6, <1>9 DEF CountsKnown, Ordered, Spot
<1> QED
  BY <1>1, <1>5, <1>7, <1>8, <1>10 DEF e

-----------------------------------------------------------------------------
(***************************************************************************)
(* The walk of a parser keeps to that.                                     *)
(***************************************************************************)
Parsing(root, s, F, Q) ==
  /\ Walked(s, F, Q)
  /\ \E T : <<root, <<>>>> \in T /\ Built(T, s, F, Q)

LEMMA NoItems ==
  /\ IsSeq(<<>>) /\ Len(<<>>) = 0 /\ Stack(<<>>)
  /\ \A F : CountsKnown(<<>>, F)
  /\ \A Q : LoopsHeld(<<>>, Q)
<1>1. IsSeq(<<>>) /\ Len(<<>>) = 0
  <2>1. <<>> \in Seq({})
    OBVIOUS
  <2>2. IsSeq(<<>>)
    BY <2>1, Zenon DEF IsSeq
  <2> QED
    BY <2>2
<1> QED
  BY <1>1 DEF Stack, Apart, CountsKnown, LoopsHeld

LEMMA ParsingStarts ==
  ASSUME NEW l, Neat(l), Orderly(l)
  PROVE  Parsing(l, Enter(<<>>, l), <<>>, <<>>)
<1> DEFINE e == Enter(<<>>, l)
           T == {<<l, <<>>>>}
<1>1. /\ Stack(e)
      /\ \A m \in 1..Len(e) : OrderlyItem(e[m])
      /\ CountsKnown(e, <<>>)
      /\ LoopsHeld(e, <<>>)
      /\ \A i \in DOMAIN l : On(e, <<>>, l[i])
  BY NoItems, EnterOrderly
<1>2. DOMAIN <<>> = {}
  OBVIOUS
<1> HIDE DEF e
<1>3. Walked(e, <<>>, <<>>)
  BY <1>1, <1>2 DEF Walked
<1>4. Built(T, e, <<>>, <<>>)
  BY <1>1 DEF Built
<1>5. <<l, <<>>>> \in T
  OBVIOUS
<1> HIDE DEF T
<1> QED
  BY <1>3, <1>4, <1>5 DEF Parsing, e

\* What is known of the first item.
LEMMA HeadIs ==
  ASSUME NEW s, NEW F, NEW Q, Walked(s, F, Q), s # <<>>
  PROVE  /\ Stack(s) /\ TidyItem(s[1]) /\ OrderlyItem(s[1])
         /\ s[1] = [path |-> s[1].path, field |-> s[1].field]
         /\ s[1].field.op = "each" => Append(s[1].path, s[1].field.count) \in DOMAIN F
         /\ s[1].field.op = "loop" => /\ Append(s[1].path, s[1].field.count) \in DOMAIN F
                                      /\ Spot(s[1]) \in DOMAIN Q
         /\ s[1].field.op = "switch" => Spot(s[1]) \in DOMAIN F
<1>1. 1 \in 1..Len(s) /\ Len(s) \in Nat
  BY SeqTail, SeqLen DEF Walked, Stack
<1>2. TidyItem(s[1]) /\ OrderlyItem(s[1])
  BY <1>1 DEF Walked, Stack
<1>3. \A q : Known(q, 1, s, F) => q \in DOMAIN F
  BY <1>1 DEF Known
<1>4. s[1] = [path |-> s[1].path, field |-> s[1].field]
  BY <1>2 DEF TidyItem
<1> QED
  BY <1>1, <1>2, <1>3, <1>4 DEF Walked, CountsKnown, LoopsHeld

LEMMA ParsingPops ==
  ASSUME NEW root, NEW s, NEW F, NEW Q, Parsing(root, s, F, Q), s # <<>>,
         NEW F2, NEW Q2,
         \A q \in DOMAIN F : q \in DOMAIN F2 /\ F2[q] = F[q] /\ F[q] \in Nat,
         \A q \in DOMAIN F2 : q \in DOMAIN F \/ (q = Spot(s[1]) /\ s[1].field.op \in Single),
         DOMAIN Q \subseteq DOMAIN Q2,
         s[1].field.op # "each",
         s[1].field.op \in Readers => Spot(s[1]) \in DOMAIN F2,
         s[1].field.op = "enum" => F2[Spot(s[1])] \in s[1].field.values,
         s[1].field.op = "loop" => s[1].field.done = F[Append(s[1].path, s[1].field.count)],
         s[1].field.op = "switch" =>
           \A c \in DOMAIN s[1].field.cases : F[Spot(s[1])] \notin s[1].field.cases[c].values
  PROVE  Parsing(root, Tail(s), F2, Q2)
<1> DEFINE h == s[1]
           new == <<>>
<1>1. /\ Walked(s, F, Q) /\ Stack(s) /\ TidyItem(h)
      /\ h.field.op = "loop" => Append(h.path, h.field.count) \in DOMAIN F
      /\ h.field.op = "switch" => Spot(h) \in DOMAIN F
  BY HeadIs DEF Parsing
<1>2. PICK T : <<root, <<>>>> \in T /\ Built(T, s, F, Q)
  BY DEF Parsing
<1>3. new \o Tail(s) = Tail(s)
  BY <1>1, SeqTail, EmptyEnds DEF Stack
<1>4. IsSeq(new) /\ Stack(new) /\ Len(new) = 0 /\ CountsKnown(new, F2) /\ LoopsHeld(new, Q2)
      /\ new = <<>>
  BY NoItems
<1> HIDE DEF new, h
<1>5. \A q \in DOMAIN F2 : q \in DOMAIN F \/ (Covers(h, q) /\ new = <<>>)
  BY <1>1, <1>4, CoversSpot DEF h
<1>6. Walked(new \o Tail(s), F2, Q2)
  <2>1. /\ \A m \in 1..Len(new) : OrderlyItem(new[m])
        /\ \A m \in 1..Len(new) : \A q : /\ Covers(new[m], q) => Covers(s[1], q)
                                         /\ Touches(new[m], q) => Touches(s[1], q)
    BY <1>4
  <2>2. DOMAIN F \subseteq DOMAIN F2
    OBVIOUS
  <2> QED
    BY <1>1, <1>4, <1>5, <2>1, <2>2, WalkedPush DEF h
<1>7. Built(T, new \o Tail(s), F2, Q2)
  <2>1. ASSUME NEW l, NEW p, <<l, p>> \in T, NEW i \in DOMAIN l,
               s[1] = [path |-> p, field |-> l[i]]
        PROVE  Done(l[i], p, T, new \o Tail(s), F2, Q2)
    <3> DEFINE f == l[i]
    <3>1. h.path = p /\ h.field = f
      BY <2>1 DEF h
    <3>2. Spot(h) = Append(p, f.name)
      BY <3>1 DEF Spot
    <3>3. /\ f.op # "each"
          /\ f.op \in Readers => Spot(h) \in DOMAIN F2
          /\ f.op = "enum" => F2[Spot(h)] \in f.values
          /\ f.op = "switch" =>
               \A c \in DOMAIN f.cases : F[Spot(h)] \notin f.cases[c].values
      BY <3>1 DEF h
    <3> HIDE DEF f
    <3>4. f.op = "enum" => Append(p, f.name) \in DOMAIN F2 /\ F2[Append(p, f.name)] \in f.values
      BY <3>2, <3>3 DEF Readers
    <3>5. f.op = "switch" =>
            /\ Append(p, f.name) \in DOMAIN F2
            /\ \A c \in DOMAIN f.cases : F2[Append(p, f.name)] \notin f.cases[c].values
      BY <1>1, <3>1, <3>2, <3>3
    <3> QED
      BY <3>3, <3>4, <3>5 DEF Done, f
  <2>2. ASSUME NEW f, NEW p, NEW d \in Nat, s[1] = [path |-> p, field |-> LoopField(f, d)],
               NEW k \in 1..F[Append(p, f.count)]
        PROVE  ~(d < k)
    <3>1. h.path = p /\ h.field.op = "loop" /\ h.field.count = f.count /\ h.field.done = d
      BY <2>2 DEF h, LoopField
    <3>2. d = F[Append(p, f.count)] /\ F[Append(p, f.count)] \in Nat
      BY <1>1, <3>1 DEF h
    <3> QED
      BY <2>2, <3>2
  <2>3. /\ \A q \in DOMAIN F : q \in DOMAIN F2 /\ F2[q] = F[q]
        /\ Stack(s) /\ IsSeq(new) /\ T \subseteq T /\ Built(T, s, F, Q)
    BY <1>1, <1>2, <1>4
  <2>4. \A l, p : <<l, p>> \in T => \A i \in DOMAIN l :
          s[1] = [path |-> p, field |-> l[i]] => Done(l[i], p, T, new \o Tail(s), F2, Q2)
    BY <2>1
  <2>5. \A f, p : \A d \in Nat :
           s[1] = [path |-> p, field |-> LoopField(f, d)] =>
             \A k \in 1..F[Append(p, f.count)] : d < k =>
               \/ <<f.element, p \o <<f.name, k>>>> \in T
               \/ \E e \in Nat : e < k /\ On(new, p, LoopField(f, e))
    BY <2>2
  <2> QED
    BY <2>3, <2>4, <2>5, BuiltPush
<1> QED
  BY <1>2, <1>3, <1>6, <1>7 DEF Parsing

LEMMA ParsingLoops ==
  ASSUME NEW root, NEW s, NEW F, NEW Q, Parsing(root, s, F, Q), s # <<>>,
         s[1].field.op = "each", NEW Q2, DOMAIN Q \subseteq DOMAIN Q2, Spot(s[1]) \in DOMAIN Q2
  PROVE  Parsing(root, LoopOf(s[1]) \o Tail(s), F, Q2)
<1> DEFINE h == s[1]
           new == LoopOf(h)
<1>1. /\ Walked(s, F, Q) /\ Stack(s) /\ TidyItem(h) /\ OrderlyItem(h)
      /\ Append(h.path, h.field.count) \in DOMAIN F
  BY HeadIs DEF Parsing
<1>2. PICK T : <<root, <<>>>> \in T /\ Built(T, s, F, Q)
  BY DEF Parsing
<1>3. /\ Stack(new) /\ Len(new) = 1
      /\ new[1].path = h.path
      /\ new[1].field = LoopField(h.field, 0)
      /\ Spot(new[1]) = Spot(h)
      /\ \A q : Covers(new[1], q) => Covers(h, q)
      /\ \A q : Touches(new[1], q) => Touches(h, q)
  BY <1>1, LoopStack DEF LoopField
<1>4. new[1] = [path |-> h.path, field |-> LoopField(h.field, 0)]
  BY SeqOne DEF LoopOf, LoopField
<1>5. /\ LoopField(h.field, 0).op = "loop" /\ LoopField(h.field, 0).count = h.field.count
      /\ LoopField(h.field, 0).element = h.field.element
  BY DEF LoopField
<1> HIDE DEF new, h
<1>6. Walked(new \o Tail(s), F, Q2)
  <2>1. /\ \A m \in 1..Len(new) : OrderlyItem(new[m])
        /\ CountsKnown(new, F) /\ LoopsHeld(new, Q2)
    BY <1>1, <1>3, <1>5 DEF OrderlyItem, CountsKnown, LoopsHeld, Several, h
  <2>2. /\ \A m \in 1..Len(new) : \A q : /\ Covers(new[m], q) => Covers(s[1], q)
                                         /\ Touches(new[m], q) => Touches(s[1], q)
    BY <1>3 DEF h
  <2>3. s[1].field.op \notin Readers
    BY DEF Readers
  <2> QED
    BY <1>1, <1>3, <2>1, <2>2, <2>3, WalkedPush
<1>7. Built(T, new \o Tail(s), F, Q2)
  <2>0. IsSeq(new)
    BY <1>3 DEF Stack
  <2>1. ASSUME NEW l, NEW p, <<l, p>> \in T, NEW i \in DOMAIN l,
               s[1] = [path |-> p, field |-> l[i]]
        PROVE  Done(l[i], p, T, new \o Tail(s), F, Q2)
    <3> DEFINE f == l[i]
    <3>1. h.path = p /\ h.field = f
      BY <2>1 DEF h
    <3>2. Spot(h) = Append(p, f.name)
      BY <3>1 DEF Spot
    <3> HIDE DEF f
    <3>3. /\ f.op = "each" /\ Append(p, f.name) \in DOMAIN Q2 /\ Append(p, f.count) \in DOMAIN F
      BY <1>1, <3>1, <3>2 DEF h
    <3>4. On(new, p, LoopField(f, 0))
      BY <1>3, <1>4, <3>1 DEF On
    <3>5. On(new \o Tail(s), p, LoopField(f, 0))
      BY <1>1, <2>0, <3>4, OnPush
    <3>6. \A k \in 1..F[Append(p, f.count)] : 0 < k
      OBVIOUS
    <3> QED
      BY <3>3, <3>5, <3>6 DEF Done, f
  <2>2. ASSUME NEW f, NEW p, NEW d \in Nat, s[1] = [path |-> p, field |-> LoopField(f, d)]
        PROVE  FALSE
    BY <2>2 DEF LoopField
  <2> QED
    BY <1>1, <1>2, <2>0, <2>1, <2>2, BuiltPush
<1> QED
  BY <1>2, <1>6, <1>7 DEF Parsing, new, h

\* The parser goes into a case.
LEMMA ParsingBranches ==
  ASSUME NEW root, NEW s, NEW F, NEW Q, Parsing(root, s, F, Q), s # <<>>,
         s[1].field.op = "switch",
         NEW c \in DOMAIN s[1].field.cases,
         F[Spot(s[1])] \in s[1].field.cases[c].values
  PROVE  Parsing(root, Enter(s[1].path, s[1].field.cases[c].layout) \o Tail(s), F, Q)
<1> DEFINE h == s[1]
           lay == h.field.cases[c].layout
           new == Enter(h.path, lay)
<1>1. /\ Walked(s, F, Q) /\ Stack(s) /\ TidyItem(h) /\ OrderlyItem(h)
      /\ Spot(h) \in DOMAIN F
  BY HeadIs DEF Parsing
<1>2. PICK T : <<root, <<>>>> \in T /\ Built(T, s, F, Q)
  BY DEF Parsing
<1>3. /\ IsSeq(h.path) /\ Tidy(lay) /\ Neat(lay) /\ Orderly(lay)
      /\ \A d, e \in DOMAIN h.field.cases :
           d # e => h.field.cases[d].values \cap h.field.cases[e].values = {}
  BY <1>1, TidyIs DEF TidyItem, TidyCases, OrderlyItem
<1>4. /\ Stack(new)
      /\ \A m \in 1..Len(new) : OrderlyItem(new[m])
      /\ CountsKnown(new, F)
      /\ LoopsHeld(new, Q)
      /\ \A i \in DOMAIN lay : On(new, h.path, lay[i])
  <2>1. IsSeq(h.path) /\ Neat(lay) /\ Orderly(lay)
    BY <1>3
  <2> HIDE DEF lay
  <2> QED
    BY <2>1, EnterOrderly
<1>5. \A m \in 1..Len(new) : \A q : /\ Covers(new[m], q) => Covers(s[1], q)
                                    /\ Touches(new[m], q) => Touches(s[1], q)
  BY <1>1, CaseStack
<1>6. IsSeq(new)
  BY <1>4 DEF Stack
<1> DEFINE T2 == T \cup {<<lay, h.path>>}
<1>7. F[Spot(h)] \in h.field.cases[c].values /\ h.field.op = "switch" /\ c \in DOMAIN h.field.cases
  OBVIOUS
<1>8. s[1] = h /\ lay = h.field.cases[c].layout
  OBVIOUS
<1> HIDE DEF new, h, lay
<1>9. Walked(new \o Tail(s), F, Q)
  <2>1. s[1].field.op \notin Readers
    BY DEF Readers
  <2> QED
    BY <1>1, <1>4, <1>5, <2>1, WalkedPush
<1>10. Built(T2, new \o Tail(s), F, Q)
  <2>1. ASSUME NEW l, NEW p, <<l, p>> \in T, NEW i \in DOMAIN l,
               s[1] = [path |-> p, field |-> l[i]]
        PROVE  Done(l[i], p, T2, new \o Tail(s), F, Q)
    <3> DEFINE f == l[i]
    <3>1. h.path = p /\ h.field = f
      BY <1>8, <2>1
    <3>2. Spot(h) = Append(p, f.name)
      BY <3>1 DEF Spot
    <3> HIDE DEF f
    <3>3. \A d \in DOMAIN f.cases :
            F[Append(p, f.name)] \in f.cases[d].values => <<f.cases[d].layout, p>> \in T2
      <4> SUFFICES ASSUME NEW d \in DOMAIN f.cases, F[Append(p, f.name)] \in f.cases[d].values
                   PROVE  <<f.cases[d].layout, p>> \in T2
        OBVIOUS
      <4>1. d = c
        BY <1>3, <1>7, <3>1, <3>2
      <4> QED
        BY <1>8, <3>1, <4>1
    <3>4. f.op = "switch" /\ Append(p, f.name) \in DOMAIN F
      BY <1>1, <1>7, <3>1, <3>2
    <3> QED
      BY <3>3, <3>4 DEF Done, f
  <2>2. \A f, p : \A d \in Nat : s[1] # [path |-> p, field |-> LoopField(f, d)]
    BY <1>7, <1>8 DEF LoopField
  <2>3. \A l, p : <<l, p>> \in T2 /\ <<l, p>> \notin T => \A i \in DOMAIN l : On(new, p, l[i])
    BY <1>4
  <2>4. T \subseteq T2
    OBVIOUS
  <2> HIDE DEF T2
  <2> QED
    BY <1>1, <1>2, <1>6, <2>1, <2>2, <2>3, <2>4, BuiltPush
<1>11. <<root, <<>>>> \in T2
  BY <1>2
<1> HIDE DEF T2
<1> QED
  BY <1>9, <1>10, <1>11 DEF Parsing, new, h, lay

\* The parser goes into an element of an array.
LEMMA ParsingTurns ==
  ASSUME NEW root, NEW s, NEW F, NEW Q, Parsing(root, s, F, Q), s # <<>>,
         s[1].field.op = "loop",
         F[Append(s[1].path, s[1].field.count)] \in Nat
  PROVE  Parsing(root, TurnOf(s[1]) \o Tail(s), F, Q)
<1> DEFINE h == s[1]
           lay == h.field.element
           next == NextElement(h)
           body == Enter(next, lay)
           new == TurnOf(h)
<1>1. /\ Walked(s, F, Q) /\ Stack(s) /\ TidyItem(h) /\ OrderlyItem(h)
      /\ Append(h.path, h.field.count) \in DOMAIN F
      /\ Spot(h) \in DOMAIN Q
  BY HeadIs DEF Parsing
<1>2. PICK T : <<root, <<>>>> \in T /\ Built(T, s, F, Q)
  BY DEF Parsing
<1>3. /\ IsSeq(h.path) /\ Tidy(lay) /\ Neat(lay) /\ Orderly(lay) /\ h.field.done \in Nat
      /\ h = [path |-> h.path, field |-> h.field]
  BY <1>1, TidyIs DEF TidyItem, Several, OrderlyItem
<1>4. /\ Stack(new) /\ IsSeq(next) /\ IsSeq(lay)
      /\ Len(new) = Len(lay) + 1 /\ Len(lay) \in Nat
      /\ \A i \in 1..Len(lay) : new[i] = [path |-> next, field |-> lay[i]]
      /\ new[Len(lay) + 1] = Later(h)
      /\ \A m \in 1..Len(new) : \A q : /\ Covers(new[m], q) => Covers(h, q)
                                       /\ Touches(new[m], q) => Touches(h, q)
  BY <1>1, TurnStack, SeqLen
<1>5. /\ TidyItem(Later(h)) /\ Later(h).path = h.path
      /\ Later(h).field = LoopField(h.field, h.field.done + 1)
      /\ Later(h) = [path |-> h.path, field |-> LoopField(h.field, h.field.done + 1)]
  <2>1. /\ TidyItem(Later(h)) /\ Later(h).path = h.path
        /\ Later(h).field = LoopField(h.field, h.field.done + 1)
    BY <1>1, LaterIs DEF LoopField
  <2> QED
    BY <2>1 DEF TidyItem
<1>6. /\ Later(h).field.op = "loop" /\ Later(h).field.count = h.field.count
      /\ Later(h).field.element = h.field.element
      /\ Spot(Later(h)) = Spot(h)
  BY <1>5 DEF LoopField, Spot
<1>7. /\ \A m \in 1..Len(body) : OrderlyItem(body[m])
      /\ CountsKnown(body, F)
      /\ LoopsHeld(body, Q)
      /\ Len(body) = Len(lay)
      /\ \A i \in 1..Len(lay) : body[i] = [path |-> next, field |-> lay[i]]
  <2>1. IsSeq(next) /\ Neat(lay) /\ Orderly(lay)
    BY <1>3, <1>4
  <2> HIDE DEF lay, next
  <2> QED
    BY <2>1, EnterOrderly, EnterStack
<1>8. s[1] = h /\ lay = h.field.element /\ h.field.op = "loop"
      /\ F[Append(h.path, h.field.count)] \in Nat
  OBVIOUS
<1>9. next = h.path \o <<h.field.name, h.field.done + 1>>
  BY DEF NextElement
<1>10. DOMAIN lay = 1..Len(lay)
  BY <1>4, SeqLen
<1> HIDE DEF new, h, lay, next, body
<1>11. \A m \in 1..Len(new) : \/ m \in 1..Len(lay) /\ m \in 1..Len(body) /\ new[m] = body[m]
                              \/ m = Len(lay) + 1 /\ new[m] = Later(h)
  <2> SUFFICES ASSUME NEW m \in 1..Len(new)
               PROVE  \/ m \in 1..Len(lay) /\ m \in 1..Len(body) /\ new[m] = body[m]
                      \/ m = Len(lay) + 1 /\ new[m] = Later(h)
    OBVIOUS
  <2>1. m \in 1..Len(lay) \/ m = Len(lay) + 1
    BY <1>4
  <2> QED
    BY <1>4, <1>7, <2>1
<1>12. OrderlyItem(Later(h))
  BY <1>1, <1>6, <1>8 DEF OrderlyItem, Several
<1>13. \A m \in 1..Len(new) : OrderlyItem(new[m])
  BY <1>7, <1>11, <1>12
<1>14. LoopsHeld(new, Q)
  BY <1>1, <1>6, <1>7, <1>11 DEF LoopsHeld
<1>15. CountsKnown(new, F)
  <2> SUFFICES ASSUME NEW m \in 1..Len(new)
      PROVE  /\ new[m].field.op = "each" => Known(Append(new[m].path, new[m].field.count), m, new, F)
             /\ new[m].field.op = "loop" => Append(new[m].path, new[m].field.count) \in DOMAIN F
             /\ new[m].field.op = "switch" => Known(Spot(new[m]), m, new, F)
    BY DEF CountsKnown
  <2>1. CASE m = Len(lay) + 1 /\ new[m] = Later(h)
    BY <1>1, <1>5, <1>6, <2>1
  <2>2. CASE m \in 1..Len(lay) /\ m \in 1..Len(body) /\ new[m] = body[m]
    <3>1. ASSUME NEW q, Known(q, m, body, F) PROVE Known(q, m, new, F)
      <4>1. \A k \in 1..Len(body) : k \in 1..Len(new) /\ new[k] = body[k]
        <5>1. \A k \in 1..Len(body) : k \in 1..Len(lay)
          BY <1>7
        <5>2. \A k \in 1..Len(lay) : k \in 1..Len(new)
          BY <1>4
        <5> QED
          BY <1>4, <1>7, <5>1, <5>2, Zenon
      <4>2. ASSUME NEW k \in 1..Len(body), k < m, body[k].field.op \in Readers, Spot(body[k]) = q
            PROVE  Known(q, m, new, F)
        BY <4>1, <4>2, Zenon DEF Known
      <4> QED
        BY <3>1, <4>2 DEF Known
    <3> QED
      BY <1>7, <2>2, <3>1 DEF CountsKnown
  <2> QED
    BY <1>11, <2>1, <2>2
<1>16. Walked(new \o Tail(s), F, Q)
  <2>1. s[1].field.op \notin Readers
    BY DEF Readers
  <2> QED
    BY <1>1, <1>4, <1>8, <1>13, <1>14, <1>15, <2>1, WalkedPush
<1> DEFINE T2 == T \cup {<<lay, next>>}
<1>17. Built(T2, new \o Tail(s), F, Q)
  <2>1. ASSUME NEW l, NEW p, <<l, p>> \in T, NEW i \in DOMAIN l,
               s[1] = [path |-> p, field |-> l[i]]
        PROVE  Done(l[i], p, T2, new \o Tail(s), F, Q)
    <3> DEFINE f == l[i]
    <3>1. h.path = p /\ h.field = f
      BY <1>8, <2>1
    <3> HIDE DEF f
    <3> QED
      BY <1>8, <3>1 DEF Done, f
  <2>2. ASSUME NEW f, NEW p, NEW d \in Nat, s[1] = [path |-> p, field |-> LoopField(f, d)],
               NEW k \in 1..F[Append(p, f.count)], d < k
        PROVE  \/ <<f.element, p \o <<f.name, k>>>> \in T2
               \/ \E e \in Nat : e < k /\ On(new, p, LoopField(f, e))
    <3>1. /\ h.path = p /\ h.field.count = f.count /\ h.field.done = d
          /\ h.field.element = f.element /\ h.field.name = f.name
      BY <1>8, <2>2 DEF LoopField
    <3>2. CASE k = d + 1
      <4>1. p \o <<f.name, k>> = next /\ f.element = lay
        BY <1>8, <1>9, <3>1, <3>2
      <4> QED
        BY <4>1
    <3>3. CASE k # d + 1
      <4>1. d + 1 \in Nat /\ d + 1 < k
        BY <1>8, <2>2, <3>1, <3>3
      <4>2. Later(h) = [path |-> p, field |-> LoopField(f, d + 1)]
        BY <1>5, <3>1 DEF LoopField
      <4>3. On(new, p, LoopField(f, d + 1))
        <5>1. Len(lay) + 1 \in 1..Len(new)
          BY <1>4
        <5> QED
          BY <1>4, <4>2, <5>1 DEF On
      <4> QED
        BY <4>1, <4>3
    <3> QED
      BY <3>2, <3>3
  <2>3. ASSUME NEW l, NEW p, <<l, p>> \in T2, <<l, p>> \notin T, NEW i \in DOMAIN l
        PROVE  On(new, p, l[i])
    <3>1. l = lay /\ p = next
      BY <2>3
    <3>2. i \in 1..Len(lay) /\ i \in 1..Len(new)
      BY <1>4, <1>10, <2>3, <3>1
    <3>3. new[i] = [path |-> p, field |-> l[i]]
      BY <1>4, <3>1, <3>2
    <3> QED
      BY <3>2, <3>3 DEF On
  <2>4. T \subseteq T2
    OBVIOUS
  <2>5. \A l, p : <<l, p>> \in T => \A i \in DOMAIN l :
          s[1] = [path |-> p, field |-> l[i]] => Done(l[i], p, T2, new \o Tail(s), F, Q)
    BY <2>1
  <2>6. \A f, p : \A d \in Nat :
           s[1] = [path |-> p, field |-> LoopField(f, d)] =>
             \A k \in 1..F[Append(p, f.count)] : d < k =>
               \/ <<f.element, p \o <<f.name, k>>>> \in T2
               \/ \E e \in Nat : e < k /\ On(new, p, LoopField(f, e))
    BY <2>2
  <2>7. IsSeq(new)
    BY <1>4 DEF Stack
  <2>8. \A l, p : <<l, p>> \in T2 /\ <<l, p>> \notin T => \A i \in DOMAIN l : On(new, p, l[i])
    BY <2>3
  <2> HIDE DEF T2
  <2> QED
    BY <1>1, <1>2, <2>4, <2>5, <2>6, <2>7, <2>8, BuiltPush
<1>18. <<root, <<>>>> \in T2
  BY <1>2
<1> HIDE DEF T2
<1> QED
  BY <1>16, <1>17, <1>18 DEF Parsing, new, h

-----------------------------------------------------------------------------
(***************************************************************************)
(* The stack while a packet is encoded.                                    *)
(***************************************************************************)

\* A layout to be written whose arrays have been parsed.
Supported(w, p, F, Q) ==
  \E l, T : Mirror(w, l) /\ <<l, p>> \in T /\ Built(T, <<>>, F, Q)

ItemSupported(item, F, Q) ==
  LET f == item.field
      p == item.path IN
  /\ f.op = "each" =>
       /\ Append(p, f.name) \in DOMAIN Q /\ Append(p, f.count) \in DOMAIN F
       /\ \A k \in 1..F[Append(p, f.count)] : Supported(f.element, p \o <<f.name, k>>, F, Q)
  /\ f.op = "loop" =>
       /\ item = [path |-> p, field |-> LoopField(f, f.done)]
       /\ Append(p, f.name) \in DOMAIN Q /\ Append(p, f.count) \in DOMAIN F
       /\ f.done \in Nat /\ f.done <= F[Append(p, f.count)]
       /\ \A k \in 1..F[Append(p, f.count)] :
            k > f.done => Supported(f.element, p \o <<f.name, k>>, F, Q)
  /\ f.op = "switch" =>
       /\ Append(p, f.name) \in DOMAIN F
       /\ \A c \in DOMAIN f.cases :
            F[Append(p, f.name)] \in f.cases[c].values => Supported(f.cases[c].layout, p, F, Q)

Ready(s, F, Q) == IsSeq(s) /\ \A i \in 1..Len(s) : ItemSupported(s[i], F, Q)

\* A frame is still to be made.
Starts(item, F) ==
  \/ item.field.op = "start"
  \/ /\ item.field.op = "switch"
     /\ \A c \in DOMAIN item.field.cases : HasStart(item.field.cases[c].layout)
     /\ \E c \in DOMAIN item.field.cases : F[Spot(item)] \in item.field.cases[c].values

WillStart(s, F) == \E i \in 1..Len(s) : Starts(s[i], F)

LEMMA MirrorIs ==
  ASSUME NEW w, NEW l, Mirror(w, l)
  PROVE  /\ IsSeq(w)
         /\ \A i \in DOMAIN w :
              /\ w[i].op \notin {"enum", "loop"}
              /\ w[i].op = "each" =>
                   \E j \in DOMAIN l :
                     /\ l[j].op = "each" /\ l[j].name = w[i].name /\ l[j].count = w[i].count
                     /\ Mirror(w[i].element, l[j].element)
              /\ w[i].op = "switch" =>
                   \E j \in DOMAIN l :
                     /\ l[j].op = "switch" /\ l[j].name = w[i].name
                     /\ \A c \in DOMAIN w[i].cases : \E d \in DOMAIN l[j].cases :
                          /\ l[j].cases[d].values = w[i].cases[c].values
                          /\ Mirror(w[i].cases[c].layout, l[j].cases[d].layout)
<1>1. PICK S : <<w, l>> \in S /\ MirrorSet(S)
  BY DEF Mirror
<1>2. MirrorStep(w, l, S)
  BY <1>1, Zenon DEF MirrorSet
<1>3. \A v, m : <<v, m>> \in S => Mirror(v, m)
  BY <1>1, Zenon DEF Mirror
<1> QED
  BY <1>2, <1>3 DEF MirrorStep

LEMMA BuiltIs ==
  ASSUME NEW T, NEW F, NEW Q, Built(T, <<>>, F, Q), NEW l, NEW p, <<l, p>> \in T,
         NEW i \in DOMAIN l
  PROVE  LET f == l[i] IN
         /\ f.op = "enum" => Append(p, f.name) \in DOMAIN F /\ F[Append(p, f.name)] \in f.values
         /\ f.op = "each" =>
              /\ Append(p, f.count) \in DOMAIN F
              /\ Append(p, f.name) \in DOMAIN Q
              /\ \A k \in 1..F[Append(p, f.count)] : <<f.element, p \o <<f.name, k>>>> \in T
         /\ f.op = "switch" =>
              /\ Append(p, f.name) \in DOMAIN F
              /\ \A c \in DOMAIN f.cases :
                   F[Append(p, f.name)] \in f.cases[c].values => <<f.cases[c].layout, p>> \in T
<1> DEFINE f == l[i]
<1>1. \A q, g : ~On(<<>>, q, g)
  BY NoItems DEF On
<1>2. Done(f, p, T, <<>>, F, Q)
  BY <1>1 DEF Built
<1> HIDE DEF f
<1> QED
  BY <1>1, <1>2 DEF Done, f

LEMMA SupportedIs ==
  ASSUME NEW w, NEW p, NEW F, NEW Q, Supported(w, p, F, Q)
  PROVE  /\ IsSeq(w)
         /\ \A i \in DOMAIN w : ItemSupported([path |-> p, field |-> w[i]], F, Q)
<1>1. PICK l, T : Mirror(w, l) /\ <<l, p>> \in T /\ Built(T, <<>>, F, Q)
  BY DEF Supported
<1>2. \A v, m, q : Mirror(v, m) /\ <<m, q>> \in T => Supported(v, q, F, Q)
  BY <1>1 DEF Supported
<1>3. ASSUME NEW i \in DOMAIN w
      PROVE  ItemSupported([path |-> p, field |-> w[i]], F, Q)
  <2> DEFINE f == w[i]
  <2>1. /\ f.op \notin {"enum", "loop"}
        /\ f.op = "each" =>
             \E j \in DOMAIN l :
               /\ l[j].op = "each" /\ l[j].name = f.name /\ l[j].count = f.count
               /\ Mirror(f.element, l[j].element)
        /\ f.op = "switch" =>
             \E j \in DOMAIN l :
               /\ l[j].op = "switch" /\ l[j].name = f.name
               /\ \A c \in DOMAIN f.cases : \E d \in DOMAIN l[j].cases :
                    /\ l[j].cases[d].values = f.cases[c].values
                    /\ Mirror(f.cases[c].layout, l[j].cases[d].layout)
    BY <1>1, MirrorIs
  <2> HIDE DEF f
  <2>2. ASSUME f.op = "each"
        PROVE  /\ Append(p, f.name) \in DOMAIN Q /\ Append(p, f.count) \in DOMAIN F
               /\ \A k \in 1..F[Append(p, f.count)] :
                    Supported(f.element, p \o <<f.name, k>>, F, Q)
    <3>1. PICK j \in DOMAIN l : /\ l[j].op = "each" /\ l[j].name = f.name /\ l[j].count = f.count
                                /\ Mirror(f.element, l[j].element)
      BY <2>1, <2>2
    <3>2. /\ Append(p, l[j].count) \in DOMAIN F
          /\ Append(p, l[j].name) \in DOMAIN Q
          /\ \A k \in 1..F[Append(p, l[j].count)] : <<l[j].element, p \o <<l[j].name, k>>>> \in T
      BY <1>1, <3>1, BuiltIs
    <3> QED
      BY <1>2, <3>1, <3>2
  <2>3. ASSUME f.op = "switch"
        PROVE  /\ Append(p, f.name) \in DOMAIN F
               /\ \A c \in DOMAIN f.cases :
                    F[Append(p, f.name)] \in f.cases[c].values =>
                      Supported(f.cases[c].layout, p, F, Q)
    <3>1. PICK j \in DOMAIN l :
               /\ l[j].op = "switch" /\ l[j].name = f.name
               /\ \A c \in DOMAIN f.cases : \E d \in DOMAIN l[j].cases :
                    /\ l[j].cases[d].values = f.cases[c].values
                    /\ Mirror(f.cases[c].layout, l[j].cases[d].layout)
      BY <2>1, <2>3
    <3>2. /\ Append(p, l[j].name) \in DOMAIN F
          /\ \A c \in DOMAIN l[j].cases :
               F[Append(p, l[j].name)] \in l[j].cases[c].values => <<l[j].cases[c].layout, p>> \in T
      BY <1>1, <3>1, BuiltIs
    <3>3. ASSUME NEW c \in DOMAIN f.cases, F[Append(p, f.name)] \in f.cases[c].values
          PROVE  Supported(f.cases[c].layout, p, F, Q)
      <4>1. PICK d \in DOMAIN l[j].cases :
                    /\ l[j].cases[d].values = f.cases[c].values
                    /\ Mirror(f.cases[c].layout, l[j].cases[d].layout)
        BY <3>1
      <4>2. <<l[j].cases[d].layout, p>> \in T
        BY <3>1, <3>2, <3>3, <4>1
      <4> QED
        BY <1>2, <4>1, <4>2
    <3> QED
      BY <3>1, <3>2, <3>3
  <2> DEFINE item == [path |-> p, field |-> f]
  <2>4. item.path = p /\ item.field = f
    OBVIOUS
  <2> HIDE DEF item
  <2>5. ItemSupported(item, F, Q)
    BY <2>1, <2>2, <2>3, <2>4 DEF ItemSupported
  <2> QED
    BY <2>5 DEF item, f
<1> QED
  BY <1>1, <1>3, MirrorIs

LEMMA SupportedEnters ==
  ASSUME NEW w, NEW p, NEW F, NEW Q, Supported(w, p, F, Q)
  PROVE  Ready(Enter(p, w), F, Q)
<1>1. IsSeq(w) /\ DOMAIN w = 1..Len(w)
  BY SupportedIs, SeqLen
<1>2. /\ IsSeq(Enter(p, w)) /\ Len(Enter(p, w)) = Len(w)
      /\ \A i \in 1..Len(w) : Enter(p, w)[i] = [path |-> p, field |-> w[i]]
  BY <1>1, SeqEnter
<1> QED
  BY <1>1, <1>2, SupportedIs DEF Ready

\* The items of new \o Tail(s), of any sequences.
LEMMA PushSeq ==
  ASSUME NEW s, IsSeq(s), s # <<>>, NEW new, IsSeq(new)
  PROVE  LET r == new \o Tail(s) IN
         /\ IsSeq(r)
         /\ Len(s) \in Nat /\ Len(s) > 0 /\ Len(new) \in Nat
         /\ \A i \in 1..Len(new) : i \in 1..Len(r) /\ r[i] = new[i]
         /\ \A i \in 2..Len(s) : \E m \in 1..Len(r) : r[m] = s[i]
         /\ \A m \in 1..Len(r) : \/ m \in 1..Len(new) /\ r[m] = new[m]
                                 \/ \E i \in 2..Len(s) : r[m] = s[i]
<1> DEFINE t == Tail(s)
           r == new \o t
<1>1. /\ Len(s) \in Nat /\ Len(s) > 0 /\ IsSeq(t) /\ Len(t) = Len(s) - 1
      /\ \A i \in 1..(Len(s) - 1) : t[i] = s[i + 1]
  BY SeqTail, SeqLen
<1>2. Len(new) \in Nat
  BY SeqLen
<1>3. /\ IsSeq(r) /\ Len(r) = Len(new) + Len(t)
      /\ \A i \in 1..Len(new) : r[i] = new[i]
      /\ \A i \in 1..Len(t) : r[Len(new) + i] = t[i]
  <2>1. IsSeq(t)
    BY <1>1
  <2> HIDE DEF t
  <2> QED
    BY <2>1, SeqConcat
<1> HIDE DEF t, r
<1>4. \A i \in 1..Len(new) : i \in 1..Len(r)
  BY <1>1, <1>2, <1>3
<1>5. ASSUME NEW i \in 2..Len(s)
      PROVE  \E m \in 1..Len(r) : r[m] = s[i]
  <2>1. i - 1 \in 1..Len(t) /\ i - 1 \in 1..(Len(s) - 1) /\ (i - 1) + 1 = i
    BY <1>1
  <2>2. r[Len(new) + (i - 1)] = s[i]
    <3>1. t[i - 1] = s[(i - 1) + 1]
      BY <1>1, <2>1
    <3>2. r[Len(new) + (i - 1)] = t[i - 1]
      BY <1>3, <2>1
    <3> QED
      BY <2>1, <3>1, <3>2
  <2>3. Len(new) + (i - 1) \in 1..Len(r)
    BY <1>1, <1>2, <1>3, <2>1
  <2> QED
    BY <2>2, <2>3
<1>6. ASSUME NEW m \in 1..Len(r), m \notin 1..Len(new)
      PROVE  \E i \in 2..Len(s) : r[m] = s[i]
  <2>1. m - Len(new) \in 1..Len(t) /\ m = Len(new) + (m - Len(new))
        /\ m - Len(new) \in 1..(Len(s) - 1) /\ (m - Len(new)) + 1 \in 2..Len(s)
    BY <1>1, <1>2, <1>3, <1>6
  <2>2. r[m] = t[m - Len(new)]
    BY <1>3, <2>1
  <2>3. t[m - Len(new)] = s[(m - Len(new)) + 1]
    BY <1>1, <2>1
  <2> QED
    BY <2>1, <2>2, <2>3
<1> QED
  BY <1>1, <1>2, <1>3, <1>4, <1>5, <1>6 DEF r, t

LEMMA ReadyPush ==
  ASSUME NEW s, NEW F, NEW Q, Ready(s, F, Q), s # <<>>, NEW new, Ready(new, F, Q)
  PROVE  /\ Ready(new \o Tail(s), F, Q)
         /\ WillStart(s, F) /\ (Starts(s[1], F) => WillStart(new, F))
              => WillStart(new \o Tail(s), F)
<1> DEFINE r == new \o Tail(s)
<1>1. IsSeq(s) /\ IsSeq(new)
  BY DEF Ready
<1>2. /\ IsSeq(r)
      /\ Len(s) \in Nat /\ Len(s) > 0
      /\ \A i \in 1..Len(new) : i \in 1..Len(r) /\ r[i] = new[i]
      /\ \A i \in 2..Len(s) : \E m \in 1..Len(r) : r[m] = s[i]
      /\ \A m \in 1..Len(r) : \/ m \in 1..Len(new) /\ r[m] = new[m]
                              \/ \E i \in 2..Len(s) : r[m] = s[i]
  BY <1>1, PushSeq
<1> HIDE DEF r
<1>3. \A i \in 2..Len(s) : i \in 1..Len(s)
  BY <1>2
<1>4. Ready(r, F, Q)
  <2>1. ASSUME NEW m \in 1..Len(r) PROVE ItemSupported(r[m], F, Q)
    <3>1. CASE m \in 1..Len(new) /\ r[m] = new[m]
      BY <3>1 DEF Ready
    <3>2. ASSUME NEW i \in 2..Len(s), r[m] = s[i] PROVE ItemSupported(r[m], F, Q)
      BY <1>3, <3>2 DEF Ready
    <3> QED
      BY <1>2, <3>1, <3>2
  <2> QED
    BY <1>2, <2>1 DEF Ready
<1>5. ASSUME WillStart(new, F) PROVE WillStart(r, F)
  <2>1. PICK i \in 1..Len(new) : Starts(new[i], F)
    BY <1>5 DEF WillStart
  <2> QED
    BY <1>2, <2>1, Zenon DEF WillStart
<1>6. ASSUME WillStart(s, F), ~Starts(s[1], F) PROVE WillStart(r, F)
  <2>1. PICK i \in 1..Len(s) : Starts(s[i], F)
    BY <1>6 DEF WillStart
  <2>2. i \in 2..Len(s)
    BY <1>2, <1>6, <2>1
  <2>3. PICK m \in 1..Len(r) : r[m] = s[i]
    BY <1>2, <2>2
  <2> QED
    BY <2>1, <2>3, Zenon DEF WillStart
<1> QED
  BY <1>4, <1>5, <1>6 DEF r

LEMMA ReadyTail ==
  ASSUME NEW s, NEW F, NEW Q, Ready(s, F, Q), s # <<>>
  PROVE  /\ Ready(Tail(s), F, Q)
         /\ WillStart(s, F) /\ ~Starts(s[1], F) => WillStart(Tail(s), F)
<1> DEFINE e == <<>>
<1>1. IsSeq(e) /\ Len(e) = 0
  BY NoItems
<1>2. IsSeq(Tail(s)) /\ e \o Tail(s) = Tail(s)
  BY SeqTail, EmptyEnds DEF Ready
<1> HIDE DEF e
<1>3. Ready(e, F, Q)
  BY <1>1 DEF Ready
<1> QED
  BY <1>2, <1>3, ReadyPush

LEMMA ReadyHead ==
  ASSUME NEW s, NEW F, NEW Q, Ready(s, F, Q), s # <<>>
  PROVE  /\ IsSeq(s) /\ Head(s) = s[1]
         /\ s[1].field.op = "each" => /\ Spot(s[1]) \in DOMAIN Q
                                      /\ Append(s[1].path, s[1].field.count) \in DOMAIN F
         /\ s[1].field.op = "loop" => /\ Spot(s[1]) \in DOMAIN Q
                                      /\ Append(s[1].path, s[1].field.count) \in DOMAIN F
         /\ s[1].field.op = "switch" => Spot(s[1]) \in DOMAIN F
<1>1. /\ IsSeq(s) /\ Head(s) = s[1] /\ 1 \in 1..Len(s)
  BY SeqTail, SeqLen DEF Ready
<1>2. ItemSupported(s[1], F, Q)
  BY <1>1 DEF Ready
<1> QED
  BY <1>1, <1>2 DEF ItemSupported, Spot

LEMMA ReadyLoops ==
  ASSUME NEW s, NEW F, NEW Q, Ready(s, F, Q), s # <<>>, s[1].field.op = "each",
         F[Append(s[1].path, s[1].field.count)] \in Nat
  PROVE  LET r == LoopOf(s[1]) \o Tail(s) IN
         Ready(r, F, Q) /\ (WillStart(s, F) => WillStart(r, F))
<1> DEFINE h == s[1]
           p == h.path
           f == h.field
           g == LoopField(f, 0)
           new == LoopOf(h)
<1>1. /\ Append(p, f.name) \in DOMAIN Q /\ Append(p, f.count) \in DOMAIN F
      /\ \A k \in 1..F[Append(p, f.count)] : Supported(f.element, p \o <<f.name, k>>, F, Q)
  <2>1. 1 \in 1..Len(s)
    BY SeqTail, SeqLen DEF Ready
  <2>2. ItemSupported(s[1], F, Q)
    BY <2>1 DEF Ready
  <2> QED
    BY <2>2 DEF ItemSupported
<1>2. IsSeq(new) /\ Len(new) = 1 /\ new[1] = [path |-> p, field |-> g]
  <2>1. new = <<[path |-> p, field |-> g]>>
    BY DEF LoopOf, LoopField
  <2> HIDE DEF new
  <2> QED
    BY <2>1, SeqOne
<1>3. F[Append(p, f.count)] \in Nat
  OBVIOUS
<1>4. /\ g.op = "loop" /\ g.name = f.name /\ g.count = f.count /\ g.element = f.element
      /\ g.done = 0 /\ g = LoopField(g, g.done)
  BY DEF LoopField
<1>5. s[1] = h
  OBVIOUS
<1> DEFINE it == [path |-> p, field |-> g]
<1>6. it.path = p /\ it.field = g /\ it = [path |-> it.path, field |-> LoopField(g, g.done)]
  BY <1>4
<1>7. new[1] = it
  BY <1>2
<1> HIDE DEF new, g, it, h
<1>8. ItemSupported(it, F, Q)
  BY <1>1, <1>3, <1>4, <1>6 DEF ItemSupported
<1>9. Ready(new, F, Q)
  BY <1>2, <1>7, <1>8 DEF Ready
<1>10. ~Starts(s[1], F)
  BY DEF Starts
<1> QED
  BY <1>5, <1>9, <1>10, ReadyPush DEF new

LEMMA LaterShape ==
  ASSUME NEW p, NEW f, NEW d, NEW item, item = [path |-> p, field |-> LoopField(f, d)]
  PROVE  Later(item) = [path |-> p, field |-> LoopField(f, d + 1)]
BY DEF Later, LoopField

LEMMA ReadyTurns ==
  ASSUME NEW s, NEW F, NEW Q, Ready(s, F, Q), s # <<>>, s[1].field.op = "loop",
         F[Append(s[1].path, s[1].field.count)] \in Nat,
         s[1].field.done # F[Append(s[1].path, s[1].field.count)]
  PROVE  LET r == TurnOf(s[1]) \o Tail(s) IN
         Ready(r, F, Q) /\ (WillStart(s, F) => WillStart(r, F))
<1> DEFINE h == s[1]
           p == h.path
           f == h.field
           n == F[Append(p, f.count)]
           g == LoopField(f, f.done + 1)
           body == Enter(NextElement(h), f.element)
           last == <<Later(h)>>
           new == body \o last
<1>1. /\ h = [path |-> p, field |-> LoopField(f, f.done)]
      /\ Append(p, f.name) \in DOMAIN Q /\ Append(p, f.count) \in DOMAIN F
      /\ f.done \in Nat /\ f.done <= n
      /\ \A k \in 1..n : k > f.done => Supported(f.element, p \o <<f.name, k>>, F, Q)
  <2>1. 1 \in 1..Len(s)
    BY SeqTail, SeqLen DEF Ready
  <2>2. ItemSupported(s[1], F, Q)
    BY <2>1 DEF Ready
  <2> QED
    BY <2>2 DEF ItemSupported
<1>2. n \in Nat /\ f.done # n /\ s[1] = h
  OBVIOUS
<1> HIDE DEF h, n
<1>3. f.done + 1 \in 1..n /\ f.done + 1 > f.done
  BY <1>1, <1>2
<1>4. Ready(body, F, Q)
  <2>1. Supported(f.element, p \o <<f.name, f.done + 1>>, F, Q)
    BY <1>1, <1>3
  <2>2. Supported(f.element, NextElement(h), F, Q)
    BY <2>1 DEF NextElement
  <2> HIDE DEF f
  <2> QED
    BY <2>2, SupportedEnters
<1>5. Later(h) = [path |-> p, field |-> g]
  BY <1>1, LaterShape
<1>6. /\ g.op = "loop" /\ g.name = f.name /\ g.count = f.count /\ g.element = f.element
      /\ g.done = f.done + 1 /\ g = LoopField(g, g.done)
  BY DEF LoopField
<1>7. Later(h).path = p /\ Later(h).field = g
      /\ Later(h) = [path |-> Later(h).path, field |-> LoopField(g, g.done)]
  BY <1>5, <1>6
<1>8. g.done \in Nat /\ g.done <= n
  BY <1>1, <1>2, <1>3, <1>6
<1>9. \A k \in 1..n : k > g.done => Supported(g.element, p \o <<g.name, k>>, F, Q)
  <2> SUFFICES ASSUME NEW k \in 1..n, k > g.done
               PROVE  Supported(g.element, p \o <<g.name, k>>, F, Q)
    OBVIOUS
  <2>1. k > f.done
    BY <1>1, <1>6
  <2> QED
    BY <1>1, <1>6, <2>1
<1> HIDE DEF g
<1>10. ItemSupported(Later(h), F, Q)
  <2>1. n = F[Append(p, g.count)]
    BY <1>6 DEF n
  <2> QED
    BY <1>1, <1>6, <1>7, <1>8, <1>9, <2>1 DEF ItemSupported
<1>11. IsSeq(last) /\ Len(last) = 1 /\ last[1] = Later(h)
  BY SeqOne
<1>12. IsSeq(body) /\ \A i \in 1..Len(body) : ItemSupported(body[i], F, Q)
  BY <1>4 DEF Ready
<1> HIDE DEF last, body
<1>13. /\ IsSeq(new) /\ Len(new) = Len(body) + 1 /\ Len(body) \in Nat
       /\ \A i \in 1..Len(body) : new[i] = body[i]
       /\ new[Len(body) + 1] = Later(h)
  <2>1. /\ IsSeq(new) /\ Len(new) = Len(body) + Len(last)
        /\ \A i \in 1..Len(body) : new[i] = body[i]
        /\ \A i \in 1..Len(last) : new[Len(body) + i] = last[i]
    <3>1. IsSeq(body) /\ IsSeq(last)
      BY <1>11, <1>12
    <3> QED
      BY <3>1, SeqConcat
  <2>2. Len(body) \in Nat
    BY <1>12, SeqLen
  <2> QED
    BY <1>11, <2>1, <2>2
<1> HIDE DEF new
<1>14. Ready(new, F, Q)
  <2> SUFFICES ASSUME NEW i \in 1..Len(new) PROVE ItemSupported(new[i], F, Q)
    BY <1>13 DEF Ready
  <2>1. CASE i \in 1..Len(body)
    BY <1>12, <1>13, <2>1
  <2>2. CASE i = Len(body) + 1
    BY <1>10, <1>13, <2>2
  <2>3. i \in 1..Len(body) \/ i = Len(body) + 1
    BY <1>13
  <2> QED
    BY <2>1, <2>2, <2>3
<1>15. new = TurnOf(s[1])
  BY <1>2 DEF new, body, last, TurnOf
<1>16. ~Starts(s[1], F)
  BY DEF Starts
<1> QED
  BY <1>14, <1>15, <1>16, ReadyPush

LEMMA ReadyBranches ==
  ASSUME NEW s, NEW F, NEW Q, Ready(s, F, Q), s # <<>>, s[1].field.op = "switch",
         NEW c \in DOMAIN s[1].field.cases,
         F[Spot(s[1])] \in s[1].field.cases[c].values
  PROVE  LET r == Enter(s[1].path, s[1].field.cases[c].layout) \o Tail(s) IN
         Ready(r, F, Q) /\ (WillStart(s, F) => WillStart(r, F))
<1> DEFINE h == s[1]
           lay == h.field.cases[c].layout
           new == Enter(h.path, lay)
<1>1. Supported(lay, h.path, F, Q)
  <2>1. 1 \in 1..Len(s)
    BY SeqTail, SeqLen DEF Ready
  <2>2. ItemSupported(s[1], F, Q)
    BY <2>1 DEF Ready
  <2>3. Spot(h) = Append(h.path, h.field.name)
    BY DEF Spot
  <2> QED
    BY <2>2, <2>3 DEF ItemSupported
<1>2. IsSeq(lay)
  <2> HIDE DEF lay, h
  <2> QED
    BY <1>1, SupportedIs
<1>3. Starts(h, F) => HasStart(lay)
  BY DEF Starts
<1>4. s[1] = h
  OBVIOUS
<1>5. lay = s[1].field.cases[c].layout
  OBVIOUS
<1> HIDE DEF lay, h
<1>6. Ready(new, F, Q)
  BY <1>1, SupportedEnters
<1>7. HasStart(lay) => WillStart(new, F)
  <2>1. /\ Len(new) = Len(lay) /\ DOMAIN lay = 1..Len(lay)
        /\ \A i \in 1..Len(lay) : new[i] = [path |-> h.path, field |-> lay[i]]
    BY <1>2, SeqEnter, SeqLen
  <2> HIDE DEF new
  <2>2. ASSUME NEW i \in 1..Len(lay)
        PROVE  i \in 1..Len(new) /\ new[i].field = lay[i]
    <3>1. i \in 1..Len(new) /\ new[i] = [path |-> h.path, field |-> lay[i]]
      BY <2>1
    <3> QED
      BY <3>1
  <2>3. ASSUME NEW i \in 1..Len(lay), lay[i].op = "start" PROVE WillStart(new, F)
    <3>1. Starts(new[i], F)
      BY <2>2, <2>3 DEF Starts
    <3> QED
      BY <2>2, <3>1 DEF WillStart
  <2> QED
    BY <2>1, <2>3 DEF HasStart
<1> HIDE DEF new
<1>8. /\ Ready(new \o Tail(s), F, Q)
      /\ WillStart(s, F) => WillStart(new \o Tail(s), F)
  BY <1>3, <1>4, <1>6, <1>7, ReadyPush
<1> QED
  BY <1>4, <1>5, <1>8 DEF new

\* What Branch and Repeat do to the stack.
LEMMA BranchIs ==
  ASSUME IsSeq(todo), Branch, Spot(todo[1]) \in DOMAIN fields
  PROVE  LET h == todo[1] IN
         /\ todo # <<>> /\ h.field.op = "switch"
         /\ \/ /\ todo' = Tail(todo)
               /\ \A c \in DOMAIN h.field.cases :
                    fields[Spot(h)] \notin h.field.cases[c].values
            \/ \E c \in DOMAIN h.field.cases :
                 /\ fields[Spot(h)] \in h.field.cases[c].values
                 /\ todo' = Enter(h.path, h.field.cases[c].layout) \o Tail(todo)
<1> DEFINE h == todo[1]
           cases == {i \in DOMAIN Field.cases : Value(Field.name) \in Field.cases[i].values}
<1>1. todo # <<>> /\ Field.op = "switch"
  BY DEF Branch, At
<1>2. Head(todo) = h /\ Field = h.field
  BY <1>1, SeqTail DEF Field
<1>3. Value(Field.name) = fields[Spot(h)]
  BY <1>2 DEF Value, FieldAt, Here, Spot
<1>4. CASE cases = {}
  BY <1>1, <1>2, <1>3, <1>4 DEF Branch
<1>5. CASE cases # {}
  <2>1. (CHOOSE i \in cases : TRUE) \in cases
    BY <1>5
  <2>2. todo' = Enter(Head(todo).path, Field.cases[CHOOSE i \in cases : TRUE].layout) \o Tail(todo)
    BY <1>5 DEF Branch
  <2> QED
    BY <1>1, <1>2, <1>3, <2>1, <2>2
<1> QED
  BY <1>4, <1>5

LEMMA RepeatIs ==
  ASSUME IsSeq(todo), Repeat, Append(todo[1].path, todo[1].field.count) \in DOMAIN fields
  PROVE  LET h == todo[1]
             n == fields[Append(h.path, h.field.count)] IN
         /\ todo # <<>> /\ h.field.op = "loop"
         /\ \/ todo' = Tail(todo) /\ h.field.done = n
            \/ todo' = TurnOf(h) \o Tail(todo) /\ h.field.done # n
<1> DEFINE h == todo[1]
<1>1. todo # <<>> /\ Field.op = "loop"
  BY DEF Repeat, At
<1>2. Head(todo) = h /\ Field = h.field
  BY <1>1, SeqTail DEF Field
<1>3. Value(Field.count) = fields[Append(h.path, h.field.count)]
  BY <1>2 DEF Value, FieldAt, Here
<1> QED
  BY <1>1, <1>2, <1>3 DEF Repeat, TurnOf, NextElement, Later

LEMMA LoopIs ==
  ASSUME IsSeq(todo), todo # <<>>
  PROVE  Head(todo) = todo[1] /\ Field = todo[1].field /\ Loop = LoopOf(todo[1])
         /\ \A name : Here(name) = Append(todo[1].path, name)
         /\ Here(Field.name) = Spot(todo[1])
BY SeqTail DEF Field, Loop, LoopOf, Here, Spot

-----------------------------------------------------------------------------
(***************************************************************************)
(* The inductive invariant.                                                *)
(***************************************************************************)

\* Each pointer is to a block of its own.
Heap ==
  /\ \A q \in DOMAIN pointer : pointer[q] = NULL \/ pointer[q] \in 1..allocated
  /\ \A q, r \in DOMAIN pointer : pointer[q] # NULL /\ pointer[q] = pointer[r] => q = r

\* Each pointer that is set is to a block in use.
Held == \A q \in DOMAIN pointer : pointer[q] # NULL => pointer[q] \in live

\* Between the stages nothing is left to do.
Idle == pc \in {"called", "parsed", "returned"} => todo = <<>>

Kind ==
  /\ pc \notin {"called", "returned"} => type \in PacketTypes
  /\ pc = "called" => fields = <<>> /\ pointer = <<>>

\* As long as a packet is not freed, all its pointers are set, to blocks in use:
\* a parser that fails frees what it made by the same layout.
Packet ==
  pc \in {"parsing", "parsed", "encoding"} =>
    Held /\ \A q \in DOMAIN pointer : pointer[q] # NULL

\* Of each layout that was entered, a field is still to be parsed, or it was.
WhileParsing ==
  pc = "parsing" => Parsing(mdr_packet_from_frame(type), todo, fields, pointer)

\* Everything in the layout was parsed, in each case and each element.
Complete(t, F, Q) ==
  \E T : <<mdr_packet_from_frame(t), <<>>>> \in T /\ Built(T, <<>>, F, Q)

WhenParsed == pc \in {"parsed", "encoding"} => Complete(type, fields, pointer)

\* The arrays and choices still to be written were parsed.  A frame will be
\* started, or the last block is one, and not of the packet: EncodeEnds hands
\* over no more than that.
WhileEncoding ==
  pc = "encoding" =>
    /\ Ready(todo, fields, pointer)
    /\ WillStart(todo, fields) \/ \A q \in DOMAIN pointer : pointer[q] # allocated

\* The arrays of the loops on the stack are there.
LoopsSet(s, Q) ==
  \A m \in 1..Len(s) : s[m].field.op = "loop" => Spot(s[m]) \in DOMAIN Q /\ Q[Spot(s[m])] # NULL

\* What the stack still touches is in use: what was freed is not visited again.
StillHeld(s, Q, L) == \A q \in DOMAIN Q : TouchedBy(s, q) /\ Q[q] # NULL => Q[q] \in L

WhileFreeing ==
  pc = "freeing" => Stack(todo) /\ LoopsSet(todo, pointer) /\ StillHeld(todo, pointer, live)

HeapInv ==
  /\ IInv
  /\ Heap /\ Idle /\ Kind /\ Packet
  /\ WhileParsing /\ WhenParsed /\ WhileEncoding /\ WhileFreeing

LEMMA HeapInit == Init => HeapInv
<1> SUFFICES ASSUME Init PROVE HeapInv
  OBVIOUS
<1>1. pc = "called" /\ todo = <<>> /\ fields = <<>> /\ pointer = <<>>
  BY DEF Init
<1>2. DOMAIN <<>> = {}
  OBVIOUS
<1>3. IInv
  BY InitInv
<1>4. Heap
  BY <1>1, <1>2 DEF Heap
<1> QED
  BY <1>1, <1>3, <1>4 DEF HeapInv, Idle, Kind, Packet, WhileParsing, WhenParsed, WhileEncoding, WhileFreeing

LEMMA HeapImplies ==
  ASSUME HeapInv
  PROVE  BlocksInUse
<1>1. ASSUME At("freeing", "free")
      PROVE  PointerAt(Here(Field.name)) \in live \cup {NULL}
  <2>1. /\ pc = "freeing" /\ todo # <<>> /\ Field.op = "free"
        /\ Stack(todo) /\ StillHeld(todo, pointer, live) /\ IsSeq(todo)
    BY <1>1 DEF At, HeapInv, WhileFreeing, Stack
  <2>2. Field = todo[1].field /\ Here(Field.name) = Spot(todo[1])
    BY <2>1, LoopIs
  <2>3. 1 \in 1..Len(todo) /\ TidyItem(todo[1])
    BY <2>1, SeqTail, SeqLen DEF Stack
  <2>4. TouchedBy(todo, Spot(todo[1]))
    BY <2>1, <2>2, <2>3, CoversSpot DEF TouchedBy, Touches, Single
  <2> QED
    BY <2>1, <2>2, <2>4 DEF StillHeld, PointerAt
<1>2. ASSUME todo # <<>>, Field.op = "loop"
      PROVE  PointerAt(Here(Field.name)) \in live
  <2>1. pc \in {"parsing", "encoding", "freeing"}
    BY <1>2 DEF HeapInv, Idle, IInv, TypeOK
  <2>2. CASE pc = "parsing"
    <3>1. Walked(todo, fields, pointer) /\ IsSeq(todo)
      BY <2>2 DEF HeapInv, WhileParsing, Parsing, Walked, Stack
    <3>2. Field = todo[1].field /\ Here(Field.name) = Spot(todo[1])
      BY <1>2, <3>1, LoopIs
    <3>3. Spot(todo[1]) \in DOMAIN pointer
      BY <1>2, <3>1, <3>2, HeadIs
    <3> QED
      BY <2>2, <3>2, <3>3 DEF HeapInv, Packet, Held, PointerAt
  <2>3. CASE pc = "encoding"
    <3>1. Ready(todo, fields, pointer) /\ IsSeq(todo)
      BY <2>3 DEF HeapInv, WhileEncoding, Ready
    <3>2. Field = todo[1].field /\ Here(Field.name) = Spot(todo[1])
      BY <1>2, <3>1, LoopIs
    <3>3. Spot(todo[1]) \in DOMAIN pointer
      BY <1>2, <3>1, <3>2, ReadyHead
    <3> QED
      BY <2>3, <3>2, <3>3 DEF HeapInv, Packet, Held, PointerAt
  <2>4. CASE pc = "freeing"
    <3>1. /\ Stack(todo) /\ StillHeld(todo, pointer, live) /\ LoopsSet(todo, pointer)
          /\ IsSeq(todo)
      BY <2>4 DEF HeapInv, WhileFreeing, Stack
    <3>2. Field = todo[1].field /\ Here(Field.name) = Spot(todo[1])
      BY <1>2, <3>1, LoopIs
    <3>3. 1 \in 1..Len(todo)
      BY <1>2, <3>1, SeqTail, SeqLen
    <3>4. Spot(todo[1]) \in DOMAIN pointer /\ pointer[Spot(todo[1])] # NULL
      BY <1>2, <3>1, <3>2, <3>3 DEF LoopsSet
    <3>5. TouchedBy(todo, Spot(todo[1]))
      BY <1>2, <3>2, <3>3 DEF TouchedBy, Touches, Several
    <3> QED
      BY <3>1, <3>2, <3>4, <3>5 DEF StillHeld, PointerAt
  <2> QED
    BY <2>1, <2>2, <2>3, <2>4
<1> QED
  BY <1>1, <1>2 DEF BlocksInUse

-----------------------------------------------------------------------------
(* Memory.                                                                 *)

\* A pointer is set to a new block, or to none.
LEMMA HeapAllocates ==
  ASSUME HeapInv, NEW path, Held,
         pointer' = Set(pointer, path, allocated + 1), allocated' = allocated + 1,
         live' = live \cup {allocated + 1}
  PROVE  /\ Heap' /\ Held' /\ path \in DOMAIN pointer' /\ DOMAIN pointer \subseteq DOMAIN pointer'
         /\ (\A q \in DOMAIN pointer : pointer[q] # NULL) => \A q \in DOMAIN pointer' : pointer'[q] # NULL
<1>1. allocated \in Nat /\ Heap
  BY DEF HeapInv, IInv, TypeOK
<1>2. \A q \in DOMAIN pointer' : \/ pointer'[q] = allocated + 1 /\ q = path
                                 \/ q \in DOMAIN pointer /\ pointer'[q] = pointer[q]
  BY DEF Set
<1>3. path \in DOMAIN pointer' /\ DOMAIN pointer \subseteq DOMAIN pointer'
  BY DEF Set
<1>4. allocated + 1 # NULL /\ allocated + 1 \in 1..(allocated + 1) /\ allocated + 1 \notin 1..allocated
      /\ 1..allocated \subseteq 1..(allocated + 1)
  BY <1>1 DEF NULL
<1>5. Heap'
  BY <1>1, <1>2, <1>4 DEF Heap
<1>6. Held'
  BY <1>2 DEF Held
<1> QED
  BY <1>2, <1>3, <1>4, <1>5, <1>6

LEMMA HeapForgets ==
  ASSUME HeapInv, NEW path, Held, pointer' = Set(pointer, path, NULL),
         UNCHANGED <<live, allocated>>
  PROVE  Heap' /\ Held'
<1>1. Heap
  BY DEF HeapInv
<1>2. \A q \in DOMAIN pointer' : \/ pointer'[q] = NULL
                                 \/ q \in DOMAIN pointer /\ pointer'[q] = pointer[q]
  BY DEF Set
<1> QED
  BY <1>1, <1>2 DEF Heap, Held

-----------------------------------------------------------------------------
(* Where a step leads.                                                     *)

LEMMA GoesOnParsing ==
  ASSUME HeapInv, IInv', pc = "parsing", pc' = "parsing", type' = type,
         Parsing(mdr_packet_from_frame(type), todo', fields', pointer'),
         Heap', Held', \A q \in DOMAIN pointer' : pointer'[q] # NULL
  PROVE  HeapInv'
<1>1. type' \in PacketTypes
  BY DEF HeapInv, Kind
<1> QED
  BY <1>1 DEF HeapInv, Idle, Kind, Packet, WhileParsing, WhenParsed, WhileEncoding, WhileFreeing

LEMMA BeginsFreeing ==
  ASSUME HeapInv, IInv', pc \in {"parsing", "parsed"}, pc' = "freeing", type' = type,
         todo' = Enter(<<>>, mdr_packet_free(type)), Heap', Held'
  PROVE  HeapInv'
<1> DEFINE l == mdr_packet_free(type)
           e == Enter(<<>>, l)
<1>1. type' \in PacketTypes
  BY DEF HeapInv, Kind
<1>2. Neat(l)
  BY FreeLayouts
<1>3. IsSeq(l) /\ DOMAIN l = 1..Len(l) /\ \A i \in DOMAIN l : l[i].op # "loop"
  <2> HIDE DEF l
  <2> QED
    BY <1>2, SeqLen DEF Neat, Single
<1>4. /\ Stack(e) /\ Len(e) = Len(l)
      /\ \A i \in 1..Len(l) : e[i] = [path |-> <<>>, field |-> l[i]]
  <2>1. IsSeq(<<>>)
    BY NoItems
  <2> HIDE DEF l
  <2> QED
    BY <1>2, <2>1, EnterStack
<1>5. todo' = e
  OBVIOUS
<1> HIDE DEF l, e
<1>6. \A i \in 1..Len(e) : e[i].field.op # "loop"
  <2> SUFFICES ASSUME NEW i \in 1..Len(e) PROVE e[i].field.op # "loop"
    OBVIOUS
  <2>1. i \in DOMAIN l /\ e[i] = [path |-> <<>>, field |-> l[i]]
    BY <1>3, <1>4
  <2>2. e[i].field = l[i]
    BY <2>1
  <2> QED
    BY <1>3, <2>1, <2>2
<1>7. LoopsSet(todo', pointer')
  BY <1>5, <1>6 DEF LoopsSet
<1>8. StillHeld(todo', pointer', live')
  BY DEF Held, StillHeld
<1> QED
  BY <1>1, <1>4, <1>5, <1>7, <1>8
     DEF HeapInv, Idle, Kind, Packet, WhileParsing, WhenParsed, WhileEncoding, WhileFreeing

LEMMA GoesOnEncoding ==
  ASSUME HeapInv, IInv', pc = "encoding", pc' = "encoding",
         UNCHANGED <<type, fields, pointer>>,
         live \subseteq live', allocated' \in Nat, allocated <= allocated',
         Ready(todo', fields, pointer),
         \/ WillStart(todo', fields)
         \/ \A q \in DOMAIN pointer : pointer[q] # allocated'
  PROVE  HeapInv'
<1>1. type' \in PacketTypes
  BY DEF HeapInv, Kind
<1>2. allocated \in Nat /\ Heap
  BY DEF HeapInv, IInv, TypeOK
<1>3. 1..allocated \subseteq 1..allocated'
  BY <1>2
<1>4. Heap'
  BY <1>2, <1>3 DEF Heap
<1>5. Packet'
  BY DEF HeapInv, Packet, Held
<1>6. WhenParsed' /\ WhileEncoding'
  BY DEF HeapInv, WhenParsed, WhileEncoding
<1> QED
  BY <1>1, <1>4, <1>5, <1>6
     DEF HeapInv, Idle, Kind, WhileParsing, WhileFreeing

LEMMA GoesOnFreeing ==
  ASSUME HeapInv, IInv', pc = "freeing", pc' = "freeing",
         UNCHANGED <<type, pointer, allocated>>,
         Stack(todo'), LoopsSet(todo', pointer), StillHeld(todo', pointer, live')
  PROVE  HeapInv'
<1>1. type' \in PacketTypes
  BY DEF HeapInv, Kind
<1>2. Heap'
  BY DEF HeapInv, Heap
<1> QED
  BY <1>1, <1>2 DEF HeapInv, Idle, Kind, Packet, WhileParsing, WhenParsed, WhileEncoding, WhileFreeing

LEMMA IsParsed ==
  ASSUME HeapInv, IInv', pc \in {"parsing", "encoding"}, pc' = "parsed", todo' = <<>>,
         UNCHANGED <<type, fields, pointer, allocated>>, Held',
         Complete(type, fields, pointer)
  PROVE  HeapInv'
<1>1. type' \in PacketTypes
  BY DEF HeapInv, Kind
<1>2. Heap'
  BY DEF HeapInv, Heap
<1>3. Packet'
  BY DEF HeapInv, Packet
<1> QED
  BY <1>1, <1>2, <1>3 DEF HeapInv, Idle, Kind, Packet, WhileParsing, WhenParsed, WhileEncoding, WhileFreeing

LEMMA IsReturned ==
  ASSUME HeapInv, IInv', pc' = "returned", todo' = <<>>, UNCHANGED <<pointer, allocated>>
  PROVE  HeapInv'
<1>1. Heap'
  BY DEF HeapInv, Heap
<1> QED
  BY <1>1 DEF HeapInv, Idle, Kind, Packet, WhileParsing, WhenParsed, WhileEncoding, WhileFreeing

-----------------------------------------------------------------------------
(* Parsing.                                                                *)

\* What is known when a parser is at a field.
LEMMA AtField ==
  ASSUME HeapInv, pc = "parsing", todo # <<>>
  PROVE  /\ Parsing(mdr_packet_from_frame(type), todo, fields, pointer)
         /\ Walked(todo, fields, pointer) /\ Stack(todo) /\ IsSeq(todo)
         /\ TidyItem(todo[1]) /\ Field = todo[1].field /\ Here(Field.name) = Spot(todo[1])
         /\ Loop = LoopOf(todo[1])
         /\ \A q \in DOMAIN fields : fields[q] \in Nat
         /\ Heap /\ Held /\ \A q \in DOMAIN pointer : pointer[q] # NULL
<1>1. Parsing(mdr_packet_from_frame(type), todo, fields, pointer)
  BY DEF HeapInv, WhileParsing
<1>2. Walked(todo, fields, pointer) /\ Stack(todo) /\ IsSeq(todo)
  BY <1>1 DEF Parsing, Walked, Stack
<1>3. \A q \in DOMAIN fields : fields[q] \in Nat
  <2>1. \A q \in DOMAIN fields : fields[q] \in Byte
    BY DEF HeapInv, IInv, TypeOK
  <2>2. \A b \in Byte : b \in Nat
    BY DEF Byte
  <2> QED
    BY <2>1, <2>2
<1>4. Heap /\ Held /\ \A q \in DOMAIN pointer : pointer[q] # NULL
  BY DEF HeapInv, Packet
<1>5. TidyItem(todo[1])
  BY <1>2, SeqTail, SeqLen DEF Stack
<1>6. Field = todo[1].field /\ Here(Field.name) = Spot(todo[1]) /\ Loop = LoopOf(todo[1])
  BY <1>2, LoopIs
<1> QED
  BY <1>1, <1>2, <1>3, <1>4, <1>5, <1>6

LEMMA ReaderProceeds ==
  ASSUME HeapInv, IInv', pc = "parsing", pc' = "parsing", type' = type, todo # <<>>,
         Field.op \in Readers, NEW v, Field.op = "enum" => v \in Field.values,
         fields' = Set(fields, Here(Field.name), v),
         UNCHANGED <<pointer, live, allocated>>, todo' = Tail(todo)
  PROVE  HeapInv'
<1> DEFINE h == todo[1]
           root == mdr_packet_from_frame(type)
<1>1. /\ Parsing(root, todo, fields, pointer)
      /\ Walked(todo, fields, pointer) /\ IsSeq(todo)
      /\ TidyItem(h) /\ Field = h.field /\ Here(Field.name) = Spot(h)
      /\ \A q \in DOMAIN fields : fields[q] \in Nat
      /\ Heap /\ Held /\ \A q \in DOMAIN pointer : pointer[q] # NULL
  BY AtField
<1>2. h.field.op \in Readers /\ h.field.op \in Single /\ h.field.op \notin {"each", "loop", "switch"}
  BY <1>1 DEF Readers, Single
<1>3. Spot(h) \notin DOMAIN fields
  <2>1. 1 \in 1..Len(todo)
    BY <1>1, SeqTail, SeqLen
  <2>2. Covers(h, Spot(h))
    BY <1>1, <1>2, CoversSpot
  <2> QED
    BY <1>1, <2>1, <2>2 DEF Walked, CoveredBy
<1>4. /\ \A q \in DOMAIN fields : q \in DOMAIN fields' /\ fields'[q] = fields[q]
      /\ \A q \in DOMAIN fields' : q \in DOMAIN fields \/ q = Spot(h)
      /\ Spot(h) \in DOMAIN fields' /\ fields'[Spot(h)] = v
  BY <1>1, <1>3 DEF Set
<1>5. Parsing(root, Tail(todo), fields', pointer)
  <2>1. /\ \A q \in DOMAIN fields : q \in DOMAIN fields' /\ fields'[q] = fields[q] /\ fields[q] \in Nat
        /\ \A q \in DOMAIN fields' : q \in DOMAIN fields \/ (q = Spot(todo[1]) /\ todo[1].field.op \in Single)
        /\ todo[1].field.op \in Readers => Spot(todo[1]) \in DOMAIN fields'
        /\ todo[1].field.op = "enum" => fields'[Spot(todo[1])] \in todo[1].field.values
        /\ todo[1].field.op \notin {"each", "loop", "switch"}
    BY <1>1, <1>2, <1>4
  <2>2. DOMAIN pointer \subseteq DOMAIN pointer /\ Parsing(root, todo, fields, pointer)
    BY <1>1
  <2> HIDE DEF root
  <2> QED
    BY <2>1, <2>2, ParsingPops
<1>6. Heap' /\ Held' /\ \A q \in DOMAIN pointer' : pointer'[q] # NULL
  BY <1>1 DEF Heap, Held
<1> QED
  BY <1>5, <1>6, GoesOnParsing

\* A block is allocated, and the parser is done with the field.
LEMMA BlockProceeds ==
  ASSUME HeapInv, IInv', pc = "parsing", pc' = "parsing", type' = type, todo # <<>>,
         Field.op \in {"bytes", "name", "zeros"}, Allocates, fields' = fields,
         todo' = Tail(todo)
  PROVE  HeapInv'
<1> DEFINE h == todo[1]
           root == mdr_packet_from_frame(type)
<1>1. /\ Parsing(root, todo, fields, pointer)
      /\ Field = h.field
      /\ \A q \in DOMAIN fields : fields[q] \in Nat
      /\ Heap /\ Held /\ \A q \in DOMAIN pointer : pointer[q] # NULL
  BY AtField
<1>2. /\ Heap' /\ Held' /\ DOMAIN pointer \subseteq DOMAIN pointer'
      /\ \A q \in DOMAIN pointer' : pointer'[q] # NULL
  BY <1>1, HeapAllocates DEF Allocates
<1>3. todo[1].field.op \notin {"each", "loop", "switch", "enum"} /\ todo[1].field.op \notin Readers
  BY <1>1 DEF Readers
<1>4. Parsing(root, Tail(todo), fields, pointer')
  <2>1. Parsing(root, todo, fields, pointer)
    BY <1>1
  <2> HIDE DEF root
  <2> QED
    BY <1>1, <1>2, <1>3, <2>1, ParsingPops
<1> QED
  BY <1>2, <1>4, GoesOnParsing

LEMMA ArrayProceeds ==
  ASSUME HeapInv, IInv', ParseForEach
  PROVE  HeapInv'
<1> DEFINE h == todo[1]
           root == mdr_packet_from_frame(type)
<1>0. /\ pc = "parsing" /\ pc' = "parsing" /\ todo # <<>> /\ Field.op = "each" /\ Allocates
      /\ type' = type /\ fields' = fields /\ todo' = Loop \o Tail(todo)
  BY DEF ParseForEach, At, frameVars
<1>1. /\ Parsing(root, todo, fields, pointer)
      /\ Field = h.field /\ Here(Field.name) = Spot(h) /\ Loop = LoopOf(h)
      /\ Heap /\ Held /\ \A q \in DOMAIN pointer : pointer[q] # NULL
  BY <1>0, AtField
<1>2. /\ Heap' /\ Held' /\ DOMAIN pointer \subseteq DOMAIN pointer'
      /\ \A q \in DOMAIN pointer' : pointer'[q] # NULL
      /\ Spot(h) \in DOMAIN pointer'
  BY <1>0, <1>1, HeapAllocates DEF Allocates
<1>3. Parsing(root, LoopOf(todo[1]) \o Tail(todo), fields, pointer')
  <2>1. Parsing(root, todo, fields, pointer) /\ todo[1].field.op = "each" /\ Spot(todo[1]) \in DOMAIN pointer'
    BY <1>0, <1>1, <1>2
  <2> HIDE DEF root
  <2> QED
    BY <1>0, <1>2, <2>1, ParsingLoops
<1>4. Parsing(root, todo', fields', pointer')
  BY <1>0, <1>1, <1>3
<1> QED
  BY <1>0, <1>2, <1>4, GoesOnParsing

LEMMA BranchWhileParsing ==
  ASSUME HeapInv, IInv', Branch, pc = "parsing"
  PROVE  HeapInv'
<1> DEFINE h == todo[1]
           root == mdr_packet_from_frame(type)
<1>0. /\ pc' = "parsing" /\ todo # <<>>
      /\ UNCHANGED <<type, fields, pointer, live, allocated>>
  BY DEF Branch, At, frameVars, packetVars, memoryVars
<1>1. /\ Parsing(root, todo, fields, pointer) /\ Walked(todo, fields, pointer) /\ IsSeq(todo)
      /\ Field = h.field
      /\ \A q \in DOMAIN fields : fields[q] \in Nat
      /\ Heap /\ Held /\ \A q \in DOMAIN pointer : pointer[q] # NULL
  BY <1>0, AtField
<1>2. h.field.op = "switch"
  BY <1>1 DEF Branch, At
<1>3. Spot(h) \in DOMAIN fields
  BY <1>0, <1>1, <1>2, HeadIs
<1>4. \/ /\ todo' = Tail(todo)
         /\ \A c \in DOMAIN h.field.cases : fields[Spot(h)] \notin h.field.cases[c].values
      \/ \E c \in DOMAIN h.field.cases :
           /\ fields[Spot(h)] \in h.field.cases[c].values
           /\ todo' = Enter(h.path, h.field.cases[c].layout) \o Tail(todo)
  BY <1>1, <1>3, BranchIs
<1>5. Parsing(root, todo, fields, pointer) /\ todo[1] = h
  BY <1>1
<1> HIDE DEF root
<1>6. CASE /\ todo' = Tail(todo)
           /\ \A c \in DOMAIN h.field.cases : fields[Spot(h)] \notin h.field.cases[c].values
  <2>1. todo[1].field.op \notin {"each", "loop", "enum"} /\ todo[1].field.op \notin Readers
    BY <1>2 DEF Readers
  <2>2. Parsing(root, Tail(todo), fields, pointer)
    BY <1>0, <1>1, <1>2, <1>5, <1>6, <2>1, ParsingPops
  <2>3. Parsing(root, todo', fields', pointer')
    BY <1>0, <1>6, <2>2
  <2>4. Heap' /\ Held' /\ \A q \in DOMAIN pointer' : pointer'[q] # NULL
    BY <1>0, <1>1 DEF Heap, Held
  <2> QED
    BY <1>0, <2>3, <2>4, GoesOnParsing DEF root
<1>7. ASSUME NEW c \in DOMAIN h.field.cases,
             fields[Spot(h)] \in h.field.cases[c].values,
             todo' = Enter(h.path, h.field.cases[c].layout) \o Tail(todo)
      PROVE  HeapInv'
  <2>1. Parsing(root, Enter(h.path, h.field.cases[c].layout) \o Tail(todo), fields, pointer)
    BY <1>0, <1>2, <1>5, <1>7, ParsingBranches
  <2>2. Parsing(root, todo', fields', pointer')
    BY <1>0, <1>7, <2>1
  <2>3. Heap' /\ Held' /\ \A q \in DOMAIN pointer' : pointer'[q] # NULL
    BY <1>0, <1>1 DEF Heap, Held
  <2> QED
    BY <1>0, <2>2, <2>3, GoesOnParsing DEF root
<1> QED
  BY <1>4, <1>6, <1>7

LEMMA RepeatWhileParsing ==
  ASSUME HeapInv, IInv', Repeat, pc = "parsing"
  PROVE  HeapInv'
<1> DEFINE h == todo[1]
           root == mdr_packet_from_frame(type)
           n == fields[Append(h.path, h.field.count)]
<1>0. /\ pc' = "parsing" /\ todo # <<>>
      /\ UNCHANGED <<type, fields, pointer, live, allocated>>
  BY DEF Repeat, At, frameVars, packetVars, memoryVars
<1>1. /\ Parsing(root, todo, fields, pointer) /\ Walked(todo, fields, pointer) /\ IsSeq(todo)
      /\ Field = h.field
      /\ \A q \in DOMAIN fields : fields[q] \in Nat
      /\ Heap /\ Held /\ \A q \in DOMAIN pointer : pointer[q] # NULL
  BY <1>0, AtField
<1>2. h.field.op = "loop"
  BY <1>1 DEF Repeat, At
<1>3. Append(h.path, h.field.count) \in DOMAIN fields /\ n \in Nat
  BY <1>0, <1>1, <1>2, HeadIs
<1>4. \/ todo' = Tail(todo) /\ h.field.done = n
      \/ todo' = TurnOf(h) \o Tail(todo) /\ h.field.done # n
  BY <1>1, <1>3, RepeatIs
<1>5. Parsing(root, todo, fields, pointer) /\ todo[1] = h
  BY <1>1
<1>6. Heap' /\ Held' /\ \A q \in DOMAIN pointer' : pointer'[q] # NULL
  BY <1>0, <1>1 DEF Heap, Held
<1> HIDE DEF root
<1>7. CASE todo' = Tail(todo) /\ h.field.done = n
  <2>1. todo[1].field.op \notin {"each", "switch", "enum"} /\ todo[1].field.op \notin Readers
    BY <1>2 DEF Readers
  <2>2. Parsing(root, Tail(todo), fields, pointer)
    BY <1>0, <1>1, <1>2, <1>5, <1>7, <2>1, ParsingPops
  <2>3. Parsing(root, todo', fields', pointer')
    BY <1>0, <1>7, <2>2
  <2> QED
    BY <1>0, <1>6, <2>3, GoesOnParsing DEF root
<1>8. CASE todo' = TurnOf(h) \o Tail(todo)
  <2>1. Parsing(root, TurnOf(h) \o Tail(todo), fields, pointer)
    BY <1>0, <1>2, <1>3, <1>5, ParsingTurns
  <2>2. Parsing(root, todo', fields', pointer')
    BY <1>0, <1>8, <2>1
  <2> QED
    BY <1>0, <1>6, <2>2, GoesOnParsing DEF root
<1> QED
  BY <1>4, <1>7, <1>8

LEMMA EnumParsed ==
  ASSUME HeapInv, IInv', ParseEnum
  PROVE  HeapInv'
<1>1. PICK b : Reads(b, b) /\ IF b \in Field.values THEN Proceeds ELSE GivesUp("INVALID_FRAME")
  BY DEF ParseEnum
<1>2. pc = "parsing" /\ todo # <<>> /\ Field.op = "enum"
  BY DEF ParseEnum, At
<1>3. fields' = Set(fields, Here(Field.name), b) /\ UNCHANGED <<pointer, live, allocated>>
  BY <1>1 DEF Reads, memoryVars
<1>4. CASE b \in Field.values
  <2>1. todo' = Tail(todo) /\ UNCHANGED <<type, pc>>
    BY <1>1, <1>4 DEF Proceeds, frameVars
  <2> QED
    BY <1>2, <1>3, <1>4, <2>1, ReaderProceeds DEF Readers
<1>5. CASE b \notin Field.values
  <2>1. todo' = Enter(<<>>, mdr_packet_free(type)) /\ type' = type /\ pc' = "freeing"
    BY <1>1, <1>5 DEF GivesUp, frameVars
  <2>2. Heap' /\ Held'
    <3>1. Heap /\ Held
      BY <1>2 DEF HeapInv, Packet
    <3> QED
      BY <1>3, <3>1 DEF Heap, Held
  <2> QED
    BY <1>2, <2>1, <2>2, BeginsFreeing
<1> QED
  BY <1>4, <1>5

LEMMA ByteParsed ==
  ASSUME HeapInv, IInv', ParsePlain \/ ParseCount \/ ParseClamped
  PROVE  HeapInv'
<1>1. PICK b, v : Reads(b, v) /\ Proceeds
  BY DEF ParsePlain, ParseCount, ParseClamped
<1>2. pc = "parsing" /\ todo # <<>> /\ Field.op \in {"plain", "count", "clamped"}
  BY DEF ParsePlain, ParseCount, ParseClamped, At
<1>3. /\ fields' = Set(fields, Here(Field.name), v) /\ UNCHANGED <<pointer, live, allocated>>
      /\ todo' = Tail(todo) /\ UNCHANGED <<type, pc>>
  BY <1>1 DEF Reads, memoryVars, Proceeds, frameVars
<1> QED
  BY <1>2, <1>3, ReaderProceeds DEF Readers

LEMMA BlockParsed ==
  ASSUME HeapInv, IInv', ParseBytes \/ ParseZeros
  PROVE  HeapInv'
<1>1. pc = "parsing" /\ todo # <<>> /\ Field.op \in {"bytes", "name", "zeros"}
  BY DEF ParseBytes, ParseZeros, IsBlock, At
<1>2. Allocates /\ fields' = fields /\ todo' = Tail(todo) /\ UNCHANGED <<type, pc>>
  BY DEF ParseBytes, ParseZeros, Proceeds, frameVars
<1> QED
  BY <1>1, <1>2, BlockProceeds

LEMMA ParserFails ==
  ASSUME HeapInv, IInv', TooShort \/ OutOfMemory
  PROVE  HeapInv'
<1>1. pc = "parsing"
  BY DEF TooShort, OutOfMemory, IsBlock, At
<1>2. todo' = Enter(<<>>, mdr_packet_free(type)) /\ type' = type /\ pc' = "freeing"
      /\ UNCHANGED <<live, allocated>>
  BY DEF TooShort, OutOfMemory, GivesUp, frameVars, memoryVars
<1>3. Heap /\ Held
  BY <1>1 DEF HeapInv, Packet
<1>4. Heap' /\ Held'
  <2>1. CASE TooShort
    BY <1>2, <1>3, <2>1 DEF TooShort, packetVars, Heap, Held
  <2>2. CASE OutOfMemory
    BY <1>2, <1>3, <2>2, HeapForgets DEF OutOfMemory
  <2> QED
    BY <2>1, <2>2
<1> QED
  BY <1>1, <1>2, <1>4, BeginsFreeing

LEMMA ParserBegins ==
  ASSUME HeapInv, IInv', Parse
  PROVE  HeapInv'
<1> DEFINE l == mdr_packet_from_frame(type)
<1>1. /\ pc' = "parsing" /\ todo' = Enter(<<>>, l) /\ type \in PacketTypes /\ type' = type
      /\ fields' = <<>> /\ pointer' = <<>>
  BY DEF Parse, HeapInv, Kind, frameVars, packetVars
<1>2. DOMAIN <<>> = {}
  OBVIOUS
<1>3. Neat(l) /\ Orderly(l)
  BY <1>1, Layouts
<1>4. Parsing(l, todo', fields', pointer')
  <2> HIDE DEF l
  <2> QED
    BY <1>1, <1>3, ParsingStarts
<1>5. Heap' /\ Packet'
  BY <1>1, <1>2 DEF Heap, Packet, Held
<1> QED
  BY <1>1, <1>4, <1>5 DEF HeapInv, Idle, Kind, WhileParsing, WhenParsed, WhileEncoding, WhileFreeing

LEMMA ParserEnds ==
  ASSUME HeapInv, IInv', ParseEnds
  PROVE  HeapInv'
<1>1. /\ pc = "parsing" /\ todo = <<>> /\ pc' = "parsed" /\ todo' = <<>>
      /\ UNCHANGED <<type, fields, pointer, live, allocated>>
  BY DEF ParseEnds, frameVars, packetVars, memoryVars
<1>2. Complete(type, fields, pointer)
  BY <1>1 DEF HeapInv, WhileParsing, Parsing, Complete
<1>3. Held'
  BY <1>1 DEF HeapInv, Packet, Held
<1> QED
  BY <1>1, <1>2, <1>3, IsParsed

-----------------------------------------------------------------------------
(* Encoding.                                                               *)

LEMMA ReadyToStart ==
  ASSUME NEW t \in PacketTypes, NEW F, NEW Q, Complete(t, F, Q)
  PROVE  LET e == Enter(<<>>, mdr_packet_to_frame(t)) IN Ready(e, F, Q) /\ WillStart(e, F)
<1> DEFINE w == mdr_packet_to_frame(t)
           l == mdr_packet_from_frame(t)
           e == Enter(<<>>, w)
<1>1. PICK T : <<l, <<>>>> \in T /\ Built(T, <<>>, F, Q)
  BY DEF Complete
<1>2. IsSeq(w) /\ Mirror(w, l) /\ StartReady(w, l)
  BY Layouts DEF Mirrored
<1> HIDE DEF w, l
<1>3. Supported(w, <<>>, F, Q)
  BY <1>1, <1>2 DEF Supported
<1>4. Ready(e, F, Q)
  BY <1>3, SupportedEnters
<1>5. /\ Len(e) = Len(w) /\ DOMAIN w = 1..Len(w)
      /\ \A i \in 1..Len(w) : e[i] = [path |-> <<>>, field |-> w[i]]
  BY <1>2, SeqEnter, SeqLen
<1> HIDE DEF e
<1>6. ASSUME NEW i \in DOMAIN w
      PROVE  i \in 1..Len(e) /\ e[i].field = w[i] /\ Spot(e[i]) = Append(<<>>, w[i].name)
  <2>1. i \in 1..Len(e) /\ e[i] = [path |-> <<>>, field |-> w[i]]
    BY <1>5
  <2> QED
    BY <2>1 DEF Spot
<1>7. CASE HasStart(w)
  <2>1. PICK i \in DOMAIN w : w[i].op = "start"
    BY <1>7 DEF HasStart
  <2>2. i \in 1..Len(e) /\ Starts(e[i], F)
    BY <1>6, <2>1 DEF Starts
  <2> QED
    BY <1>4, <2>2 DEF WillStart, e, w
<1>8. CASE \E i \in DOMAIN w :
             /\ w[i].op = "switch"
             /\ \A c \in DOMAIN w[i].cases : HasStart(w[i].cases[c].layout)
             /\ \E j \in DOMAIN l :
                  /\ l[j].op = "enum" /\ l[j].name = w[i].name
                  /\ \A v \in l[j].values : \E c \in DOMAIN w[i].cases : v \in w[i].cases[c].values
  <2>1. PICK i \in DOMAIN w :
             /\ w[i].op = "switch"
             /\ \A c \in DOMAIN w[i].cases : HasStart(w[i].cases[c].layout)
             /\ \E j \in DOMAIN l :
                  /\ l[j].op = "enum" /\ l[j].name = w[i].name
                  /\ \A v \in l[j].values : \E c \in DOMAIN w[i].cases : v \in w[i].cases[c].values
    BY <1>8
  <2>2. PICK j \in DOMAIN l :
                  /\ l[j].op = "enum" /\ l[j].name = w[i].name
                  /\ \A v \in l[j].values : \E c \in DOMAIN w[i].cases : v \in w[i].cases[c].values
    BY <2>1
  <2>3. F[Append(<<>>, l[j].name)] \in l[j].values
    BY <1>1, <2>2, BuiltIs
  <2>4. i \in 1..Len(e) /\ e[i].field = w[i] /\ Spot(e[i]) = Append(<<>>, w[i].name)
    BY <1>6
  <2>5. Starts(e[i], F)
    BY <2>1, <2>2, <2>3, <2>4 DEF Starts
  <2> QED
    BY <1>4, <2>4, <2>5 DEF WillStart, e, w
<1> QED
  BY <1>2, <1>7, <1>8 DEF StartReady

LEMMA EncoderBegins ==
  ASSUME HeapInv, IInv', Encode
  PROVE  HeapInv'
<1>1. /\ pc = "parsed" /\ pc' = "encoding" /\ todo' = Enter(<<>>, mdr_packet_to_frame(type))
      /\ UNCHANGED <<type, fields, pointer, live, allocated>>
  BY DEF Encode, frameVars, packetVars, memoryVars
<1>2. type \in PacketTypes /\ Complete(type, fields, pointer)
  BY <1>1 DEF HeapInv, Kind, WhenParsed
<1>3. Ready(todo', fields, pointer) /\ WillStart(todo', fields)
  BY <1>1, <1>2, ReadyToStart
<1>4. Heap' /\ Packet'
  BY <1>1 DEF HeapInv, Heap, Packet, Held
<1> QED
  BY <1>1, <1>2, <1>3, <1>4
     DEF HeapInv, Idle, Kind, WhileParsing, WhenParsed, WhileEncoding, WhileFreeing

\* What is known when an encoder is at a field.
LEMMA AtWrite ==
  ASSUME HeapInv, pc = "encoding", todo # <<>>
  PROVE  /\ Ready(todo, fields, pointer) /\ IsSeq(todo)
         /\ Field = todo[1].field /\ Loop = LoopOf(todo[1])
         /\ \A q \in DOMAIN fields : fields[q] \in Nat
         /\ WillStart(todo, fields) \/ \A q \in DOMAIN pointer : pointer[q] # allocated
         /\ allocated \in Nat
<1>1. /\ Ready(todo, fields, pointer) /\ IsSeq(todo)
      /\ WillStart(todo, fields) \/ \A q \in DOMAIN pointer : pointer[q] # allocated
  BY DEF HeapInv, WhileEncoding, Ready
<1>2. Field = todo[1].field /\ Loop = LoopOf(todo[1])
  BY <1>1, LoopIs
<1>3. allocated \in Nat /\ \A q \in DOMAIN fields : fields[q] \in Byte
  BY DEF HeapInv, IInv, TypeOK
<1>4. \A b \in Byte : b \in Nat
  BY DEF Byte
<1> QED
  BY <1>1, <1>2, <1>3, <1>4

LEMMA BranchWhileEncoding ==
  ASSUME HeapInv, IInv', Branch, pc = "encoding"
  PROVE  HeapInv'
<1> DEFINE h == todo[1]
<1>0. /\ pc' = "encoding" /\ todo # <<>>
      /\ UNCHANGED <<type, fields, pointer, live, allocated>>
  BY DEF Branch, At, frameVars, packetVars, memoryVars
<1>1. /\ Ready(todo, fields, pointer) /\ IsSeq(todo) /\ Field = h.field
      /\ WillStart(todo, fields) \/ \A q \in DOMAIN pointer : pointer[q] # allocated
      /\ allocated \in Nat
  BY <1>0, AtWrite
<1>2. h.field.op = "switch"
  BY <1>1 DEF Branch, At
<1>3. Spot(h) \in DOMAIN fields
  BY <1>0, <1>1, <1>2, ReadyHead
<1>4. \/ /\ todo' = Tail(todo)
         /\ \A c \in DOMAIN h.field.cases : fields[Spot(h)] \notin h.field.cases[c].values
      \/ \E c \in DOMAIN h.field.cases :
           /\ fields[Spot(h)] \in h.field.cases[c].values
           /\ todo' = Enter(h.path, h.field.cases[c].layout) \o Tail(todo)
  BY <1>1, <1>3, BranchIs
<1>5. Ready(todo', fields, pointer) /\ (WillStart(todo, fields) => WillStart(todo', fields))
  <2>1. CASE /\ todo' = Tail(todo)
             /\ \A c \in DOMAIN h.field.cases : fields[Spot(h)] \notin h.field.cases[c].values
    <3>1. ~Starts(h, fields)
      BY <1>2, <2>1 DEF Starts
    <3> QED
      BY <1>0, <1>1, <2>1, <3>1, ReadyTail
  <2>2. ASSUME NEW c \in DOMAIN h.field.cases,
               fields[Spot(h)] \in h.field.cases[c].values,
               todo' = Enter(h.path, h.field.cases[c].layout) \o Tail(todo)
        PROVE  Ready(todo', fields, pointer) /\ (WillStart(todo, fields) => WillStart(todo', fields))
    BY <1>0, <1>1, <1>2, <2>2, ReadyBranches
  <2> QED
    BY <1>4, <2>1, <2>2
<1> QED
  BY <1>0, <1>1, <1>5, GoesOnEncoding

LEMMA RepeatWhileEncoding ==
  ASSUME HeapInv, IInv', Repeat, pc = "encoding"
  PROVE  HeapInv'
<1> DEFINE h == todo[1]
           n == fields[Append(h.path, h.field.count)]
<1>0. /\ pc' = "encoding" /\ todo # <<>>
      /\ UNCHANGED <<type, fields, pointer, live, allocated>>
  BY DEF Repeat, At, frameVars, packetVars, memoryVars
<1>1. /\ Ready(todo, fields, pointer) /\ IsSeq(todo) /\ Field = h.field
      /\ \A q \in DOMAIN fields : fields[q] \in Nat
      /\ WillStart(todo, fields) \/ \A q \in DOMAIN pointer : pointer[q] # allocated
      /\ allocated \in Nat
  BY <1>0, AtWrite
<1>2. h.field.op = "loop"
  BY <1>1 DEF Repeat, At
<1>3. Append(h.path, h.field.count) \in DOMAIN fields /\ n \in Nat
  BY <1>0, <1>1, <1>2, ReadyHead
<1>4. \/ todo' = Tail(todo) /\ h.field.done = n
      \/ todo' = TurnOf(h) \o Tail(todo) /\ h.field.done # n
  BY <1>1, <1>3, RepeatIs
<1>5. ~Starts(h, fields)
  BY <1>2 DEF Starts
<1>6. CASE todo' = Tail(todo)
  <2>1. Ready(todo', fields, pointer) /\ (WillStart(todo, fields) => WillStart(todo', fields))
    BY <1>0, <1>1, <1>5, <1>6, ReadyTail
  <2> QED
    BY <1>0, <1>1, <2>1, GoesOnEncoding
<1>7. CASE todo' = TurnOf(h) \o Tail(todo) /\ h.field.done # n
  <2>1. Ready(todo', fields, pointer) /\ (WillStart(todo, fields) => WillStart(todo', fields))
    BY <1>0, <1>1, <1>2, <1>3, <1>5, <1>7, ReadyTurns
  <2> QED
    BY <1>0, <1>1, <2>1, GoesOnEncoding
<1> QED
  BY <1>4, <1>6, <1>7

LEMMA ArrayEncoded ==
  ASSUME HeapInv, IInv', WriteForEach
  PROVE  HeapInv'
<1> DEFINE h == todo[1]
<1>0. /\ pc = "encoding" /\ pc' = "encoding" /\ todo # <<>> /\ Field.op = "each"
      /\ todo' = Loop \o Tail(todo)
      /\ UNCHANGED <<type, fields, pointer, live, allocated>>
  BY DEF WriteForEach, At, frameVars, packetVars, memoryVars
<1>1. /\ Ready(todo, fields, pointer) /\ IsSeq(todo) /\ Field = h.field /\ Loop = LoopOf(h)
      /\ \A q \in DOMAIN fields : fields[q] \in Nat
      /\ WillStart(todo, fields) \/ \A q \in DOMAIN pointer : pointer[q] # allocated
      /\ allocated \in Nat
  BY <1>0, AtWrite
<1>2. Append(h.path, h.field.count) \in DOMAIN fields
  BY <1>0, <1>1, ReadyHead
<1>3. ~Starts(h, fields)
  BY <1>0, <1>1 DEF Starts
<1>4. Ready(todo', fields, pointer) /\ (WillStart(todo, fields) => WillStart(todo', fields))
  BY <1>0, <1>1, <1>2, <1>3, ReadyLoops
<1> QED
  BY <1>0, <1>1, <1>4, GoesOnEncoding

LEMMA FieldEncoded ==
  ASSUME HeapInv, IInv', WriteField \/ WriteBytes \/ AddLength
  PROVE  HeapInv'
<1>0. /\ pc = "encoding" /\ pc' = "encoding" /\ todo # <<>>
      /\ Field.op \in {"put", "putbytes", "add"}
      /\ todo' = Tail(todo)
      /\ UNCHANGED <<type, fields, pointer, live, allocated>>
  BY DEF WriteField, WriteBytes, AddLength, Writes, At, frameVars, packetVars, memoryVars
<1>1. /\ Ready(todo, fields, pointer) /\ Field = todo[1].field
      /\ WillStart(todo, fields) \/ \A q \in DOMAIN pointer : pointer[q] # allocated
      /\ allocated \in Nat
  BY <1>0, AtWrite
<1>2. ~Starts(todo[1], fields)
  BY <1>0, <1>1 DEF Starts
<1>3. Ready(todo', fields, pointer) /\ (WillStart(todo, fields) => WillStart(todo', fields))
  BY <1>0, <1>1, <1>2, ReadyTail
<1> QED
  BY <1>0, <1>1, <1>3, GoesOnEncoding

LEMMA FrameStarts ==
  ASSUME HeapInv, IInv', StartFrame
  PROVE  HeapInv'
<1>0. /\ pc = "encoding" /\ pc' = "encoding" /\ todo # <<>> /\ todo' = Tail(todo)
      /\ UNCHANGED <<type, fields, pointer>>
      /\ allocated' = allocated + 1 /\ live' = live \cup {allocated + 1}
  BY DEF StartFrame, At, frameVars, packetVars
<1>1. Ready(todo, fields, pointer) /\ allocated \in Nat
  BY <1>0, AtWrite
<1>2. Ready(todo', fields, pointer)
  BY <1>0, <1>1, ReadyTail
<1>3. \A q \in DOMAIN pointer : pointer[q] # allocated'
  <2>1. \A q \in DOMAIN pointer : pointer[q] = NULL \/ pointer[q] \in 1..allocated
    BY DEF HeapInv, Heap
  <2>2. allocated + 1 # NULL /\ allocated + 1 \notin 1..allocated
    BY <1>1 DEF NULL
  <2> QED
    BY <1>0, <2>1, <2>2
<1>4. live \subseteq live' /\ allocated' \in Nat /\ allocated <= allocated'
  BY <1>0, <1>1
<1> QED
  BY <1>0, <1>2, <1>3, <1>4, GoesOnEncoding

LEMMA EncoderEnds ==
  ASSUME HeapInv, IInv', EncodeEnds \/ NoFrame
  PROVE  HeapInv'
<1>0. /\ pc = "encoding" /\ pc' = "parsed" /\ todo' = <<>>
      /\ UNCHANGED <<type, fields, pointer, allocated>>
  BY DEF EncodeEnds, NoFrame, At, frameVars, packetVars, memoryVars
<1>1. /\ Complete(type, fields, pointer) /\ Held
      /\ WillStart(todo, fields) \/ \A q \in DOMAIN pointer : pointer[q] # allocated
  BY <1>0 DEF HeapInv, WhenParsed, Packet, WhileEncoding
<1>2. Held'
  <2>1. CASE NoFrame
    BY <1>0, <1>1, <2>1 DEF NoFrame, memoryVars, Held
  <2>2. CASE EncodeEnds
    <3>1. todo = <<>> /\ live' = live \ {allocated}
      BY <2>2 DEF EncodeEnds
    <3>2. ~WillStart(todo, fields)
      BY <3>1, NoItems DEF WillStart
    <3> QED
      BY <1>0, <1>1, <3>1, <3>2 DEF Held
  <2> QED
    BY <2>1, <2>2
<1> QED
  BY <1>0, <1>1, <1>2, IsParsed

-----------------------------------------------------------------------------
(* Freeing.                                                                *)

LEMMA LoopsPush ==
  ASSUME NEW s, IsSeq(s), s # <<>>, NEW new, IsSeq(new), NEW Q, LoopsSet(s, Q), LoopsSet(new, Q)
  PROVE  LoopsSet(new \o Tail(s), Q) /\ LoopsSet(Tail(s), Q)
<1> DEFINE r == new \o Tail(s)
           e == <<>>
<1>1. /\ Len(s) \in Nat
      /\ \A m \in 1..Len(r) : \/ m \in 1..Len(new) /\ r[m] = new[m]
                              \/ \E i \in 2..Len(s) : r[m] = s[i]
  BY PushSeq
<1>2. \A i \in 2..Len(s) : i \in 1..Len(s)
  BY <1>1
<1> HIDE DEF r
<1>3. LoopsSet(r, Q)
  <2> SUFFICES ASSUME NEW m \in 1..Len(r), r[m].field.op = "loop"
               PROVE  Spot(r[m]) \in DOMAIN Q /\ Q[Spot(r[m])] # NULL
    BY DEF LoopsSet
  <2>1. CASE m \in 1..Len(new) /\ r[m] = new[m]
    BY <2>1 DEF LoopsSet
  <2>2. ASSUME NEW i \in 2..Len(s), r[m] = s[i]
        PROVE  Spot(r[m]) \in DOMAIN Q /\ Q[Spot(r[m])] # NULL
    BY <1>2, <2>2 DEF LoopsSet
  <2> QED
    BY <1>1, <2>1, <2>2
<1>4. LoopsSet(Tail(s), Q)
  <2>1. /\ Len(Tail(s)) = Len(s) - 1
        /\ \A i \in 1..(Len(s) - 1) : Tail(s)[i] = s[i + 1]
    BY SeqTail
  <2> SUFFICES ASSUME NEW m \in 1..Len(Tail(s)), Tail(s)[m].field.op = "loop"
               PROVE  Spot(Tail(s)[m]) \in DOMAIN Q /\ Q[Spot(Tail(s)[m])] # NULL
    BY DEF LoopsSet
  <2>2. m + 1 \in 1..Len(s) /\ Tail(s)[m] = s[m + 1]
    BY <1>1, <2>1
  <2> QED
    BY <2>2 DEF LoopsSet
<1> QED
  BY <1>3, <1>4 DEF r

LEMMA AtFree ==
  ASSUME HeapInv, pc = "freeing", todo # <<>>
  PROVE  /\ Stack(todo) /\ IsSeq(todo) /\ LoopsSet(todo, pointer)
         /\ StillHeld(todo, pointer, live)
         /\ Field = todo[1].field /\ Here(Field.name) = Spot(todo[1]) /\ Loop = LoopOf(todo[1])
         /\ TidyItem(todo[1]) /\ 1 \in 1..Len(todo)
<1>1. /\ Stack(todo) /\ IsSeq(todo) /\ LoopsSet(todo, pointer)
      /\ StillHeld(todo, pointer, live)
  BY DEF HeapInv, WhileFreeing, Stack
<1>2. 1 \in 1..Len(todo) /\ TidyItem(todo[1])
  BY <1>1, SeqTail, SeqLen DEF Stack
<1> QED
  BY <1>1, <1>2, LoopIs

\* No loop is entered with a layout.
LEMMA EnterLoops ==
  ASSUME NEW path, NEW l, Tidy(l), NEW Q
  PROVE  IsSeq(Enter(path, l)) /\ LoopsSet(Enter(path, l), Q)
<1> DEFINE e == Enter(path, l)
<1>1. IsSeq(l) /\ DOMAIN l = 1..Len(l) /\ \A i \in DOMAIN l : l[i].op # "loop"
  BY TidyIs, SeqLen DEF Single
<1>2. IsSeq(e) /\ Len(e) = Len(l) /\ \A i \in 1..Len(l) : e[i] = [path |-> path, field |-> l[i]]
  BY <1>1, SeqEnter
<1> HIDE DEF e
<1>3. ASSUME NEW i \in 1..Len(e) PROVE e[i].field.op # "loop"
  <2>1. i \in DOMAIN l /\ e[i] = [path |-> path, field |-> l[i]]
    BY <1>1, <1>2
  <2>2. e[i].field = l[i]
    BY <2>1
  <2> QED
    BY <1>1, <2>1, <2>2
<1> QED
  BY <1>2, <1>3 DEF LoopsSet, e

LEMMA BranchWhileFreeing ==
  ASSUME HeapInv, IInv', Branch, pc = "freeing"
  PROVE  HeapInv'
<1> DEFINE h == todo[1]
           cases == {i \in DOMAIN Field.cases : Value(Field.name) \in Field.cases[i].values}
<1>0. /\ pc' = "freeing" /\ todo # <<>> /\ Field.op = "switch"
      /\ UNCHANGED <<type, pointer, live, allocated>>
  BY DEF Branch, At, frameVars, packetVars, memoryVars
<1>1. /\ Stack(todo) /\ IsSeq(todo) /\ LoopsSet(todo, pointer)
      /\ StillHeld(todo, pointer, live)
      /\ Field = h.field /\ TidyItem(h) /\ Head(todo) = h
  BY <1>0, AtFree, SeqTail
<1>2. Stack(todo') /\ Within(todo', todo)
  BY <1>1, BranchWalks
<1>3. LoopsSet(todo', pointer)
  <2>1. CASE cases = {}
    <3>1. todo' = Tail(todo)
      BY <2>1 DEF Branch
    <3> QED
      BY <1>0, <1>1, <3>1, LoopsPush
  <2>2. CASE cases # {}
    <3>1. PICK c \in DOMAIN h.field.cases :
            todo' = Enter(h.path, h.field.cases[c].layout) \o Tail(todo)
      <4>1. (CHOOSE i \in cases : TRUE) \in cases
        BY <2>2
      <4> QED
        BY <1>1, <2>2, <4>1 DEF Branch
    <3> DEFINE lay == h.field.cases[c].layout
               new == Enter(h.path, lay)
    <3>2. Tidy(lay)
      BY <1>0, <1>1 DEF TidyItem, TidyCases
    <3>3. todo' = new \o Tail(todo)
      BY <3>1
    <3> HIDE DEF lay
    <3>4. IsSeq(new) /\ LoopsSet(new, pointer)
      BY <3>2, EnterLoops
    <3> HIDE DEF new
    <3> QED
      BY <1>0, <1>1, <3>3, <3>4, LoopsPush
  <2> QED
    BY <2>1, <2>2
<1>4. StillHeld(todo', pointer, live')
  BY <1>0, <1>1, <1>2 DEF StillHeld, Within
<1> QED
  BY <1>0, <1>2, <1>3, <1>4, GoesOnFreeing

LEMMA RepeatWhileFreeing ==
  ASSUME HeapInv, IInv', Repeat, pc = "freeing"
  PROVE  HeapInv'
<1> DEFINE h == todo[1]
           lay == h.field.element
           body == Enter(NextElement(h), lay)
           last == <<Later(h)>>
           new == TurnOf(h)
<1>0. /\ pc' = "freeing" /\ todo # <<>> /\ Field.op = "loop"
      /\ UNCHANGED <<type, pointer, live, allocated>>
  BY DEF Repeat, At, frameVars, packetVars, memoryVars
<1>1. /\ Stack(todo) /\ IsSeq(todo) /\ LoopsSet(todo, pointer)
      /\ StillHeld(todo, pointer, live)
      /\ Field = h.field /\ TidyItem(h) /\ Head(todo) = h /\ 1 \in 1..Len(todo)
  BY <1>0, AtFree, SeqTail
<1>2. Stack(todo') /\ Within(todo', todo)
  BY <1>1, RepeatWalks
<1>3. todo' = Tail(todo) \/ todo' = new \o Tail(todo)
  BY <1>1 DEF Repeat, TurnOf, NextElement, Later
<1>4. LoopsSet(new, pointer) /\ IsSeq(new)
  <2>1. /\ Stack(new) /\ IsSeq(lay) /\ Len(lay) \in Nat
        /\ Len(new) = Len(lay) + 1
        /\ \A i \in 1..Len(lay) : new[i] = [path |-> NextElement(h), field |-> lay[i]]
        /\ new[Len(lay) + 1] = Later(h)
    BY <1>0, <1>1, TurnStack, SeqLen
  <2>2. Tidy(lay)
    BY <1>0, <1>1 DEF TidyItem, Several
  <2>3. \A i \in DOMAIN lay : lay[i].op # "loop"
    <3> HIDE DEF lay
    <3> QED
      BY <2>2, TidyIs DEF Single
  <2>4. DOMAIN lay = 1..Len(lay)
    BY <2>1, SeqLen
  <2>5. Spot(Later(h)) = Spot(h)
    <3>1. /\ Later(h).path = h.path
          /\ Later(h).field = [op |-> "loop", name |-> h.field.name, count |-> h.field.count,
                               element |-> h.field.element, done |-> h.field.done + 1]
      BY <1>0, <1>1, LaterIs
    <3> QED
      BY <3>1 DEF Spot
  <2>6. Spot(h) \in DOMAIN pointer /\ pointer[Spot(h)] # NULL
    BY <1>0, <1>1 DEF LoopsSet
  <2> HIDE DEF new, lay, h
  <2>7. ASSUME NEW i \in 1..Len(new), new[i].field.op = "loop"
        PROVE  Spot(new[i]) \in DOMAIN pointer /\ pointer[Spot(new[i])] # NULL
    <3>1. CASE i \in 1..Len(lay)
      <4>1. new[i] = [path |-> NextElement(h), field |-> lay[i]]
        BY <2>1, <3>1
      <4>2. new[i].field = lay[i]
        BY <4>1
      <4> QED
        BY <2>3, <2>4, <2>7, <3>1, <4>2
    <3>2. CASE i = Len(lay) + 1
      BY <2>1, <2>5, <2>6, <3>2
    <3>3. i \in 1..Len(lay) \/ i = Len(lay) + 1
      BY <2>1
    <3> QED
      BY <3>1, <3>2, <3>3
  <2> QED
    BY <2>1, <2>7 DEF LoopsSet, Stack
<1> HIDE DEF new
<1>5. LoopsSet(todo', pointer)
  BY <1>0, <1>1, <1>3, <1>4, LoopsPush
<1>6. StillHeld(todo', pointer, live')
  BY <1>0, <1>1, <1>2 DEF StillHeld, Within
<1> QED
  BY <1>0, <1>2, <1>5, <1>6, GoesOnFreeing

LEMMA ArrayFreed ==
  ASSUME HeapInv, IInv', FreeForEach
  PROVE  HeapInv'
<1> DEFINE h == todo[1]
           new == LoopOf(h)
<1>0. /\ pc = "freeing" /\ pc' = "freeing" /\ todo # <<>> /\ Field.op = "each"
      /\ UNCHANGED <<type, pointer, live, allocated>>
      /\ \/ todo' = Tail(todo)
         \/ todo' = Loop \o Tail(todo) /\ PointerAt(Here(Field.name)) # NULL
  BY DEF FreeForEach, At, frameVars, packetVars, memoryVars
<1>1. /\ Stack(todo) /\ IsSeq(todo) /\ LoopsSet(todo, pointer)
      /\ StillHeld(todo, pointer, live)
      /\ Field = h.field /\ TidyItem(h) /\ Loop = new /\ Here(Field.name) = Spot(h)
  BY <1>0, AtFree
<1>2. Stack(todo') /\ Within(todo', todo)
  BY <1>0, <1>1, PopWalks, LoopWalks
<1>3. LoopsSet(todo', pointer)
  <2>1. CASE todo' = Tail(todo)
    <3>1. IsSeq(<<>>) /\ LoopsSet(<<>>, pointer)
      BY NoItems DEF LoopsSet
    <3> QED
      BY <1>0, <1>1, <2>1, <3>1, LoopsPush
  <2>2. CASE todo' = Loop \o Tail(todo) /\ PointerAt(Here(Field.name)) # NULL
    <3>1. /\ Stack(new) /\ Len(new) = 1 /\ Spot(new[1]) = Spot(h)
      BY <1>0, <1>1, LoopStack
    <3>2. Spot(h) \in DOMAIN pointer /\ pointer[Spot(h)] # NULL
      BY <1>1, <2>2 DEF PointerAt
    <3> HIDE DEF new
    <3>3. LoopsSet(new, pointer) /\ IsSeq(new)
      BY <3>1, <3>2 DEF LoopsSet, Stack
    <3> QED
      BY <1>0, <1>1, <2>2, <3>3, LoopsPush
  <2> QED
    BY <1>0, <2>1, <2>2
<1>4. StillHeld(todo', pointer, live')
  BY <1>0, <1>1, <1>2 DEF StillHeld, Within
<1> QED
  BY <1>0, <1>2, <1>3, <1>4, GoesOnFreeing

LEMMA FieldFreed ==
  ASSUME HeapInv, IInv', FreeField
  PROVE  HeapInv'
<1> DEFINE h == todo[1]
<1>0. /\ pc = "freeing" /\ pc' = "freeing" /\ todo # <<>> /\ Field.op = "free"
      /\ UNCHANGED <<type, pointer, allocated>>
      /\ todo' = Tail(todo) /\ live' = live \ {PointerAt(Here(Field.name))}
  BY DEF FreeField, At, frameVars, packetVars
<1>1. /\ Stack(todo) /\ IsSeq(todo) /\ LoopsSet(todo, pointer)
      /\ StillHeld(todo, pointer, live)
      /\ Field = h.field /\ TidyItem(h) /\ Here(Field.name) = Spot(h)
  BY <1>0, AtFree
<1>2. Stack(todo') /\ Within(todo', todo)
  BY <1>0, <1>1, PopWalks
<1>3. LoopsSet(todo', pointer)
  <2>1. IsSeq(<<>>) /\ LoopsSet(<<>>, pointer)
    BY NoItems DEF LoopsSet
  <2> QED
    BY <1>0, <1>1, <2>1, LoopsPush
<1>4. ASSUME NEW q \in DOMAIN pointer, TouchedBy(todo', q), pointer[q] # NULL
      PROVE  pointer[q] \in live'
  <2>1. pointer[q] \in live
    BY <1>1, <1>2, <1>4 DEF StillHeld, Within
  <2>2. q # Spot(h)
    <3>1. Covers(todo[1], Spot(h))
      BY <1>0, <1>1, CoversSpot DEF Single
    <3> QED
      BY <1>0, <1>1, <1>4, <3>1, TailApart
  <2>3. pointer[q] # PointerAt(Spot(h))
    BY <1>4, <2>2 DEF HeapInv, Heap, PointerAt
  <2> QED
    BY <1>0, <1>1, <2>1, <2>3
<1>5. StillHeld(todo', pointer, live')
  BY <1>4 DEF StillHeld
<1> QED
  BY <1>0, <1>2, <1>3, <1>5, GoesOnFreeing

LEMMA FreeingBegins ==
  ASSUME HeapInv, IInv', Release
  PROVE  HeapInv'
<1>1. /\ pc = "parsed" /\ pc' = "freeing" /\ todo' = Enter(<<>>, mdr_packet_free(type))
      /\ UNCHANGED <<type, pointer, live, allocated>>
  BY DEF Release, frameVars, packetVars, memoryVars
<1>2. Heap' /\ Held'
  BY <1>1 DEF HeapInv, Packet, Heap, Held
<1> QED
  BY <1>1, <1>2, BeginsFreeing

LEMMA CallReturns ==
  ASSUME HeapInv, IInv', Refuse \/ NoPacket \/ FreePacket
  PROVE  HeapInv'
<1>1. pc' = "returned" /\ UNCHANGED <<pointer, allocated>> /\ todo' = todo
  BY DEF Refuse, NoPacket, FreePacket, packetVars, memoryVars
<1>2. todo = <<>>
  BY DEF Refuse, NoPacket, FreePacket, HeapInv, Idle
<1> QED
  BY <1>1, <1>2, IsReturned

-----------------------------------------------------------------------------
LEMMA HeapStep == HeapInv /\ [Next]_vars => HeapInv'
<1> SUFFICES ASSUME HeapInv, [Next]_vars PROVE HeapInv'
  OBVIOUS
<1>1. IInv'
  BY StepInv DEF HeapInv
<1>2. CASE UNCHANGED vars
  <2>1. UNCHANGED <<type, pc, todo, fields, pointer, live, allocated>>
    BY <1>2 DEF vars, frameVars, packetVars, memoryVars
  <2> QED
    BY <1>1, <2>1 DEF HeapInv, Heap, Held, Idle, Kind, Packet, WhileParsing, WhenParsed,
                      WhileEncoding, WhileFreeing
<1>3. CASE Branch
  <2>1. pc \in {"parsing", "encoding", "freeing"}
    BY <1>3 DEF Branch, At
  <2> QED
    BY <1>1, <1>3, <2>1, BranchWhileParsing, BranchWhileEncoding, BranchWhileFreeing
<1>4. CASE Repeat
  <2>1. pc \in {"parsing", "encoding", "freeing"}
    BY <1>4 DEF Repeat, At
  <2> QED
    BY <1>1, <1>4, <2>1, RepeatWhileParsing, RepeatWhileEncoding, RepeatWhileFreeing
<1>5. CASE ParseEnum
  BY <1>1, <1>5, EnumParsed
<1>6. CASE ParsePlain \/ ParseCount \/ ParseClamped
  BY <1>1, <1>6, ByteParsed
<1>7. CASE ParseBytes \/ ParseZeros
  BY <1>1, <1>7, BlockParsed
<1>8. CASE ParseForEach
  BY <1>1, <1>8, ArrayProceeds
<1>9. CASE TooShort \/ OutOfMemory
  BY <1>1, <1>9, ParserFails
<1>10. CASE Parse \/ ParseEnds
  BY <1>1, <1>10, ParserBegins, ParserEnds
<1>11. CASE Encode \/ EncodeEnds \/ NoFrame
  BY <1>1, <1>11, EncoderBegins, EncoderEnds
<1>12. CASE StartFrame
  BY <1>1, <1>12, FrameStarts
<1>13. CASE WriteField \/ WriteBytes \/ AddLength
  BY <1>1, <1>13, FieldEncoded
<1>14. CASE WriteForEach
  BY <1>1, <1>14, ArrayEncoded
<1>15. CASE Release
  BY <1>1, <1>15, FreeingBegins
<1>16. CASE FreeField \/ FreeForEach
  BY <1>1, <1>16, FieldFreed, ArrayFreed
<1>17. CASE Refuse \/ NoPacket \/ FreePacket
  BY <1>1, <1>17, CallReturns
<1> QED
  BY <1>2, <1>3, <1>4, <1>5, <1>6, <1>7, <1>8, <1>9, <1>10, <1>11, <1>12, <1>13, <1>14,
     <1>15, <1>16, <1>17 DEF Next, Walk

\* What mdr_packet_free releases is a block in use or NULL, and none is released
\* twice; and an array that a loop walks, in a parser, a writer or a free, has not
\* been freed (util.h:38, 41, system.h:55, eqebb.h:43).  So it is for every type
\* and every payload, wherever a parser gives up, whichever allocation fails, and
\* whether the packet was encoded before or not.
THEOREM BlocksStayInUse == Spec => []BlocksInUse
<1>1. Spec => []HeapInv
  <2>1. Init => HeapInv
    BY HeapInit
  <2> QED
    BY <2>1, HeapStep, PTL DEF Spec
<1>2. HeapInv => BlocksInUse
  BY HeapImplies
<1> QED
  BY <1>1, <1>2, PTL
=============================================================================
