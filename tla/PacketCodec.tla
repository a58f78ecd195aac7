---------------------------- MODULE PacketCodec -----------------------------
(***************************************************************************)
(* A packet from the frame it is read from to the one it is written to:    *)
(* mdr_packet_from_frame, mdr_packet_to_frame and mdr_packet_free          *)
(* (src/packet.c), which walk the layouts of PacketLayout.  Each field of  *)
(* a layout is a macro of src/packet/util.h, and an action here.           *)
(*                                                                         *)
(* One behaviour is the life of one packet: a frame of any type, length    *)
(* and content is parsed; the packet, if there is one, may be encoded; it  *)
(* is freed.  Any allocation may fail.  The bytes of the frame are chosen  *)
(* as they are read: none is read before, and none twice.                  *)
(***************************************************************************)
EXTENDS PacketLayout, FiniteSets

CONSTANTS
  MaxLength,    \* bound on the length of a payload
  Counts,       \* the bytes that counts may be
  Data,         \* the bytes that data may be
  Sample(_)     \* which of the values of an enumeration a frame may hold

ASSUME CodecAssumption ==
  MaxLength \in Nat /\ Counts \subseteq Byte /\ Data \subseteq Byte

VARIABLES
  type,            \* the first byte of the payload
  payload_length,
  read,            \* what was read of the payload; the code's offset is its length
  pc,              \* "called", "parsing", "parsed", "encoding", "freeing", "returned"
  todo,            \* the fields of the layout still to come, and where they belong
  fields,          \* the fields of the packet that have been set
  bytes,           \* what the blocks of bytes hold
  pointer,         \* the pointers of the packet that have been set
  live,            \* the blocks of memory in use
  allocated,       \* how many there ever were besides the packet
  failure,         \* why a call has returned NULL, if one has
  size,            \* the payload_length of the frame that is written
  length,          \* a size that is added up beforehand
  written          \* what was written of its payload; offset is its length

frameVars  == <<type, payload_length>>
packetVars == <<fields, bytes, pointer>>
memoryVars == <<live, allocated>>
writeVars  == <<size, length, written>>
vars == <<frameVars, read, pc, todo, packetVars, memoryVars, failure, writeVars>>

NULL   == -1
PACKET == 0           \* the block of the packet itself
Unset  == 256         \* what is found behind the end of a block: no byte to rely on
NotMdr == "not MDR"   \* for type, when the frame's data_type is not DATA_MDR

TypeOK ==
  /\ type \in PacketTypes \cup {"unknown", NotMdr}
  /\ payload_length \in 0..MaxLength
  /\ read # <<>> => read[1] = type
  /\ \A i \in 2..Len(read) : read[i] \in Byte
  /\ pc \in {"called", "parsing", "parsed", "encoding", "freeing", "returned"}
  /\ \A path \in DOMAIN fields : fields[path] \in Byte
  /\ live \subseteq 0..allocated
  /\ allocated \in Nat
  /\ failure \in {"none", "INVALID_PACKET", "INVALID_FRAME", "ENOMEM"}

Init ==
  /\ type \in PacketTypes \cup {"unknown", NotMdr}
  /\ payload_length \in 0..MaxLength
  /\ read = <<>>
  /\ pc = "called"
  /\ todo = <<>>
  /\ fields = <<>> /\ bytes = <<>> /\ pointer = <<>>
  /\ live = {} /\ allocated = 0
  /\ failure = "none"
  /\ size = 0 /\ length = 0 /\ written = <<>>

-----------------------------------------------------------------------------
(* Walking a layout.                                                       *)

Field == Head(todo).field

At(stage, op) == pc = stage /\ todo # <<>> /\ Field.op = op

Enter(path, layout) ==
  [i \in DOMAIN layout |-> [path |-> path, field |-> layout[i]]]

\* A field of the struct that is being walked: the packet's or an element's.
Here(name) == Append(Head(todo).path, name)

Set(f, path, value) ==
  [p \in DOMAIN f \cup {path} |-> IF p = path THEN value ELSE f[p]]

\* Packets and arrays are cleared when they are allocated.
FieldAt(path)   == IF path \in DOMAIN fields THEN fields[path] ELSE 0
PointerAt(path) == IF path \in DOMAIN pointer THEN pointer[path] ELSE NULL

Value(name)   == FieldAt(Here(name))
CountOf(name) == IF name = None THEN 0 ELSE Value(name)

AtMost(n, max) == IF n < max THEN n ELSE max

\* switch, without a default.
Branch ==
  /\ \E stage \in {"parsing", "encoding", "freeing"} : At(stage, "switch")
  /\ LET cases == {i \in DOMAIN Field.cases :
                     Value(Field.name) \in Field.cases[i].values}
     IN  todo' = IF cases = {} THEN Tail(todo)
                 ELSE Enter(Head(todo).path,
                            Field.cases[CHOOSE i \in cases : TRUE].layout)
                        \o Tail(todo)
  /\ UNCHANGED <<frameVars, read, pc, packetVars, memoryVars, failure, writeVars>>

\* The loop of a *_FOR_EACH_*, from its first element.
Loop == <<[path |-> Head(todo).path,
           field |-> [op |-> "loop", name |-> Field.name, count |-> Field.count,
                      element |-> Field.element, done |-> 0]]>>

\* Mutant: an empty array is never found to be at its end.
RepeatStuck ==
  /\ \E stage \in {"parsing", "encoding", "freeing"} : At(stage, "loop")
  /\ Value(Field.count) > 0
  /\ todo' = IF Field.done = Value(Field.count) THEN Tail(todo)
             ELSE Enter(Head(todo).path \o <<Field.name, Field.done + 1>>,
                        Field.element)
                    \o <<[Head(todo) EXCEPT !.field.done = @ + 1]>> \o Tail(todo)
  /\ UNCHANGED <<frameVars, read, pc, packetVars, memoryVars, failure, writeVars>>

\* One turn of that loop, or its end.
Repeat ==
  /\ \E stage \in {"parsing", "encoding", "freeing"} : At(stage, "loop")
  /\ todo' = IF Field.done = Value(Field.count) THEN Tail(todo)
             ELSE Enter(Head(todo).path \o <<Field.name, Field.done + 1>>,
                        Field.element)
                    \o <<[Head(todo) EXCEPT !.field.done = @ + 1]>> \o Tail(todo)
  /\ UNCHANGED <<frameVars, read, pc, packetVars, memoryVars, failure, writeVars>>

-----------------------------------------------------------------------------
(* mdr_packet_from_frame.                                                  *)

Refuse ==
  /\ pc = "called"
  /\ payload_length = 0 \/ type \in {"unknown", NotMdr}
  /\ pc' = "returned"
  /\ failure' = IF type = NotMdr THEN "INVALID_PACKET" ELSE "INVALID_FRAME"
  /\ UNCHANGED <<frameVars, read, todo, packetVars, memoryVars, writeVars>>

NoPacket ==
  /\ pc = "called"
  /\ payload_length > 0 /\ type \in PacketTypes
  /\ pc' = "returned"
  /\ failure' = "ENOMEM"
  /\ UNCHANGED <<frameVars, read, todo, packetVars, memoryVars, writeVars>>

\* PARSE_INIT.
Parse ==
  /\ pc = "called"
  /\ payload_length > 0 /\ type \in PacketTypes
  /\ pc' = "parsing"
  /\ read' = <<type>>
  /\ live' = {PACKET}
  /\ todo' = Enter(<<>>, mdr_packet_from_frame(type))
  /\ UNCHANGED <<frameVars, packetVars, allocated, failure, writeVars>>

\* A parser gives up: it frees the packet and returns NULL.
GivesUp(why) ==
  /\ pc' = "freeing"
  /\ todo' = Enter(<<>>, mdr_packet_free(type))
  /\ failure' = why
  /\ UNCHANGED <<frameVars, writeVars>>

\* A byte is read, and a field becomes `value'.
Reads(byte, value) ==
  /\ Len(read) < payload_length
  /\ read' = Append(read, byte)
  /\ fields' = Set(fields, Here(Field.name), value)
  /\ UNCHANGED <<bytes, pointer, memoryVars>>

Proceeds ==
  /\ todo' = Tail(todo)
  /\ UNCHANGED <<frameVars, pc, failure, writeVars>>

ParseEnum ==
  /\ At("parsing", "enum")
  /\ \E b \in Sample(Field.values) \cap Byte :
       Reads(b, b) /\ IF b \in Field.values THEN Proceeds
                      ELSE GivesUp("INVALID_FRAME")

\* Mutant: the count is one less than what was read.
ParseCountLess ==
  At("parsing", "count") /\ \E b \in Counts : Reads(b, b - 1) /\ Proceeds

ParsePlain   == At("parsing", "plain") /\ \E b \in Data : Reads(b, b) /\ Proceeds
ParseCount   == At("parsing", "count") /\ \E b \in Counts : Reads(b, b) /\ Proceeds
ParseClamped ==
  /\ At("parsing", "clamped")
  /\ \E b \in Counts : Reads(b, AtMost(b, NameMax)) /\ Proceeds

IsBlock == At("parsing", "bytes") \/ At("parsing", "name")

\* Mutant: the clamp of a name is forgotten where its bytes are copied.
BlockLengthUnclamped == Value(Field.count)

BlockLength ==
  IF Field.op = "name" THEN AtMost(Value(Field.count), NameMax)
  ELSE Value(Field.count)

\* Mutant: the bytes read so far are left out of the comparison.
FitsAlone == BlockLength <= payload_length

Fits == Len(read) + BlockLength <= payload_length

TooShort ==
  /\ \/ /\ \E op \in {"enum", "plain", "count", "clamped"} : At("parsing", op)
        /\ Len(read) >= payload_length
     \/ IsBlock /\ ~Fits
  /\ GivesUp("INVALID_FRAME")
  /\ UNCHANGED <<read, packetVars, memoryVars>>

\* malloc, into a pointer of the packet.
Allocates ==
  /\ pointer' = Set(pointer, Here(Field.name), allocated + 1)
  /\ allocated' = allocated + 1
  /\ live' = live \cup {allocated + 1}

ParseBytes ==
  /\ IsBlock /\ Fits
  /\ \E block \in [1..BlockLength -> Data] :
       /\ read' = read \o block
       /\ bytes' = Set(bytes, Here(Field.name), block)
  /\ Allocates
  /\ Proceeds
  /\ UNCHANGED fields

ParseZeros ==
  /\ At("parsing", "zeros")
  /\ Allocates
  /\ Proceeds
  /\ UNCHANGED <<read, fields, bytes>>

ParseForEach ==
  /\ At("parsing", "each")
  /\ Allocates
  /\ todo' = Loop \o Tail(todo)
  /\ UNCHANGED <<frameVars, read, pc, fields, bytes, failure, writeVars>>

OutOfMemory ==
  /\ (IsBlock /\ Fits) \/ At("parsing", "zeros") \/ At("parsing", "each")
  /\ pointer' = Set(pointer, Here(Field.name), NULL)
  /\ GivesUp("ENOMEM")
  /\ UNCHANGED <<read, fields, bytes, memoryVars>>

ParseEnds ==
  /\ pc = "parsing" /\ todo = <<>>
  /\ pc' = "parsed"
  /\ UNCHANGED <<frameVars, read, todo, packetVars, memoryVars, failure, writeVars>>

-----------------------------------------------------------------------------
(* mdr_packet_to_frame.                                                    *)

\* The caller has the packet encoded.
Encode ==
  /\ pc = "parsed" /\ written = <<>> /\ failure = "none"
  /\ pc' = "encoding"
  /\ todo' = Enter(<<>>, mdr_packet_to_frame(type))
  /\ UNCHANGED <<frameVars, read, packetVars, memoryVars, failure, writeVars>>

\* WRITE_START.  The frame is the block that was allocated last.
StartFrame ==
  /\ At("encoding", "start")
  /\ size' = 1 + length + Field.n + CountOf(Field.count)
  /\ written' = <<type>>
  /\ allocated' = allocated + 1
  /\ live' = live \cup {allocated + 1}
  /\ todo' = Tail(todo)
  /\ UNCHANGED <<frameVars, read, pc, packetVars, failure, length>>

NoFrame ==
  /\ At("encoding", "start")
  /\ pc' = "parsed"
  /\ failure' = "ENOMEM"
  /\ todo' = <<>>
  /\ written' = <<>> /\ size' = 0
  /\ UNCHANGED <<frameVars, read, packetVars, memoryVars, length>>

Writes(block) ==
  /\ written' = written \o block
  /\ todo' = Tail(todo)
  /\ UNCHANGED <<frameVars, read, pc, packetVars, memoryVars, failure, size, length>>

WriteField == At("encoding", "put") /\ Writes(<<Value(Field.name)>>)

WriteBytes ==
  /\ At("encoding", "putbytes")
  /\ LET block == bytes[Here(Field.name)]
     IN  Writes([i \in 1..Value(Field.count) |->
                   IF i <= Len(block) THEN block[i] ELSE Unset])

AddLength ==
  /\ At("encoding", "add")
  /\ length' = length + Field.n + Field.factor * CountOf(Field.count)
  /\ todo' = Tail(todo)
  /\ UNCHANGED <<frameVars, read, pc, packetVars, memoryVars, failure, size, written>>

WriteForEach ==
  /\ At("encoding", "each")
  /\ todo' = Loop \o Tail(todo)
  /\ UNCHANGED <<frameVars, read, pc, packetVars, memoryVars, failure, writeVars>>

\* The frame is returned, and is the caller's from now on.
EncodeEnds ==
  /\ pc = "encoding" /\ todo = <<>>
  /\ pc' = "parsed"
  /\ live' = live \ {allocated}
  /\ UNCHANGED <<frameVars, read, todo, packetVars, allocated, failure, writeVars>>

-----------------------------------------------------------------------------
(* mdr_packet_free.                                                        *)

\* The caller has done with the packet.
Release ==
  /\ pc = "parsed"
  /\ pc' = "freeing"
  /\ todo' = Enter(<<>>, mdr_packet_free(type))
  /\ UNCHANGED <<frameVars, read, packetVars, memoryVars, failure, writeVars>>

FreeField ==
  /\ At("freeing", "free")
  /\ live' = live \ {PointerAt(Here(Field.name))}
  /\ todo' = Tail(todo)
  /\ UNCHANGED <<frameVars, read, pc, packetVars, allocated, failure, writeVars>>

\* Mutant: an array that was never allocated is walked as well.
FreeForEachUnchecked ==
  /\ At("freeing", "each")
  /\ todo' = Loop \o Tail(todo)
  /\ UNCHANGED <<frameVars, read, pc, packetVars, memoryVars, failure, writeVars>>

FreeForEach ==
  /\ At("freeing", "each")
  /\ todo' = IF PointerAt(Here(Field.name)) = NULL THEN Tail(todo)
             ELSE Loop \o Tail(todo)
  /\ UNCHANGED <<frameVars, read, pc, packetVars, memoryVars, failure, writeVars>>

FreePacket ==
  /\ pc = "freeing" /\ todo = <<>>
  /\ pc' = "returned"
  /\ live' = live \ {PACKET}
  /\ UNCHANGED <<frameVars, read, todo, packetVars, allocated, failure, writeVars>>

-----------------------------------------------------------------------------
\* A step inside of a call.
Walk ==
  \/ Branch \/ Repeat
  \/ ParseEnum \/ ParsePlain \/ ParseCount \/ ParseClamped \/ TooShort
  \/ ParseBytes \/ ParseZeros \/ ParseForEach \/ OutOfMemory \/ ParseEnds
  \/ StartFrame \/ NoFrame \/ WriteField \/ WriteBytes \/ AddLength
  \/ WriteForEach \/ EncodeEnds
  \/ FreeField \/ FreeForEach \/ FreePacket

Next ==
  \/ Refuse \/ NoPacket \/ Parse \/ Encode \/ Release
  \/ Walk

\* A call that has begun runs on.
Spec == Init /\ [][Next]_vars /\ WF_vars(Walk)

-----------------------------------------------------------------------------
(* Properties.                                                             *)

\* Nothing is read behind the end of the payload, whatever its length and the
\* counts in it say: the comparisons of PARSE_BYTE_INTO_VALUE and
\* PARSE_BYTES_INTO_VALUE are made before every read, with what has been read
\* so far (util.h:100, 111).
ReadsInBounds == Len(read) <= payload_length

\* Memory is used while it is in use: what is freed was allocated and not freed
\* before, also by a parser that gives up in the middle of an array of arrays,
\* whose last elements have not been reached (util.h:38, 41); and the array a
\* loop walks is freed after its elements (system.h:55, eqebb.h:43).
BlocksInUse ==
  /\ At("freeing", "free") => PointerAt(Here(Field.name)) \in live \cup {NULL}
  /\ todo # <<>> /\ Field.op = "loop" => PointerAt(Here(Field.name)) \in live

\* The blocks that are lost: the first block of a name, which is allocated
\* twice (connect.h:144), and the first frame of the capability of smart
\* talking, whose case runs on into the next one (system.h:568).
KnownLosses ==
  IF \/ type = "CONNECT_RET_DEVICE_INFO"
        /\ FieldAt(<<"inquired_type">>) \in Name
     \/ type = "SYSTEM_RET_CAPABILITY"
        /\ FieldAt(<<"inquired_type">>) \in SmartTalking
  THEN 1 ELSE 0

\* However a call ends, with a packet that is freed, in an invalid frame or
\* out of memory at any allocation, all the memory is given back, but for the
\* losses above.
NothingElseLeaks == pc = "returned" => Cardinality(live) <= KnownLosses

Encoded == pc = "parsed" /\ written # <<>>

\* The packets that do not survive a round trip: the inquired type of a
\* battery level is not written (common.h:183, 190), nor the amount of the
\* ambient sound mode (ncasm.h:193), nor the capability of smart talking; of a
\* longer name only NameMax bytes are kept.
Miscoded ==
  \/ type \in {"COMMON_RET_BATTERY_LEVEL", "COMMON_NTFY_BATTERY_LEVEL"}
  \/ type \in {"NCASM_RET_PARAM", "NCASM_SET_PARAM", "NCASM_NTFY_PARAM"}
     /\ FieldAt(<<"inquired_type">>) \in Asm
  \/ type = "SYSTEM_RET_CAPABILITY"
     /\ FieldAt(<<"inquired_type">>) \in SmartTalking
  \/ type = "CONNECT_RET_DEVICE_INFO"
     /\ FieldAt(<<"inquired_type">>) \in Name /\ read[3] > NameMax
  \/ type \in {"PLAY_RET_PARAM", "PLAY_SET_PARAM", "PLAY_NTFY_PARAM"}
     /\ FieldAt(<<"detailed_data_type">>) \in Names /\ read[5] > NameMax

\* Nothing is written behind the end of a frame: the size WRITE_START is given
\* is, for every packet and every count in it, no less than what the WRITE_*
\* that follow need (util.h:197-237).  And a packet is encoded to the bytes it
\* was parsed from, in a frame of just their number: the tables, which are kept
\* by hand, agree on the fields, their order and their sizes.
EncodesParsed ==
  Encoded => /\ Len(written) <= size
             /\ ~Miscoded => written = read /\ size = Len(written)

\* The packets the library itself sends (device.c).  It sets a volume, and no
\* names.
Requests ==
  { "CONNECT_GET_PROTOCOL_INFO", "CONNECT_GET_DEVICE_INFO",
    "CONNECT_GET_SUPPORT_FUNCTION", "COMMON_GET_BATTERY_LEVEL",
    "COMMON_SET_POWER_OFF", "COMMON_GET_CONNECTION_STATUS",
    "EQEBB_GET_CAPABILITY", "EQEBB_GET_PARAM", "EQEBB_SET_PARAM",
    "NCASM_GET_PARAM", "NCASM_SET_PARAM", "PLAY_GET_PARAM",
    "SYSTEM_GET_CAPABILITY", "SYSTEM_GET_PARAM", "SYSTEM_SET_PARAM" }

\* "Encode an MDR packet into a frame" (packet.h:278): the frame of a request
\* holds the packet, every field of it.
RequestsEncoded == Encoded /\ type \in Requests => written = read

\* A call that has begun ends, with a packet or without: the loops, which end
\* when a pointer equals the end of the array, meet it also when the array is
\* empty (util.h:164, 44).
CallsReturn ==
  pc \in {"parsing", "encoding", "freeing"} ~> pc \in {"parsed", "returned"}
=============================================================================
