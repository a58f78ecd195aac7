--------------------------- MODULE MCPacketCodec ---------------------------
(***************************************************************************)
(* Frames of every type of packet.  Of the values of an enumeration a      *)
(* frame may hold the least, the greatest, and one it does not have; where *)
(* the value chooses what follows, all of them.                            *)
(***************************************************************************)
EXTENDS PacketCodec

MCCounts == 0..2
MCData == {0, 255}

Choosing ==
  { DeviceInfoInquired, BatteryInquired, EqebbInquired, NcasmInquired,
    PlayDetailed, SystemInquired }

Extremes(S) ==
  {v \in S : (\A w \in S : v <= w) \/ (\A w \in S : v >= w)}

MCSample(S) == (IF S \in Choosing THEN S ELSE Extremes(S)) \cup {254}
=============================================================================
