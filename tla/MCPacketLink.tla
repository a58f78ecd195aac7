---------------------------- MODULE MCPacketLink ----------------------------
(***************************************************************************)
(* PacketLink with a setter r1, two getters of the battery level r2 and    *)
(* r3, and a subscriber to the notifications of the battery level.         *)
(***************************************************************************)
EXTENDS PacketLink

CONSTANTS r1, r2, r3, s1

Plain(t) == [type |-> t, extra |-> 0]

Setter == [only_ack |-> TRUE, type |-> "CONNECT_GET_PROTOCOL_INFO", extra |-> 0]

MCSetters == [h \in Requests |-> Setter]

MCRequestSpec ==
  [h \in Requests |->
     IF h = r1
     THEN Setter
     ELSE [only_ack |-> FALSE, type |-> "COMMON_RET_BATTERY_LEVEL", extra |-> 0]]

MCSubSpec ==
  [s \in Subscriptions |->
     [only_ack |-> FALSE, type |-> "COMMON_NTFY_BATTERY_LEVEL", extra |-> 0]]

MCPackets == {Plain("COMMON_RET_BATTERY_LEVEL"), Plain("COMMON_NTFY_BATTERY_LEVEL")}
MCReplyTo == [h \in Requests |-> Plain("COMMON_RET_BATTERY_LEVEL")]
MCNotification == Plain("COMMON_NTFY_BATTERY_LEVEL")

ASSUME SettersAwaitAcks
=============================================================================
