--------------------------- MODULE ReplySpecifier ---------------------------
(***************************************************************************)
(* The reply specifiers of src/packetconn.c: the pattern by which an       *)
(* arriving packet is recognised as the reply to the outstanding request,  *)
(* or as one of the packets a subscription asked for.                      *)
(*                                                                         *)
(* Of a packet only the two values the pattern looks at are kept: its type *)
(* and its "inquired type" (for the PLAY packets, the detailed data type). *)
(***************************************************************************)
CONSTANT InquiredTypes       \* the values of the byte compared with `extra'

(***************************************************************************)
(* The packet types that are matched by their type alone.                  *)
(***************************************************************************)
TypeOnlyTypes ==
  { "CONNECT_GET_PROTOCOL_INFO", "CONNECT_RET_PROTOCOL_INFO",
    "CONNECT_GET_DEVICE_INFO",
    "CONNECT_GET_SUPPORT_FUNCTION", "CONNECT_RET_SUPPORT_FUNCTION",
    "COMMON_GET_BATTERY_LEVEL", "COMMON_SET_POWER_OFF",
    "COMMON_GET_CONNECTION_STATUS",
    "EQEBB_GET_CAPABILITY", "EQEBB_GET_PARAM",
    "NCASM_GET_PARAM", "PLAY_GET_PARAM",
    "SYSTEM_GET_CAPABILITY", "SYSTEM_GET_PARAM" }

(***************************************************************************)
(* The packet types for which the inquired type is compared as well.       *)
(***************************************************************************)
InquiryTypes ==
  { "CONNECT_RET_DEVICE_INFO",
    "COMMON_RET_BATTERY_LEVEL", "COMMON_NTFY_BATTERY_LEVEL",
    "COMMON_RET_CONNECTION_STATUS", "COMMON_NTFY_CONNECTION_STATUS",
    "EQEBB_RET_CAPABILITY",
    "EQEBB_RET_PARAM", "EQEBB_SET_PARAM", "EQEBB_NTFY_PARAM",
    "NCASM_RET_PARAM", "NCASM_SET_PARAM", "NCASM_NTFY_PARAM",
    "PLAY_RET_PARAM", "PLAY_SET_PARAM", "PLAY_NTFY_PARAM",
    "SYSTEM_RET_CAPABILITY",
    "SYSTEM_RET_PARAM", "SYSTEM_SET_PARAM", "SYSTEM_NTFY_PARAM" }

\* The types mdr_packet_from_frame can parse; any other first byte is malformed.
PacketTypes == TypeOnlyTypes \cup InquiryTypes

Packet == [type : PacketTypes, extra : InquiredTypes]

(***************************************************************************)
(* mdr_packetconn_reply_specifier_t.  A designated initialiser that only   *)
(* sets only_ack leaves packet_type zero, which is the type                *)
(* CONNECT_GET_PROTOCOL_INFO, and extra zero.                              *)
(***************************************************************************)
Specifier == [only_ack : BOOLEAN, type : PacketTypes, extra : InquiredTypes]

reply_specifier_matches(spec, packet) ==
  /\ packet.type = spec.type
  /\ spec.type \in InquiryTypes => packet.extra = spec.extra
=============================================================================
