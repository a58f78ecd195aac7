---------------------------- MODULE MCPacketConn ----------------------------
(***************************************************************************)
(* Instances of PacketConn for TLC: a setter (only_ack), a getter of the   *)
(* battery level, and a second getter of the same; two subscribers to      *)
(* battery notifications and one to those of another inquired type.        *)
(***************************************************************************)
EXTENDS PacketConn

CONSTANTS r1, r2, r3, s1, s2, s3

Setter == [only_ack |-> TRUE, type |-> "CONNECT_GET_PROTOCOL_INFO", extra |-> 0]
Expects(t, e) == [only_ack |-> FALSE, type |-> t, extra |-> e]

MCRequestSpec ==
  [h \in Requests |-> IF h = r1 THEN Setter ELSE Expects("COMMON_RET_BATTERY_LEVEL", 0)]

MCSubSpec ==
  [s \in Subscriptions |-> Expects("COMMON_NTFY_BATTERY_LEVEL", IF s = s3 THEN 1 ELSE 0)]

MCPackets ==
  { [type |-> "COMMON_RET_BATTERY_LEVEL", extra |-> 0],
    [type |-> "COMMON_NTFY_BATTERY_LEVEL", extra |-> 0],
    [type |-> "COMMON_NTFY_BATTERY_LEVEL", extra |-> 1] }

MCReplies == {p \in MCPackets : p.extra = 0}
=============================================================================
