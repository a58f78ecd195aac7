--------------------------- MODULE RequestContract --------------------------
(***************************************************************************)
(* What a packet connection promises of requests, without timers, sequence *)
(* ids, retransmissions or callbacks: requests are ended one at a time in  *)
(* the order they were made, each once; closing ends all that are left,    *)
(* those made while it does so included, and nothing else happens then.    *)
(***************************************************************************)
EXTENDS Sequences

CONSTANT Requests

VARIABLES
  pending,   \* the accepted requests that have not ended, oldest first
  fate,      \* how each request stands
  phase      \* "open", then "closing", then "closed"

vars == <<pending, fate, phase>>

Init ==
  /\ pending = <<>>
  /\ fate = [h \in Requests |-> "NEW"]
  /\ phase = "open"

Accept(h) ==
  /\ phase # "closed"
  /\ fate[h] = "NEW"
  /\ fate' = [fate EXCEPT ![h] = "PENDING"]
  /\ pending' = Append(pending, h)
  /\ UNCHANGED phase

Refuse(h) ==
  /\ phase # "closed"
  /\ fate[h] = "NEW"
  /\ fate' = [fate EXCEPT ![h] = "REFUSED"]
  /\ UNCHANGED <<pending, phase>>

EndOldest(ending) ==
  /\ pending # <<>>
  /\ fate[Head(pending)] = "PENDING"
  /\ fate' = [fate EXCEPT ![Head(pending)] = ending]
  /\ pending' = Tail(pending)

Finish(ending) ==
  /\ phase = "open"
  /\ EndOldest(ending)
  /\ UNCHANGED phase

Abandon ==
  /\ phase # "closed"
  /\ EndOldest("CLOSED")
  /\ phase' = "closing"

Closed ==
  /\ phase # "closed"
  /\ pending = <<>>
  /\ phase' = "closed"
  /\ UNCHANGED <<pending, fate>>

Next ==
  \/ \E h \in Requests : Accept(h) \/ Refuse(h)
  \/ \E ending \in {"RESULT", "NO_ACK", "NO_REPLY"} : Finish(ending)
  \/ Abandon
  \/ Closed

Spec == Init /\ [][Next]_vars
=============================================================================
