----------------------------- MODULE PacketLink -----------------------------
(***************************************************************************)
(* A packet connection and the headset at the other end of the RFCOMM      *)
(* channel.  The channel keeps the order of frames and loses none, but it  *)
(* holds at most Room of them each way, and the headset may be slow, may   *)
(* disregard a command, and sends again what was not acknowledged.         *)
(*                                                                         *)
(* The headset is not in the repository: it is modelled from what          *)
(* src/packetconn.c expects of it and says about it.  Every frame in the   *)
(* channel carries, as history, the request it answers.                    *)
(*                                                                         *)
(* Only the life of an open connection on a live link is looked at, whose  *)
(* socket never blocks: the host waits to write a request until there is   *)
(* room.  Closing, a blocked socket and the loss of the link are in        *)
(* PacketConn.                                                             *)
(***************************************************************************)
EXTENDS PacketConn

CONSTANTS
  Room,            \* frames the channel holds in each direction
  ReplyTo,         \* ReplyTo[h]: the packet the headset answers request h with
  Notification,    \* a packet the headset may send of its own accord
  HeadsetIsPrompt  \* does every answer arrive before the clock ticks?

ASSUME LinkAssumption ==
  /\ Room \in Nat \ {0}
  /\ ReplyTo \in [Requests -> Packets]
  /\ Notification \in Packets
  /\ HeadsetIsPrompt \in BOOLEAN

VARIABLES
  toHeadset,   \* frames sent by the host: requests, and ACKs (request = None)
  toHost,      \* frames sent by the headset
  owes,        \* the requests the headset will still reply to
  dataSeq,     \* the sequence id of the headset's next data frame
  unacked,     \* the headset's data frame that waits for an ACK, or None
  confirmed,   \* history: the requests the headset has acknowledged
  seen,        \* history: the last request frame the headset received, or None
  answeredBy   \* history: answeredBy[h]: whose answer ended request h

linkVars == <<toHeadset, toHost, owes, dataSeq, unacked, confirmed, seen, answeredBy>>
allVars == <<vars, linkVars>>

HostFrame == [request : Requests \cup {None}, sequence_id : SeqIds]
HeadsetFrame == [frame : Frame, answers : Requests \cup {None}]

ASSUME NoneAssumption == None \notin Requests \cup HostFrame \cup HeadsetFrame

LinkTypeOK ==
  /\ TypeOK
  /\ toHeadset \in Seq(HostFrame)
  /\ toHost \in Seq(HeadsetFrame)
  /\ owes \subseteq Requests
  /\ dataSeq \in {0, 1}
  /\ unacked \in HeadsetFrame \cup {None}
  /\ confirmed \subseteq Requests
  /\ seen \in HostFrame \cup {None}
  /\ answeredBy \in [Requests -> Requests \cup {None}]

LinkInit ==
  /\ Init
  /\ toHeadset = <<>>
  /\ toHost = <<>>
  /\ owes = {}
  /\ dataSeq = 0
  /\ unacked = None
  /\ confirmed = {}
  /\ seen = None
  /\ answeredBy = [h \in Requests |-> None]

-----------------------------------------------------------------------------
(***************************************************************************)
(* The host.                                                               *)
(***************************************************************************)
HostAlone ==
  /\ \/ \E h \in Requests : MakeRequest(h)
     \/ \E s \in Subscriptions : Subscribe(s)
     \/ \E r, w \in BOOLEAN : Process(r, w)
     \/ NothingToSend
     \/ GiveUp
     \/ ReadSkipped
     \/ CallbackReturns
  /\ UNCHANGED linkVars

HostTransmits ==
  /\ Len(toHeadset) < Room
  /\ Transmit
  /\ toHeadset' = Append(toHeadset, [request |-> Current,
                                     sequence_id |-> sequence_id[Current]])
  /\ UNCHANGED <<toHost, owes, dataSeq, unacked, confirmed, seen, answeredBy>>

HostReadsNothing ==
  /\ toHost = <<>>
  /\ ReadNothing
  /\ UNCHANGED linkVars

HostReadsAck ==
  /\ toHost # <<>>
  /\ LET f == Head(toHost).frame
     IN \/ /\ AckCompletes(f)
           /\ answeredBy' = [answeredBy EXCEPT ![Current] = Head(toHost).answers]
        \/ /\ AckAwaitsReply(f) \/ AckIgnored(f)
           /\ UNCHANGED answeredBy
  /\ toHost' = Tail(toHost)
  /\ UNCHANGED <<toHeadset, owes, dataSeq, unacked, confirmed, seen>>

\* That writing the ACK of a data frame fails is ignored.
HostAcknowledges(f) ==
  \/ /\ Len(toHeadset) < Room
     /\ toHeadset' = Append(toHeadset, [request |-> None,
                                        sequence_id |-> Not(f.sequence_id)])
  \/ UNCHANGED toHeadset

HostReadsData ==
  /\ toHost # <<>>
  /\ LET f == Head(toHost).frame
     IN /\ \/ /\ ReadReply(f)
              /\ answeredBy' = [answeredBy EXCEPT ![Current] = Head(toHost).answers]
           \/ /\ ReadNotification(f) \/ ReadUnexpected(f)
              /\ UNCHANGED answeredBy
        /\ HostAcknowledges(f)
  /\ toHost' = Tail(toHost)
  /\ UNCHANGED <<owes, dataSeq, unacked, confirmed, seen>>

-----------------------------------------------------------------------------
(***************************************************************************)
(* The headset.                                                            *)
(***************************************************************************)
Arriving == Head(toHeadset)

\* A request is acknowledged, with the other sequence id; a getter's reply
\* is sent later.
HeadsetAccepts ==
  /\ toHeadset # <<>>
  /\ Arriving.request # None
  /\ Len(toHost) < Room
  /\ toHost' = Append(toHost,
       [frame |-> [data_type |-> "ACK",
                   sequence_id |-> 1 - Arriving.sequence_id, packet |-> None],
        answers |-> Arriving.request])
  /\ toHeadset' = Tail(toHeadset)
  /\ owes' = IF RequestSpec[Arriving.request].only_ack THEN owes
                                                       ELSE owes \cup {Arriving.request}
  /\ confirmed' = confirmed \cup {Arriving.request}
  /\ seen' = Arriving
  /\ UNCHANGED <<vars, dataSeq, unacked, answeredBy>>

\* A request the headset has no answer to: busy, or damaged on the air.
HeadsetDisregards ==
  /\ toHeadset # <<>>
  /\ Arriving.request # None
  /\ toHeadset' = Tail(toHeadset)
  /\ seen' = Arriving
  /\ UNCHANGED <<vars, toHost, owes, dataSeq, unacked, confirmed, answeredBy>>

HeadsetReceivesAck ==
  /\ toHeadset # <<>>
  /\ Arriving.request = None
  /\ toHeadset' = Tail(toHeadset)
  /\ IF unacked # None /\ Arriving.sequence_id = 1 - dataSeq
     THEN unacked' = None /\ dataSeq' = 1 - dataSeq
     ELSE UNCHANGED <<unacked, dataSeq>>
  /\ UNCHANGED <<vars, toHost, owes, confirmed, seen, answeredBy>>

HeadsetSends(p, h) ==
  LET f == [frame |-> [data_type |-> "DATA_MDR", sequence_id |-> dataSeq, packet |-> p],
            answers |-> h]
  IN /\ unacked = None
     /\ Len(toHost) < Room
     /\ unacked' = f
     /\ toHost' = Append(toHost, f)
     /\ UNCHANGED <<vars, toHeadset, dataSeq, confirmed, seen, answeredBy>>

HeadsetReplies ==
  \E h \in owes : HeadsetSends(ReplyTo[h], h) /\ owes' = owes \ {h}

HeadsetNotifies == HeadsetSends(Notification, None) /\ UNCHANGED owes

HeadsetSendsAgain ==
  /\ ~HeadsetIsPrompt
  /\ unacked # None
  /\ Len(toHost) < Room
  /\ toHost' = Append(toHost, unacked)
  /\ UNCHANGED <<vars, toHeadset, owes, dataSeq, unacked, confirmed, seen, answeredBy>>

LinkTick ==
  /\ HeadsetIsPrompt => toHeadset = <<>> /\ toHost = <<>> /\ owes = {}
  /\ Tick
  /\ UNCHANGED linkVars

LinkNext ==
  \/ HostAlone
  \/ HostTransmits
  \/ HostReadsNothing
  \/ HostReadsAck
  \/ HostReadsData
  \/ HeadsetAccepts
  \/ HeadsetDisregards
  \/ HeadsetReceivesAck
  \/ HeadsetReplies
  \/ HeadsetNotifies
  \/ HeadsetSendsAgain
  \/ LinkTick

LinkSpec == LinkInit /\ [][LinkNext]_allVars

-----------------------------------------------------------------------------
(***************************************************************************)
(* A request's result callback is called on the headset's answer to that   *)
(* request, not to an earlier one.                                         *)
(***************************************************************************)
AnswersAreGenuine ==
  \A h \in Requests : fate[h] = "RESULT" => answeredBy[h] = h

(***************************************************************************)
(* However slow the headset is and however often a request is sent, an ACK *)
(* is taken for another request's only if that was given up without one:   *)
(* the repetitions of an ACK that was taken are told apart by the sequence *)
(* id.                                                                     *)
(***************************************************************************)
StaleAckOnlyAfterGivingUp ==
  \A h \in Requests :
    fate[h] = "RESULT" /\ RequestSpec[h].only_ack =>
      answeredBy[h] = h \/ fate[answeredBy[h]] = "NO_ACK"

\* No packet is the reply to a request that is to be ended by its ACK.  The
\* device sets only_ack and no type, which leaves the type of a request there,
\* and the headset sends no requests.
SettersAwaitAcks ==
  \A h \in Requests : RequestSpec[h].only_ack =>
    \A p \in Packets : ~reply_specifier_matches(RequestSpec[h], p)

(***************************************************************************)
(* A request given up for want of an ACK was never acknowledged.           *)
(***************************************************************************)
NoAckMeansNoAck ==
  \A h \in Requests : fate[h] = "NO_ACK" => h \notin confirmed

(***************************************************************************)
(* The sequence id tells a new request from the repetition of the last     *)
(* one: the headset never receives a request under the id of another       *)
(* request which it acknowledged as the last.                              *)
(***************************************************************************)
FreshRequestFreshId ==
  [][ /\ seen # None
      /\ seen' # None
      /\ seen'.request # seen.request
      /\ seen.request \in confirmed
      => seen'.sequence_id # seen.sequence_id ]_allVars
=============================================================================
