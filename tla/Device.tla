------------------------------- MODULE Device -------------------------------
(***************************************************************************)
(* The device layer (src/device.c): what an application calls.  It asks    *)
(* the headset once for the functions it has, by two requests of which the *)
(* callback of the first makes the second, and from then on turns each     *)
(* call into one request or one subscription of the packet connection.     *)
(*                                                                         *)
(* The packet connection below it is taken by its contract: every request  *)
(* here is a step of RequestContract, which PacketConn is shown to         *)
(* implement.  A subscription is in the connection's list as long as the   *)
(* device keeps a record of it.                                            *)
(*                                                                         *)
(* A call fills callback_data with the user's callbacks; it lives until    *)
(* the request ends.  Memory may be short whenever the code allocates some.*)
(***************************************************************************)
EXTENDS Integers, Sequences, SequencesExt, DeviceOperations

CONSTANTS
  Calls,          \* the calls of operations the application makes
  Subscribers,    \* the handles of its subscriptions
  Used,           \* the operations it uses
  Headsets,       \* the sets of functions a headset may have
  None            \* no call, no operation

ASSUME DeviceAssumption ==
  /\ Used \subseteq OperationNames
  /\ Headsets \subseteq SUBSET FunctionTypes
  /\ None \notin Calls \cup OperationNames

\* The requests of the connection: the first of a call, and the second that
\* mdr_device_init makes.
Handles == Calls \X {1, 2}

VARIABLES
  pending,        \* the connection's requests that have not ended, in order
  fate,           \* how each request of the connection stands
  phase,          \* is the connection open, closing or closed?
  listeners,      \* the records the connection's subscriptions point to
  supported,      \* device->supported_functions, the fields that are true
  subscriptions,  \* the records in the list device->subscriptions
  asked,          \* asked[h]: what request h was made for
  name,           \* name[c]: the operation call c is of
  returned,       \* what call c returned: "0", "-1", or "nothing" yet or ever
  nested          \* the call whose init_result_protocol_info is running

\* The headset's functions, which never change, and as history the callbacks
\* of each call that were called.
VARIABLES functions, heard

connVars == <<pending, fate, phase>>
callsVars == <<asked, name, returned>>
vars == <<connVars, listeners, supported, subscriptions, callsVars, nested, functions,
          heard>>

Conn == INSTANCE RequestContract WITH Requests <- Handles

\* What a request is made for: an operation of the table, at the time.
NotAsked == InitProtocolInfo
Asked == [kind : {"get", "set", "subscribe"}, allowed : BOOLEAN, asks : Packet,
          specifier : Specifier, reads : SUBSET DeviceInquiredTypes]

KnownFunctions == UNION {FlagsOf(f) : f \in functions}

TypeOK ==
  /\ pending \in Seq(Handles)
  /\ fate \in [Handles ->
       {"NEW", "REFUSED", "PENDING", "RESULT", "NO_ACK", "NO_REPLY", "CLOSED"}]
  /\ phase \in {"open", "closing", "closed"}
  /\ listeners \subseteq Subscribers
  /\ supported \in {{}, KnownFunctions}
  /\ subscriptions \subseteq Subscribers
  /\ asked \in [Handles -> Asked]
  /\ name \in [Calls -> Used \cup {None}]
  /\ returned \in [Calls -> {"0", "-1", "nothing"}]
  /\ nested \in Calls \cup {None}
  /\ functions \in Headsets
  /\ heard \in [Calls -> Seq({"result", "error"})]

Init ==
  /\ Conn!Init
  /\ listeners = {}
  /\ supported = {}
  /\ subscriptions = {}
  /\ asked = [h \in Handles |-> NotAsked]
  /\ name = [c \in Calls |-> None]
  /\ returned = [c \in Calls |-> "nothing"]
  /\ nested = None
  /\ functions \in Headsets
  /\ heard = [c \in Calls |-> <<>>]

Hears(c, what) == heard' = [heard EXCEPT ![c] = Append(@, what)]

-----------------------------------------------------------------------------
(***************************************************************************)
(* The application's calls: between two steps of the loop, and inside its  *)
(* own callbacks, which run when a request has ended.  It does not run     *)
(* while the device's own callback makes the second request of init.       *)
(***************************************************************************)
UserRuns == nested = None /\ phase # "closed"

Operation(o) == OperationOf(supported, o)

Call(c, o) ==
  /\ UserRuns
  /\ name[c] = None
  /\ Operation(o).kind # "subscribe"
  /\ name' = [name EXCEPT ![c] = o]
  /\ UNCHANGED <<listeners, supported, subscriptions, nested, functions>>

\* init and the getters of the device's info return nothing.
Returns(c, o) ==
  returned' = [returned EXCEPT ![c] =
                 IF o \in {"init"} \cup DOMAIN DeviceInfo THEN "nothing" ELSE "0"]

\* The function is not supported: MDR_E_NOT_SUPPORTED.
NotSupported(c, o) ==
  /\ Call(c, o)
  /\ ~Operation(o).allowed
  /\ returned' = [returned EXCEPT ![c] = "-1"]
  /\ UNCHANGED <<connVars, asked, heard>>

\* No memory for callback_data: the error callback runs before the call
\* returns, as if nothing were wrong.
CallbackDataFails(c, o) ==
  /\ Call(c, o)
  /\ Operation(o).allowed
  /\ Hears(c, "error")
  /\ Returns(c, o)
  /\ UNCHANGED <<connVars, asked>>

Request(c, o) ==
  /\ Call(c, o)
  /\ Operation(o).allowed
  /\ Conn!Accept(<<c, 1>>)
  /\ asked' = [asked EXCEPT ![<<c, 1>>] = Operation(o)]
  /\ Returns(c, o)
  /\ UNCHANGED heard

\* The connection returns NULL, which mdr_device_make_request does not look at.
RequestRefused(c, o) ==
  /\ Call(c, o)
  /\ Operation(o).allowed
  /\ Conn!Refuse(<<c, 1>>)
  /\ Returns(c, o)
  /\ UNCHANGED <<asked, heard>>

(***************************************************************************)
(* Subscriptions.  mdr_device_close leaves the device with a list of freed *)
(* records while the last error callbacks run: that the application        *)
(* neither adds to it nor removes from it then is assumed.                 *)
(***************************************************************************)
Subscribe(s, o) ==
  /\ nested = None
  /\ phase = "open"
  /\ s \notin subscriptions
  /\ Operation(o).kind = "subscribe"
  /\ Operation(o).allowed
  /\ listeners' = listeners \cup {s}
  /\ subscriptions' = subscriptions \cup {s}
  /\ UNCHANGED <<connVars, supported, callsVars, nested, functions, heard>>

\* Mutant: the connection is not told of it.
RemoveSubscriptionHere(s) ==
  /\ nested = None
  /\ phase = "open"
  /\ s \in subscriptions
  /\ subscriptions' = subscriptions \ {s}
  /\ UNCHANGED <<connVars, listeners, supported, callsVars, nested, functions, heard>>

RemoveSubscription(s) ==
  /\ nested = None
  /\ phase = "open"
  /\ s \in subscriptions
  /\ listeners' = listeners \ {s}
  /\ subscriptions' = subscriptions \ {s}
  /\ UNCHANGED <<connVars, supported, callsVars, nested, functions, heard>>

-----------------------------------------------------------------------------
(***************************************************************************)
(* The callbacks of the connection.                                        *)
(***************************************************************************)
Caller == Head(pending)[1]
Answered == asked[Head(pending)]

\* A packet the connection takes for the reply, or the ACK of a setter.
Reply(p) ==
  \/ Answered.specifier.only_ack
  \/ reply_specifier_matches(Answered.specifier, p)

\* Mutant: the user is told at once that init is done.
InitProtocolInfoTells ==
  /\ Conn!Finish("RESULT")
  /\ nested = None
  /\ Answered = InitProtocolInfo
  /\ nested' = Caller
  /\ Hears(Caller, "result")
  /\ UNCHANGED <<listeners, supported, subscriptions, callsVars, functions>>

\* Mutant: its result is not followed by a second request.
InitProtocolInfoEnds ==
  /\ Conn!Finish("RESULT")
  /\ nested = None
  /\ Answered = InitProtocolInfo
  /\ UNCHANGED <<listeners, supported, subscriptions, callsVars, nested, functions, heard>>

InitResultProtocolInfo ==
  /\ Conn!Finish("RESULT")
  /\ nested = None
  /\ Answered = InitProtocolInfo
  /\ nested' = Caller
  /\ UNCHANGED <<listeners, supported, subscriptions, callsVars, functions, heard>>

\* Its call of mdr_device_make_request.
NestedRequest ==
  /\ nested # None
  /\ Conn!Accept(<<nested, 2>>)
  /\ asked' = [asked EXCEPT ![<<nested, 2>>] = InitSupportFunction]
  /\ nested' = None
  /\ UNCHANGED <<listeners, supported, subscriptions, name, returned, functions, heard>>

NestedRefused ==
  /\ nested # None
  /\ Conn!Refuse(<<nested, 2>>)
  /\ nested' = None
  /\ UNCHANGED <<listeners, supported, subscriptions, callsVars, functions, heard>>

\* Mutant: nobody is told that there was no memory.
NestedCallbackDataSilent ==
  /\ nested # None
  /\ nested' = None
  /\ UNCHANGED <<connVars, listeners, supported, subscriptions, callsVars, functions, heard>>

NestedCallbackDataFails ==
  /\ nested # None
  /\ Hears(nested, "error")
  /\ nested' = None
  /\ UNCHANGED <<connVars, listeners, supported, subscriptions, callsVars, functions>>

\* Mutant: each function of the list overwrites the one before it.
InitResultLastFunction ==
  /\ Conn!Finish("RESULT")
  /\ nested = None
  /\ Answered = InitSupportFunction
  /\ \E f \in functions : supported' = FlagsOf(f)
  /\ Hears(Caller, "result")
  /\ UNCHANGED <<listeners, subscriptions, callsVars, nested, functions>>

InitResultSupportedFunction ==
  /\ Conn!Finish("RESULT")
  /\ nested = None
  /\ Answered = InitSupportFunction
  /\ supported' = supported \cup KnownFunctions
  /\ Hears(Caller, "result")
  /\ UNCHANGED <<listeners, subscriptions, callsVars, nested, functions>>

\* The handlers of all other operations; an answer of a type that the handler
\* does not know is dropped.
Result(p) ==
  /\ Conn!Finish("RESULT")
  /\ nested = None
  /\ Answered \notin {InitProtocolInfo, InitSupportFunction}
  /\ Reply(p)
  /\ IF p.extra \in Answered.reads THEN Hears(Caller, "result") ELSE UNCHANGED heard
  /\ UNCHANGED <<listeners, supported, subscriptions, callsVars, nested, functions>>

\* mdr_device_get_eq_capabilities_result finds no memory for the presets.
EqPresetsFail ==
  /\ Conn!Finish("RESULT")
  /\ nested = None
  /\ Answered.asks.type = "EQEBB_GET_CAPABILITY"
  /\ Hears(Caller, "error")
  /\ UNCHANGED <<listeners, supported, subscriptions, callsVars, nested, functions>>

\* error_callback_passthrough
Error(ending) ==
  /\ Conn!Finish(ending)
  /\ nested = None
  /\ Hears(Caller, "error")
  /\ UNCHANGED <<listeners, supported, subscriptions, callsVars, nested, functions>>

(***************************************************************************)
(* mdr_device_close and _free: the records of the subscriptions go first,  *)
(* then the connection abandons its requests one by one.                   *)
(***************************************************************************)
\* One request is abandoned, or there is none left.
ConnectionCloses ==
  \/ Conn!Abandon /\ Hears(Caller, "error")
  \/ Conn!Closed /\ UNCHANGED heard

Close ==
  /\ nested = None
  /\ phase = "open"
  /\ subscriptions' = {}
  /\ listeners' = listeners \ subscriptions
  /\ ConnectionCloses
  /\ UNCHANGED <<supported, callsVars, nested, functions>>

CloseContinues ==
  /\ phase = "closing"
  /\ ConnectionCloses
  /\ UNCHANGED <<listeners, supported, subscriptions, callsVars, nested, functions>>

-----------------------------------------------------------------------------
User ==
  \/ \E c \in Calls, o \in Used :
       \/ NotSupported(c, o)
       \/ CallbackDataFails(c, o)
       \/ Request(c, o)
       \/ RequestRefused(c, o)
  \/ \E s \in Subscribers : RemoveSubscription(s) \/ \E o \in Used : Subscribe(s, o)
  \/ Close

Nested == NestedRequest \/ NestedRefused \/ NestedCallbackDataFails

Ending ==
  \/ InitResultProtocolInfo
  \/ InitResultSupportedFunction
  \/ \E p \in Packet : Result(p)
  \/ EqPresetsFail
  \/ \E ending \in {"NO_ACK", "NO_REPLY"} : Error(ending)

Freed == phase = "closed" /\ UNCHANGED vars

Next == User \/ Nested \/ Ending \/ CloseContinues \/ Freed

Spec == Init /\ [][Next]_vars

(***************************************************************************)
(* The connection ends its requests (EveryRequestEnds of PacketConn, on a  *)
(* link that is neither broken nor blocked), and callbacks return.         *)
(***************************************************************************)
FairSpec ==
  Spec /\ WF_vars(Nested) /\ WF_vars(Ending) /\ WF_vars(CloseContinues)

-----------------------------------------------------------------------------
\* A request for the call is with the connection, or about to be made.
Waits(c) == nested = c \/ \E k \in {1, 2} : fate[<<c, k>>] = "PENDING"

\* The connection refused a request of the call.
Lost(c) == \E k \in {1, 2} : fate[<<c, k>>] = "REFUSED"

(***************************************************************************)
(* One callback of each call that was not refused is called, once: not     *)
(* while a request of it is outstanding, also between the two of init, and *)
(* without fail once none is, memory or not, closed or not.                *)
(***************************************************************************)
UserCalledBackOnce ==
  \A c \in Calls :
    Len(heard[c]) = IF name[c] = None \/ returned[c] = "-1" \/ Waits(c) \/ Lost(c)
                    THEN 0 ELSE 1

(***************************************************************************)
(* When init reports success the functions of the headset are known.       *)
(***************************************************************************)
InitMeansKnown ==
  \A c \in Calls : name[c] = "init" /\ heard[c] = <<"result">> => supported = KnownFunctions

(***************************************************************************)
(* The headset, which is not in the repository: it answers a getter with   *)
(* the packet type that belongs to it and the inquired type it was asked   *)
(* for, and knows an inquired type if it reports the function it is of.    *)
(***************************************************************************)
AnswerType(type) ==
  CASE type = "CONNECT_GET_PROTOCOL_INFO" -> "CONNECT_RET_PROTOCOL_INFO"
    [] type = "CONNECT_GET_SUPPORT_FUNCTION" -> "CONNECT_RET_SUPPORT_FUNCTION"
    [] type = "CONNECT_GET_DEVICE_INFO" -> "CONNECT_RET_DEVICE_INFO"
    [] type = "COMMON_GET_BATTERY_LEVEL" -> "COMMON_RET_BATTERY_LEVEL"
    [] type = "COMMON_GET_CONNECTION_STATUS" -> "COMMON_RET_CONNECTION_STATUS"
    [] type = "EQEBB_GET_CAPABILITY" -> "EQEBB_RET_CAPABILITY"
    [] type = "EQEBB_GET_PARAM" -> "EQEBB_RET_PARAM"
    [] type = "NCASM_GET_PARAM" -> "NCASM_RET_PARAM"
    [] type = "PLAY_GET_PARAM" -> "PLAY_RET_PARAM"
    [] type = "SYSTEM_GET_CAPABILITY" -> "SYSTEM_RET_CAPABILITY"
    [] type = "SYSTEM_GET_PARAM" -> "SYSTEM_RET_PARAM"

FunctionFor ==
  [ FIXED_VALUE |-> "POWER_OFF", BATTERY |-> "BATTERY_LEVEL",
    LEFT_RIGHT_BATTERY |-> "LEFT_RIGHT_BATTERY_LEVEL",
    CRADLE_BATTERY |-> "CRADLE_BATTERY_LEVEL",
    LEFT_RIGHT |-> "LEFT_RIGHT_CONNECTION_STATUS",
    NOISE_CANCELLING |-> "NOISE_CANCELLING", ASM |-> "AMBIENT_SOUND_MODE",
    NOISE_CANCELLING_AND_ASM |-> "NOISE_CANCELLING_AND_AMBIENT_SOUND_MODE",
    PRESET_EQ |-> "PRESET_EQ",
    PRESET_EQ_NONCUSTOMIZABLE |-> "PRESET_EQ_NONCUSTOMIZABLE",
    AUTO_POWER_OFF |-> "AUTO_POWER_OFF",
    ASSIGNABLE_SETTINGS |-> "ASSIGNABLE_SETTINGS", VOLUME |-> "PLAYBACK_CONTROLLER" ]

Outstanding == {asked[h] : h \in ToSet(pending)}

\* The library does not tell a headset that reports noise cancelling and ambient
\* sound one by one from one that reports their combination: it asks for the
\* combination, which the headset did not report (device.c:283-294).
TakenForOne(inquired, fs) ==
  /\ inquired = "NOISE_CANCELLING_AND_ASM"
  /\ {"NOISE_CANCELLING", "AMBIENT_SOUND_MODE"} \subseteq fs

(***************************************************************************)
(* The headset is only asked for what it has, although what is asked for   *)
(* is computed from flags, two functions set two of them at once, and two  *)
(* families use the flag of the other one to choose.  TakenForOne is what  *)
(* the code is known to ask for without.                                   *)
(***************************************************************************)
AsksForWhatThereIs ==
  \A r \in Outstanding :
    r.asks.extra \in DOMAIN FunctionFor =>
      FunctionFor[r.asks.extra] \in functions \/ TakenForOne(r.asks.extra, functions)

(***************************************************************************)
(* The answer to each request in line is recognised by its specifier, and  *)
(* the handler that is called with it can pass it on.                      *)
(***************************************************************************)
AnswersAreRecognised ==
  \A r \in Outstanding :
    r.kind = "get" =>
      /\ reply_specifier_matches(r.specifier,
           [type |-> AnswerType(r.asks.type), extra |-> r.asks.extra])
      /\ r.asks.extra \in r.reads

(***************************************************************************)
(* The connection calls back with the device's record of a subscription:   *)
(* what it listens to are the records the device has not freed, also once  *)
(* the device is being closed.                                             *)
(***************************************************************************)
RecordsAreLive == listeners = subscriptions

(***************************************************************************)
(* Every call that was not refused is called back in the end, the second   *)
(* request of init included.                                               *)
(***************************************************************************)
EveryCallEnds ==
  \A c \in Calls :
    name[c] # None /\ returned[c] # "-1" ~> (heard[c] # <<>> \/ Lost(c))
=============================================================================
