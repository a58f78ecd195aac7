---------------------------- MODULE DeviceProofs ----------------------------
(***************************************************************************)
(* Type correctness and the safety properties of Device, for any number of *)
(* calls, subscriptions and headsets.                                      *)
(***************************************************************************)
EXTENDS Device, TLAPS

-----------------------------------------------------------------------------
(***************************************************************************)
(* What every operation of the table in DeviceOperations has in common,    *)
(* for every headset: its answer is recognised and can be read, and it     *)
(* asks for a function the headset has.                                    *)
(***************************************************************************)
\* What the connection takes for the reply can be passed on by the handler.
Readable(r) ==
  \A p \in Packet :
    r.specifier.only_ack \/ reply_specifier_matches(r.specifier, p)
      => p.extra \in r.reads

\* The answer of a headset is taken for the reply.
Recognised(r) ==
  /\ reply_specifier_matches(r.specifier,
       [type |-> AnswerType(r.asks.type), extra |-> r.asks.extra])
  /\ r.asks.extra \in r.reads

\* An operation for which the device need not care what is asked for.
Safe(r) ==
  /\ r \in Asked
  /\ r.kind = "get" => Recognised(r)
  /\ Readable(r) \/ r \in {InitProtocolInfo, InitSupportFunction}

\* A headset with the functions fs has what is asked for, or is taken to.
Has(inquired, fs) == FunctionFor[inquired] \in fs \/ TakenForOne(inquired, fs)

AsksOf(r, fs) ==
  r.allowed /\ r.asks.extra \in DOMAIN FunctionFor => Has(r.asks.extra, fs)

Good(r, fs) == Safe(r) /\ AsksOf(r, fs)

AllGood(family, fs) == \A o \in DOMAIN family : Good(family[o], fs)

\* The flags are of a headset with the functions fs, or were not set yet.
FlagsAreOf(supp, fs) ==
  /\ fs \subseteq FunctionTypes
  /\ supp = {} \/ supp = UNION {FlagsOf(f) : f \in fs}

-----------------------------------------------------------------------------
LEMMA GetIsGood ==
  ASSUME NEW fs, NEW allowed \in BOOLEAN, NEW get \in PacketTypes,
         NEW ret \in InquiryTypes, NEW inquired \in DeviceInquiredTypes,
         NEW reads \in SUBSET DeviceInquiredTypes,
         inquired \in reads, ret = AnswerType(get),
         allowed /\ inquired \in DOMAIN FunctionFor => Has(inquired, fs)
  PROVE  Good(Get(allowed, get, ret, inquired, reads), fs)
<1> DEFINE r == Get(allowed, get, ret, inquired, reads)
<1>1. r \in Asked
  BY DEF Get, Asked, Packet, Specifier, PacketTypes
<1>2. Recognised(r)
  BY DEF Get, Recognised, reply_specifier_matches
<1>3. Readable(r)
  BY DEF Get, Readable, reply_specifier_matches
<1>4. AsksOf(r, fs)
  BY DEF Get, AsksOf
<1>5. QED
  BY <1>1, <1>2, <1>3, <1>4 DEF Good, Safe

LEMMA SetIsGood ==
  ASSUME NEW fs, NEW allowed \in BOOLEAN, NEW set \in PacketTypes,
         NEW inquired \in DeviceInquiredTypes,
         allowed /\ inquired \in DOMAIN FunctionFor => Has(inquired, fs)
  PROVE  Good(Set(allowed, set, inquired), fs)
<1> DEFINE r == Set(allowed, set, inquired)
<1>1. r \in Asked
  BY DEF Set, Asked, Packet, Specifier, PacketTypes, TypeOnlyTypes, DeviceInquiredTypes
<1>2. Readable(r)
  BY DEF Set, Readable, Packet
<1>3. r.kind = "set"
  BY DEF Set
<1>4. AsksOf(r, fs)
  BY DEF Set, AsksOf
<1>5. QED
  BY <1>1, <1>2, <1>3, <1>4 DEF Good, Safe

LEMMA SubscriptionIsGood ==
  ASSUME NEW fs, NEW allowed \in BOOLEAN, NEW ntfy \in InquiryTypes,
         NEW inquired \in DeviceInquiredTypes, NEW reads \in SUBSET DeviceInquiredTypes,
         inquired \in reads,
         allowed /\ inquired \in DOMAIN FunctionFor => Has(inquired, fs)
  PROVE  Good(Subscription(allowed, ntfy, inquired, reads), fs)
<1> DEFINE r == Subscription(allowed, ntfy, inquired, reads)
<1>1. r \in Asked
  BY DEF Subscription, Asked, Packet, Specifier, PacketTypes
<1>2. Readable(r)
  BY DEF Subscription, Readable, reply_specifier_matches
<1>3. r.kind = "subscribe"
  BY DEF Subscription
<1>4. AsksOf(r, fs)
  BY DEF Subscription, AsksOf
<1>5. QED
  BY <1>1, <1>2, <1>3, <1>4 DEF Good, Safe

\* The two requests of init are matched by their type alone.
LEMMA InitIsSafe ==
  /\ Safe(InitProtocolInfo) /\ Safe(InitSupportFunction)
  /\ InitProtocolInfo # InitSupportFunction
<1>1. /\ InitProtocolInfo \in Asked /\ InitSupportFunction \in Asked
      /\ InitProtocolInfo # InitSupportFunction
  BY DEF InitProtocolInfo, InitSupportFunction, Get, Asked, Packet, Specifier,
         PacketTypes, TypeOnlyTypes, DeviceInquiredTypes
<1>2. Recognised(InitProtocolInfo) /\ Recognised(InitSupportFunction)
  BY DEF InitProtocolInfo, InitSupportFunction, Get, Recognised, AnswerType,
         reply_specifier_matches
<1>3. QED
  BY <1>1, <1>2 DEF Safe

-----------------------------------------------------------------------------
\* A flag is only set by a function it belongs to.
LEMMA FlagMeansFunction ==
  ASSUME NEW supp, NEW fs, FlagsAreOf(supp, fs)
  PROVE  /\ "power_off" \in supp => "POWER_OFF" \in fs
         /\ "battery" \in supp => "BATTERY_LEVEL" \in fs
         /\ "left_right_battery" \in supp => "LEFT_RIGHT_BATTERY_LEVEL" \in fs
         /\ "cradle_battery" \in supp => "CRADLE_BATTERY_LEVEL" \in fs
         /\ "left_right_connection_status" \in supp
              => "LEFT_RIGHT_CONNECTION_STATUS" \in fs
         /\ "eq" \in supp => "PRESET_EQ" \in fs
         /\ "eq_non_customizable" \in supp => "PRESET_EQ_NONCUSTOMIZABLE" \in fs
         /\ "auto_power_off" \in supp => "AUTO_POWER_OFF" \in fs
         /\ "playback_controller" \in supp => "PLAYBACK_CONTROLLER" \in fs
         /\ "assignable_settings" \in supp => "ASSIGNABLE_SETTINGS" \in fs
<1>1. \A flag \in supp : \E f \in fs : flag \in FlagsOf(f)
  BY DEF FlagsAreOf
<1>2. fs \subseteq FunctionTypes
  BY DEF FlagsAreOf
<1>3. QED
  BY <1>1, <1>2 DEF FunctionTypes, FlagsOf

\* Of the two halves of noise cancelling a headset has one, or both in one, or
\* both and is taken to have them in one.
LEMMA HalvesMeanFunctions ==
  ASSUME NEW supp, NEW fs, FlagsAreOf(supp, fs)
  PROVE  /\ "noise_cancelling" \in supp
              => Has(NoiseCancellingType(supp), fs)
         /\ "ambient_sound_mode" \in supp
              => Has(AmbientSoundType(supp), fs)
<1>1. \A flag \in supp : \E f \in fs : flag \in FlagsOf(f)
  BY DEF FlagsAreOf
<1>2. fs \subseteq FunctionTypes
  BY DEF FlagsAreOf
<1>3. "noise_cancelling" \in supp =>
        \/ "NOISE_CANCELLING" \in fs
        \/ "NOISE_CANCELLING_AND_AMBIENT_SOUND_MODE" \in fs
  BY <1>1, <1>2 DEF FunctionTypes, FlagsOf
<1>4. "ambient_sound_mode" \in supp =>
        \/ "AMBIENT_SOUND_MODE" \in fs
        \/ "NOISE_CANCELLING_AND_AMBIENT_SOUND_MODE" \in fs
  BY <1>1, <1>2 DEF FunctionTypes, FlagsOf
<1>5. supp # {} /\ "NOISE_CANCELLING_AND_AMBIENT_SOUND_MODE" \in fs =>
        "noise_cancelling" \in supp /\ "ambient_sound_mode" \in supp
  <2>1. FlagsOf("NOISE_CANCELLING_AND_AMBIENT_SOUND_MODE")
          = {"noise_cancelling", "ambient_sound_mode"}
    BY DEF FlagsOf
  <2>2. QED
    BY <2>1 DEF FlagsAreOf
<1>6. QED
  BY <1>2, <1>3, <1>4, <1>5
     DEF Has, TakenForOne, FunctionFor, NoiseCancellingType, AmbientSoundType

-----------------------------------------------------------------------------
\* The answers the operations wait for are the ones their packets get.
LEMMA AnswerTypes ==
  /\ AnswerType("CONNECT_GET_DEVICE_INFO") = "CONNECT_RET_DEVICE_INFO"
  /\ AnswerType("COMMON_GET_BATTERY_LEVEL") = "COMMON_RET_BATTERY_LEVEL"
  /\ AnswerType("COMMON_GET_CONNECTION_STATUS") = "COMMON_RET_CONNECTION_STATUS"
  /\ AnswerType("EQEBB_GET_CAPABILITY") = "EQEBB_RET_CAPABILITY"
  /\ AnswerType("EQEBB_GET_PARAM") = "EQEBB_RET_PARAM"
  /\ AnswerType("NCASM_GET_PARAM") = "NCASM_RET_PARAM"
  /\ AnswerType("PLAY_GET_PARAM") = "PLAY_RET_PARAM"
  /\ AnswerType("SYSTEM_GET_CAPABILITY") = "SYSTEM_RET_CAPABILITY"
  /\ AnswerType("SYSTEM_GET_PARAM") = "SYSTEM_RET_PARAM"
BY DEF AnswerType

LEMMA InitialisationGood ==
  ASSUME NEW fs
  PROVE  AllGood(Initialisation, fs)
<1>1. AsksOf(InitProtocolInfo, fs)
  BY DEF InitProtocolInfo, Get, AsksOf, FunctionFor
<1>2. QED
  BY <1>1, InitIsSafe DEF AllGood, Good, Initialisation

\* The words of the table are what they should be.
LEMMA Requested ==
  { "CONNECT_GET_DEVICE_INFO", "COMMON_GET_BATTERY_LEVEL",
    "COMMON_GET_CONNECTION_STATUS", "COMMON_SET_POWER_OFF",
    "EQEBB_GET_CAPABILITY", "EQEBB_GET_PARAM", "EQEBB_SET_PARAM",
    "NCASM_GET_PARAM", "NCASM_SET_PARAM", "PLAY_GET_PARAM", "PLAY_SET_PARAM",
    "SYSTEM_GET_CAPABILITY", "SYSTEM_GET_PARAM", "SYSTEM_SET_PARAM" }
  \subseteq PacketTypes
BY DEF PacketTypes, TypeOnlyTypes, InquiryTypes

LEMMA AnsweredBy ==
  { "CONNECT_RET_DEVICE_INFO", "COMMON_RET_BATTERY_LEVEL",
    "COMMON_NTFY_BATTERY_LEVEL", "COMMON_RET_CONNECTION_STATUS",
    "COMMON_NTFY_CONNECTION_STATUS", "EQEBB_RET_CAPABILITY", "EQEBB_RET_PARAM",
    "EQEBB_NTFY_PARAM", "NCASM_RET_PARAM", "NCASM_NTFY_PARAM",
    "PLAY_RET_PARAM", "PLAY_NTFY_PARAM", "SYSTEM_RET_CAPABILITY",
    "SYSTEM_RET_PARAM", "SYSTEM_NTFY_PARAM" }
  \subseteq InquiryTypes
BY DEF InquiryTypes

LEMMA NoFunctionFor ==
  /\ "MODEL_NAME" \notin DOMAIN FunctionFor
  /\ "FW_VERSION" \notin DOMAIN FunctionFor
  /\ "SERIES_AND_COLOR" \notin DOMAIN FunctionFor
BY DEF FunctionFor

LEMMA DeviceInfoGood ==
  ASSUME NEW fs
  PROVE  AllGood(DeviceInfo, fs)
<1>1. ASSUME NEW inquired \in {"MODEL_NAME", "FW_VERSION", "SERIES_AND_COLOR"}
      PROVE  Good(GetDeviceInfo(inquired), fs)
  <2>1. /\ inquired \in DeviceInquiredTypes
        /\ inquired \notin DOMAIN FunctionFor
        /\ "CONNECT_RET_DEVICE_INFO" \in InquiryTypes
    BY NoFunctionFor DEF DeviceInquiredTypes, InquiryTypes
  <2>2. QED
    BY <2>1, GetIsGood, Requested, AnswerTypes DEF GetDeviceInfo
<1>2. QED
  BY <1>1 DEF AllGood, DeviceInfo

LEMMA PowerOffGood ==
  ASSUME NEW supp, NEW fs, FlagsAreOf(supp, fs)
  PROVE  AllGood(PowerOff(supp), fs)
<1> DEFINE allowed == "power_off" \in supp
<1>1. /\ "FIXED_VALUE" \in DeviceInquiredTypes
      /\ FunctionFor["FIXED_VALUE"] = "POWER_OFF"
  BY DEF DeviceInquiredTypes, FunctionFor
<1>2. /\ allowed \in BOOLEAN
      /\ allowed => Has("FIXED_VALUE", fs)
  BY <1>1, FlagMeansFunction DEF Has
<1> HIDE DEF allowed
<1>3. "COMMON_SET_POWER_OFF" \in PacketTypes
  BY Requested
<1>4. Good(Set(allowed, "COMMON_SET_POWER_OFF", "FIXED_VALUE"), fs)
  BY <1>1, <1>2, <1>3, SetIsGood
<1>5. QED
  BY <1>4 DEF AllGood, PowerOff, allowed
\* The three kinds of batteries.
LEMMA BatteryIsGood ==
  ASSUME NEW fs, NEW allowed \in BOOLEAN, NEW inquired \in DeviceInquiredTypes,
         allowed => Has(inquired, fs)
  PROVE  /\ Good(GetBattery(allowed, inquired), fs)
         /\ Good(SubscribeBattery(allowed, inquired), fs)
<1>1. Good(GetBattery(allowed, inquired), fs)
  BY GetIsGood, Requested, AnsweredBy, AnswerTypes DEF GetBattery
<1>2. Good(SubscribeBattery(allowed, inquired), fs)
  BY SubscriptionIsGood, AnsweredBy DEF SubscribeBattery
<1>3. QED
  BY <1>1, <1>2

LEMMA BatteryLevelGood ==
  ASSUME NEW supp, NEW fs, FlagsAreOf(supp, fs)
  PROVE  AllGood(BatteryLevel(supp), fs)
<1> DEFINE allowed == "battery" \in supp
<1>1. /\ "BATTERY" \in DeviceInquiredTypes
      /\ FunctionFor["BATTERY"] = "BATTERY_LEVEL"
  BY DEF DeviceInquiredTypes, FunctionFor
<1>2. allowed \in BOOLEAN /\ (allowed => Has("BATTERY", fs))
  BY <1>1, FlagMeansFunction DEF Has
<1> HIDE DEF allowed
<1>3. Good(GetBattery(allowed, "BATTERY"), fs)
  BY <1>1, <1>2, BatteryIsGood
<1>4. Good(SubscribeBattery(allowed, "BATTERY"), fs)
  BY <1>1, <1>2, BatteryIsGood
<1>5. QED
  BY <1>3, <1>4 DEF AllGood, BatteryLevel, allowed

LEMMA LeftRightBatteryLevelGood ==
  ASSUME NEW supp, NEW fs, FlagsAreOf(supp, fs)
  PROVE  AllGood(LeftRightBatteryLevel(supp), fs)
<1> DEFINE allowed == "left_right_battery" \in supp
<1>1. /\ "LEFT_RIGHT_BATTERY" \in DeviceInquiredTypes
      /\ FunctionFor["LEFT_RIGHT_BATTERY"] = "LEFT_RIGHT_BATTERY_LEVEL"
  BY DEF DeviceInquiredTypes, FunctionFor
<1>2. allowed \in BOOLEAN /\ (allowed => Has("LEFT_RIGHT_BATTERY", fs))
  BY <1>1, FlagMeansFunction DEF Has
<1> HIDE DEF allowed
<1>3. Good(GetBattery(allowed, "LEFT_RIGHT_BATTERY"), fs)
  BY <1>1, <1>2, BatteryIsGood
<1>4. Good(SubscribeBattery(allowed, "LEFT_RIGHT_BATTERY"), fs)
  BY <1>1, <1>2, BatteryIsGood
<1>5. QED
  BY <1>3, <1>4 DEF AllGood, LeftRightBatteryLevel, allowed

LEMMA CradleBatteryLevelGood ==
  ASSUME NEW supp, NEW fs, FlagsAreOf(supp, fs)
  PROVE  AllGood(CradleBatteryLevel(supp), fs)
<1> DEFINE allowed == "cradle_battery" \in supp
<1>1. /\ "CRADLE_BATTERY" \in DeviceInquiredTypes
      /\ FunctionFor["CRADLE_BATTERY"] = "CRADLE_BATTERY_LEVEL"
  BY DEF DeviceInquiredTypes, FunctionFor
<1>2. allowed \in BOOLEAN /\ (allowed => Has("CRADLE_BATTERY", fs))
  BY <1>1, FlagMeansFunction DEF Has
<1> HIDE DEF allowed
<1>3. Good(GetBattery(allowed, "CRADLE_BATTERY"), fs)
  BY <1>1, <1>2, BatteryIsGood
<1>4. Good(SubscribeBattery(allowed, "CRADLE_BATTERY"), fs)
  BY <1>1, <1>2, BatteryIsGood
<1>5. QED
  BY <1>3, <1>4 DEF AllGood, CradleBatteryLevel, allowed

LEMMA LeftRightConnectionStatusGood ==
  ASSUME NEW supp, NEW fs, FlagsAreOf(supp, fs)
  PROVE  AllGood(LeftRightConnectionStatus(supp), fs)
<1> DEFINE allowed == "left_right_connection_status" \in supp
<1>1. /\ "LEFT_RIGHT" \in DeviceInquiredTypes
      /\ FunctionFor["LEFT_RIGHT"] = "LEFT_RIGHT_CONNECTION_STATUS"
  BY DEF DeviceInquiredTypes, FunctionFor
<1>2. allowed \in BOOLEAN /\ (allowed => Has("LEFT_RIGHT", fs))
  BY <1>1, FlagMeansFunction DEF Has
<1> HIDE DEF allowed
<1>3. Good(Get(allowed, "COMMON_GET_CONNECTION_STATUS",
              "COMMON_RET_CONNECTION_STATUS", "LEFT_RIGHT", {"LEFT_RIGHT"}), fs)
  BY <1>1, <1>2, GetIsGood, Requested, AnsweredBy, AnswerTypes
<1>4. Good(Subscription(allowed, "COMMON_NTFY_CONNECTION_STATUS",
              "LEFT_RIGHT", {"LEFT_RIGHT"}), fs)
  BY <1>1, <1>2, SubscriptionIsGood, AnsweredBy
<1>5. QED
  BY <1>3, <1>4 DEF AllGood, LeftRightConnectionStatus, allowed

LEMMA AutoPowerOffTimeoutsGood ==
  ASSUME NEW supp, NEW fs, FlagsAreOf(supp, fs)
  PROVE  AllGood(AutoPowerOffTimeouts(supp), fs)
<1> DEFINE allowed == "auto_power_off" \in supp
<1>1. /\ "AUTO_POWER_OFF" \in DeviceInquiredTypes
      /\ FunctionFor["AUTO_POWER_OFF"] = "AUTO_POWER_OFF"
  BY DEF DeviceInquiredTypes, FunctionFor
<1>2. allowed \in BOOLEAN /\ (allowed => Has("AUTO_POWER_OFF", fs))
  BY <1>1, FlagMeansFunction DEF Has
<1> HIDE DEF allowed
<1>3. Good(Get(allowed, "SYSTEM_GET_CAPABILITY",
              "SYSTEM_RET_CAPABILITY", "AUTO_POWER_OFF", {"AUTO_POWER_OFF"}), fs)
  BY <1>1, <1>2, GetIsGood, Requested, AnsweredBy, AnswerTypes
<1>4. QED
  BY <1>3 DEF AllGood, AutoPowerOffTimeouts, allowed

LEMMA AutoPowerOffGood ==
  ASSUME NEW supp, NEW fs, FlagsAreOf(supp, fs)
  PROVE  AllGood(AutoPowerOff(supp), fs)
<1> DEFINE allowed == "auto_power_off" \in supp
<1>1. /\ "AUTO_POWER_OFF" \in DeviceInquiredTypes
      /\ FunctionFor["AUTO_POWER_OFF"] = "AUTO_POWER_OFF"
  BY DEF DeviceInquiredTypes, FunctionFor
<1>2. allowed \in BOOLEAN /\ (allowed => Has("AUTO_POWER_OFF", fs))
  BY <1>1, FlagMeansFunction DEF Has
<1> HIDE DEF allowed
<1>3. Good(Get(allowed, "SYSTEM_GET_PARAM",
              "SYSTEM_RET_PARAM", "AUTO_POWER_OFF", {"AUTO_POWER_OFF"}), fs)
  BY <1>1, <1>2, GetIsGood, Requested, AnsweredBy, AnswerTypes
<1>4. Good(Subscription(allowed, "SYSTEM_NTFY_PARAM",
              "AUTO_POWER_OFF", {"AUTO_POWER_OFF"}), fs)
  BY <1>1, <1>2, SubscriptionIsGood, AnsweredBy
<1>5. QED
  BY <1>3, <1>4 DEF AllGood, AutoPowerOff, allowed

LEMMA SetAutoPowerOffGood ==
  ASSUME NEW supp, NEW fs, FlagsAreOf(supp, fs)
  PROVE  AllGood(SetAutoPowerOff(supp), fs)
<1> DEFINE allowed == "auto_power_off" \in supp
<1>1. /\ "AUTO_POWER_OFF" \in DeviceInquiredTypes
      /\ FunctionFor["AUTO_POWER_OFF"] = "AUTO_POWER_OFF"
  BY DEF DeviceInquiredTypes, FunctionFor
<1>2. allowed \in BOOLEAN /\ (allowed => Has("AUTO_POWER_OFF", fs))
  BY <1>1, FlagMeansFunction DEF Has
<1> HIDE DEF allowed
<1>3. Good(Set(allowed, "SYSTEM_SET_PARAM", "AUTO_POWER_OFF"), fs)
  BY <1>1, <1>2, SetIsGood, Requested
<1>4. QED
  BY <1>3 DEF AllGood, SetAutoPowerOff, allowed

LEMMA ButtonPresetsGood ==
  ASSUME NEW supp, NEW fs, FlagsAreOf(supp, fs)
  PROVE  AllGood(ButtonPresets(supp), fs)
<1> DEFINE allowed == "assignable_settings" \in supp
<1>1. /\ "ASSIGNABLE_SETTINGS" \in DeviceInquiredTypes
      /\ FunctionFor["ASSIGNABLE_SETTINGS"] = "ASSIGNABLE_SETTINGS"
  BY DEF DeviceInquiredTypes, FunctionFor
<1>2. allowed \in BOOLEAN /\ (allowed => Has("ASSIGNABLE_SETTINGS", fs))
  BY <1>1, FlagMeansFunction DEF Has
<1> HIDE DEF allowed
<1>3. Good(Get(allowed, "SYSTEM_GET_CAPABILITY",
              "SYSTEM_RET_CAPABILITY", "ASSIGNABLE_SETTINGS",
              {"ASSIGNABLE_SETTINGS"}), fs)
  BY <1>1, <1>2, GetIsGood, Requested, AnsweredBy, AnswerTypes
<1>4. Good(Get(allowed, "SYSTEM_GET_PARAM",
              "SYSTEM_RET_PARAM", "ASSIGNABLE_SETTINGS", {"ASSIGNABLE_SETTINGS"}), fs)
  BY <1>1, <1>2, GetIsGood, Requested, AnsweredBy, AnswerTypes
<1>5. QED
  BY <1>3, <1>4 DEF AllGood, ButtonPresets, allowed

LEMMA ActiveButtonPresetsGood ==
  ASSUME NEW supp, NEW fs, FlagsAreOf(supp, fs)
  PROVE  AllGood(ActiveButtonPresets(supp), fs)
<1> DEFINE allowed == "assignable_settings" \in supp
<1>1. /\ "ASSIGNABLE_SETTINGS" \in DeviceInquiredTypes
      /\ FunctionFor["ASSIGNABLE_SETTINGS"] = "ASSIGNABLE_SETTINGS"
  BY DEF DeviceInquiredTypes, FunctionFor
<1>2. allowed \in BOOLEAN /\ (allowed => Has("ASSIGNABLE_SETTINGS", fs))
  BY <1>1, FlagMeansFunction DEF Has
<1> HIDE DEF allowed
<1>3. Good(Subscription(allowed, "SYSTEM_NTFY_PARAM",
              "ASSIGNABLE_SETTINGS", {"ASSIGNABLE_SETTINGS"}), fs)
  BY <1>1, <1>2, SubscriptionIsGood, AnsweredBy
<1>4. Good(Set(allowed, "SYSTEM_SET_PARAM", "ASSIGNABLE_SETTINGS"), fs)
  BY <1>1, <1>2, SetIsGood, Requested
<1>5. QED
  BY <1>3, <1>4 DEF AllGood, ActiveButtonPresets, allowed

LEMMA VolumeGood ==
  ASSUME NEW supp, NEW fs, FlagsAreOf(supp, fs)
  PROVE  AllGood(Volume(supp), fs)
<1> DEFINE allowed == "playback_controller" \in supp
<1>1. /\ "VOLUME" \in DeviceInquiredTypes
      /\ FunctionFor["VOLUME"] = "PLAYBACK_CONTROLLER"
  BY DEF DeviceInquiredTypes, FunctionFor
<1>2. allowed \in BOOLEAN /\ (allowed => Has("VOLUME", fs))
  BY <1>1, FlagMeansFunction DEF Has
<1> HIDE DEF allowed
<1>3. Good(Get(allowed, "PLAY_GET_PARAM", "PLAY_RET_PARAM", "VOLUME", {"VOLUME"}), fs)
  BY <1>1, <1>2, GetIsGood, Requested, AnsweredBy, AnswerTypes
<1>4. Good(Subscription(allowed, "PLAY_NTFY_PARAM", "VOLUME", {"VOLUME"}), fs)
  BY <1>1, <1>2, SubscriptionIsGood, AnsweredBy
<1>5. Good(Set(allowed, "PLAY_SET_PARAM", "VOLUME"), fs)
  BY <1>1, <1>2, SetIsGood, Requested
<1>6. QED
  BY <1>3, <1>4, <1>5 DEF AllGood, Volume, allowed

LEMMA NoiseCancellingGood ==
  ASSUME NEW supp, NEW fs, FlagsAreOf(supp, fs)
  PROVE  AllGood(NoiseCancelling(supp), fs)
<1> DEFINE allowed == "noise_cancelling" \in supp
           inquired == NoiseCancellingType(supp)
<1>1. /\ inquired \in DeviceInquiredTypes /\ inquired \in NoiseCancellingRead
      /\ NoiseCancellingRead \subseteq DeviceInquiredTypes
  BY DEF NoiseCancellingType, NoiseCancellingRead, DeviceInquiredTypes
<1>2. allowed \in BOOLEAN /\ (allowed => Has(inquired, fs))
  BY HalvesMeanFunctions
<1> HIDE DEF allowed, inquired
<1>3. Good(Get(allowed, "NCASM_GET_PARAM", "NCASM_RET_PARAM", inquired,
               NoiseCancellingRead), fs)
  BY <1>1, <1>2, GetIsGood, Requested, AnsweredBy, AnswerTypes
<1>4. Good(Subscription(allowed, "NCASM_NTFY_PARAM", inquired,
                        NoiseCancellingRead), fs)
  BY <1>1, <1>2, SubscriptionIsGood, AnsweredBy
<1>5. QED
  BY <1>3, <1>4 DEF AllGood, NoiseCancelling, allowed, inquired

LEMMA AmbientSoundModeGood ==
  ASSUME NEW supp, NEW fs, FlagsAreOf(supp, fs)
  PROVE  AllGood(AmbientSoundMode(supp), fs)
<1> DEFINE allowed == "ambient_sound_mode" \in supp
           inquired == AmbientSoundType(supp)
<1>1. /\ inquired \in DeviceInquiredTypes /\ inquired \in AmbientSoundRead
      /\ AmbientSoundRead \subseteq DeviceInquiredTypes
  BY DEF AmbientSoundType, AmbientSoundRead, DeviceInquiredTypes
<1>2. allowed \in BOOLEAN /\ (allowed => Has(inquired, fs))
  BY HalvesMeanFunctions
<1> HIDE DEF allowed, inquired
<1>3. Good(Get(allowed, "NCASM_GET_PARAM", "NCASM_RET_PARAM", inquired,
               AmbientSoundRead), fs)
  BY <1>1, <1>2, GetIsGood, Requested, AnsweredBy, AnswerTypes
<1>4. Good(Subscription(allowed, "NCASM_NTFY_PARAM", inquired,
                        AmbientSoundRead), fs)
  BY <1>1, <1>2, SubscriptionIsGood, AnsweredBy
<1>5. QED
  BY <1>3, <1>4 DEF AllGood, AmbientSoundMode, allowed, inquired

LEMMA NcasmSettersGood ==
  ASSUME NEW supp, NEW fs, FlagsAreOf(supp, fs)
  PROVE  /\ AllGood(DisableNcasm(supp), fs)
         /\ AllGood(EnableNoiseCancelling(supp), fs)
         /\ AllGood(EnableAmbientSoundMode(supp), fs)
<1> DEFINE cancels == "noise_cancelling" \in supp
           ambient == "ambient_sound_mode" \in supp
           cancelling == NoiseCancellingType(supp)
           sound == AmbientSoundType(supp)
<1>1. cancelling \in DeviceInquiredTypes /\ sound \in DeviceInquiredTypes
  BY DEF NoiseCancellingType, AmbientSoundType, DeviceInquiredTypes
<1>2. /\ cancels \in BOOLEAN /\ (cancels => Has(cancelling, fs))
      /\ ambient \in BOOLEAN /\ (ambient => Has(sound, fs))
  BY HalvesMeanFunctions
<1> HIDE DEF cancels, ambient, cancelling, sound
<1>3. Good(Set(cancels, "NCASM_SET_PARAM", cancelling), fs)
  BY <1>1, <1>2, SetIsGood, Requested
<1>4. Good(Set(ambient, "NCASM_SET_PARAM", sound), fs)
  BY <1>1, <1>2, SetIsGood, Requested
<1>5. QED
  BY <1>3, <1>4 DEF AllGood, DisableNcasm, EnableNoiseCancelling,
                    EnableAmbientSoundMode, cancels, ambient, cancelling, sound

LEMMA EqGood ==
  ASSUME NEW supp, NEW fs, FlagsAreOf(supp, fs)
  PROVE  /\ AllGood(EqCapabilities(supp), fs)
         /\ AllGood(EqPresetAndLevels(supp), fs)
         /\ AllGood(SetEq(supp), fs)
<1> DEFINE allowed == HasEq(supp)
           sets == "eq" \in supp
           inquired == EqType(supp)
<1>1. /\ inquired \in DeviceInquiredTypes /\ inquired \in EqTypes
      /\ "PRESET_EQ" \in DeviceInquiredTypes
      /\ EqTypes \subseteq DeviceInquiredTypes
  BY DEF EqType, EqTypes, DeviceInquiredTypes
<1>2. /\ FunctionFor["PRESET_EQ"] = "PRESET_EQ"
      /\ FunctionFor["PRESET_EQ_NONCUSTOMIZABLE"] = "PRESET_EQ_NONCUSTOMIZABLE"
  BY DEF FunctionFor
<1>3. /\ allowed \in BOOLEAN /\ (allowed => Has(inquired, fs))
      /\ sets \in BOOLEAN /\ (sets => Has(inquired, fs))
      /\ sets => Has("PRESET_EQ", fs)
  BY <1>2, FlagMeansFunction DEF Has, HasEq, EqType
<1> HIDE DEF allowed, sets, inquired
<1>4. Good(Get(allowed, "EQEBB_GET_CAPABILITY", "EQEBB_RET_CAPABILITY", inquired,
               EqTypes), fs)
  BY <1>1, <1>3, GetIsGood, Requested, AnsweredBy, AnswerTypes
<1>5. Good(Get(allowed, "EQEBB_GET_PARAM", "EQEBB_RET_PARAM", inquired, EqTypes), fs)
  BY <1>1, <1>3, GetIsGood, Requested, AnsweredBy, AnswerTypes
<1>6. Good(Subscription(allowed, "EQEBB_NTFY_PARAM", inquired, EqTypes), fs)
  BY <1>1, <1>3, SubscriptionIsGood, AnsweredBy
<1>7. Good(Set(sets, "EQEBB_SET_PARAM", inquired), fs)
  BY <1>1, <1>3, SetIsGood, Requested
<1>8. Good(Set(sets, "EQEBB_SET_PARAM", "PRESET_EQ"), fs)
  BY <1>1, <1>3, SetIsGood, Requested
<1>9. QED
  BY <1>4, <1>5, <1>6, <1>7, <1>8
     DEF AllGood, EqCapabilities, EqPresetAndLevels, SetEq, allowed, sets, inquired

-----------------------------------------------------------------------------
\* A family has the same operations whatever functions are known.
LEMMA SameOperations ==
  ASSUME NEW supp, NEW o \in OperationNames
  PROVE  \E family \in Families(supp) : o \in DOMAIN family
<1> USE DEF Families
<1>1. PICK family \in Families({}) : o \in DOMAIN family
  BY DEF OperationNames
<1>2. CASE family \in {Initialisation, DeviceInfo}
  BY <1>1, <1>2
<1>3. CASE family \in {PowerOff({}), BatteryLevel({}), LeftRightBatteryLevel({}),
                       CradleBatteryLevel({}), LeftRightConnectionStatus({})}
  BY <1>1, <1>3 DEF PowerOff, BatteryLevel, LeftRightBatteryLevel,
     CradleBatteryLevel, LeftRightConnectionStatus
<1>4. CASE family \in {NoiseCancelling({}), AmbientSoundMode({}), DisableNcasm({}),
                       EnableNoiseCancelling({}), EnableAmbientSoundMode({})}
  BY <1>1, <1>4 DEF NoiseCancelling, AmbientSoundMode, DisableNcasm,
     EnableNoiseCancelling, EnableAmbientSoundMode
<1>5. CASE family \in {EqCapabilities({}), EqPresetAndLevels({}), SetEq({}),
                       AutoPowerOffTimeouts({}), AutoPowerOff({})}
  BY <1>1, <1>5 DEF EqCapabilities, EqPresetAndLevels, SetEq,
     AutoPowerOffTimeouts, AutoPowerOff
<1>6. CASE family \in {SetAutoPowerOff({}), ButtonPresets({}),
                       ActiveButtonPresets({}), Volume({})}
  BY <1>1, <1>6 DEF SetAutoPowerOff, ButtonPresets, ActiveButtonPresets, Volume
<1>7. QED
  BY <1>1, <1>2, <1>3, <1>4, <1>5, <1>6

\* The whole table.
LEMMA TableGood ==
  ASSUME NEW supp, NEW fs, FlagsAreOf(supp, fs), NEW o \in OperationNames
  PROVE  Good(OperationOf(supp, o), fs)
<1>1. \A family \in Families(supp) : AllGood(family, fs)
  BY InitialisationGood, DeviceInfoGood, PowerOffGood, BatteryLevelGood,
     LeftRightBatteryLevelGood, CradleBatteryLevelGood,
     LeftRightConnectionStatusGood, NoiseCancellingGood, AmbientSoundModeGood,
     NcasmSettersGood, EqGood, AutoPowerOffTimeoutsGood, AutoPowerOffGood,
     SetAutoPowerOffGood, ButtonPresetsGood, ActiveButtonPresetsGood, VolumeGood
     DEF Families
<1>2. \E family \in Families(supp) : o \in DOMAIN family
  BY SameOperations
<1>3. QED
  BY <1>1, <1>2 DEF OperationOf, AllGood

\* The operation by the name of init is mdr_device_init.
LEMMA InitInTable ==
  ASSUME NEW supp
  PROVE  "init" \in OperationNames /\ OperationOf(supp, "init") = InitProtocolInfo
<1>1. /\ Initialisation \in Families(supp) /\ Initialisation \in Families({})
      /\ "init" \in DOMAIN Initialisation
      /\ Initialisation["init"] = InitProtocolInfo
  BY DEF Families, Initialisation
<1>2. ASSUME NEW family \in Families(supp), "init" \in DOMAIN family
      PROVE  family = Initialisation
  <2>1. CASE family \in {Initialisation, DeviceInfo}
    BY <1>2, <2>1 DEF DeviceInfo
  <2>2. CASE family \in {PowerOff(supp), BatteryLevel(supp),
                         LeftRightBatteryLevel(supp), CradleBatteryLevel(supp),
                         LeftRightConnectionStatus(supp)}
    BY <1>2, <2>2 DEF PowerOff, BatteryLevel, LeftRightBatteryLevel,
       CradleBatteryLevel, LeftRightConnectionStatus
  <2>3. CASE family \in {NoiseCancelling(supp), AmbientSoundMode(supp),
                         DisableNcasm(supp), EnableNoiseCancelling(supp),
                         EnableAmbientSoundMode(supp)}
    BY <1>2, <2>3 DEF NoiseCancelling, AmbientSoundMode, DisableNcasm,
       EnableNoiseCancelling, EnableAmbientSoundMode
  <2>4. CASE family \in {EqCapabilities(supp), EqPresetAndLevels(supp), SetEq(supp),
                         AutoPowerOffTimeouts(supp), AutoPowerOff(supp)}
    BY <1>2, <2>4 DEF EqCapabilities, EqPresetAndLevels, SetEq,
       AutoPowerOffTimeouts, AutoPowerOff
  <2>5. CASE family \in {SetAutoPowerOff(supp), ButtonPresets(supp),
                         ActiveButtonPresets(supp), Volume(supp)}
    BY <1>2, <2>5 DEF SetAutoPowerOff, ButtonPresets, ActiveButtonPresets, Volume
  <2>6. QED
    BY <2>1, <2>2, <2>3, <2>4, <2>5 DEF Families
<1>3. QED
  BY <1>1, <1>2 DEF OperationOf, OperationNames

-----------------------------------------------------------------------------

Ended == {"RESULT", "NO_ACK", "NO_REPLY", "CLOSED"}

First(c)  == fate[<<c, 1>>]
Second(c) == fate[<<c, 2>>]

-----------------------------------------------------------------------------
(* The stages of a call.                                                   *)

Unused(c) ==
  /\ name[c] = None /\ nested # c
  /\ First(c) = "NEW" /\ Second(c) = "NEW"
  /\ Len(heard[c]) = 0

\* Nothing was requested: the function is missing, or the memory.
AtOnce(c) ==
  /\ name[c] # None /\ nested # c
  /\ First(c) = "NEW" /\ Second(c) = "NEW"
  /\ Len(heard[c]) = IF returned[c] = "-1" THEN 0 ELSE 1

InFirst(c) ==
  /\ name[c] # None /\ nested # c
  /\ First(c) \in {"PENDING", "REFUSED"} /\ Second(c) = "NEW"
  /\ returned[c] # "-1" /\ Len(heard[c]) = 0

Between(c) ==
  /\ name[c] # None /\ nested = c
  /\ First(c) = "RESULT" /\ Second(c) = "NEW"
  /\ returned[c] # "-1" /\ Len(heard[c]) = 0

InSecond(c) ==
  /\ name[c] # None /\ nested # c
  /\ First(c) = "RESULT" /\ Second(c) \in {"PENDING", "REFUSED"}
  /\ Second(c) = "PENDING" => asked[<<c, 2>>] = InitSupportFunction
  /\ returned[c] # "-1" /\ Len(heard[c]) = 0

Done(c) ==
  /\ name[c] # None /\ nested # c
  /\ First(c) \in Ended /\ Second(c) \in Ended \cup {"NEW"}
  /\ returned[c] # "-1" /\ Len(heard[c]) = 1

Stage(c) ==
  Unused(c) \/ AtOnce(c) \/ InFirst(c) \/ Between(c) \/ InSecond(c) \/ Done(c)

\* What init needs to tell the truth.
InitInv(c) ==
  name[c] = "init" =>
    /\ First(c) = "PENDING" => asked[<<c, 1>>] = InitProtocolInfo
    /\ heard[c] = <<"result">> => supported = KnownFunctions

\* A request was only made for an operation that was allowed.
Made(r, fs) == Good(r, fs) /\ r.allowed

IInv ==
  /\ TypeOK
  /\ \A h \in Handles : Made(asked[h], functions)
  /\ \A c \in Calls : Stage(c) /\ InitInv(c)
  /\ RecordsAreLive

-----------------------------------------------------------------------------
LEMMA HandleFacts ==
  /\ \A c \in Calls : <<c, 1>> \in Handles /\ <<c, 2>> \in Handles
  /\ \A h \in Handles : h[1] \in Calls /\ (h = <<h[1], 1>> \/ h = <<h[1], 2>>)
  /\ \A c, d \in Calls : <<c, 1>> # <<d, 2>>
  /\ \A c, d \in Calls : c # d => <<c, 1>> # <<d, 1>> /\ <<c, 2>> # <<d, 2>>
BY DEF Handles

LEMMA NoneIsNothing == None \notin Calls /\ None \notin OperationNames
BY DeviceAssumption

\* The flags the device knows are of the headset.
LEMMA FlagsKnown ==
  ASSUME TypeOK
  PROVE  FlagsAreOf(supported, functions)
<1>1. functions \in Headsets
  BY DEF TypeOK
<1>2. functions \subseteq FunctionTypes
  BY <1>1, DeviceAssumption
<1>3. QED
  BY <1>1, <1>2 DEF FlagsAreOf, TypeOK, KnownFunctions

LEMMA OperationGood ==
  ASSUME TypeOK, NEW o \in Used
  PROVE  /\ Good(Operation(o), functions) /\ Operation(o) \in Asked
         /\ Operation(o).allowed => Made(Operation(o), functions)
BY FlagsKnown, TableGood, DeviceAssumption DEF Operation, Made, Good, Safe

LEMMA InitMade ==
  ASSUME NEW fs
  PROVE  /\ Made(InitProtocolInfo, fs) /\ InitProtocolInfo \in Asked
         /\ Made(InitSupportFunction, fs) /\ InitSupportFunction \in Asked
<1>1. /\ InitProtocolInfo.allowed /\ InitSupportFunction.allowed
      /\ AsksOf(InitProtocolInfo, fs) /\ AsksOf(InitSupportFunction, fs)
  BY DEF InitProtocolInfo, InitSupportFunction, Get, AsksOf, FunctionFor
<1>2. QED
  BY <1>1, InitIsSafe DEF Made, Good, Safe

LEMMA InitInv0 == Init => IInv
<1> SUFFICES ASSUME Init PROVE IInv
  OBVIOUS
<1>1. Made(InitProtocolInfo, functions) /\ InitProtocolInfo \in Asked
  BY InitMade
<1>2. TypeOK
  BY <1>1 DEF Init, TypeOK, Conn!Init, NotAsked
<1>3. \A h \in Handles : Made(asked[h], functions)
  BY <1>1 DEF Init, NotAsked
<1>4. ASSUME NEW c \in Calls PROVE Unused(c) /\ InitInv(c)
  BY <1>4, HandleFacts, NoneIsNothing
     DEF Init, Conn!Init, Unused, InitInv, First, Second
<1>5. QED
  BY <1>2, <1>3, <1>4 DEF IInv, Stage, Init, RecordsAreLive

-----------------------------------------------------------------------------
\* A step that does not concern call d.
Same(d) ==
  /\ fate'[<<d, 1>>] = fate[<<d, 1>>] /\ fate'[<<d, 2>>] = fate[<<d, 2>>]
  /\ asked'[<<d, 1>>] = asked[<<d, 1>>] /\ asked'[<<d, 2>>] = asked[<<d, 2>>]
  /\ name'[d] = name[d] /\ returned'[d] = returned[d] /\ heard'[d] = heard[d]
  /\ nested' = d <=> nested = d

LEMMA SameCall ==
  ASSUME NEW d \in Calls, Stage(d), InitInv(d), Same(d), TypeOK,
         functions' = functions,
         supported' \in {supported, supported \cup KnownFunctions}
  PROVE  Stage(d)' /\ InitInv(d)'
<1>1. Stage(d)'
  BY DEF Stage, Same, Unused, AtOnce, InFirst, Between, InSecond, Done, First, Second
<1>2. KnownFunctions' = KnownFunctions
  BY DEF KnownFunctions
<1>3. supported = KnownFunctions => supported' = KnownFunctions
  OBVIOUS
<1>4. QED
  BY <1>1, <1>2, <1>3 DEF InitInv, Same, First, Second

\* A step that at most concerns a handle of another call.
LEMMA OthersSame ==
  ASSUME NEW c \in Calls, NEW d \in Calls \ {c}, NEW h \in {<<c, 1>>, <<c, 2>>},
         \A g \in Handles \ {h} : fate'[g] = fate[g] /\ asked'[g] = asked[g],
         name'[d] = name[d], returned'[d] = returned[d], heard'[d] = heard[d],
         nested' = d <=> nested = d
  PROVE  Same(d)
<1>1. <<d, 1>> \in Handles \ {h} /\ <<d, 2>> \in Handles \ {h}
  BY DEF Handles
<1>2. QED
  BY <1>1 DEF Same

\* The variables that hardly any step changes.
Quiet == UNCHANGED <<listeners, supported, subscriptions, functions>>

LEMMA QuietIsQuiet ==
  ASSUME Quiet
  PROVE  /\ functions' = functions
         /\ supported' \in {supported, supported \cup KnownFunctions}
         /\ KnownFunctions' = KnownFunctions
         /\ RecordsAreLive => RecordsAreLive'
BY DEF Quiet, RecordsAreLive, KnownFunctions

\* What remains to be shown of a step that concerns only call c.
LEMMA OnlyCall ==
  ASSUME IInv, NEW c \in Calls,
         functions' = functions,
         supported' \in {supported, supported \cup KnownFunctions},
         \A d \in Calls \ {c} : Same(d),
         Stage(c)', InitInv(c)', TypeOK', RecordsAreLive',
         \A h \in Handles : Made(asked'[h], functions)
  PROVE  IInv'
<1>1. \A d \in Calls : Stage(d)' /\ InitInv(d)'
  BY SameCall DEF IInv
<1>2. QED
  BY <1>1 DEF IInv

LEMMA OneCall ==
  ASSUME IInv, NEW c \in Calls, Quiet,
         \A d \in Calls \ {c} : Same(d),
         Stage(c)', InitInv(c)', TypeOK',
         \A h \in Handles : Made(asked'[h], functions)
  PROVE  IInv'
<1>1. RecordsAreLive'
  BY QuietIsQuiet DEF IInv
<1>2. QED
  BY <1>1, OnlyCall, QuietIsQuiet

-----------------------------------------------------------------------------
(* The application makes a call.                                           *)

LEMMA CallFacts ==
  ASSUME IInv, NEW c \in Calls, NEW o \in Used, Call(c, o)
  PROVE  /\ Unused(c) /\ nested = None /\ Quiet
         /\ name' = [name EXCEPT ![c] = o] /\ nested' = nested
         /\ name'[c] = o /\ o # None
         /\ name' \in [Calls -> Used \cup {None}]
         /\ First(c) = "NEW" /\ Second(c) = "NEW" /\ Len(heard[c]) = 0
<1>1. /\ name[c] = None /\ nested = None /\ Quiet
      /\ name' = [name EXCEPT ![c] = o] /\ nested' = nested
  BY DEF Call, UserRuns, Quiet
<1>2. o # None
  BY DeviceAssumption
<1>3. name'[c] = o /\ name' \in [Calls -> Used \cup {None}]
  BY <1>1 DEF IInv, TypeOK
<1>4. Unused(c)
  BY <1>1 DEF IInv, Stage, AtOnce, InFirst, Between, InSecond, Done
<1>5. QED
  BY <1>1, <1>2, <1>3, <1>4 DEF Unused

\* Callbacks that were not, or not only, of success.
LEMMA NotTold ==
  /\ \A seq : Len(seq) = 0 => seq # <<"result">>
  /\ \A seq \in Seq({"result", "error"}) : Append(seq, "error") # <<"result">>
<1>1. \A seq : Len(seq) = 0 => seq # <<"result">>
  OBVIOUS
<1>2. ASSUME NEW seq \in Seq({"result", "error"})
      PROVE  Append(seq, "error") # <<"result">>
  <2>1. Append(seq, "error")[Len(seq) + 1] = "error"
    OBVIOUS
  <2>2. Len(seq) = 0 => <<"result">>[Len(seq) + 1] = "result"
    OBVIOUS
  <2>3. Len(seq) # 0 => Len(Append(seq, "error")) # 1
    OBVIOUS
  <2>4. QED
    BY <2>1, <2>2, <2>3
<1>3. QED
  BY <1>1, <1>2

LEMMA HearsFacts ==
  ASSUME IInv, NEW c \in Calls, NEW what \in {"result", "error"}, Hears(c, what)
  PROVE  /\ heard' \in [Calls -> Seq({"result", "error"})]
         /\ heard'[c] = Append(heard[c], what)
         /\ Len(heard'[c]) = Len(heard[c]) + 1
         /\ what = "error" => heard'[c] # <<"result">>
         /\ \A d \in Calls \ {c} : heard'[d] = heard[d]
<1>1. heard[c] \in Seq({"result", "error"})
  BY DEF IInv, TypeOK
<1>2. heard'[c] = Append(heard[c], what)
  BY DEF Hears, IInv, TypeOK
<1>3. heard' \in [Calls -> Seq({"result", "error"})]
  BY <1>1 DEF Hears, IInv, TypeOK
<1>4. Len(heard'[c]) = Len(heard[c]) + 1
  BY <1>1, <1>2
<1>5. what = "error" => heard'[c] # <<"result">>
  BY <1>1, <1>2, NotTold
<1>6. \A d \in Calls \ {c} : heard'[d] = heard[d]
  BY DEF Hears, IInv, TypeOK
<1>7. QED
  BY <1>2, <1>3, <1>4, <1>5, <1>6

LEMMA ReturnsFacts ==
  ASSUME IInv, NEW c \in Calls, NEW o \in Used, Returns(c, o)
  PROVE  /\ returned' \in [Calls -> {"0", "-1", "nothing"}]
         /\ returned'[c] \in {"0", "nothing"}
         /\ \A d \in Calls \ {c} : returned'[d] = returned[d]
BY DEF Returns, IInv, TypeOK

LEMMA NotSupportedInv ==
  ASSUME IInv, NEW c \in Calls, NEW o \in Used, NotSupported(c, o)
  PROVE  IInv'
<1>1. /\ Call(c, o) /\ returned' = [returned EXCEPT ![c] = "-1"]
      /\ UNCHANGED <<pending, fate, phase, asked, heard>>
  BY DEF NotSupported, connVars
<1>2. \A d \in Calls \ {c} : Same(d)
  BY <1>1, CallFacts DEF Same, IInv, TypeOK
<1>3. AtOnce(c)'
  BY <1>1, CallFacts DEF AtOnce, First, Second, IInv, TypeOK, Unused
<1>4. InitInv(c)'
  BY <1>1, <1>3, CallFacts, NotTold DEF InitInv, AtOnce, First, Second
<1>5. TypeOK'
  BY <1>1, CallFacts, QuietIsQuiet DEF IInv, TypeOK, Quiet
<1>6. QED
  BY <1>1, <1>2, <1>3, <1>4, <1>5, CallFacts, OneCall DEF Stage, IInv

LEMMA CallbackDataFailsInv ==
  ASSUME IInv, NEW c \in Calls, NEW o \in Used, CallbackDataFails(c, o)
  PROVE  IInv'
<1>1. /\ Call(c, o) /\ Hears(c, "error") /\ Returns(c, o)
      /\ UNCHANGED <<pending, fate, phase, asked>>
  BY DEF CallbackDataFails, connVars
<1>2. \A d \in Calls \ {c} : Same(d)
  BY <1>1, CallFacts, HearsFacts, ReturnsFacts DEF Same, IInv, TypeOK
<1>3. Len(heard[c]) = 0 /\ Len(heard'[c]) = 1 /\ heard'[c] # <<"result">>
  <2>1. "error" \in {"result", "error"}
    OBVIOUS
  <2>2. Len(heard[c]) = 0
    BY <1>1, CallFacts
  <2>3. Len(heard'[c]) = Len(heard[c]) + 1 /\ heard'[c] # <<"result">>
    BY <1>1, <2>1, HearsFacts
  <2>4. QED
    BY <2>2, <2>3
<1>4. AtOnce(c)'
  BY <1>1, <1>3, CallFacts, ReturnsFacts DEF AtOnce, First, Second, Unused
<1>5. InitInv(c)'
  BY <1>1, <1>3, <1>4 DEF InitInv, AtOnce, First, Second
<1>6. TypeOK'
  BY <1>1, CallFacts, HearsFacts, ReturnsFacts, QuietIsQuiet DEF IInv, TypeOK, Quiet
<1>7. QED
  BY <1>1, <1>2, <1>4, <1>5, <1>6, CallFacts, OneCall DEF Stage, IInv

LEMMA AcceptFacts ==
  ASSUME IInv, NEW h \in Handles, NEW r \in Asked, Conn!Accept(h),
         asked' = [asked EXCEPT ![h] = r], Made(r, functions)
  PROVE  /\ fate'[h] = "PENDING" /\ asked'[h] = r
         /\ \A g \in Handles \ {h} : fate'[g] = fate[g] /\ asked'[g] = asked[g]
         /\ pending' \in Seq(Handles) /\ asked' \in [Handles -> Asked]
         /\ fate' \in [Handles -> {"NEW", "REFUSED", "PENDING"} \cup Ended]
         /\ phase' = phase
         /\ \A g \in Handles : Made(asked'[g], functions)
<1>1. pending' = Append(pending, h) /\ fate' = [fate EXCEPT ![h] = "PENDING"]
      /\ phase' = phase
  BY DEF Conn!Accept
<1>2. pending' \in Seq(Handles)
  BY <1>1 DEF IInv, TypeOK
<1>3. /\ fate'[h] = "PENDING"
      /\ \A g \in Handles \ {h} : fate'[g] = fate[g]
      /\ fate' \in [Handles -> {"NEW", "REFUSED", "PENDING"} \cup Ended]
  BY <1>1 DEF IInv, TypeOK, Ended
<1>4. /\ asked'[h] = r /\ asked' \in [Handles -> Asked]
      /\ \A g \in Handles \ {h} : asked'[g] = asked[g]
  BY DEF IInv, TypeOK
<1>5. \A g \in Handles : Made(asked'[g], functions)
  BY <1>4 DEF IInv
<1>6. QED
  BY <1>1, <1>2, <1>3, <1>4, <1>5

LEMMA RefuseFacts ==
  ASSUME IInv, NEW h \in Handles, Conn!Refuse(h)
  PROVE  /\ fate'[h] = "REFUSED" /\ UNCHANGED <<pending, phase>>
         /\ \A g \in Handles \ {h} : fate'[g] = fate[g]
         /\ fate' \in [Handles -> {"NEW", "REFUSED", "PENDING"} \cup Ended]
BY DEF Conn!Refuse, IInv, TypeOK, Ended

LEMMA RequestInv ==
  ASSUME IInv, NEW c \in Calls, NEW o \in Used, Request(c, o)
  PROVE  IInv'
<1>1. /\ Call(c, o) /\ Conn!Accept(<<c, 1>>) /\ Returns(c, o)
      /\ asked' = [asked EXCEPT ![<<c, 1>>] = Operation(o)]
      /\ heard' = heard
  BY DEF Request
<1>2. Made(Operation(o), functions) /\ Operation(o) \in Asked
  BY OperationGood DEF IInv, Request
<1>3. <<c, 1>> \in Handles /\ <<c, 2>> \in Handles /\ <<c, 2>> # <<c, 1>>
  BY HandleFacts
<1>4. /\ fate'[<<c, 1>>] = "PENDING" /\ asked'[<<c, 1>>] = Operation(o)
      /\ \A g \in Handles \ {<<c, 1>>} : fate'[g] = fate[g] /\ asked'[g] = asked[g]
      /\ pending' \in Seq(Handles) /\ asked' \in [Handles -> Asked]
      /\ fate' \in [Handles -> {"NEW", "REFUSED", "PENDING"} \cup Ended]
      /\ phase' = phase
      /\ \A g \in Handles : Made(asked'[g], functions)
  BY <1>1, <1>2, <1>3, AcceptFacts
<1>5. ASSUME NEW d \in Calls \ {c} PROVE Same(d)
  <2>1. /\ name'[d] = name[d] /\ returned'[d] = returned[d] /\ heard'[d] = heard[d]
        /\ nested' = nested
    BY <1>1, CallFacts, ReturnsFacts DEF IInv, TypeOK
  <2>2. QED
    BY <1>4, <2>1, OthersSame
<1>6. InFirst(c)'
  BY <1>1, <1>3, <1>4, CallFacts, ReturnsFacts DEF InFirst, First, Second, Unused
<1>7. InitInv(c)'
  <2>1. o = "init" => Operation(o) = InitProtocolInfo
    BY InitInTable DEF Operation
  <2>2. name'[c] = o /\ asked'[<<c, 1>>] = Operation(o)
    BY <1>1, <1>4, CallFacts
  <2>3. heard'[c] # <<"result">>
    BY <1>6, NotTold DEF InFirst
  <2>4. QED
    BY <2>1, <2>2, <2>3 DEF InitInv
<1>8. TypeOK'
  BY <1>1, <1>4, CallFacts, ReturnsFacts, QuietIsQuiet DEF IInv, TypeOK, Quiet, Ended
<1>9. QED
  BY <1>1, <1>4, <1>5, <1>6, <1>7, <1>8, CallFacts, OneCall DEF Stage

LEMMA RequestRefusedInv ==
  ASSUME IInv, NEW c \in Calls, NEW o \in Used, RequestRefused(c, o)
  PROVE  IInv'
<1>1. /\ Call(c, o) /\ Conn!Refuse(<<c, 1>>) /\ Returns(c, o)
      /\ UNCHANGED <<asked, heard>>
  BY DEF RequestRefused
<1>2. <<c, 1>> \in Handles /\ <<c, 2>> \in Handles /\ <<c, 2>> # <<c, 1>>
  BY HandleFacts
<1>3. /\ fate'[<<c, 1>>] = "REFUSED" /\ UNCHANGED <<pending, phase>>
      /\ \A g \in Handles \ {<<c, 1>>} : fate'[g] = fate[g]
      /\ fate' \in [Handles -> {"NEW", "REFUSED", "PENDING"} \cup Ended]
  BY <1>1, <1>2, RefuseFacts
<1>4. ASSUME NEW d \in Calls \ {c} PROVE Same(d)
  <2>1. \A g \in Handles \ {<<c, 1>>} : fate'[g] = fate[g] /\ asked'[g] = asked[g]
    BY <1>1, <1>3
  <2>2. /\ name'[d] = name[d] /\ returned'[d] = returned[d] /\ heard'[d] = heard[d]
        /\ nested' = nested
    BY <1>1, CallFacts, ReturnsFacts DEF IInv, TypeOK
  <2>3. QED
    BY <2>1, <2>2, OthersSame
<1>5. InFirst(c)'
  BY <1>1, <1>2, <1>3, CallFacts, ReturnsFacts DEF InFirst, First, Second, Unused
<1>6. InitInv(c)'
  BY <1>1, <1>3, <1>5, NotTold DEF InitInv, InFirst, First
<1>7. TypeOK'
  BY <1>1, <1>3, CallFacts, ReturnsFacts, QuietIsQuiet DEF IInv, TypeOK, Quiet, Ended
<1>8. QED
  BY <1>1, <1>4, <1>5, <1>6, <1>7, CallFacts, OneCall DEF Stage, IInv

-----------------------------------------------------------------------------
(* A request ends.                                                         *)

LEMMA EndFacts ==
  ASSUME IInv, NEW ending \in Ended, Conn!EndOldest(ending)
  PROVE  /\ Caller \in Calls
         /\ \/ Head(pending) = <<Caller, 1>> /\ InFirst(Caller)
            \/ Head(pending) = <<Caller, 2>> /\ InSecond(Caller)
         /\ fate[Head(pending)] = "PENDING" /\ fate'[Head(pending)] = ending
         /\ \A g \in Handles \ {Head(pending)} : fate'[g] = fate[g]
         /\ pending' \in Seq(Handles)
         /\ fate' \in [Handles -> {"NEW", "REFUSED", "PENDING"} \cup Ended]
<1> DEFINE h == Head(pending)
<1>1. /\ pending # <<>> /\ fate[h] = "PENDING" /\ pending' = Tail(pending)
      /\ fate' = [fate EXCEPT ![h] = ending]
  BY DEF Conn!EndOldest
<1>2. pending \in Seq(Handles)
  BY DEF IInv, TypeOK
<1>3. h \in Handles /\ pending' \in Seq(Handles)
  BY <1>1, <1>2
<1>4. Caller \in Calls /\ (h = <<Caller, 1>> \/ h = <<Caller, 2>>)
  BY <1>3, HandleFacts DEF Caller
<1>5. \/ h = <<Caller, 1>> /\ InFirst(Caller)
      \/ h = <<Caller, 2>> /\ InSecond(Caller)
  <2>1. Stage(Caller)
    BY <1>4 DEF IInv
  <2>2. QED
    BY <1>1, <1>4, <2>1 DEF Stage, Unused, AtOnce, InFirst, Between, InSecond, Done,
                            First, Second, Ended
<1>6. /\ fate'[h] = ending
      /\ \A g \in Handles \ {h} : fate'[g] = fate[g]
      /\ fate' \in [Handles -> {"NEW", "REFUSED", "PENDING"} \cup Ended]
  BY <1>1, <1>3 DEF IInv, TypeOK, Ended
<1>7. QED
  BY <1>1, <1>3, <1>4, <1>5, <1>6

\* The call the ended request was made for is told of it.
LEMMA TellsInv ==
  ASSUME IInv, NEW ending \in Ended, Conn!EndOldest(ending),
         NEW what \in {"result", "error"}, Hears(Caller, what),
         UNCHANGED <<asked, name, returned, nested, functions>>,
         supported' \in {supported, supported \cup KnownFunctions},
         what = "result" /\ name[Caller] = "init" => supported' = KnownFunctions,
         phase' \in {"open", "closing", "closed"},
         listeners' \subseteq Subscribers, subscriptions' \subseteq Subscribers,
         RecordsAreLive'
  PROVE  IInv'
<1>0. PICK c \in Calls : c = Caller
  BY EndFacts
<1>1. /\ c \in Calls
      /\ \/ Head(pending) = <<c, 1>> /\ InFirst(c)
         \/ Head(pending) = <<c, 2>> /\ InSecond(c)
      /\ fate[Head(pending)] = "PENDING" /\ fate'[Head(pending)] = ending
      /\ \A g \in Handles \ {Head(pending)} : fate'[g] = fate[g]
      /\ pending' \in Seq(Handles)
      /\ fate' \in [Handles -> {"NEW", "REFUSED", "PENDING"} \cup Ended]
  BY <1>0, EndFacts
<1>2. /\ heard' \in [Calls -> Seq({"result", "error"})]
      /\ Len(heard'[c]) = Len(heard[c]) + 1
      /\ what = "error" => heard'[c] # <<"result">>
      /\ \A d \in Calls \ {c} : heard'[d] = heard[d]
  BY <1>0, HearsFacts
<1>3. ASSUME NEW d \in Calls \ {c} PROVE Same(d)
  <2>1. Head(pending) \in {<<c, 1>>, <<c, 2>>}
    BY <1>1
  <2>2. /\ name'[d] = name[d] /\ returned'[d] = returned[d] /\ heard'[d] = heard[d]
        /\ nested' = nested /\ asked' = asked
    BY <1>2
  <2>3. QED
    BY <1>1, <2>1, <2>2, OthersSame
<1>4. Len(heard[c]) = 0 /\ Len(heard'[c]) = 1
  BY <1>1, <1>2 DEF InFirst, InSecond
<1>5. Done(c)'
  <2>1. <<c, 1>> \in Handles /\ <<c, 2>> \in Handles /\ <<c, 1>> # <<c, 2>>
    BY <1>1, HandleFacts
  <2>2. First(c)' \in Ended /\ Second(c)' \in Ended \cup {"NEW"}
    BY <1>1, <2>1 DEF InFirst, InSecond, First, Second, Ended
  <2>3. name'[c] # None /\ nested' # c /\ returned'[c] # "-1"
    BY <1>1 DEF InFirst, InSecond
  <2>4. QED
    BY <1>4, <2>2, <2>3 DEF Done
<1>6. KnownFunctions' = KnownFunctions
  BY DEF KnownFunctions
<1>7. InitInv(c)'
  <2>1. First(c)' # "PENDING"
    BY <1>5 DEF Done, Ended
  <2>2. name[c] = "init" /\ heard'[c] = <<"result">> => supported' = KnownFunctions
    BY <1>0, <1>2
  <2>3. QED
    BY <1>6, <2>1, <2>2 DEF InitInv
<1>8. TypeOK'
  <2>1. supported' \in {{}, KnownFunctions'}
    BY <1>6 DEF IInv, TypeOK
  <2>2. QED
    BY <1>1, <1>2, <2>1 DEF IInv, TypeOK, Ended
<1>9. QED
  BY <1>1, <1>3, <1>5, <1>7, <1>8, OnlyCall DEF Stage, IInv

\* The answers that are passed to the application.
LEMMA AnswersInv ==
  ASSUME IInv, InitResultSupportedFunction \/ EqPresetsFail \/ \E p \in Packet : Result(p)
  PROVE  IInv'
<1>1. Conn!EndOldest("RESULT") /\ phase' = phase /\ "RESULT" \in Ended
  BY DEF InitResultSupportedFunction, EqPresetsFail, Result, Conn!Finish, Ended
<1>2. /\ UNCHANGED <<asked, name, returned, nested, functions, listeners, subscriptions>>
      /\ RecordsAreLive'
  BY DEF InitResultSupportedFunction, EqPresetsFail, Result, callsVars, IInv,
         RecordsAreLive
<1>3. /\ phase \in {"open", "closing", "closed"} /\ listeners \subseteq Subscribers
      /\ subscriptions \subseteq Subscribers
  BY DEF IInv, TypeOK
<1>4. CASE InitResultSupportedFunction
  <2>1. supported' = supported \cup KnownFunctions /\ Hears(Caller, "result")
    BY <1>4 DEF InitResultSupportedFunction
  <2>2. supported' = KnownFunctions
    BY <2>1 DEF IInv, TypeOK
  <2>3. QED
    BY <1>1, <1>2, <1>3, <2>1, <2>2, TellsInv
<1>5. CASE EqPresetsFail
  <2>1. supported' = supported /\ Hears(Caller, "error")
    BY <1>5 DEF EqPresetsFail
  <2>2. QED
    BY <1>1, <1>2, <1>3, <2>1, TellsInv
<1>6. ASSUME NEW p \in Packet, Result(p) PROVE IInv'
  <2>1. /\ supported' = supported /\ Reply(p)
        /\ Answered \notin {InitProtocolInfo, InitSupportFunction}
        /\ p.extra \in Answered.reads => Hears(Caller, "result")
    BY <1>6 DEF Result
  <2>2. /\ Caller \in Calls
        /\ \/ Head(pending) = <<Caller, 1>> /\ InFirst(Caller)
           \/ Head(pending) = <<Caller, 2>> /\ InSecond(Caller)
        /\ fate[Head(pending)] = "PENDING"
    BY <1>1, EndFacts
  <2>3. Head(pending) \in Handles
    BY <2>2, HandleFacts
  <2>4. Hears(Caller, "result")
    <3>1. Good(Answered, functions)
      BY <2>3 DEF IInv, Answered, Made
    <3>2. Readable(Answered)
      BY <2>1, <3>1 DEF Good, Safe
    <3>3. QED
      BY <2>1, <3>2 DEF Readable, Reply
  <2>5. name[Caller] # "init"
    <3>1. CASE Head(pending) = <<Caller, 1>>
      BY <2>1, <2>2, <3>1 DEF IInv, InitInv, First, Answered
    <3>2. CASE Head(pending) = <<Caller, 2>> /\ InSecond(Caller)
      BY <2>1, <2>2, <3>2 DEF InSecond, Second, Answered
    <3>3. QED
      BY <2>2, <3>1, <3>2
  <2>6. QED
    BY <1>1, <1>2, <1>3, <2>1, <2>4, <2>5, TellsInv
<1>7. QED
  BY <1>4, <1>5, <1>6

LEMMA ErrorInv ==
  ASSUME IInv, NEW ending \in {"NO_ACK", "NO_REPLY"}, Error(ending)
  PROVE  IInv'
<1>1. /\ Conn!EndOldest(ending) /\ phase' = phase /\ ending \in Ended
      /\ Hears(Caller, "error")
  BY DEF Error, Conn!Finish, Ended
<1>2. /\ UNCHANGED <<asked, name, returned, nested, functions, supported>>
      /\ UNCHANGED <<listeners, subscriptions>> /\ RecordsAreLive'
  BY DEF Error, callsVars, IInv, RecordsAreLive
<1>3. /\ phase \in {"open", "closing", "closed"} /\ listeners \subseteq Subscribers
      /\ subscriptions \subseteq Subscribers
  BY DEF IInv, TypeOK
<1>4. QED
  BY <1>1, <1>2, <1>3, TellsInv

LEMMA CloseInv ==
  ASSUME IInv, Close \/ CloseContinues
  PROVE  IInv'
<1>1. /\ UNCHANGED <<asked, name, returned, nested, functions, supported>>
      /\ ConnectionCloses
  BY DEF Close, CloseContinues, callsVars
<1>2. /\ listeners' \subseteq Subscribers /\ subscriptions' \subseteq Subscribers
      /\ RecordsAreLive'
  BY DEF Close, CloseContinues, IInv, TypeOK, RecordsAreLive
<1>3. CASE Conn!Abandon /\ Hears(Caller, "error")
  <2>1. Conn!EndOldest("CLOSED") /\ phase' = "closing" /\ "CLOSED" \in Ended
    BY <1>3 DEF Conn!Abandon, Ended
  <2>2. QED
    BY <1>1, <1>2, <1>3, <2>1, TellsInv
<1>4. CASE Conn!Closed /\ UNCHANGED heard
  <2>1. UNCHANGED <<pending, fate, heard>> /\ phase' = "closed"
    BY <1>4 DEF Conn!Closed
  <2>2. \A d \in Calls : Same(d)
    BY <1>1, <2>1 DEF Same
  <2>3. \A d \in Calls : Stage(d)' /\ InitInv(d)'
    BY <1>1, <2>2, SameCall DEF IInv
  <2>4. KnownFunctions' = KnownFunctions
    BY <1>1 DEF KnownFunctions
  <2>5. TypeOK'
    BY <1>1, <1>2, <2>1, <2>4 DEF IInv, TypeOK
  <2>6. QED
    BY <1>1, <1>2, <2>3, <2>5 DEF IInv
<1>5. QED
  BY <1>1, <1>3, <1>4 DEF ConnectionCloses

-----------------------------------------------------------------------------
(* The two requests of init.                                               *)

LEMMA InitResultProtocolInfoInv ==
  ASSUME IInv, InitResultProtocolInfo
  PROVE  IInv'
<1>1. /\ Conn!EndOldest("RESULT") /\ phase' = phase /\ "RESULT" \in Ended
      /\ nested = None /\ Answered = InitProtocolInfo /\ nested' = Caller
      /\ UNCHANGED <<asked, name, returned, heard>> /\ Quiet
  BY DEF InitResultProtocolInfo, Conn!Finish, Ended, callsVars, Quiet
<1>2. PICK c \in Calls : c = Caller
  BY <1>1, EndFacts
<1>3. /\ \/ Head(pending) = <<c, 1>> /\ InFirst(c)
         \/ Head(pending) = <<c, 2>> /\ InSecond(c)
      /\ fate[Head(pending)] = "PENDING" /\ fate'[Head(pending)] = "RESULT"
      /\ \A g \in Handles \ {Head(pending)} : fate'[g] = fate[g]
      /\ pending' \in Seq(Handles)
      /\ fate' \in [Handles -> {"NEW", "REFUSED", "PENDING"} \cup Ended]
  BY <1>1, <1>2, EndFacts
<1>4. Head(pending) = <<c, 1>> /\ InFirst(c)
  <2>1. Head(pending) = <<c, 2>> /\ InSecond(c) => Answered = InitSupportFunction
    BY <1>3 DEF InSecond, Second, Answered
  <2>2. QED
    BY <1>1, <1>3, <2>1, InitIsSafe
<1>5. ASSUME NEW d \in Calls \ {c} PROVE Same(d)
  <2>1. /\ \A g \in Handles \ {<<c, 1>>} : fate'[g] = fate[g] /\ asked'[g] = asked[g]
        /\ name'[d] = name[d] /\ returned'[d] = returned[d] /\ heard'[d] = heard[d]
        /\ nested' = d <=> nested = d
    BY <1>1, <1>2, <1>3, <1>4, NoneIsNothing
  <2>2. QED
    BY <2>1, OthersSame
<1>6. Between(c)'
  <2>1. <<c, 1>> \in Handles /\ <<c, 2>> \in Handles /\ <<c, 1>> # <<c, 2>>
    BY HandleFacts
  <2>2. First(c)' = "RESULT" /\ Second(c)' = "NEW"
    BY <1>3, <1>4, <2>1 DEF InFirst, First, Second
  <2>3. QED
    BY <1>1, <1>2, <1>4, <2>2 DEF InFirst, Between
<1>7. InitInv(c)'
  BY <1>6, NotTold DEF InitInv, Between
<1>8. TypeOK'
  BY <1>1, <1>2, <1>3, QuietIsQuiet DEF IInv, TypeOK, Ended, Quiet
<1>9. QED
  BY <1>1, <1>5, <1>6, <1>7, <1>8, OneCall DEF Stage, IInv

LEMMA NestedFacts ==
  ASSUME IInv, nested # None
  PROVE  nested \in Calls /\ Between(nested)
<1>1. nested \in Calls
  BY DEF IInv, TypeOK
<1>2. QED
  BY <1>1 DEF IInv, Stage, Unused, AtOnce, InFirst, InSecond, Done

LEMMA NestedRequestInv ==
  ASSUME IInv, NestedRequest
  PROVE  IInv'
<1>1. PICK c \in Calls : c = nested /\ Between(c)
  BY NestedFacts DEF NestedRequest
<1>2. /\ Conn!Accept(<<c, 2>>)
      /\ asked' = [asked EXCEPT ![<<c, 2>>] = InitSupportFunction]
      /\ nested' = None /\ UNCHANGED <<name, returned, heard>> /\ Quiet
  BY <1>1 DEF NestedRequest, Quiet
<1>3. InitSupportFunction \in Asked /\ Made(InitSupportFunction, functions)
  BY InitMade
<1>4. <<c, 1>> \in Handles /\ <<c, 2>> \in Handles /\ <<c, 2>> # <<c, 1>>
  BY HandleFacts
<1>5. /\ fate'[<<c, 2>>] = "PENDING" /\ asked'[<<c, 2>>] = InitSupportFunction
      /\ \A g \in Handles \ {<<c, 2>>} : fate'[g] = fate[g] /\ asked'[g] = asked[g]
      /\ pending' \in Seq(Handles) /\ asked' \in [Handles -> Asked]
      /\ fate' \in [Handles -> {"NEW", "REFUSED", "PENDING"} \cup Ended]
      /\ phase' = phase
      /\ \A g \in Handles : Made(asked'[g], functions)
  BY <1>2, <1>3, <1>4, AcceptFacts
<1>6. ASSUME NEW d \in Calls \ {c} PROVE Same(d)
  <2>1. nested' = d <=> nested = d
    BY <1>1, <1>2, NoneIsNothing
  <2>2. QED
    BY <1>2, <1>5, <2>1, OthersSame
<1>7. InSecond(c)'
  <2>1. First(c)' = "RESULT" /\ Second(c)' = "PENDING"
    BY <1>1, <1>4, <1>5 DEF Between, First, Second
  <2>2. QED
    BY <1>1, <1>2, <1>5, <2>1, NoneIsNothing DEF Between, InSecond
<1>8. InitInv(c)'
  BY <1>7, NotTold DEF InitInv, InSecond
<1>9. TypeOK'
  BY <1>2, <1>5, QuietIsQuiet DEF IInv, TypeOK, Ended, Quiet
<1>10. QED
  BY <1>2, <1>5, <1>6, <1>7, <1>8, <1>9, OneCall DEF Stage

LEMMA NestedRefusedInv ==
  ASSUME IInv, NestedRefused
  PROVE  IInv'
<1>1. PICK c \in Calls : c = nested /\ Between(c)
  BY NestedFacts DEF NestedRefused
<1>2. /\ Conn!Refuse(<<c, 2>>) /\ nested' = None
      /\ UNCHANGED <<asked, name, returned, heard>> /\ Quiet
  BY <1>1 DEF NestedRefused, callsVars, Quiet
<1>3. <<c, 1>> \in Handles /\ <<c, 2>> \in Handles /\ <<c, 2>> # <<c, 1>>
  BY HandleFacts
<1>4. /\ fate'[<<c, 2>>] = "REFUSED" /\ UNCHANGED <<pending, phase>>
      /\ \A g \in Handles \ {<<c, 2>>} : fate'[g] = fate[g]
      /\ fate' \in [Handles -> {"NEW", "REFUSED", "PENDING"} \cup Ended]
  BY <1>2, <1>3, RefuseFacts
<1>5. ASSUME NEW d \in Calls \ {c} PROVE Same(d)
  <2>1. /\ nested' = d <=> nested = d
        /\ \A g \in Handles \ {<<c, 2>>} : fate'[g] = fate[g] /\ asked'[g] = asked[g]
    BY <1>1, <1>2, <1>4, NoneIsNothing
  <2>2. QED
    BY <1>2, <2>1, OthersSame
<1>6. InSecond(c)'
  <2>1. First(c)' = "RESULT" /\ Second(c)' = "REFUSED"
    BY <1>1, <1>3, <1>4 DEF Between, First, Second
  <2>2. QED
    BY <1>1, <1>2, <2>1, NoneIsNothing DEF Between, InSecond
<1>7. InitInv(c)'
  BY <1>6, NotTold DEF InitInv, InSecond
<1>8. TypeOK'
  BY <1>2, <1>4, QuietIsQuiet DEF IInv, TypeOK, Ended, Quiet
<1>9. QED
  BY <1>2, <1>5, <1>6, <1>7, <1>8, OneCall DEF Stage, IInv

LEMMA NestedCallbackDataFailsInv ==
  ASSUME IInv, NestedCallbackDataFails
  PROVE  IInv'
<1>1. PICK c \in Calls : c = nested /\ Between(c)
  BY NestedFacts DEF NestedCallbackDataFails
<1>2. /\ Hears(c, "error") /\ nested' = None
      /\ UNCHANGED <<asked, name, returned, pending, fate, phase>> /\ Quiet
  BY <1>1 DEF NestedCallbackDataFails, callsVars, connVars, Quiet
<1>3. /\ heard' \in [Calls -> Seq({"result", "error"})]
      /\ Len(heard'[c]) = Len(heard[c]) + 1 /\ heard'[c] # <<"result">>
      /\ \A d \in Calls \ {c} : heard'[d] = heard[d]
  <2>1. "error" \in {"result", "error"}
    OBVIOUS
  <2>2. QED
    BY <1>2, <2>1, HearsFacts
<1>4. ASSUME NEW d \in Calls \ {c} PROVE Same(d)
  BY <1>1, <1>2, <1>3, NoneIsNothing DEF Same
<1>5. Done(c)'
  <2>1. Len(heard'[c]) = 1
    BY <1>1, <1>3 DEF Between
  <2>2. QED
    BY <1>1, <1>2, <2>1, NoneIsNothing DEF Between, Done, First, Second, Ended
<1>6. InitInv(c)'
  BY <1>3, <1>5 DEF InitInv, Done, First, Ended
<1>7. TypeOK'
  BY <1>2, <1>3, QuietIsQuiet DEF IInv, TypeOK, Quiet
<1>8. QED
  BY <1>2, <1>4, <1>5, <1>6, <1>7, OneCall DEF Stage, IInv

-----------------------------------------------------------------------------
\* Steps that only concern subscriptions, and steps of no one.
LEMMA OtherInv ==
  ASSUME IInv,
         \/ \E s \in Subscribers : RemoveSubscription(s) \/ \E o \in Used : Subscribe(s, o)
         \/ UNCHANGED vars
  PROVE  IInv'
<1>1. UNCHANGED <<pending, fate, phase, supported, asked, name, returned, nested,
                  functions, heard>>
  BY DEF RemoveSubscription, Subscribe, vars, connVars, callsVars
<1>2. /\ listeners' \subseteq Subscribers /\ subscriptions' \subseteq Subscribers
      /\ RecordsAreLive'
  BY DEF RemoveSubscription, Subscribe, vars, IInv, TypeOK, RecordsAreLive
<1>3. \A d \in Calls : Same(d)
  BY <1>1 DEF Same
<1>4. \A d \in Calls : Stage(d)' /\ InitInv(d)'
  BY <1>1, <1>3, SameCall DEF IInv
<1>5. KnownFunctions' = KnownFunctions
  BY <1>1 DEF KnownFunctions
<1>6. TypeOK'
  BY <1>1, <1>2, <1>5 DEF IInv, TypeOK
<1>7. QED
  BY <1>1, <1>2, <1>4, <1>6 DEF IInv

LEMMA StepInv == IInv /\ [Next]_vars => IInv'
<1> SUFFICES ASSUME IInv, [Next]_vars PROVE IInv'
  OBVIOUS
<1>1. CASE User
  BY <1>1, NotSupportedInv, CallbackDataFailsInv, RequestInv, RequestRefusedInv,
     CloseInv, OtherInv DEF User
<1>2. CASE Nested
  BY <1>2, NestedRequestInv, NestedRefusedInv, NestedCallbackDataFailsInv DEF Nested
<1>3. CASE Ending
  BY <1>3, InitResultProtocolInfoInv, AnswersInv, ErrorInv DEF Ending
<1>4. CASE CloseContinues
  BY <1>4, CloseInv
<1>5. CASE UNCHANGED vars
  BY <1>5, OtherInv
<1>6. QED
  BY <1>1, <1>2, <1>3, <1>4, <1>5 DEF Next, Freed

LEMMA Invariant == Spec => []IInv
BY InitInv0, StepInv, PTL DEF Spec

-----------------------------------------------------------------------------
\* Every variable of the device keeps its type; in particular the flags it
\* knows are none, or all those of the headset.
THEOREM DeviceTypeCorrect == Spec => []TypeOK
<1>1. IInv => TypeOK
  BY DEF IInv
<1>2. QED
  BY Invariant, <1>1, PTL

\* Each call that was not refused is called back once, and not before its
\* last request has ended: whatever fails, in whatever order.
THEOREM CallsBackOnce == Spec => []UserCalledBackOnce
<1>1. IInv => UserCalledBackOnce
  <2>1. SUFFICES ASSUME IInv, NEW c \in Calls
                 PROVE  Len(heard[c]) =
                          IF name[c] = None \/ returned[c] = "-1" \/ Waits(c) \/ Lost(c)
                          THEN 0 ELSE 1
    BY DEF UserCalledBackOnce
  <2>2. /\ Waits(c) <=> nested = c \/ First(c) = "PENDING" \/ Second(c) = "PENDING"
        /\ Lost(c) <=> First(c) = "REFUSED" \/ Second(c) = "REFUSED"
    BY DEF Waits, Lost, First, Second
  <2>3. Stage(c)
    BY <2>1 DEF IInv
  <2>4. CASE Unused(c) \/ AtOnce(c)
    BY <2>2, <2>4 DEF Unused, AtOnce
  <2>5. CASE InFirst(c) \/ Between(c) \/ InSecond(c)
    BY <2>2, <2>5 DEF InFirst, Between, InSecond
  <2>6. CASE Done(c)
    BY <2>2, <2>6 DEF Done, Ended
  <2>7. QED
    BY <2>3, <2>4, <2>5, <2>6 DEF Stage
<1>2. QED
  BY Invariant, <1>1, PTL

\* Success of init means that the functions of the headset are known.
THEOREM InitTellsTheTruth == Spec => []InitMeansKnown
<1>1. IInv => InitMeansKnown
  BY DEF IInv, InitInv, InitMeansKnown
<1>2. QED
  BY Invariant, <1>1, PTL

\* The connection holds no freed record of a subscription.
THEOREM RecordsStayLive == Spec => []RecordsAreLive
<1>1. IInv => RecordsAreLive
  BY DEF IInv
<1>2. QED
  BY Invariant, <1>1, PTL

LEMMA OutstandingGood ==
  ASSUME IInv, NEW r \in Outstanding
  PROVE  Good(r, functions) /\ r.allowed
<1>1. PICK h \in ToSet(pending) : r = asked[h]
  BY DEF Outstanding
<1>2. h \in Handles
  BY <1>1 DEF ToSet, IInv, TypeOK
<1>3. QED
  BY <1>1, <1>2 DEF IInv, Made

\* Every answer a headset gives is taken for the reply and can be read, for
\* every operation and whatever functions are known.
THEOREM EveryAnswerIsRecognised == Spec => []AnswersAreRecognised
<1>1. IInv => AnswersAreRecognised
  BY OutstandingGood DEF AnswersAreRecognised, Good, Safe, Recognised
<1>2. QED
  BY Invariant, <1>1, PTL

\* Nothing is asked for that belongs to a function the headset does not have.
THEOREM AsksOnlyForWhatThereIs == Spec => []AsksForWhatThereIs
<1>1. IInv => AsksForWhatThereIs
  BY OutstandingGood DEF AsksForWhatThereIs, Good, AsksOf, Has
<1>2. QED
  BY Invariant, <1>1, PTL

-----------------------------------------------------------------------------
\* A step of the device is a step of the connection below it, or none.
LEMMA EveryStepIsOfConnection ==
  ASSUME IInv, Next
  PROVE  Conn!Next \/ UNCHANGED connVars
<1>1. CASE User
  <2>1. ASSUME NEW c \in Calls, NEW o \in Used,
               \/ NotSupported(c, o) \/ CallbackDataFails(c, o)
               \/ Request(c, o) \/ RequestRefused(c, o)
        PROVE  Conn!Next \/ UNCHANGED connVars
    <3>1. <<c, 1>> \in Handles
      BY DEF Handles
    <3>2. QED
      BY <2>1, <3>1 DEF NotSupported, CallbackDataFails, Request, RequestRefused, Conn!Next
  <2>2. ASSUME NEW s \in Subscribers,
               RemoveSubscription(s) \/ \E o \in Used : Subscribe(s, o)
        PROVE  UNCHANGED connVars
    BY <2>2 DEF RemoveSubscription, Subscribe
  <2>3. CASE Close
    BY <2>3 DEF Close, ConnectionCloses, Conn!Next
  <2>4. QED
    BY <1>1, <2>1, <2>2, <2>3 DEF User
<1>2. CASE Nested
  <2>1. nested # None
    BY <1>2 DEF Nested, NestedRequest, NestedRefused, NestedCallbackDataFails
  <2>2. <<nested, 2>> \in Handles
    BY <2>1 DEF IInv, TypeOK, Handles
  <2>3. QED
    BY <1>2, <2>2
       DEF Nested, NestedRequest, NestedRefused, NestedCallbackDataFails, Conn!Next
<1>3. CASE Ending
  <2>1. \E ending \in {"RESULT", "NO_ACK", "NO_REPLY"} : Conn!Finish(ending)
    BY <1>3 DEF Ending, InitResultProtocolInfo, InitResultSupportedFunction, Result,
                EqPresetsFail, Error
  <2>2. QED
    BY <2>1 DEF Conn!Next
<1>4. CASE CloseContinues
  BY <1>4 DEF CloseContinues, ConnectionCloses, Conn!Next
<1>5. CASE Freed
  BY <1>5 DEF Freed, vars
<1>6. QED
  BY <1>1, <1>2, <1>3, <1>4, <1>5 DEF Next

\* However many calls are made, nested in a callback or not, and whatever fails:
\* what the device does to its connection is what RequestContract allows, the
\* behaviour PacketConn is shown to implement (ImplementsContract), so that a
\* request is made by one call and once, and none is ended but by the connection
\* (mdr_device_make_request, mdr_device_close).
THEOREM UsesConnection == Spec => Conn!Spec
<1>1. Init => Conn!Init
  BY DEF Init
<1>2. IInv /\ [Next]_vars => [Conn!Next]_(Conn!vars)
  <2>1. SUFFICES ASSUME IInv, [Next]_vars PROVE Conn!Next \/ UNCHANGED connVars
    BY DEF Conn!vars, connVars
  <2>2. CASE Next
    BY <2>1, <2>2, EveryStepIsOfConnection
  <2>3. CASE UNCHANGED vars
    BY <2>3 DEF vars
  <2>4. QED
    BY <2>1, <2>2, <2>3
<1>3. QED
  BY Invariant, <1>1, <1>2, PTL DEF Spec, Conn!Spec
=============================================================================
