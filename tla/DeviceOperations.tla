-------------------------- MODULE DeviceOperations --------------------------
(***************************************************************************)
(* The operations of a device (src/device.c), as a table.  An operation is *)
(* refused unless the functions the headset reported include the one it    *)
(* needs; otherwise it sends one packet and waits for its ACK or for one   *)
(* kind of answer, or subscribes to one kind of notification.  Both what   *)
(* it may do and what it asks for depend on the functions reported.        *)
(*                                                                         *)
(* Of a packet its type and the byte a reply specifier compares are kept;  *)
(* of the values the user gets, nothing.                                   *)
(***************************************************************************)
\* The inquired types, and for the player the detailed data type.
DeviceInquiredTypes ==
  { "NONE", "MODEL_NAME", "FW_VERSION", "SERIES_AND_COLOR", "FIXED_VALUE",
    "BATTERY", "LEFT_RIGHT_BATTERY", "CRADLE_BATTERY", "LEFT_RIGHT",
    "NOISE_CANCELLING", "ASM", "NOISE_CANCELLING_AND_ASM",
    "PRESET_EQ", "PRESET_EQ_NONCUSTOMIZABLE",
    "AUTO_POWER_OFF", "ASSIGNABLE_SETTINGS", "VOLUME" }

INSTANCE ReplySpecifier WITH InquiredTypes <- DeviceInquiredTypes

\* The function types a headset may report that the library knows.
FunctionTypes ==
  { "POWER_OFF", "BATTERY_LEVEL", "LEFT_RIGHT_BATTERY_LEVEL",
    "CRADLE_BATTERY_LEVEL", "NOISE_CANCELLING", "AMBIENT_SOUND_MODE",
    "NOISE_CANCELLING_AND_AMBIENT_SOUND_MODE", "LEFT_RIGHT_CONNECTION_STATUS",
    "PRESET_EQ", "PRESET_EQ_NONCUSTOMIZABLE", "AUTO_POWER_OFF",
    "PLAYBACK_CONTROLLER", "ASSIGNABLE_SETTINGS" }

\* mdr_device_supported_functions_t, as the set of its true fields.
Flags ==
  { "power_off", "battery", "left_right_battery", "cradle_battery",
    "noise_cancelling", "ambient_sound_mode", "left_right_connection_status",
    "eq", "eq_non_customizable", "auto_power_off", "playback_controller",
    "assignable_settings" }

\* The fields that mdr_device_init_result_supported_function sets.
FlagsOf(function_type) ==
  CASE function_type = "POWER_OFF" -> {"power_off"}
    [] function_type = "BATTERY_LEVEL" -> {"battery"}
    [] function_type = "LEFT_RIGHT_BATTERY_LEVEL" -> {"left_right_battery"}
    [] function_type = "CRADLE_BATTERY_LEVEL" -> {"cradle_battery"}
    [] function_type = "NOISE_CANCELLING" -> {"noise_cancelling"}
    [] function_type = "AMBIENT_SOUND_MODE" -> {"ambient_sound_mode"}
    [] function_type = "NOISE_CANCELLING_AND_AMBIENT_SOUND_MODE" ->
         {"noise_cancelling", "ambient_sound_mode"}
    [] function_type = "LEFT_RIGHT_CONNECTION_STATUS" -> {"left_right_connection_status"}
    [] function_type = "PRESET_EQ" -> {"eq"}
    [] function_type = "PRESET_EQ_NONCUSTOMIZABLE" -> {"eq_non_customizable"}
    [] function_type = "AUTO_POWER_OFF" -> {"auto_power_off"}
    [] function_type = "PLAYBACK_CONTROLLER" -> {"playback_controller"}
    [] function_type = "ASSIGNABLE_SETTINGS" -> {"assignable_settings"}

-----------------------------------------------------------------------------
(***************************************************************************)
(* An operation: whether it is allowed, the packet it sends, the reply     *)
(* specifier it hands to the connection, and the inquired types of the     *)
(* answers whose fields its handler can pass on to the user.  A specifier  *)
(* that only sets only_ack leaves the other fields zero.                   *)
(***************************************************************************)
Get(allowed, get, ret, inquired, reads) ==
  [ kind |-> "get", allowed |-> allowed,
    asks |-> [type |-> get, extra |-> inquired],
    specifier |-> [only_ack |-> FALSE, type |-> ret, extra |-> inquired],
    reads |-> reads ]

Set(allowed, set, inquired) ==
  [ kind |-> "set", allowed |-> allowed,
    asks |-> [type |-> set, extra |-> inquired],
    specifier |-> [only_ack |-> TRUE, type |-> "CONNECT_GET_PROTOCOL_INFO",
                   extra |-> "NONE"],
    reads |-> DeviceInquiredTypes ]

Subscription(allowed, ntfy, inquired, reads) ==
  [ kind |-> "subscribe", allowed |-> allowed,
    asks |-> [type |-> ntfy, extra |-> inquired],
    specifier |-> [only_ack |-> FALSE, type |-> ntfy, extra |-> inquired],
    reads |-> reads ]

GetDeviceInfo(inquired) ==
  Get(TRUE, "CONNECT_GET_DEVICE_INFO", "CONNECT_RET_DEVICE_INFO", inquired, {inquired})

DeviceInfo ==
  [ get_model_name |-> GetDeviceInfo("MODEL_NAME"),
    get_fw_version |-> GetDeviceInfo("FW_VERSION"),
    get_series_and_color |-> GetDeviceInfo("SERIES_AND_COLOR") ]

PowerOff(supported) ==
  [ power_off |-> Set("power_off" \in supported, "COMMON_SET_POWER_OFF", "FIXED_VALUE") ]

\* The three kinds of batteries share their packet types.
GetBattery(allowed, inquired) ==
  Get(allowed, "COMMON_GET_BATTERY_LEVEL", "COMMON_RET_BATTERY_LEVEL", inquired, {inquired})

SubscribeBattery(allowed, inquired) ==
  Subscription(allowed, "COMMON_NTFY_BATTERY_LEVEL", inquired, {inquired})

BatteryLevel(supported) ==
  LET allowed == "battery" \in supported
  IN [ get_battery_level |-> GetBattery(allowed, "BATTERY"),
       subscribe_battery_level |-> SubscribeBattery(allowed, "BATTERY") ]

LeftRightBatteryLevel(supported) ==
  LET allowed == "left_right_battery" \in supported
  IN [ get_left_right_battery_level |-> GetBattery(allowed, "LEFT_RIGHT_BATTERY"),
       subscribe_left_right_battery_level |->
         SubscribeBattery(allowed, "LEFT_RIGHT_BATTERY") ]

CradleBatteryLevel(supported) ==
  LET allowed == "cradle_battery" \in supported
  IN [ get_cradle_battery_level |-> GetBattery(allowed, "CRADLE_BATTERY"),
       subscribe_cradle_battery_level |-> SubscribeBattery(allowed, "CRADLE_BATTERY") ]

LeftRightConnectionStatus(supported) ==
  LET allowed == "left_right_connection_status" \in supported
  IN [ get_left_right_connection_status |->
         Get(allowed, "COMMON_GET_CONNECTION_STATUS", "COMMON_RET_CONNECTION_STATUS",
             "LEFT_RIGHT", {"LEFT_RIGHT"}),
       subscribe_left_right_connection_status |->
         Subscription(allowed, "COMMON_NTFY_CONNECTION_STATUS",
                      "LEFT_RIGHT", {"LEFT_RIGHT"}) ]

-----------------------------------------------------------------------------
(***************************************************************************)
(* Noise cancelling and ambient sound share their packet types too, and a  *)
(* headset that has both is asked for both at once.                        *)
(***************************************************************************)
\* Mutant: the combined type is used for every headset that cancels noise.
NoiseCancellingTypeCombined(supported) ==
  IF "noise_cancelling" \in supported THEN "NOISE_CANCELLING_AND_ASM"
                                      ELSE "NOISE_CANCELLING"

NoiseCancellingType(supported) ==
  IF "ambient_sound_mode" \in supported THEN "NOISE_CANCELLING_AND_ASM"
                                        ELSE "NOISE_CANCELLING"

AmbientSoundType(supported) ==
  IF "noise_cancelling" \in supported THEN "NOISE_CANCELLING_AND_ASM" ELSE "ASM"

\* What the handlers of the two families can read.
NoiseCancellingRead == {"NOISE_CANCELLING", "NOISE_CANCELLING_AND_ASM"}
AmbientSoundRead == {"ASM", "NOISE_CANCELLING_AND_ASM"}

NoiseCancelling(supported) ==
  LET allowed == "noise_cancelling" \in supported
      inquired == NoiseCancellingType(supported)
  IN [ get_noise_cancelling_enabled |->
         Get(allowed, "NCASM_GET_PARAM", "NCASM_RET_PARAM", inquired, NoiseCancellingRead),
       subscribe_noise_cancelling_enabled |->
         Subscription(allowed, "NCASM_NTFY_PARAM", inquired, NoiseCancellingRead) ]

AmbientSoundMode(supported) ==
  LET allowed == "ambient_sound_mode" \in supported
      inquired == AmbientSoundType(supported)
  IN [ get_ambient_sound_mode_settings |->
         Get(allowed, "NCASM_GET_PARAM", "NCASM_RET_PARAM", inquired, AmbientSoundRead),
       subscribe_ambient_sound_mode_settings |->
         Subscription(allowed, "NCASM_NTFY_PARAM", inquired, AmbientSoundRead) ]

\* disable_ncasm asks for noise cancelling, whichever of the two is to stop.
DisableNcasm(supported) ==
  [ disable_ncasm |-> Set("noise_cancelling" \in supported, "NCASM_SET_PARAM",
                          NoiseCancellingType(supported)) ]

EnableNoiseCancelling(supported) ==
  [ enable_noise_cancelling |-> Set("noise_cancelling" \in supported, "NCASM_SET_PARAM",
                                    NoiseCancellingType(supported)) ]

EnableAmbientSoundMode(supported) ==
  [ enable_ambient_sound_mode |-> Set("ambient_sound_mode" \in supported,
                                      "NCASM_SET_PARAM", AmbientSoundType(supported)) ]

-----------------------------------------------------------------------------
(***************************************************************************)
(* The equalizer.  A headset whose presets cannot be customized is asked   *)
(* under a type of its own, except when its levels are set.                *)
(***************************************************************************)
EqType(supported) ==
  IF "eq_non_customizable" \in supported THEN "PRESET_EQ_NONCUSTOMIZABLE" ELSE "PRESET_EQ"

HasEq(supported) == "eq" \in supported \/ "eq_non_customizable" \in supported

EqTypes == {"PRESET_EQ", "PRESET_EQ_NONCUSTOMIZABLE"}

EqCapabilities(supported) ==
  [ get_eq_capabilities |->
      Get(HasEq(supported), "EQEBB_GET_CAPABILITY", "EQEBB_RET_CAPABILITY",
          EqType(supported), EqTypes) ]

EqPresetAndLevels(supported) ==
  [ get_eq_preset_and_levels |->
      Get(HasEq(supported), "EQEBB_GET_PARAM", "EQEBB_RET_PARAM",
          EqType(supported), EqTypes),
    subscribe_eq_preset_and_levels |->
      Subscription(HasEq(supported), "EQEBB_NTFY_PARAM", EqType(supported), EqTypes) ]

SetEq(supported) ==
  LET allowed == "eq" \in supported
  IN [ set_eq_preset |-> Set(allowed, "EQEBB_SET_PARAM", EqType(supported)),
       set_eq_levels |-> Set(allowed, "EQEBB_SET_PARAM", "PRESET_EQ") ]

-----------------------------------------------------------------------------
(***************************************************************************)
(* The settings and the player.                                            *)
(***************************************************************************)
AutoPowerOffTimeouts(supported) ==
  [ get_auto_power_off_timeouts |->
      Get("auto_power_off" \in supported, "SYSTEM_GET_CAPABILITY",
          "SYSTEM_RET_CAPABILITY", "AUTO_POWER_OFF", {"AUTO_POWER_OFF"}) ]

AutoPowerOff(supported) ==
  LET allowed == "auto_power_off" \in supported
  IN [ get_auto_power_off |->
         Get(allowed, "SYSTEM_GET_PARAM", "SYSTEM_RET_PARAM",
             "AUTO_POWER_OFF", {"AUTO_POWER_OFF"}),
       subscribe_auto_power_off |->
         Subscription(allowed, "SYSTEM_NTFY_PARAM", "AUTO_POWER_OFF", {"AUTO_POWER_OFF"}) ]

SetAutoPowerOff(supported) ==
  LET allowed == "auto_power_off" \in supported
  IN [ disable_auto_power_off |-> Set(allowed, "SYSTEM_SET_PARAM", "AUTO_POWER_OFF"),
       enable_auto_power_off |-> Set(allowed, "SYSTEM_SET_PARAM", "AUTO_POWER_OFF") ]

ButtonPresets(supported) ==
  LET allowed == "assignable_settings" \in supported
      inquired == "ASSIGNABLE_SETTINGS"
  IN [ get_available_button_presets |->
         Get(allowed, "SYSTEM_GET_CAPABILITY", "SYSTEM_RET_CAPABILITY",
             inquired, {inquired}),
       get_active_button_presets |->
         Get(allowed, "SYSTEM_GET_PARAM", "SYSTEM_RET_PARAM", inquired, {inquired}) ]

ActiveButtonPresets(supported) ==
  LET allowed == "assignable_settings" \in supported
      inquired == "ASSIGNABLE_SETTINGS"
  IN [ subscribe_active_button_presets |->
         Subscription(allowed, "SYSTEM_NTFY_PARAM", inquired, {inquired}),
       set_active_button_presets |-> Set(allowed, "SYSTEM_SET_PARAM", inquired) ]

\* Mutant: the answer is expected under the type that asks for the player.
VolumeUnderPlayerType(supported) ==
  LET allowed == "playback_controller" \in supported
  IN [ get_volume |->
         [Get(allowed, "PLAY_GET_PARAM", "PLAY_RET_PARAM", "VOLUME", {"VOLUME"})
            EXCEPT !.specifier.extra = "NONE"],
       subscribe_volume |->
         Subscription(allowed, "PLAY_NTFY_PARAM", "VOLUME", {"VOLUME"}),
       set_volume |-> Set(allowed, "PLAY_SET_PARAM", "VOLUME") ]

Volume(supported) ==
  LET allowed == "playback_controller" \in supported
  IN [ get_volume |->
         Get(allowed, "PLAY_GET_PARAM", "PLAY_RET_PARAM", "VOLUME", {"VOLUME"}),
       subscribe_volume |->
         Subscription(allowed, "PLAY_NTFY_PARAM", "VOLUME", {"VOLUME"}),
       set_volume |-> Set(allowed, "PLAY_SET_PARAM", "VOLUME") ]

\* mdr_device_init, and the request its first answer leads to.
InitProtocolInfo ==
  Get(TRUE, "CONNECT_GET_PROTOCOL_INFO", "CONNECT_RET_PROTOCOL_INFO", "NONE", {"NONE"})

InitSupportFunction ==
  Get(TRUE, "CONNECT_GET_SUPPORT_FUNCTION", "CONNECT_RET_SUPPORT_FUNCTION", "NONE", {"NONE"})

-----------------------------------------------------------------------------
Initialisation == [init |-> InitProtocolInfo]

\* Every operation, by families, as it stands when the functions `supported'
\* are known.
Families(supported) ==
  { Initialisation, DeviceInfo, PowerOff(supported),
    BatteryLevel(supported), LeftRightBatteryLevel(supported),
    CradleBatteryLevel(supported), LeftRightConnectionStatus(supported),
    NoiseCancelling(supported), AmbientSoundMode(supported),
    DisableNcasm(supported), EnableNoiseCancelling(supported),
    EnableAmbientSoundMode(supported),
    EqCapabilities(supported), EqPresetAndLevels(supported), SetEq(supported),
    AutoPowerOffTimeouts(supported), AutoPowerOff(supported),
    SetAutoPowerOff(supported),
    ButtonPresets(supported), ActiveButtonPresets(supported), Volume(supported) }

OperationNames == UNION {DOMAIN family : family \in Families({})}

\* The operation of that name.
OperationOf(supported, o) ==
  (CHOOSE family \in Families(supported) : o \in DOMAIN family)[o]
=============================================================================
