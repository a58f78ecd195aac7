---------------------------- MODULE PacketLayout ----------------------------
(***************************************************************************)
(* The packets of the protocol (include/mdr/packet.h and the headers of    *)
(* include/mdr/packet/) and, for each type of packet, what the three       *)
(* functions of its group in src/packet/*.h do with it: the fields         *)
(* from_frame parses, the ones to_frame writes, and the blocks free        *)
(* releases.  The C functions are sequences of the macros of               *)
(* src/packet/util.h; here each macro is a field of a layout, and          *)
(* PacketCodec gives the fields their meaning.                             *)
(*                                                                         *)
(* The three tables are written down separately, as in the code, which     *)
(* does not derive one from the other.                                     *)
(***************************************************************************)
EXTENDS Integers, Sequences

CONSTANT NameMax       \* 128: how much of a name is kept

ASSUME NameMaxAssumption == NameMax \in 0..255

Byte == 0..255

-----------------------------------------------------------------------------
(* The macros.                                                             *)

\* PARSE_ENUM_INTO_*: a byte which must have one of these values.
Enum(name, values) == [op |-> "enum", name |-> name, values |-> values]

\* PARSE_BYTE_INTO_*: a byte of any meaning; one that says how many elements
\* or bytes follow, and one of these that is made NameMax if it is larger.
Plain(name)   == [op |-> "plain", name |-> name]
Count(name)   == [op |-> "count", name |-> name]
Clamped(name) == [op |-> "clamped", name |-> name]

\* PARSE_BYTES_INTO_*: a block of `count' bytes, or of at most NameMax of them.
Bytes(name, count)     == [op |-> "bytes", name |-> name, count |-> count]
NameBytes(name, count) == [op |-> "name", name |-> name, count |-> count]

\* PARSE_ALLOC_FIELD: a block of zeros, soon to be replaced by NameBytes.
Zeros(name) == [op |-> "zeros", name |-> name]

\* The *_FOR_EACH_* macros: an array of `count' elements.
Each(name, count, element) ==
  [op |-> "each", name |-> name, count |-> count, element |-> element]

\* switch on a field that has been parsed.
Switch(name, cases) == [op |-> "switch", name |-> name, cases |-> cases]
Case(values, layout) == [values |-> values, layout |-> layout]

\* WRITE_START: a frame for the type, n bytes, and `count' more.
None == "none"
Start(n, count) == [op |-> "start", n |-> n, count |-> count]

\* length += n + factor * count, where the code adds up a size beforehand.
Add(n, factor, count) ==
  [op |-> "add", n |-> n, factor |-> factor, count |-> count]

\* WRITE_FIELD, WRITE_BYTE; WRITE_BYTES.
Put(name) == [op |-> "put", name |-> name]
PutBytes(name, count) == [op |-> "putbytes", name |-> name, count |-> count]

Puts(names) == [i \in DOMAIN names |-> Put(names[i])]

\* FREE_FIELD, free(element->field).
Free(name) == [op |-> "free", name |-> name]

-----------------------------------------------------------------------------
(* The values of the enumerations.                                         *)

FunctionTypes ==
  { 0, 17, 18, 19, 20, 21, 23, 24, 33, 34, 35, 48, 56, 57, 65, 66, 81, 82, 83,
    97, 98, 99, 113, 129, 146, 161, 177, 193, 209, 210, 211, 225, 226 }
    \cup 241..246

Series             == {0, 16, 32, 48, 64, 80}
Colors             == 0..14
GuidanceCategories == {0, 16, 32, 48, 64, 80, 96}
DisplayLanguages   == 0..16 \cup {240}
EqPresetIds        == 0..31 \cup 160..165 \cup {255}
NcasmEffects       == {0, 1, 16, 17}
Names              == {0, 1, 2, 3, 16}     \* track, album, artist, genre, player
Volume             == 32
AutoPowerOffIds    == {0, 1, 2, 3, 16, 17}
ButtonPresets      == {0, 16, 32, 48, 49, 50, 51, 255}
ButtonActions      == {0, 1, 2, 16, 17, 33, 34}
ButtonFunctions    == {0, 1, 2, 16, 17, 18, 32, 33, 34} \cup 48..54
OnOff              == {0, 1}

\* The inquired types that choose what follows.
Name             == {1, 2}        \* device info: model name, firmware version
SeriesAndColor   == {3}
InstructionGuide == {4}
OneBattery       == {0, 2}        \* battery level: the headset's, the cradle's
LeftRightBattery == {1}
PresetEq         == {1, 3}        \* equalizer: customizable or not
Ebb              == {2}
Nc               == {1}           \* noise cancelling, ambient sound mode
NcAndAsm         == {2}
Asm              == {3}
OnOffSetting     == {1, 2, 3}     \* system: vibrator, power saving, wearing
AutoPowerOff     == {4}
SmartTalking     == {5}
AssignableKeys   == {6}

DeviceInfoInquired == Name \cup SeriesAndColor \cup InstructionGuide
BatteryInquired    == OneBattery \cup LeftRightBattery
EqebbInquired      == PresetEq \cup Ebb
NcasmInquired      == Nc \cup NcAndAsm \cup Asm
SystemInquired     == OnOffSetting \cup AutoPowerOff \cup SmartTalking
                        \cup AssignableKeys
PlayDetailed       == Names \cup {Volume}

-----------------------------------------------------------------------------
(* What from_frame parses.                                                 *)

Inquired(values) == Enum("inquired_type", values)

\* The block of a name is allocated twice, and the first one lost.
DeviceInfoParse ==
  << Inquired(DeviceInfoInquired),
     Switch("inquired_type",
       << Case(Name, << Count("len"), Zeros("string"),
                        NameBytes("string", "len") >>),
          Case(SeriesAndColor, << Enum("series", Series),
                                  Enum("color", Colors) >>),
          Case(InstructionGuide,
               << Count("num_guidance_categories"),
                  Each("guidance_categories", "num_guidance_categories",
                       << Enum("guidance_category", GuidanceCategories) >>)
               >>) >>) >>

SupportFunctionParse ==
  << Enum("fixed_value", {0}), Count("num_function_types"),
     Each("function_types", "num_function_types",
          << Enum("function_type", FunctionTypes) >>) >>

ConnectParse ==
  [ CONNECT_GET_PROTOCOL_INFO    |-> << Enum("fixed_value", {0}) >>,
    CONNECT_RET_PROTOCOL_INFO    |-> << Enum("fixed_value", {0}),
                                        Plain("version_high"),
                                        Plain("version_low") >>,
    CONNECT_GET_DEVICE_INFO      |-> << Inquired(DeviceInfoInquired) >>,
    CONNECT_RET_DEVICE_INFO      |-> DeviceInfoParse,
    CONNECT_GET_SUPPORT_FUNCTION |-> << Enum("fixed_value", {0}) >>,
    CONNECT_RET_SUPPORT_FUNCTION |-> SupportFunctionParse ]

BatteryParse ==
  << Inquired(BatteryInquired),
     Switch("inquired_type",
       << Case(OneBattery, << Plain("level"), Plain("charging") >>),
          Case(LeftRightBattery,
               << Plain("left.level"), Plain("left.charging"),
                  Plain("right.level"), Plain("right.charging") >>) >>) >>

ConnectionStatusParse ==
  << Inquired({1}),
     Switch("inquired_type",
       << Case({1}, << Enum("left_status", OnOff),
                       Enum("right_status", OnOff) >>) >>) >>

CommonParse ==
  [ COMMON_GET_BATTERY_LEVEL      |-> << Inquired(BatteryInquired) >>,
    COMMON_RET_BATTERY_LEVEL      |-> BatteryParse,
    COMMON_NTFY_BATTERY_LEVEL     |-> BatteryParse,
    COMMON_SET_POWER_OFF          |-> << Inquired({0}),
                                         Enum("setting_value", {1}) >>,
    COMMON_GET_CONNECTION_STATUS  |-> << Inquired({1}) >>,
    COMMON_RET_CONNECTION_STATUS  |-> ConnectionStatusParse,
    COMMON_NTFY_CONNECTION_STATUS |-> ConnectionStatusParse ]

EqCapabilityParse ==
  << Inquired(EqebbInquired),
     Switch("inquired_type",
       << Case(PresetEq,
               << Plain("band_count"), Plain("level_steps"),
                  Count("num_presets"),
                  Each("presets", "num_presets",
                       << Enum("preset_id", EqPresetIds), Count("name_len"),
                          Bytes("name", "name_len") >>) >>),
          Case(Ebb, << Plain("min_level"), Plain("max_level") >>) >>) >>

EqParamParse ==
  << Inquired(EqebbInquired),
     Switch("inquired_type",
       << Case(PresetEq, << Enum("preset_id", EqPresetIds),
                            Count("num_levels"),
                            Bytes("levels", "num_levels") >>),
          Case(Ebb, << Plain("level") >>) >>) >>

EqebbParse ==
  [ EQEBB_GET_CAPABILITY |-> << Inquired(EqebbInquired),
                                Enum("display_language", DisplayLanguages) >>,
    EQEBB_RET_CAPABILITY |-> EqCapabilityParse,
    EQEBB_GET_PARAM      |-> << Inquired(EqebbInquired) >>,
    EQEBB_RET_PARAM      |-> EqParamParse,
    EQEBB_SET_PARAM      |-> EqParamParse,
    EQEBB_NTFY_PARAM     |-> EqParamParse ]

NcasmParamParse ==
  << Inquired(NcasmInquired),
     Switch("inquired_type",
       << Case(Nc, << Enum("nc_setting_type", OnOff),
                      Enum("nc_setting_value", OnOff) >>),
          Case(NcAndAsm, << Enum("ncasm_effect", NcasmEffects),
                            Enum("ncasm_setting_type", {0, 1, 2}),
                            Plain("ncasm_amount"),
                            Enum("asm_setting_type", OnOff),
                            Enum("asm_id", {0, 1}),
                            Plain("asm_amount") >>),
          Case(Asm, << Enum("ncasm_effect", NcasmEffects),
                       Enum("asm_setting_type", OnOff),
                       Enum("asm_id", {0, 1}),
                       Plain("asm_amount") >>) >>) >>

NcasmParse ==
  [ NCASM_GET_PARAM  |-> << Inquired(NcasmInquired) >>,
    NCASM_RET_PARAM  |-> NcasmParamParse,
    NCASM_SET_PARAM  |-> NcasmParamParse,
    NCASM_NTFY_PARAM |-> NcasmParamParse ]

PlayGetParse ==
  << Inquired({1}), Enum("detailed_data_type", PlayDetailed) >>

PlayParamParse ==
  PlayGetParse \o
  << Switch("detailed_data_type",
       << Case(Names, << Enum("status", {0, 1, 2}), Clamped("len"),
                         Bytes("data", "len") >>),
          Case({Volume}, << Plain("volume") >>) >>) >>

PlayParse ==
  [ PLAY_GET_PARAM  |-> PlayGetParse,
    PLAY_RET_PARAM  |-> PlayParamParse,
    PLAY_SET_PARAM  |-> PlayParamParse,
    PLAY_NTFY_PARAM |-> PlayParamParse ]

AssignableCapabilityParse ==
  << Count("num_capability_keys"),
     Each("capability_keys", "num_capability_keys",
       << Enum("key", {0, 1, 2, 3}), Enum("key_type", {0, 1}),
          Enum("default_preset", ButtonPresets),
          Count("num_capability_presets"),
          Each("capability_presets", "num_capability_presets",
            << Enum("preset", ButtonPresets), Count("num_capability_actions"),
               Each("capability_actions", "num_capability_actions",
                 << Enum("action", ButtonActions),
                    Enum("function", ButtonFunctions) >>) >>) >>) >>

SystemCapabilityParse ==
  << Inquired(SystemInquired),
     Switch("inquired_type",
       << Case(OnOffSetting, << Enum("setting_type", {0}) >>),
          Case(AutoPowerOff,
               << Count("element_id_count"),
                  Each("element_ids", "element_id_count",
                       << Enum("element_id", AutoPowerOffIds) >>) >>),
          Case(SmartTalking,
               << Enum("setting_type", {0}), Enum("preview_type", {0, 1}),
                  Enum("detail_setting", {0}),
                  Enum("detection_sensitivity_type", {0}),
                  Enum("voice_focus_type", {0}),
                  Enum("mode_out_time_type_t", {0}),
                  Plain("timeouts[0]"), Plain("timeouts[1]"),
                  Plain("timeouts[2]"), Plain("timeouts[3]") >>),
          Case(AssignableKeys, AssignableCapabilityParse) >>) >>

SystemParamParse ==
  << Inquired(SystemInquired),
     Switch("inquired_type",
       << Case(OnOffSetting \cup SmartTalking,
               << Enum("setting_type", {0}), Enum("setting_value", OnOff) >>),
          Case(AutoPowerOff,
               << Enum("parameter_type", {1}),
                  Enum("element_id", AutoPowerOffIds),
                  Enum("select_time_element_id", AutoPowerOffIds) >>),
          Case(AssignableKeys,
               << Count("num_presets"),
                  Each("presets", "num_presets",
                       << Enum("preset", ButtonPresets) >>) >>) >>) >>

SystemParse ==
  [ SYSTEM_GET_CAPABILITY |-> << Inquired(SystemInquired) >>,
    SYSTEM_RET_CAPABILITY |-> SystemCapabilityParse,
    SYSTEM_GET_PARAM      |-> << Inquired(SystemInquired) >>,
    SYSTEM_RET_PARAM      |-> SystemParamParse,
    SYSTEM_SET_PARAM      |-> SystemParamParse,
    SYSTEM_NTFY_PARAM     |-> SystemParamParse ]

-----------------------------------------------------------------------------
(* What to_frame writes.                                                   *)

WriteOne(name) == << Start(1, None), Put(name) >>

DeviceInfoWrite ==
  << Switch("inquired_type",
       << Case(Name, << Start(2, "len"), Put("inquired_type"), Put("len"),
                        PutBytes("string", "len") >>),
          Case(SeriesAndColor,
               <<Start(3, None)>> \o
                 Puts(<<"inquired_type", "series", "color">>)),
          Case(InstructionGuide,
               << Start(2, "num_guidance_categories"), Put("inquired_type"),
                  Put("num_guidance_categories"),
                  Each("guidance_categories", "num_guidance_categories",
                       << Put("guidance_category") >>) >>) >>) >>

SupportFunctionWrite ==
  << Start(2, "num_function_types"), Put("fixed_value"),
     Put("num_function_types"),
     Each("function_types", "num_function_types", << Put("function_type") >>) >>

ConnectWrite ==
  [ CONNECT_GET_PROTOCOL_INFO    |-> WriteOne("fixed_value"),
    CONNECT_RET_PROTOCOL_INFO    |->
      <<Start(3, None)>> \o
        Puts(<<"fixed_value", "version_high", "version_low">>),
    CONNECT_GET_DEVICE_INFO      |-> WriteOne("inquired_type"),
    CONNECT_RET_DEVICE_INFO      |-> DeviceInfoWrite,
    CONNECT_GET_SUPPORT_FUNCTION |-> WriteOne("fixed_value"),
    CONNECT_RET_SUPPORT_FUNCTION |-> SupportFunctionWrite ]

\* The inquired type is counted by Start, and not written.
BatteryWrite ==
  << Switch("inquired_type",
       << Case(OneBattery, <<Start(3, None)>> \o Puts(<<"level", "charging">>)),
          Case(LeftRightBattery,
               <<Start(5, None)>> \o
                 Puts(<<"left.level", "left.charging",
                        "right.level", "right.charging">>)) >>) >>

ConnectionStatusWrite ==
  << Switch("inquired_type",
       << Case({1}, <<Start(3, None)>> \o
                 Puts(<<"inquired_type", "left_status", "right_status">>))
       >>) >>

CommonWrite ==
  [ COMMON_GET_BATTERY_LEVEL      |-> WriteOne("inquired_type"),
    COMMON_RET_BATTERY_LEVEL      |-> BatteryWrite,
    COMMON_NTFY_BATTERY_LEVEL     |-> BatteryWrite,
    COMMON_SET_POWER_OFF          |->
      <<Start(2, None)>> \o Puts(<<"inquired_type", "setting_value">>),
    COMMON_GET_CONNECTION_STATUS  |-> WriteOne("inquired_type"),
    COMMON_RET_CONNECTION_STATUS  |-> ConnectionStatusWrite,
    COMMON_NTFY_CONNECTION_STATUS |-> ConnectionStatusWrite ]

\* Mutant: the size of a preset leaves out the byte that says how long its
\* name is.
EqCapabilityWriteShort ==
  << Switch("inquired_type",
       << Case(PresetEq,
               << Each("presets", "num_presets", << Add(1, 1, "name_len") >>),
                  Start(4, None), Put("inquired_type"), Put("band_count"),
                  Put("level_steps"), Put("num_presets"),
                  Each("presets", "num_presets",
                       << Put("preset_id"), Put("name_len"),
                          PutBytes("name", "name_len") >>) >>),
          Case(Ebb, <<Start(3, None)>> \o
                 Puts(<<"inquired_type", "min_level", "max_level">>)) >>) >>

EqCapabilityWrite ==
  << Switch("inquired_type",
       << Case(PresetEq,
               << Each("presets", "num_presets", << Add(2, 1, "name_len") >>),
                  Start(4, None), Put("inquired_type"), Put("band_count"),
                  Put("level_steps"), Put("num_presets"),
                  Each("presets", "num_presets",
                       << Put("preset_id"), Put("name_len"),
                          PutBytes("name", "name_len") >>) >>),
          Case(Ebb, <<Start(3, None)>> \o
                 Puts(<<"inquired_type", "min_level", "max_level">>)) >>) >>

EqParamWrite ==
  << Switch("inquired_type",
       << Case(PresetEq, << Start(3, "num_levels"), Put("inquired_type"),
                            Put("preset_id"), Put("num_levels"),
                            PutBytes("levels", "num_levels") >>),
          Case(Ebb, <<Start(2, None)>> \o Puts(<<"inquired_type", "level">>))
       >>) >>

EqebbWrite ==
  [ EQEBB_GET_CAPABILITY |->
      <<Start(2, None)>> \o Puts(<<"inquired_type", "display_language">>),
    EQEBB_RET_CAPABILITY |-> EqCapabilityWrite,
    EQEBB_GET_PARAM      |-> WriteOne("inquired_type"),
    EQEBB_RET_PARAM      |-> EqParamWrite,
    EQEBB_SET_PARAM      |-> EqParamWrite,
    EQEBB_NTFY_PARAM     |-> EqParamWrite ]

\* For Asm the id is written twice, and the amount not at all.
NcasmParamWrite ==
  << Switch("inquired_type",
       << Case(Nc, <<Start(3, None)>> \o
                 Puts(<<"inquired_type", "nc_setting_type",
                        "nc_setting_value">>)),
          Case(NcAndAsm, <<Start(7, None)>> \o
                 Puts(<<"inquired_type", "ncasm_effect", "ncasm_setting_type",
                        "ncasm_amount", "asm_setting_type", "asm_id",
                        "asm_amount">>)),
          Case(Asm, <<Start(5, None)>> \o
                 Puts(<<"inquired_type", "ncasm_effect", "asm_setting_type",
                        "asm_id", "asm_id">>)) >>) >>

NcasmWrite ==
  [ NCASM_GET_PARAM  |-> WriteOne("inquired_type"),
    NCASM_RET_PARAM  |-> NcasmParamWrite,
    NCASM_SET_PARAM  |-> NcasmParamWrite,
    NCASM_NTFY_PARAM |-> NcasmParamWrite ]

PlayParamWrite ==
  << Switch("detailed_data_type",
       << Case(Names, <<Start(4, "len")>> \o
                 Puts(<<"inquired_type", "detailed_data_type", "status",
                        "len">>) \o <<PutBytes("data", "len")>>),
          Case({Volume}, <<Start(3, None)>> \o
                 Puts(<<"inquired_type", "detailed_data_type", "volume">>))
       >>) >>

PlayWrite ==
  [ PLAY_GET_PARAM  |->
      <<Start(2, None)>> \o Puts(<<"inquired_type", "detailed_data_type">>),
    PLAY_RET_PARAM  |-> PlayParamWrite,
    PLAY_SET_PARAM  |-> PlayParamWrite,
    PLAY_NTFY_PARAM |-> PlayParamWrite ]

AssignableCapabilityWrite ==
  << Each("capability_keys", "num_capability_keys",
       << Add(4, 0, None),
          Each("capability_presets", "num_capability_presets",
               << Add(2, 2, "num_capability_actions") >>) >>),
     Start(2, None), Put("inquired_type"), Put("num_capability_keys"),
     Each("capability_keys", "num_capability_keys",
       Puts(<<"key", "key_type", "default_preset",
              "num_capability_presets">>) \o
       << Each("capability_presets", "num_capability_presets",
            << Put("preset"), Put("num_capability_actions"),
               Each("capability_actions", "num_capability_actions",
                    << Put("action"), Put("function") >>) >>) >>) >>

\* The case of smart talking has no break and runs on into the assignable
\* settings.  There num_capability_keys is, in the union, the byte of
\* setting_type, whose only accepted value is 0: neither loop turns.
SystemCapabilityWrite ==
  << Switch("inquired_type",
       << Case(OnOffSetting, <<Start(2, None)>> \o
                 Puts(<<"inquired_type", "setting_type">>)),
          Case(AutoPowerOff,
               << Start(2, "element_id_count"), Put("inquired_type"),
                  Put("element_id_count"),
                  Each("element_ids", "element_id_count",
                       << Put("element_id") >>) >>),
          Case(SmartTalking,
               <<Start(11, None)>> \o
                 Puts(<<"inquired_type", "setting_type", "preview_type",
                        "detail_setting", "detection_sensitivity_type",
                        "voice_focus_type", "mode_out_time_type_t",
                        "timeouts[0]", "timeouts[1]",
                        "timeouts[2]", "timeouts[3]">>) \o
               <<Start(2, None)>> \o Puts(<<"inquired_type", "setting_type">>)),
          Case(AssignableKeys, AssignableCapabilityWrite) >>) >>

SystemParamWrite ==
  << Switch("inquired_type",
       << Case(OnOffSetting \cup SmartTalking, <<Start(3, None)>> \o
                 Puts(<<"inquired_type", "setting_type", "setting_value">>)),
          Case(AutoPowerOff, <<Start(4, None)>> \o
                 Puts(<<"inquired_type", "parameter_type", "element_id",
                        "select_time_element_id">>)),
          Case(AssignableKeys,
               << Start(2, "num_presets"), Put("inquired_type"),
                  Put("num_presets"),
                  Each("presets", "num_presets", << Put("preset") >>) >>) >>) >>

SystemWrite ==
  [ SYSTEM_GET_CAPABILITY |-> WriteOne("inquired_type"),
    SYSTEM_RET_CAPABILITY |-> SystemCapabilityWrite,
    SYSTEM_GET_PARAM      |-> WriteOne("inquired_type"),
    SYSTEM_RET_PARAM      |-> SystemParamWrite,
    SYSTEM_SET_PARAM      |-> SystemParamWrite,
    SYSTEM_NTFY_PARAM     |-> SystemParamWrite ]

-----------------------------------------------------------------------------
(* What free releases besides the packet itself; of other types, nothing.  *)

ConnectFree ==
  [ CONNECT_RET_DEVICE_INFO |->
      << Switch("inquired_type",
           << Case(Name, << Free("string") >>),
              Case(InstructionGuide, << Free("guidance_categories") >>) >>) >>,
    CONNECT_RET_SUPPORT_FUNCTION |-> << Free("function_types") >> ]

EqParamFree ==
  << Switch("inquired_type", << Case(PresetEq, << Free("levels") >>) >>) >>

\* Mutant: the names of the presets are not freed with the presets.
EqebbFreeShallow ==
  [ EQEBB_RET_CAPABILITY |->
      << Switch("inquired_type",
           << Case(PresetEq, << Free("presets") >>) >>) >>,
    EQEBB_RET_PARAM  |-> EqParamFree,
    EQEBB_SET_PARAM  |-> EqParamFree,
    EQEBB_NTFY_PARAM |-> EqParamFree ]

EqebbFree ==
  [ EQEBB_RET_CAPABILITY |->
      << Switch("inquired_type",
           << Case(PresetEq,
                   << Each("presets", "num_presets", << Free("name") >>),
                      Free("presets") >>) >>) >>,
    EQEBB_RET_PARAM  |-> EqParamFree,
    EQEBB_SET_PARAM  |-> EqParamFree,
    EQEBB_NTFY_PARAM |-> EqParamFree ]

PlayParamFree ==
  << Switch("detailed_data_type", << Case(Names, << Free("data") >>) >>) >>

PlayFree ==
  [ PLAY_RET_PARAM  |-> PlayParamFree,
    PLAY_SET_PARAM  |-> PlayParamFree,
    PLAY_NTFY_PARAM |-> PlayParamFree ]

SystemParamFree ==
  << Switch("inquired_type",
       << Case(AssignableKeys, << Free("presets") >>) >>) >>

SystemFree ==
  [ SYSTEM_RET_CAPABILITY |->
      << Switch("inquired_type",
           << Case(AutoPowerOff, << Free("element_ids") >>),
              Case(AssignableKeys,
                << Each("capability_keys", "num_capability_keys",
                     << Each("capability_presets", "num_capability_presets",
                             << Free("capability_actions") >>),
                        Free("capability_presets") >>),
                   Free("capability_keys") >>) >>) >>,
    SYSTEM_RET_PARAM  |-> SystemParamFree,
    SYSTEM_SET_PARAM  |-> SystemParamFree,
    SYSTEM_NTFY_PARAM |-> SystemParamFree ]

-----------------------------------------------------------------------------
(* The dispatch of src/packet.c by the type, which is the first byte of    *)
(* the payload.                                                            *)

In(table, type) == IF type \in DOMAIN table THEN table[type] ELSE <<>>

PacketTypes ==
  DOMAIN ConnectParse \cup DOMAIN CommonParse \cup DOMAIN EqebbParse
    \cup DOMAIN NcasmParse \cup DOMAIN PlayParse \cup DOMAIN SystemParse

mdr_packet_from_frame(type) ==
  In(ConnectParse, type) \o In(CommonParse, type) \o In(EqebbParse, type) \o
  In(NcasmParse, type) \o In(PlayParse, type) \o In(SystemParse, type)

mdr_packet_to_frame(type) ==
  In(ConnectWrite, type) \o In(CommonWrite, type) \o In(EqebbWrite, type) \o
  In(NcasmWrite, type) \o In(PlayWrite, type) \o In(SystemWrite, type)

mdr_packet_free(type) ==
  In(ConnectFree, type) \o In(EqebbFree, type) \o In(PlayFree, type) \o
  In(SystemFree, type)
=============================================================================
