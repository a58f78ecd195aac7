------------------------------ MODULE MCDevice ------------------------------
(***************************************************************************)
(* An instance of Device for TLC: all operations, and headsets that have   *)
(* none, all or some of the functions.  Noise cancelling and ambient sound *)
(* are reported alone, one by one, or as one function.                     *)
(***************************************************************************)
EXTENDS Device

MCHeadsets ==
  { {},
    FunctionTypes \ {"NOISE_CANCELLING", "AMBIENT_SOUND_MODE"},
    {"NOISE_CANCELLING", "AMBIENT_SOUND_MODE"},
    {"NOISE_CANCELLING", "PRESET_EQ", "BATTERY_LEVEL", "PLAYBACK_CONTROLLER"},
    {"AMBIENT_SOUND_MODE", "PRESET_EQ_NONCUSTOMIZABLE", "LEFT_RIGHT_BATTERY_LEVEL"},
    {"NOISE_CANCELLING_AND_AMBIENT_SOUND_MODE", "AUTO_POWER_OFF", "POWER_OFF"} }
=============================================================================
