------------------------------- MODULE Config -------------------------------
(***************************************************************************)
(* The dynamic configuration of a session (Sky_config_t): the compiled in  *)
(* values it starts from, and how sky_set_option() and the overrides in a  *)
(* response change it.  The time of the last update is in Session.         *)
(*                                                                         *)
(* A configuration is a record with a value per option, of an unsigned     *)
(* type with UintMod values.                                               *)
(***************************************************************************)
EXTENDS BeaconLimits

CONSTANTS
    MinTotal,                     \* least total_beacons sky_set_option() accepts
    MAX_VAP_PER_AP,               \* compiled in values, see config.h
    MAX_VAP_PER_RQ,
    CACHE_AGE_THRESHOLD,
    CACHE_BEACON_THRESHOLD,
    CACHE_RSSI_THRESHOLD,
    CACHE_MATCH_THRESHOLD_ALL,
    CACHE_MATCH_THRESHOLD_USED,
    UintMod,
    Option,                       \* <<name, value>> pairs the application sets
    Override                      \* overrides the server sends

Built ==
    [total_beacons |-> TOTAL_BEACONS,
     max_ap_beacons |-> MAX_AP_BEACONS,
     cache_age_threshold |-> CACHE_AGE_THRESHOLD,
     cache_beacon_threshold |-> CACHE_BEACON_THRESHOLD,
     cache_neg_rssi_threshold |-> CACHE_RSSI_THRESHOLD,
     cache_match_all_threshold |-> CACHE_MATCH_THRESHOLD_ALL,
     cache_match_used_threshold |-> CACHE_MATCH_THRESHOLD_USED,
     max_vap_per_ap |-> MAX_VAP_PER_AP,
     max_vap_per_rq |-> MAX_VAP_PER_RQ]

OptionName == DOMAIN Built

ASSUME ConfigAssumption ==
    /\ UintMod \in Nat \ {0}
    /\ \A name \in OptionName : Built[name] \in 1 .. UintMod - 1
    /\ MinTotal \in 1 .. TOTAL_BEACONS
    /\ Option \subseteq OptionName \X Int
    /\ \A o \in Override : \A name \in DOMAIN o : o[name] \in 0 .. UintMod - 1

\* The most sky_set_option() takes for an option; cache_age_threshold takes
\* any value.
OptionMax ==
    [total_beacons |-> TOTAL_BEACONS,
     max_ap_beacons |-> MAX_AP_BEACONS,
     cache_beacon_threshold |-> TOTAL_BEACONS,
     cache_neg_rssi_threshold |-> 128,
     cache_match_all_threshold |-> 100,
     cache_match_used_threshold |-> 100,
     max_vap_per_ap |-> TOTAL_BEACONS,
     max_vap_per_rq |-> TOTAL_BEACONS]

\* Only total_beacons has a lower limit; the value is signed.
OptionAccepted(name, value) ==
    /\ name \in DOMAIN OptionMax => value <= OptionMax[name]
    /\ name = "total_beacons" => value >= MinTotal

\* A negative value becomes a large one.
SetOption(config, name, value) ==
    IF OptionAccepted(name, value) THEN [config EXCEPT ![name] = value % UintMod] ELSE config

\* An option that is 0 gets its compiled in value.
ConfigDefaults(config) ==
    [name \in OptionName |-> IF config[name] = 0 THEN Built[name] ELSE config[name]]

\* The overrides that the client obeys, given the total_beacons in force.
OverrideInRange(name, value, total) ==
    \/ name = "total_beacons" /\ 1 < value /\ value < TOTAL_BEACONS
    \/ name = "max_ap_beacons" /\ value < MAX_AP_BEACONS
    \/ name \in {"cache_match_all_threshold", "cache_match_used_threshold"} /\ value <= 100
    \/ name = "cache_age_threshold" /\ value < 9000
    \/ name = "cache_beacon_threshold" /\ value < total
    \/ name = "cache_neg_rssi_threshold" /\ 10 <= value /\ value < 128

\* What a response with a body makes of the configuration: each override is
\* obeyed or ignored by itself, the total before the threshold that depends
\* on it.  override maps the names the server sent to their values; 0 is the
\* same as absent.
ApplyConfigOverrides(config, override) ==
    LET base == ConfigDefaults(config)
        Obeyed(name, total) ==
            /\ name \in DOMAIN override /\ override[name] # 0
            /\ OverrideInRange(name, override[name], total)
        total == IF Obeyed("total_beacons", 0)
                 THEN override["total_beacons"] ELSE base.total_beacons
    IN  [name \in OptionName |->
            IF Obeyed(name, total) THEN override[name] ELSE base[name]]

\* sky_set_option() or a response changes config to one of these.
Reconfigured(config) ==
    {SetOption(config, o[1], o[2]) : o \in Option}
        \cup {ApplyConfigOverrides(config, o) : o \in Override}
=============================================================================
