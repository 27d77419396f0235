---------------------------- MODULE BaseStationMC ----------------------------
(***************************************************************************)
(* Small instances of BaseStation for TLC.  Each set of commands below     *)
(* asks one question; the configurations pick one and the bounds that suit *)
(* it.                                                                     *)
(***************************************************************************)
EXTENDS BaseStation

CONSTANTS a, b, p, q

Pin == "1234"

HeaterCommands(names, states) ==
    [kind : {"ALL"}, state : states]
    \cup [kind : {"HEATER"}, name : names, state : states]
PhoneCommands(kinds, numbers) == [kind : kinds, number : numbers]
Unlock(pins) == [kind : {"UNLOCK"}, pin : pins]
Plain(kinds) == [kind : kinds]

\* Heating: what changes or saves the policy, against the fallbacks, and the
\* operands that are refused.  The two heaters can be told different states
\* of which neither is DEFROST.
PolicyCommands ==
    [kind : {"ALL"}, state : {"COMFORT"}]
    \cup [kind : {"HEATER"}, name : {a, InvalidName}, state : {"ECO"}]
    \cup Plain({"DEBUG REBOOT", "QUERY"})
    \cup PhoneCommands({"SET EMERGENCY PHONE"}, {p, InvalidNumber})

\* Access: who may command what, with strangers' SMS in between.
AccessCommands ==
    HeaterCommands({}, {"ECO"})
    \cup PhoneCommands({"ADD PHONE"}, {p, q})
    \cup PhoneCommands({"REMOVE PHONE", "SET EMERGENCY PHONE"}, {p})
    \cup Unlock({Pin, "0000"})
    \cup Plain({"LOCK", "REMOVE EMERGENCY PHONE"})

\* The emergency phone.
EmergencyCommands ==
    PhoneCommands({"SET EMERGENCY PHONE"}, {p})
    \cup Plain({"REMOVE EMERGENCY PHONE"})
=============================================================================
