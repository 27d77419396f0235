---------------------------- MODULE HeaterStates ----------------------------
(***************************************************************************)
(* The heater states the base station and the heater controllers share,    *)
(* and the rule that turns the base station's settings into the state of   *)
(* one heater: the heater's own setting if it has one, the default         *)
(* otherwise.                                                              *)
(***************************************************************************)

\* enum HeaterState of the base station, enum heater_state_t of the firmware.
HeaterState == {"OFF", "DEFROST", "ECO", "COMFORT"}

\* The state both programs choose when they cannot know better.
FALLBACK_HEATER_STATE == "DEFROST"

\* What a heater called `name' is told, given the default and the settings
\* by name (a function whose domain is the set of names that have one).
StateOf(name, default, settings) ==
    IF name \in DOMAIN settings THEN settings[name] ELSE default

\* Every name in `settings' set to `state'.
AllSetTo(settings, state) == [name \in DOMAIN settings |-> state]

\* `settings' with one more or one changed entry.
WithEntry(settings, name, state) ==
    [n \in DOMAIN settings \cup {name} |->
        IF n = name THEN state ELSE settings[n]]

\* The settings a std::map<std::string, HeaterState> over `names' can hold.
SettingsOver(names) == UNION {[S -> HeaterState] : S \in SUBSET names}
=============================================================================
