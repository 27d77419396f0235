--------------------------- MODULE HeaterFirmware ---------------------------
(***************************************************************************)
(* One heater controller: the sketch, setup_commissioned and               *)
(* loop_commissioned with the WiFi, timer and web callbacks that run       *)
(* whenever the loop yields; the uncommissioned mode, which registers the  *)
(* controller; and the settings in flash, which power may cut short.       *)
(*                                                                         *)
(* `pc' is the place the loop has reached:                                 *)
(*   "off"         no power, or between a reset and setup();               *)
(*   "unregistered"  in loop_uncommissioned;                               *)
(*   "programming" in settings_create, after the flash was erased;         *)
(*   "loop"        at the start of loop_commissioned;                      *)
(*   "connecting"  in client.connect to the base station;                  *)
(*   "waiting"     request written, waiting for the reply;                 *)
(*   "check"       at the test of request_state_failure_count;             *)
(*   "resetting"   the settings are erased, the restart is still to come.  *)
(* Ticker and WiFi callbacks do not preempt the loop: they run while it    *)
(* connects, waits or delays, that is, between the steps below.            *)
(***************************************************************************)
EXTENDS Naturals, HeaterStates

CONSTANT REQUEST_STATE_FAILURE_THRESHOLD

ASSUME ThresholdAssumption == REQUEST_STATE_FAILURE_THRESHOLD \in Nat \ {0}

VARIABLES
    pc,
    eeprom,                       \* the settings in flash
    registration,                 \* the parameters /register was given
    joining_wifi_network,
    wifi,                         \* the station: "down", "associated", "up"
    requestPending,               \* events & SEND_HEATER_STATE_REQ_EV
    heater_state,
    outputs,                      \* POSITIVE_OUTPUT_PIN, NEGATIVE_OUTPUT_PIN
    led_state,
    request_state_failure_count

settingsVars == <<eeprom, registration, joining_wifi_network>>
vars == <<pc, settingsVars, wifi, requestPending, heater_state, outputs,
          led_state, request_state_failure_count>>

DEFAULT_HEATER_STATE == FALLBACK_HEATER_STATE

\* The two pins, as apply_heater_state sets them.
OutputsFor(state) ==
    CASE state = "DEFROST" -> <<"low", "high">>
      [] state = "ECO"     -> <<"high", "high">>
      [] state = "COMFORT" -> <<"low", "low">>
      [] OTHER             -> <<"high", "low">>

\* Before setup() and in setup_uncommissioned both pins are inputs.
NotDriven == <<"input", "input">>

\* What the registration form may hold: parameters that are good; a name with
\* other characters than letters and digits; none where one is needed; one
\* that is too long for its field, and would be cut.
Params == {"good", "bad name", "empty", "too long"}
NoParams == "none"

\* struct settings_t is programmed in ascending order of its fields: magic0,
\* name, ssid, password, basestation, magic1.  `fields' tells how many are.
Fields == 6
Eeprom == [fields : 0 .. Fields, params : Params \cup {NoParams}]
Blank == [fields |-> 0, params |-> NoParams]

Magic0(settings) == settings.fields >= 1
Magic1(settings) == settings.fields = Fields

\* Mutant: one magic number, at the front, would do.
FirstMagicOnly(settings) == Magic0(settings)
is_valid(settings) == Magic0(settings) /\ Magic1(settings)

\* Mutant: /register takes what fits the fields.
NoCheckOfName(params) == params # "too long"
check_params(params) == params = "good"
\* The same tests again, but for the lengths.
settings_check(settings) ==
    settings.params \in {"good", "too long"} /\ is_valid(settings)

\* In loop_commissioned.
running == pc \in {"loop", "connecting", "waiting", "check"}

\* The callbacks of setup_commissioned are attached.
attached == running \/ pc = "resetting"

Init ==
    /\ pc = "off"
    /\ eeprom = Blank
    /\ registration = NoParams
    /\ joining_wifi_network = FALSE
    /\ wifi = "down"
    /\ requestPending = FALSE
    /\ heater_state = DEFAULT_HEATER_STATE
    /\ outputs = NotDriven
    /\ led_state = "DISCONNECTED_FROM_WIFI"
    /\ request_state_failure_count = 0
-----------------------------------------------------------------------------
(***************************************************************************)
(* Power and reset.                                                        *)
(***************************************************************************)
\* All of RAM is lost; setup() sets what the values here stand for.
Reset ==
    /\ pc' = "off"
    /\ registration' = NoParams
    /\ joining_wifi_network' = FALSE
    /\ wifi' = "down"
    /\ requestPending' = FALSE
    /\ heater_state' = DEFAULT_HEATER_STATE
    /\ outputs' = NotDriven
    /\ led_state' = "DISCONNECTED_FROM_WIFI"
    /\ request_state_failure_count' = 0

\* settings_erase, and ESP.restart.
EraseAndRestart == eeprom' = Blank /\ Reset

\* setup with valid settings: DEFROST before anything else.  The SDK may have
\* joined the network on its own before the handlers were attached.
Setup ==
    /\ pc = "off"
    /\ is_valid(eeprom)
    /\ IF settings_check(eeprom)
       THEN /\ pc' = "loop"
            /\ heater_state' = DEFAULT_HEATER_STATE
            /\ outputs' = OutputsFor(DEFAULT_HEATER_STATE)
            /\ led_state' = "DISCONNECTED_FROM_WIFI"
            /\ wifi' \in {"down", "up"}
            /\ UNCHANGED <<settingsVars, requestPending,
                           request_state_failure_count>>
       ELSE EraseAndRestart

SetupUncommissioned ==
    /\ pc = "off"
    /\ ~is_valid(eeprom)
    /\ pc' = "unregistered"
    /\ outputs' = NotDriven
    /\ UNCHANGED <<settingsVars, wifi, requestPending, heater_state, led_state,
                   request_state_failure_count>>

PowerCut ==
    /\ pc # "off"
    /\ Reset
    /\ UNCHANGED eeprom

\* /unregister, or the button held in the uncommissioned mode.
Unregister ==
    /\ pc = "unregistered" \/ (running /\ wifi = "up")
    /\ EraseAndRestart

\* The button was held for BUTTON_PRESS_TIMEOUT, seen at the start of a pass.
FactoryReset ==
    /\ pc = "loop"
    /\ eeprom' = Blank
    /\ pc' = "resetting"
    /\ UNCHANGED <<registration, joining_wifi_network, wifi, requestPending,
                   heater_state, outputs, led_state,
                   request_state_failure_count>>

\* The LED has flashed, while callbacks go on: ESP.restart.
Restart ==
    /\ pc = "resetting"
    /\ Reset
    /\ UNCHANGED eeprom
-----------------------------------------------------------------------------
(***************************************************************************)
(* Registration.                                                           *)
(***************************************************************************)
\* POST /register: ignored while a network is being joined.  A form without a
\* base station makes the handler use a null pointer, which resets the chip.
Register ==
    /\ pc = "unregistered"
    /\ ~joining_wifi_network
    /\ \/ /\ registration' \in Params
          /\ joining_wifi_network' = check_params(registration')
          /\ UNCHANGED <<pc, eeprom, wifi, requestPending, heater_state,
                         outputs, led_state, request_state_failure_count>>
       \/ Reset /\ UNCHANGED eeprom

\* The network was not joined within JOIN_NETWORK_TIMEOUT.
JoinFails ==
    /\ pc = "unregistered"
    /\ joining_wifi_network
    /\ Reset
    /\ UNCHANGED eeprom

\* It was: settings_create begins, by erasing the flash.
Join ==
    /\ pc = "unregistered"
    /\ joining_wifi_network
    /\ pc' = "programming"
    /\ eeprom' = Blank
    /\ UNCHANGED <<registration, joining_wifi_network, wifi, requestPending,
                   heater_state, outputs, led_state,
                   request_state_failure_count>>

\* The second commit programs the next field.  EEPROM.commit may also fail.
Program ==
    /\ pc = "programming"
    /\ eeprom.fields < Fields
    /\ \/ /\ eeprom' = [fields |-> eeprom.fields + 1, params |-> registration]
          /\ UNCHANGED <<pc, registration, joining_wifi_network, wifi,
                         requestPending, heater_state, outputs, led_state,
                         request_state_failure_count>>
       \/ Reset /\ UNCHANGED eeprom

\* The settings are written: ESP.restart.
Registered ==
    /\ pc = "programming"
    /\ eeprom.fields = Fields
    /\ Reset
    /\ UNCHANGED eeprom
-----------------------------------------------------------------------------
(***************************************************************************)
(* Callbacks.                                                              *)
(***************************************************************************)
\* wifi_connected: the station is associated, it has no address yet.
WifiConnected ==
    /\ attached
    /\ wifi = "down"
    /\ wifi' = "associated"
    /\ requestPending' = TRUE
    /\ led_state' = "DISCONNECTED_FROM_BASE_STATION"
    /\ UNCHANGED <<pc, settingsVars, heater_state, outputs,
                   request_state_failure_count>>

\* wifi_got_ip: WiFi.status() becomes WL_CONNECTED.
WifiGotIP ==
    /\ wifi = "associated"
    /\ wifi' = "up"
    /\ UNCHANGED <<pc, settingsVars, requestPending, heater_state, outputs,
                   led_state, request_state_failure_count>>

WifiDisconnected ==
    /\ wifi # "down"
    /\ wifi' = "down"
    /\ led_state' = "DISCONNECTED_FROM_WIFI"
    /\ UNCHANGED <<pc, settingsVars, requestPending, heater_state, outputs,
                   request_state_failure_count>>

\* send_heater_state_req_callback, once a minute.
RequestTimer ==
    /\ attached
    /\ requestPending' = TRUE
    /\ UNCHANGED <<pc, settingsVars, wifi, heater_state, outputs, led_state,
                   request_state_failure_count>>
-----------------------------------------------------------------------------
(***************************************************************************)
(* The loop.                                                               *)
(***************************************************************************)
BeginRequest ==
    /\ pc = "loop"
    /\ wifi = "up" /\ requestPending
    /\ requestPending' = FALSE
    /\ pc' = "connecting"
    /\ UNCHANGED <<settingsVars, wifi, heater_state, outputs, led_state,
                   request_state_failure_count>>

\* Nothing to request in this pass.
SkipRequest ==
    /\ pc = "loop"
    /\ ~(wifi = "up" /\ requestPending)
    /\ pc' = "check"
    /\ UNCHANGED <<settingsVars, wifi, requestPending, heater_state, outputs,
                   led_state, request_state_failure_count>>

\* Mutants: a count that is never bounded; one failure counted twice.
CountForever == request_state_failure_count' = request_state_failure_count + 1
CountTwice ==
    request_state_failure_count' =
        IF request_state_failure_count > REQUEST_STATE_FAILURE_THRESHOLD
        THEN request_state_failure_count
        ELSE request_state_failure_count + 2

\* The code compares the count with the threshold only: counting on beyond
\* one past it makes no difference.
CountFailure ==
    request_state_failure_count' =
        IF request_state_failure_count > REQUEST_STATE_FAILURE_THRESHOLD
        THEN request_state_failure_count
        ELSE request_state_failure_count + 1

\* One more failure, and on to the end of the pass.
RequestFails ==
    /\ CountFailure
    /\ pc' = "check"
    /\ UNCHANGED <<settingsVars, wifi, requestPending, heater_state, outputs,
                   led_state>>

\* Three attempts failed.  The sprintf of this branch lacks its buffer: what
\* it writes to and what is logged are undefined, so that the controller may
\* go on or be reset by an exception.
ConnectFails ==
    /\ pc = "connecting"
    /\ RequestFails \/ (Reset /\ UNCHANGED eeprom)

\* Connected and the request written, with the name as data.
SendRequest ==
    /\ pc = "connecting" /\ wifi = "up"
    /\ pc' = "waiting"
    /\ UNCHANGED <<settingsVars, wifi, requestPending, heater_state, outputs,
                   led_state, request_state_failure_count>>

WriteFails == pc = "connecting" /\ RequestFails

\* No complete reply within HEATER_STATE_TIMEOUT, a failed read, a protocol
\* version, a type or a state that is not valid.
ReplyFails == pc = "waiting" /\ RequestFails

\* A valid reply, perhaps read from the buffer after the WiFi was lost.  The
\* pins are only touched if the state changes.
AcceptReply(state) ==
    /\ pc = "waiting"
    /\ led_state' = "CONNECTED_TO_BASE_STATION"
    /\ request_state_failure_count' = 0
    /\ IF heater_state # state
       THEN heater_state' = state /\ outputs' = OutputsFor(state)
       ELSE UNCHANGED <<heater_state, outputs>>
    /\ pc' = "check"
    /\ UNCHANGED <<settingsVars, wifi, requestPending>>

\* Mutants: one failure too late; the state without the pins.
OnePastThreshold ==
    request_state_failure_count = REQUEST_STATE_FAILURE_THRESHOLD + 1
DefaultWithoutPins ==
    heater_state' = DEFAULT_HEATER_STATE /\ UNCHANGED outputs

AtThreshold == request_state_failure_count = REQUEST_STATE_FAILURE_THRESHOLD
ApplyDefault ==
    /\ heater_state' = DEFAULT_HEATER_STATE
    /\ outputs' = OutputsFor(DEFAULT_HEATER_STATE)

\* The end of every pass, with or without a request.
CheckFailures ==
    /\ pc = "check"
    /\ pc' = "loop"
    /\ IF AtThreshold
       THEN ApplyDefault /\ led_state' = "DISCONNECTED_FROM_BASE_STATION"
       ELSE UNCHANGED <<heater_state, outputs, led_state>>
    /\ UNCHANGED <<settingsVars, wifi, requestPending,
                   request_state_failure_count>>

Loop ==
    \/ BeginRequest
    \/ SkipRequest
    \/ ConnectFails
    \/ SendRequest
    \/ WriteFails
    \/ ReplyFails
    \/ \E state \in HeaterState : AcceptReply(state)
    \/ CheckFailures

Next ==
    \/ Setup
    \/ SetupUncommissioned
    \/ PowerCut
    \/ Unregister
    \/ FactoryReset
    \/ Restart
    \/ Register
    \/ JoinFails
    \/ Join
    \/ Program
    \/ Registered
    \/ WifiConnected
    \/ WifiGotIP
    \/ WifiDisconnected
    \/ RequestTimer
    \/ Loop

Spec == Init /\ [][Next]_vars
-----------------------------------------------------------------------------
(***************************************************************************)
(* Safety.                                                                 *)
(***************************************************************************)
FlagsTypeOK == joining_wifi_network \in BOOLEAN /\ requestPending \in BOOLEAN
SettingsTypeOK == eeprom \in Eeprom /\ registration \in Params \cup {NoParams}

TypeOK ==
    /\ FlagsTypeOK
    /\ SettingsTypeOK
    /\ pc \in {"off", "unregistered", "programming", "loop", "connecting",
              "waiting", "check", "resetting"}
    /\ wifi \in {"down", "associated", "up"}
    /\ heater_state \in HeaterState
    /\ outputs \in {"low", "high", "input"} \X {"low", "high", "input"}
    /\ led_state \in {"DISCONNECTED_FROM_WIFI", "CONNECTED_TO_BASE_STATION",
                      "DISCONNECTED_FROM_BASE_STATION"}
    /\ request_state_failure_count \in 0 .. REQUEST_STATE_FAILURE_THRESHOLD + 1

\* Once REQUEST_STATE_FAILURE_THRESHOLD requests in a row have failed, the
\* heater is in DEFROST, on its pins too, and stays there, however the link
\* and the callbacks behave; the LED does not claim a connection meanwhile.
FailuresMeanDefrost ==
    pc = "loop"
      /\ request_state_failure_count >= REQUEST_STATE_FAILURE_THRESHOLD
        => /\ heater_state = DEFAULT_HEATER_STATE
           /\ outputs = OutputsFor(DEFAULT_HEATER_STATE)
           /\ led_state # "CONNECTED_TO_BASE_STATION"

\* The control wire always carries the state the program believes in, also
\* when a reply repeats the current state and the pins are left alone.
WireCarriesState == running => outputs = OutputsFor(heater_state)

\* The controller only runs on settings that are whole and that were checked
\* when they were registered, wherever power was cut while they were written.
RunsOnWholeSettings ==
    running => eeprom = [fields |-> Fields, params |-> "good"]

\* What /register accepted is not rejected again at the next start: settings
\* that are valid are only erased by a factory reset or a new registration.
StartKeepsSettings ==
    [][pc = "off" /\ is_valid(eeprom) => UNCHANGED eeprom]_vars
-----------------------------------------------------------------------------
(***************************************************************************)
(* Liveness.  The loop runs and the ticker fires; nothing is assumed of    *)
(* power, WiFi or the base station.                                        *)
(***************************************************************************)
FairSpec == Spec /\ WF_vars(Loop) /\ WF_vars(RequestTimer)

\* Once requests have begun to fail, either one succeeds again or the heater
\* ends in DEFROST, as long as the WiFi stays up.
FailingRequestsFallBack ==
    running /\ wifi = "up" /\ request_state_failure_count > 0
        ~> \/ ~running
           \/ wifi # "up"
           \/ request_state_failure_count = 0
           \/ heater_state = DEFAULT_HEATER_STATE
-----------------------------------------------------------------------------
(***************************************************************************)
(* What documentation, comments and messages say and the code does not do. *)
(***************************************************************************)
\* The base station's SMS on the loss of WiFi says that heaters will switch to
\* DEFROST by themselves; so should one whose own WiFi is gone for good.
LostWifiFallsBack ==
    running /\ wifi = "down"
        ~> ~running \/ wifi # "down" \/ heater_state = DEFAULT_HEATER_STATE
=============================================================================
