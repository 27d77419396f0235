------------------------ MODULE HeaterFirmwareProofs ------------------------
(***************************************************************************)
(* Proofs about HeaterFirmware, for every failure threshold.               *)
(***************************************************************************)
EXTENDS HeaterFirmware, TLAPS

LEMMA DefaultLemma == DEFAULT_HEATER_STATE \in HeaterState
  BY DEF DEFAULT_HEATER_STATE, FALLBACK_HEATER_STATE, HeaterState

LEMMA OutputsLemma ==
    /\ NotDriven \in {"low", "high", "input"} \X {"low", "high", "input"}
    /\ \A state \in HeaterState :
          OutputsFor(state) \in {"low", "high", "input"} \X {"low", "high", "input"}
  BY DEF NotDriven, OutputsFor, HeaterState

\* One more failure leaves a count that has passed the threshold past it.
LEMMA CountLemma ==
    ASSUME request_state_failure_count \in
               0 .. REQUEST_STATE_FAILURE_THRESHOLD + 1,
           CountFailure
    PROVE  /\ request_state_failure_count' \in
                  0 .. REQUEST_STATE_FAILURE_THRESHOLD + 1
           /\ request_state_failure_count' > REQUEST_STATE_FAILURE_THRESHOLD
              => request_state_failure_count >= REQUEST_STATE_FAILURE_THRESHOLD
  BY ThresholdAssumption DEF CountFailure
-----------------------------------------------------------------------------
(***************************************************************************)
(* Types.                                                                  *)
(***************************************************************************)
LEMMA InitType == Init => TypeOK
<1> SUFFICES ASSUME Init PROVE TypeOK
  OBVIOUS
<1>1. FlagsTypeOK
  BY DEF Init, FlagsTypeOK
<1>2. SettingsTypeOK
  BY DEF Init, SettingsTypeOK, Eeprom, Blank, Fields
<1> QED
  BY <1>1, <1>2, ThresholdAssumption, DefaultLemma, OutputsLemma DEF Init, TypeOK

\* The flags, which only callbacks, restarts and the registration touch.
LEMMA StepFlags ==
    ASSUME FlagsTypeOK, [Next]_vars
    PROVE  FlagsTypeOK'
<1> USE DEF FlagsTypeOK
<1>1. ASSUME Reset PROVE FlagsTypeOK'
  BY <1>1 DEF Reset
<1>2. CASE Setup
  BY <1>1, <1>2, Zenon DEF Setup, EraseAndRestart, settingsVars
<1>3. CASE \/ PowerCut \/ Unregister \/ FactoryReset \/ Restart \/ JoinFails
           \/ Registered
  BY <1>1, <1>3, Zenon
  DEF PowerCut, Unregister, EraseAndRestart, FactoryReset, Restart, JoinFails,
      Registered
<1>4. CASE Register
  BY <1>1, <1>4, Zenon DEF Register, check_params
<1>5. CASE Join \/ Program
  BY <1>1, <1>5, Zenon DEF Join, Program
<1>6. CASE \/ SetupUncommissioned \/ WifiConnected \/ WifiGotIP
           \/ WifiDisconnected \/ RequestTimer
  BY <1>6, Zenon
  DEF settingsVars, SetupUncommissioned, WifiConnected, WifiGotIP,
      WifiDisconnected, RequestTimer
<1>7. CASE Loop
  BY <1>1, <1>7, Zenon
  DEF settingsVars, Loop, BeginRequest, SkipRequest, ConnectFails, SendRequest,
      WriteFails, ReplyFails, RequestFails, AcceptReply, CheckFailures
<1>8. CASE UNCHANGED vars
  BY <1>8, Zenon DEF vars, settingsVars
<1> QED
  BY <1>2, <1>3, <1>4, <1>5, <1>6, <1>7, <1>8, Zenon DEF Next

\* Only restarts and the registration touch the settings.
LEMMA OthersKeepSettings ==
    ASSUME \/ SetupUncommissioned \/ WifiConnected \/ WifiGotIP
           \/ WifiDisconnected \/ RequestTimer \/ UNCHANGED vars
           \/ (Loop /\ ~(ConnectFails /\ Reset))
    PROVE  UNCHANGED settingsVars
  BY Zenon
  DEF vars, settingsVars, SetupUncommissioned, WifiConnected, WifiGotIP,
      WifiDisconnected, RequestTimer, Loop, BeginRequest, SkipRequest,
      ConnectFails, SendRequest, WriteFails, ReplyFails, RequestFails,
      AcceptReply, CheckFailures

LEMMA StepSettings ==
    ASSUME SettingsTypeOK, [Next]_vars
    PROVE  SettingsTypeOK'
<1> USE DEF SettingsTypeOK
<1> Blank \in Eeprom
  BY DEF Blank, Eeprom, Fields
<1>1. ASSUME Reset, eeprom' \in Eeprom PROVE SettingsTypeOK'
  BY <1>1 DEF Reset
<1>2. CASE UNCHANGED settingsVars
  BY <1>2 DEF settingsVars
<1>3. CASE (Setup /\ ~UNCHANGED settingsVars) \/ Unregister
  BY <1>1, <1>3 DEF Setup, Unregister, EraseAndRestart
<1>4. CASE \/ PowerCut \/ Restart \/ JoinFails \/ Registered
           \/ (ConnectFails /\ Reset)
  <2>1. Reset
    BY <1>4, Zenon DEF PowerCut, Restart, JoinFails, Registered
  <2>2. UNCHANGED eeprom
    BY <1>4, Zenon
    DEF PowerCut, Restart, JoinFails, Registered, ConnectFails, RequestFails,
        settingsVars
  <2> QED
    BY <1>1, <2>1, <2>2
<1>5. CASE Register
  BY <1>1, <1>5 DEF Register
<1>6. CASE Join \/ FactoryReset
  BY <1>6 DEF Join, FactoryReset
<1>7. CASE Program
  <2>1. CASE Reset /\ UNCHANGED eeprom
    BY <1>1, <2>1
  <2>2. CASE /\ eeprom' = [fields |-> eeprom.fields + 1,
                           params |-> registration]
             /\ UNCHANGED registration
    BY <1>7, <2>2 DEF Program, Eeprom, Fields
  <2> QED
    BY <1>7, <2>1, <2>2 DEF Program
<1> QED
  BY OthersKeepSettings, <1>2, <1>3, <1>4, <1>5, <1>6, <1>7 DEF Next

LEMMA ResetType ==
    ASSUME Reset, FlagsTypeOK', SettingsTypeOK'
    PROVE  TypeOK'
  BY ThresholdAssumption, DefaultLemma, OutputsLemma DEF Reset, TypeOK

LEMMA FailureType ==
    ASSUME TypeOK, RequestFails, FlagsTypeOK', SettingsTypeOK'
    PROVE  TypeOK'
<1>1. (request_state_failure_count \in
          0 .. REQUEST_STATE_FAILURE_THRESHOLD + 1)'
  BY CountLemma DEF TypeOK, RequestFails
<1> QED
  BY <1>1 DEF TypeOK, RequestFails

LEMMA StepType == TypeOK /\ [Next]_vars => TypeOK'
<1> SUFFICES ASSUME TypeOK, [Next]_vars PROVE TypeOK'
  OBVIOUS
<1>1. FlagsTypeOK'
  BY StepFlags DEF TypeOK
<1>s. SettingsTypeOK'
  BY StepSettings DEF TypeOK
<1> USE <1>1, <1>s, DefaultLemma, OutputsLemma
<1>2. CASE Setup \/ SetupUncommissioned
  BY <1>2, ResetType DEF TypeOK, Setup, SetupUncommissioned, EraseAndRestart
<1>3. CASE \/ PowerCut \/ Unregister \/ FactoryReset \/ Restart \/ Register
           \/ JoinFails \/ Join \/ Program \/ Registered
  <2>1. CASE Reset
    BY <2>1, ResetType
  <2>2. CASE ~Reset
    <3>1. UNCHANGED <<wifi, heater_state, outputs, led_state,
                      request_state_failure_count>>
      BY <1>3, <2>2, Zenon
      DEF PowerCut, Unregister, EraseAndRestart, FactoryReset, Restart,
          Register, JoinFails, Join, Program, Registered
    <3>2. pc' \in {"unregistered", "programming", "resetting"}
      BY <1>3, <2>2
      DEF PowerCut, Unregister, EraseAndRestart, FactoryReset, Restart,
          Register, JoinFails, Join, Program, Registered
    <3> QED
      BY <3>1, <3>2 DEF TypeOK
  <2> QED
    BY <2>1, <2>2
<1>4. CASE WifiConnected \/ WifiGotIP \/ WifiDisconnected \/ RequestTimer
  BY <1>4 DEF TypeOK, WifiConnected, WifiGotIP, WifiDisconnected, RequestTimer
<1>5. CASE BeginRequest \/ SkipRequest \/ SendRequest
  BY <1>5 DEF TypeOK, BeginRequest, SkipRequest, SendRequest
<1>6. CASE ConnectFails \/ WriteFails \/ ReplyFails
  BY <1>6, FailureType, ResetType DEF ConnectFails, WriteFails, ReplyFails
<1>7. ASSUME NEW state \in HeaterState, AcceptReply(state)
      PROVE  TypeOK'
  BY <1>7, ThresholdAssumption DEF TypeOK, AcceptReply
<1>8. CASE CheckFailures
  BY <1>8 DEF TypeOK, CheckFailures, ApplyDefault
<1>9. CASE UNCHANGED vars
  BY <1>9 DEF TypeOK, vars
<1> QED
  BY <1>2, <1>3, <1>4, <1>5, <1>6, <1>7, <1>8, <1>9 DEF Next, Loop

\* Types are kept for every threshold.
THEOREM FirmwareTypeCorrect == Spec => []TypeOK
  BY InitType, StepType, PTL DEF Spec
-----------------------------------------------------------------------------
(***************************************************************************)
(* The heater in DEFROST.                                                  *)
(***************************************************************************)
\* What restarts the controller, or happens in uncommissioned mode.
LEMMA NotRunning ==
    ASSUME \/ SetupUncommissioned \/ PowerCut \/ Unregister \/ FactoryReset
           \/ Restart \/ Register \/ JoinFails \/ Join \/ Program \/ Registered
           \/ (ConnectFails /\ Reset)
    PROVE  ~running'
<1>1. pc' \in {"off", "unregistered", "programming", "resetting"}
  BY DEF SetupUncommissioned, PowerCut, Unregister, EraseAndRestart,
         FactoryReset, Restart, Register, JoinFails, Join, Program, Registered,
         Reset
<1> QED
  BY <1>1 DEF running

\* The pins follow heater_state wherever the loop is.
LEMMA WireStep ==
    ASSUME WireCarriesState, [Next]_vars
    PROVE  WireCarriesState'
<1> USE DEF WireCarriesState, running
<1>1. CASE Setup
  BY <1>1 DEF Setup, EraseAndRestart, Reset
<1>2. CASE \/ SetupUncommissioned \/ PowerCut \/ Unregister \/ FactoryReset
           \/ Restart \/ Register \/ JoinFails \/ Join \/ Program \/ Registered
           \/ (ConnectFails /\ Reset)
  BY <1>2, NotRunning
<1>3. CASE WifiConnected \/ WifiGotIP \/ WifiDisconnected \/ RequestTimer
  BY <1>3 DEF WifiConnected, WifiGotIP, WifiDisconnected, RequestTimer
<1>4. CASE BeginRequest \/ SkipRequest \/ SendRequest
  BY <1>4 DEF BeginRequest, SkipRequest, SendRequest
<1>5. CASE (ConnectFails /\ RequestFails) \/ WriteFails \/ ReplyFails
  BY <1>5 DEF ConnectFails, WriteFails, ReplyFails, RequestFails
<1>6. ASSUME NEW state \in HeaterState, AcceptReply(state)
      PROVE  WireCarriesState'
  BY <1>6 DEF AcceptReply
<1>7. CASE CheckFailures
  BY <1>7 DEF CheckFailures, ApplyDefault
<1>8. CASE UNCHANGED vars
  BY <1>8 DEF vars
<1> QED
  BY <1>1, <1>2, <1>3, <1>4, <1>5, <1>6, <1>7, <1>8
  DEF Next, Loop, ConnectFails

\* The control wire carries the program's state, from the first write to the
\* pins in setup_commissioned on.
THEOREM WireCorrect == Spec => []WireCarriesState
<1>1. Init => WireCarriesState
  BY DEF Init, WireCarriesState, running
<1>2. WireCarriesState /\ [Next]_vars => WireCarriesState'
  BY WireStep
<1> QED
  BY <1>1, <1>2, PTL DEF Spec

InDefrost ==
    /\ heater_state = DEFAULT_HEATER_STATE
    /\ led_state # "CONNECTED_TO_BASE_STATION"

\* Before the test of the count one more failure may have been counted.
FailureInv ==
    running =>
        /\ request_state_failure_count > REQUEST_STATE_FAILURE_THRESHOLD
           => InDefrost
        /\ request_state_failure_count = REQUEST_STATE_FAILURE_THRESHOLD
              /\ pc # "check"
           => InDefrost

LEMMA FailureStep ==
    ASSUME TypeOK, FailureInv, [Next]_vars
    PROVE  FailureInv'
<1> USE ThresholdAssumption
<1>1. CASE Setup
  BY <1>1 DEF Setup, EraseAndRestart, Reset, FailureInv, InDefrost, running
<1>2. CASE \/ SetupUncommissioned \/ PowerCut \/ Unregister \/ FactoryReset
           \/ Restart \/ Register \/ JoinFails \/ Join \/ Program \/ Registered
           \/ (ConnectFails /\ Reset)
  BY <1>2, NotRunning DEF FailureInv
<1>3. CASE WifiConnected \/ WifiGotIP \/ WifiDisconnected \/ RequestTimer
  BY <1>3 DEF WifiConnected, WifiGotIP, WifiDisconnected, RequestTimer,
              FailureInv, InDefrost, running
<1>4. CASE BeginRequest \/ SkipRequest \/ SendRequest
  BY <1>4 DEF BeginRequest, SkipRequest, SendRequest, FailureInv, InDefrost,
              running
<1>5. CASE (ConnectFails /\ RequestFails) \/ WriteFails \/ ReplyFails
  <2>1. pc \in {"connecting", "waiting"} /\ RequestFails
    BY <1>5 DEF ConnectFails, WriteFails, ReplyFails
  <2>2. request_state_failure_count' > REQUEST_STATE_FAILURE_THRESHOLD
        => request_state_failure_count >= REQUEST_STATE_FAILURE_THRESHOLD
    BY <2>1, CountLemma DEF TypeOK, RequestFails
  <2>3. request_state_failure_count >= REQUEST_STATE_FAILURE_THRESHOLD
        => InDefrost
    BY <2>1 DEF TypeOK, FailureInv, running
  <2>4. InDefrost => InDefrost'
    BY <2>1 DEF RequestFails, InDefrost
  <2> QED
    BY <2>1, <2>2, <2>3, <2>4 DEF RequestFails, FailureInv
<1>6. ASSUME NEW state \in HeaterState, AcceptReply(state)
      PROVE  FailureInv'
  BY <1>6 DEF AcceptReply, FailureInv
<1>7. CASE CheckFailures
  <2>1. CASE AtThreshold
    BY <1>7, <2>1 DEF CheckFailures, ApplyDefault, FailureInv, InDefrost
  <2>2. CASE ~AtThreshold
    BY <1>7, <2>2 DEF CheckFailures, AtThreshold, FailureInv, InDefrost, running
  <2> QED
    BY <2>1, <2>2
<1>8. CASE UNCHANGED vars
  BY <1>8 DEF vars, FailureInv, InDefrost, running
<1> QED
  BY <1>1, <1>2, <1>3, <1>4, <1>5, <1>6, <1>7, <1>8
  DEF Next, Loop, ConnectFails

LEMMA FailuresCounted == Spec => []FailureInv
<1>1. Init => FailureInv
  BY DEF Init, FailureInv, running
<1>2. TypeOK /\ FailureInv /\ [Next]_vars => FailureInv'
  BY FailureStep
<1> QED
  BY <1>1, <1>2, FirmwareTypeCorrect, PTL DEF Spec

\* After a threshold of failed requests in a row the heater is in DEFROST, on
\* its pins too, and stays there until a request succeeds or a restart.
THEOREM FailuresDefrost == Spec => []FailuresMeanDefrost
<1>1. TypeOK /\ FailureInv /\ WireCarriesState => FailuresMeanDefrost
  BY ThresholdAssumption
  DEF TypeOK, FailureInv, WireCarriesState, FailuresMeanDefrost, InDefrost,
      running
<1> QED
  BY <1>1, FirmwareTypeCorrect, FailuresCounted, WireCorrect, PTL
-----------------------------------------------------------------------------
(***************************************************************************)
(* The settings in flash.                                                  *)
(***************************************************************************)
\* What is written, and what is about to be, was checked by /register; only
\* whole settings let the sketch go to loop_commissioned.
SettingsInv ==
    /\ eeprom.fields > 0 => eeprom.params = "good"
    /\ joining_wifi_network \/ pc = "programming" => registration = "good"
    /\ running => eeprom.fields = Fields

LEMMA SettingsStep ==
    ASSUME TypeOK, SettingsInv, [Next]_vars
    PROVE  SettingsInv'
<1> USE DEF SettingsInv
<1> eeprom \in Eeprom
  BY DEF TypeOK, SettingsTypeOK
<1>1. Blank.fields = 0
  BY DEF Blank
<1>2. ASSUME Reset, UNCHANGED eeprom \/ eeprom' = Blank
      PROVE  SettingsInv'
  BY <1>1, <1>2 DEF Reset, running
<1>3. CASE Setup \/ Unregister
  BY <1>2, <1>3
  DEF Setup, Unregister, EraseAndRestart, settingsVars, is_valid, Magic0,
      Magic1, running
<1>4. CASE PowerCut \/ Restart \/ JoinFails \/ Registered
  BY <1>2, <1>4 DEF PowerCut, Restart, JoinFails, Registered
<1>5. CASE Register
  BY <1>2, <1>5 DEF Register, check_params, running
<1>6. CASE Join \/ FactoryReset
  BY <1>1, <1>6 DEF Join, FactoryReset, running
<1>7. CASE Program
  BY <1>2, <1>7 DEF Program, Eeprom, running
<1>8. CASE \/ SetupUncommissioned \/ WifiConnected \/ WifiGotIP
           \/ WifiDisconnected \/ RequestTimer \/ UNCHANGED vars
           \/ (Loop /\ ~(ConnectFails /\ Reset))
  <2>1. UNCHANGED settingsVars
    BY <1>8, OthersKeepSettings
  <2>2. pc' # "programming" \/ pc = "programming"
    BY <1>8
    DEF SetupUncommissioned, WifiConnected, WifiGotIP, WifiDisconnected,
        RequestTimer, vars, Loop, BeginRequest, SkipRequest, ConnectFails,
        SendRequest, WriteFails, ReplyFails, RequestFails, AcceptReply,
        CheckFailures
  <2>3. running' => running
    BY <1>8
    DEF SetupUncommissioned, WifiConnected, WifiGotIP, WifiDisconnected,
        RequestTimer, vars, Loop, BeginRequest, SkipRequest, ConnectFails,
        SendRequest, WriteFails, ReplyFails, RequestFails, AcceptReply,
        CheckFailures, running
  <2> QED
    BY <2>1, <2>2, <2>3 DEF settingsVars
<1>9. CASE ConnectFails /\ Reset
  BY <1>2, <1>9 DEF ConnectFails, RequestFails, settingsVars
<1> QED
  BY <1>3, <1>4, <1>5, <1>6, <1>7, <1>8, <1>9 DEF Next

LEMMA SettingsCorrect == Spec => []SettingsInv
<1>1. Init => SettingsInv
  BY DEF Init, SettingsInv, Blank, running
<1>2. TypeOK /\ SettingsInv /\ [Next]_vars => SettingsInv'
  BY SettingsStep
<1> QED
  BY <1>1, <1>2, FirmwareTypeCorrect, PTL DEF Spec

\* Wherever power is cut while the settings are written, the controller only
\* runs on whole settings that were checked.
THEOREM WholeSettings == Spec => []RunsOnWholeSettings
<1>1. TypeOK /\ SettingsInv => RunsOnWholeSettings
  <2> SUFFICES ASSUME eeprom \in Eeprom, SettingsInv, running
               PROVE  eeprom = [fields |-> Fields, params |-> "good"]
    BY DEF TypeOK, SettingsTypeOK, RunsOnWholeSettings
  <2>1. eeprom.fields = Fields /\ eeprom.params = "good"
    BY DEF SettingsInv, Fields
  <2> QED
    BY <2>1 DEF Eeprom
<1> QED
  BY <1>1, FirmwareTypeCorrect, SettingsCorrect, PTL

\* A start never erases settings that are valid.
THEOREM StartKeeps == Spec => StartKeepsSettings
<1>1. ASSUME TypeOK, SettingsInv, [Next]_vars, pc = "off", is_valid(eeprom)
      PROVE  UNCHANGED eeprom
  <2>1. settings_check(eeprom)
    <3>1. eeprom.fields \in 0 .. Fields /\ eeprom.fields >= 1
      BY <1>1 DEF is_valid, Magic0, TypeOK, SettingsTypeOK, Eeprom
    <3>2. eeprom.params = "good"
      BY <1>1, <3>1 DEF SettingsInv, Fields
    <3> QED
      BY <1>1, <3>2 DEF settings_check
  <2>2. CASE Setup
    BY <2>1, <2>2 DEF Setup, settingsVars
  <2>3. CASE \/ SetupUncommissioned \/ WifiConnected \/ WifiGotIP
             \/ WifiDisconnected \/ RequestTimer \/ UNCHANGED vars
             \/ (Loop /\ ~(ConnectFails /\ Reset))
    BY <2>3, OthersKeepSettings DEF settingsVars
  <2>4. CASE ConnectFails /\ Reset
    BY <1>1, <2>4 DEF ConnectFails
  <2>5. CASE \/ PowerCut \/ Unregister \/ FactoryReset \/ Restart \/ Register
             \/ JoinFails \/ Join \/ Program \/ Registered
    BY <1>1, <2>5
    DEF PowerCut, Unregister, FactoryReset, Restart, Register, JoinFails, Join,
        Program, Registered, running
  <2> QED
    BY <1>1, <2>2, <2>3, <2>4, <2>5 DEF Next
<1>2. ASSUME TypeOK, SettingsInv, [Next]_vars
      PROVE  [pc = "off" /\ is_valid(eeprom) => UNCHANGED eeprom]_vars
  BY <1>1, <1>2
<1> QED
  BY <1>2, FirmwareTypeCorrect, SettingsCorrect, PTL
  DEF Spec, StartKeepsSettings
=============================================================================
