------------------------- MODULE HeatingSystemProofs -------------------------
(***************************************************************************)
(* Proofs about HeatingSystem, for all heaters, descriptors, states and    *)
(* thresholds.  Its parts keep what was proved of them alone, because      *)
(* every step of the system is a step of each part or leaves it alone;     *)
(* what only the whole has is proved from their invariants.                *)
(***************************************************************************)
EXTENDS HeatingSystem, HeaterConnectionsProofs

FP == INSTANCE HeaterFirmwareProofs WITH heater_state <- heater_state[watched]

\* HeaterFirmwareProofs speaks of the same program.
LEMMA SameProgram ==
    /\ F!Spec <=> FP!Spec
    /\ F!TypeOK <=> FP!TypeOK
    /\ F!HeaterState = HeaterState
    /\ F!DEFAULT_HEATER_STATE = FALLBACK_HEATER_STATE
    /\ FP!DEFAULT_HEATER_STATE = FALLBACK_HEATER_STATE
    /\ \A state : F!OutputsFor(state) = FP!OutputsFor(state)
  BY DEF
  HeaterState, FALLBACK_HEATER_STATE,
  F!HeaterState, F!FALLBACK_HEATER_STATE, F!DEFAULT_HEATER_STATE, F!OutputsFor,
  F!NotDriven, F!Params, F!NoParams, F!Fields, F!Eeprom, F!Blank, F!Magic0,
  F!Magic1, F!is_valid, F!check_params, F!settings_check, F!running, F!attached,
  F!settingsVars, F!vars, F!Reset, F!EraseAndRestart, F!Setup,
  F!SetupUncommissioned, F!PowerCut, F!Unregister, F!FactoryReset, F!Restart,
  F!Register, F!JoinFails, F!Join, F!Program, F!Registered, F!WifiConnected, F!WifiGotIP,
  F!WifiDisconnected, F!RequestTimer, F!BeginRequest, F!SkipRequest,
  F!CountFailure, F!RequestFails, F!ConnectFails, F!SendRequest, F!WriteFails,
  F!ReplyFails, F!AcceptReply, F!AtThreshold, F!ApplyDefault, F!CheckFailures,
  F!Loop, F!Next, F!FlagsTypeOK, F!SettingsTypeOK, F!TypeOK, F!Init, F!Spec,
  FP!HeaterState, FP!FALLBACK_HEATER_STATE, FP!DEFAULT_HEATER_STATE,
  FP!OutputsFor, FP!NotDriven, FP!Params, FP!NoParams, FP!Fields, FP!Eeprom,
  FP!Blank, FP!Magic0, FP!Magic1, FP!is_valid, FP!check_params,
  FP!settings_check, FP!running, FP!attached, FP!settingsVars, FP!vars, FP!Reset,
  FP!EraseAndRestart, FP!Setup, FP!SetupUncommissioned, FP!PowerCut,
  FP!Unregister, FP!FactoryReset, FP!Restart, FP!Register, FP!JoinFails, FP!Join, FP!Program,
  FP!Registered, FP!WifiConnected, FP!WifiGotIP, FP!WifiDisconnected,
  FP!RequestTimer, FP!BeginRequest, FP!SkipRequest, FP!CountFailure,
  FP!RequestFails, FP!ConnectFails, FP!SendRequest, FP!WriteFails,
  FP!ReplyFails, FP!AcceptReply, FP!AtThreshold, FP!ApplyDefault,
  FP!CheckFailures, FP!Loop, FP!Next, FP!FlagsTypeOK, FP!SettingsTypeOK,
  FP!TypeOK, FP!Init, FP!Spec
-----------------------------------------------------------------------------
(***************************************************************************)
(* The parts.                                                              *)
(***************************************************************************)
\* Every step of the system is one of the connections, or leaves them alone.
LEMMA ConnectionsStep == [SystemNext]_systemVars => [Next]_vars
<1> SUFFICES ASSUME [SystemNext]_systemVars PROVE [Next]_vars
  OBVIOUS
<1>1. CASE Controller
  <2>1. Heater(watched) \/ UNCHANGED vars
    BY <1>1, Zenon
    DEF Controller, Alone, RequestTimer, BeginRequest, OpenConnection,
        NextAttempt, WriteRequest, RequestArrives, AcceptReply, RequestFails,
        CheckFailures, Reset, Heater
  <2> QED
    BY <2>1, WatchedAssumption DEF Next
<1>2. ASSUME NEW h \in Heaters, Neighbour(h)
      PROVE  [Next]_vars
  <2>1. Heater(h)
    BY <1>2 DEF Neighbour, Heater
  <2> QED
    BY <2>1 DEF Next
<1>3. CASE BaseStation
  <2>1. CASE Serve
    BY <2>1, Zenon DEF Serve, Next
  <2>2. ASSUME NEW state \in Targets, CommandAll(state)
        PROVE  Next
    BY <2>2, Zenon DEF CommandAll, Next
  <2>3. ASSUME NEW h \in Heaters, NEW state \in Targets, CommandOne(h, state)
        PROVE  Next
    BY <2>3, Zenon DEF CommandOne, Next
  <2>4. CASE StopStation
    BY <2>4, Zenon DEF StopStation, Next
  <2>5. CASE SaveState \/ StartStation
    BY <2>5 DEF SaveState, StartStation
  <2> QED
    BY <1>3, <2>1, <2>2, <2>3, <2>4, <2>5 DEF BaseStation
<1>4. CASE UNCHANGED systemVars
  BY <1>4 DEF systemVars
<1> QED
  BY <1>1, <1>2, <1>3, <1>4 DEF SystemNext

LEMMA ConnectionsInvariants == SystemSpec => Spec /\ []DescriptorsInv /\ []CurrentInv
<1>1. SystemInit => Init
  BY DEF SystemInit
<1>2. SystemSpec => Spec
  BY <1>1, ConnectionsStep, PTL DEF SystemSpec, Spec
<1>3. Spec => []DescriptorsInv /\ []CurrentInv
  BY DescriptorsInit, CurrentInit, DescriptorsStep, CurrentStep, PTL DEF Spec
<1> QED
  BY <1>2, <1>3, PTL

\* What is not done by a heater leaves alone what the heaters do.
LEMMA ServeKeeps ==
    ASSUME Serve
    PROVE  UNCHANGED <<controller, station, since, target, heater_state, asked>>
<1>1. UNCHANGED <<target, heater_state, asked>>
  BY Zenon
  DEF Serve, Accept, HandleNewDevice, HandleConnections, PollConnections,
      NextConnection, ReadRequest, ReadEnd, EraseConnection, ReadError,
      FinishConnections, checkStaleConnections, LockStale, CloseStale,
      FinishStale, Minute, PeerResets
<1> QED
  BY <1>1 DEF Serve

\* A neighbour only changes what it does itself.
LEMMA NeighbourKeeps ==
    ASSUME HeatersTypeOK, NEW h \in Heaters \ {watched}, Neighbour(h)
    PROVE  /\ UNCHANGED <<controller, station, since, target>>
           /\ heater_state'[watched] = heater_state[watched]
           /\ asked'[watched] = asked[watched]
<1>1. UNCHANGED <<controller, station, since>>
  BY DEF Neighbour
<1>2. /\ UNCHANGED target
      /\ \/ UNCHANGED heater_state
         \/ \E state : heater_state' = [heater_state EXCEPT ![h] = state]
      /\ \/ UNCHANGED asked
         \/ \E states : asked' = [asked EXCEPT ![h] = states]
  BY DEF Neighbour, Connect, SendRequest, SendRest, ReceiveReply, GiveUp, PowerCut
<1> QED
  BY <1>1, <1>2, WatchedAssumption DEF HeatersTypeOK

\* Every step of the system is one of the controller's program, or leaves it
\* alone: no neighbour and no base station changes what the heater does.
LEMMA ControllerStep ==
    ASSUME HeatersTypeOK, [SystemNext]_systemVars
    PROVE  [F!Next]_F!vars
<1>1. CASE Controller
  <2>1. CASE Alone
    BY <2>1, Zenon DEF Alone, F!Next, F!Loop
  <2>2. CASE RequestTimer \/ BeginRequest \/ WriteRequest \/ CheckFailures \/ Reset
    BY <2>2, Zenon
    DEF RequestTimer, BeginRequest, WriteRequest, CheckFailures, Reset, F!Next,
        F!Loop
  <2>3. CASE AcceptReply
    BY <2>3, SameProgram DEF AcceptReply, F!Next, F!Loop
  <2>4. CASE RequestFails
    BY <2>4, Zenon DEF RequestFails, F!Next, F!Loop
  <2>5. CASE OpenConnection \/ NextAttempt \/ RequestArrives
    <3>1. UNCHANGED <<controller, heater_state>>
      BY <2>5
      DEF OpenConnection, NextAttempt, RequestArrives, Connect, SendRequest,
          SendRest
    <3> QED
      BY <3>1 DEF controller, F!vars, F!settingsVars
  <2> QED
    BY <1>1, <2>1, <2>2, <2>3, <2>4, <2>5 DEF Controller
<1>2. ASSUME UNCHANGED controller, heater_state'[watched] = heater_state[watched]
      PROVE  UNCHANGED F!vars
  BY <1>2 DEF controller, F!vars, F!settingsVars
<1>3. ASSUME NEW h \in Heaters \ {watched}, Neighbour(h)
      PROVE  UNCHANGED F!vars
  BY <1>2, <1>3, NeighbourKeeps
<1>4. CASE BaseStation
  <2>1. UNCHANGED <<controller, heater_state>>
    <3>1. CASE Serve
      BY <3>1, ServeKeeps
    <3>2. CASE BaseStation /\ ~Serve
      BY <3>2
      DEF BaseStation, CommandAll, CommandOne, SaveState, StopStation,
          StartStation, SetTarget, Restart, vars
    <3> QED
      BY <1>4, <3>1, <3>2
  <2> QED
    BY <1>2, <2>1
<1>5. CASE UNCHANGED systemVars
  BY <1>2, <1>5 DEF systemVars, vars
<1> QED
  BY <1>1, <1>3, <1>4, <1>5 DEF SystemNext

LEMMA ControllerInvariants ==
    SystemSpec => F!Spec /\ []F!TypeOK /\ []FP!FailureInv /\ []FP!WireCarriesState
<1>1. SystemInit => F!Init
  BY DEF SystemInit
<1>2. DescriptorsInv /\ [SystemNext]_systemVars => [F!Next]_F!vars
  BY ControllerStep DEF DescriptorsInv
<1>3. SystemSpec => F!Spec
  BY <1>1, <1>2, ConnectionsInvariants, PTL DEF SystemSpec, F!Spec
<1>4. FP!TypeOK => F!TypeOK
  BY SameProgram
<1>5. F!Spec => FP!Spec
  BY SameProgram
<1> QED
  BY <1>3, <1>4, <1>5, ThresholdAssumption, FP!FirmwareTypeCorrect,
     FP!FailuresCounted, FP!WireCorrect, PTL

\* Everything the base station does to the policy is a step of HeatingPolicy:
\* heaters are told what a command set, what a fallback set, or what was saved.
LEMMA PolicyStep ==
    ASSUME HeatersTypeOK, [SystemNext]_systemVars
    PROVE  [P!Next]_P!policyVars
<1>1. ASSUME UNCHANGED <<station, target>>
      PROVE  UNCHANGED P!policyVars
  BY <1>1 DEF station, P!policyVars
<1>2. CASE Controller
  <2>1. UNCHANGED <<station, target>>
    BY <1>2, Zenon
    DEF Controller, Alone, RequestTimer, BeginRequest, OpenConnection,
        NextAttempt, WriteRequest, RequestArrives, AcceptReply, RequestFails,
        CheckFailures, Reset, Connect, SendRequest, SendRest, ReceiveReply,
        GiveUp, PowerCut, vars
  <2> QED
    BY <1>1, <2>1
<1>3. ASSUME NEW h \in Heaters \ {watched}, Neighbour(h)
      PROVE  UNCHANGED P!policyVars
  BY <1>1, <1>3, NeighbourKeeps
<1>4. CASE BaseStation
  <2>1. CASE Serve
    BY <1>1, <2>1, ServeKeeps
  <2>2. ASSUME NEW state \in Targets,
               CommandAll(state) \/ \E h \in Heaters : CommandOne(h, state)
        PROVE  P!Next
    <3>1. state \in P!HeaterState
      BY TargetsLemma DEF HeaterState, P!HeaterState
    <3> QED
      BY <2>2, <3>1 DEF CommandAll, CommandOne, P!Next
  <2>3. CASE SaveState \/ StopStation \/ StartStation
    BY <2>3, Zenon DEF SaveState, StopStation, StartStation, P!Next
  <2> QED
    BY <1>4, <2>1, <2>2, <2>3 DEF BaseStation
<1>5. CASE UNCHANGED systemVars
  BY <1>1, <1>5 DEF systemVars, vars
<1> QED
  BY <1>2, <1>3, <1>4, <1>5 DEF SystemNext

LEMMA PolicyTypes == P!Spec => []P!TypeOK
<1> USE DEF P!TypeOK, P!Policy, P!Everywhere
<1>1. P!Init => P!TypeOK
  BY DEF P!Init, P!FALLBACK_HEATER_STATE, P!HeaterState
<1>2. P!TypeOK /\ [P!Next]_P!policyVars => P!TypeOK'
  BY DEF P!Next, P!SetAll, P!SetOne, P!Save, P!Lose, P!Stop, P!Restart,
         P!policyVars, P!FALLBACK_HEATER_STATE, P!HeaterState
<1> QED
  BY <1>1, <1>2, PTL DEF P!Spec

LEMMA PolicyInvariants == SystemSpec => P!Spec /\ []P!TypeOK
<1>1. SystemInit => P!Init
  BY DEF SystemInit
<1>2. DescriptorsInv /\ [SystemNext]_systemVars => [P!Next]_P!policyVars
  BY PolicyStep DEF DescriptorsInv
<1>3. SystemSpec => P!Spec
  BY <1>1, <1>2, ConnectionsInvariants, PTL DEF SystemSpec, P!Spec
<1> QED
  BY <1>3, PolicyTypes, PTL

\* The system implements its parts: what HeaterConnections, HeaterFirmware and
\* HeatingPolicy promise alone, they promise together.
THEOREM SystemKeepsParts == SystemSpec => Spec /\ F!Spec /\ P!Spec
  BY ConnectionsInvariants, ControllerInvariants, PolicyInvariants, PTL
-----------------------------------------------------------------------------
(***************************************************************************)
(* Types.                                                                  *)
(***************************************************************************)
SinceTypeOK == since \in [HeaterState -> 0 .. Longest]

LEMMA LongestLemma == Longest \in Nat /\ Longest >= 1
  BY ThresholdAssumption DEF Longest

LEMMA SinceStep ==
    ASSUME SinceTypeOK, [SystemNext]_systemVars
    PROVE  SinceTypeOK'
<1>1. ASSUME UNCHANGED since \/ Asks \/ Told
      PROVE  SinceTypeOK'
  BY <1>1, LongestLemma DEF SinceTypeOK, Asks, Told
<1>2. UNCHANGED since \/ Asks \/ Told
  BY Zenon
  DEF SystemNext, Controller, Alone, RequestTimer, BeginRequest, OpenConnection,
      NextAttempt, WriteRequest, RequestArrives, AcceptReply, RequestFails,
      CheckFailures, Reset, Neighbour, BaseStation, Serve, CommandAll,
      CommandOne, SaveState, StopStation, StartStation, systemVars
<1> QED
  BY <1>1, <1>2

LEMMA SinceType == SystemSpec => []SinceTypeOK
<1>1. SystemInit => SinceTypeOK
  BY LongestLemma DEF SystemInit, SinceTypeOK
<1> QED
  BY <1>1, SinceStep, PTL DEF SystemSpec

\* Types are kept by the parts and by the whole.
THEOREM SystemTypeCorrect == SystemSpec => []SystemTypeOK
<1>1. DescriptorsInv /\ F!TypeOK /\ P!TypeOK /\ SinceTypeOK => SystemTypeOK
  BY TypeParts DEF DescriptorsInv, SinceTypeOK, SystemTypeOK
<1> QED
  BY <1>1, ConnectionsInvariants, ControllerInvariants, PolicyInvariants,
     SinceType, PTL
-----------------------------------------------------------------------------
(***************************************************************************)
(* How far the heater may lag behind what it is to be told.                *)
(***************************************************************************)
\* A request that has begun and is neither answered nor counted as a failure.
Pending == IF pc \in {"connecting", "waiting"} THEN 1 ELSE 0

\* A heater only waits for a reply while its program does; whatever that reply
\* is, it was to be told so after the request began.  A state it keeps is at
\* most one request old for each failure since the last reply, and one for the
\* request it is making.
LagInv ==
    /\ since[target[watched]] = 0
    /\ pc # "waiting" => asked[watched] = {}
    /\ \A state \in asked[watched] : since[state] = 0
    /\ ~F!running /\ pc # "resetting"
       => heater_state[watched] = FALLBACK_HEATER_STATE
    /\ F!running /\ heater_state[watched] # FALLBACK_HEATER_STATE
       => since[heater_state[watched]] <= request_state_failure_count + Pending

\* What the proofs below assume of the state.
Types == HeatersTypeOK /\ F!TypeOK /\ SinceTypeOK

LEMMA InitLag == SystemInit => LagInv
  BY WatchedAssumption
  DEF SystemInit, Init, F!Init, F!running, F!DEFAULT_HEATER_STATE,
      F!FALLBACK_HEATER_STATE, LagInv, FALLBACK_HEATER_STATE, HeaterState

\* Steps that change no state, no target, no history, and the program only
\* outside its loop or without a request.
LEMMA QuietLag ==
    ASSUME LagInv, UNCHANGED since,
           target'[watched] = target[watched],
           asked'[watched] = asked[watched],
           heater_state'[watched] = heater_state[watched],
           \/ ~F!running
           \/ pc = "loop" /\ pc' = "resetting"
           \/ (/\ UNCHANGED request_state_failure_count
               /\ F!running' /\ Pending' = Pending
               /\ pc' # "waiting" => pc # "waiting"),
           ~F!running => pc' # "waiting" \/ UNCHANGED pc,
           pc = "resetting" => UNCHANGED pc
    PROVE  LagInv'
  BY DEF LagInv, F!running

\* After a reset, or a fall back, the heater is in DEFROST and asks for nothing.
LEMMA DefrostLag ==
    ASSUME Types, LagInv, UNCHANGED <<since, target>>,
           asked'[watched] = {},
           heater_state'[watched] = FALLBACK_HEATER_STATE
    PROVE  LagInv'
  BY DEF LagInv

LEMMA AloneLag ==
    ASSUME Types, LagInv, Alone
    PROVE  LagInv'
<1>0. UNCHANGED <<vars, since, target, asked, heater_state>>
  BY DEF Alone, vars
<1>1. CASE F!running
  <2>1. /\ UNCHANGED request_state_failure_count
        /\ UNCHANGED pc \/ (pc = "loop" /\ pc' \in {"check", "resetting"})
    BY <1>1
    DEF Alone, F!Setup, F!SetupUncommissioned, F!Register, F!JoinFails, F!Join,
        F!Program, F!Registered, F!WifiConnected, F!WifiGotIP,
        F!WifiDisconnected, F!SkipRequest, F!FactoryReset, F!running
  <2> QED
    BY <1>0, <1>1, <2>1, QuietLag DEF F!running, Pending
<1>2. CASE ~F!running
  <2>1. /\ UNCHANGED pc \/ pc' # "waiting"
        /\ pc = "resetting" => UNCHANGED pc
    BY <1>2
    DEF Alone, F!Setup, F!SetupUncommissioned, F!Register, F!JoinFails, F!Join,
        F!Program, F!Registered, F!WifiConnected, F!WifiGotIP,
        F!WifiDisconnected, F!SkipRequest, F!FactoryReset, F!EraseAndRestart,
        F!Reset, F!running
  <2> QED
    BY <1>0, <1>2, <2>1, QuietLag
<1> QED
  BY <1>1, <1>2

LEMMA BeginLag ==
    ASSUME Types, LagInv, BeginRequest
    PROVE  LagInv'
<1>1. /\ pc = "loop" /\ pc' = "connecting"
      /\ UNCHANGED <<target, asked, heater_state, request_state_failure_count>>
      /\ request_state_failure_count \in Nat
      /\ target[watched] \in HeaterState /\ heater_state[watched] \in HeaterState
  BY WatchedAssumption
  DEF BeginRequest, F!BeginRequest, vars, Types, HeatersTypeOK, F!TypeOK
<1>2. /\ since'[target[watched]] = 0
      /\ \A state \in HeaterState : since'[state] <= since[state] + 1
  BY <1>1, LongestLemma DEF BeginRequest, Asks, Types, SinceTypeOK
<1>3. since[heater_state[watched]] \in Nat /\ since'[heater_state[watched]] \in Nat
  BY <1>1, LongestLemma DEF Types, SinceTypeOK, BeginRequest, Asks
<1> QED
  BY <1>1, <1>2, <1>3 DEF LagInv, F!running, Pending

LEMMA FailsLag ==
    ASSUME Types, LagInv, RequestFails \/ CheckFailures \/ Reset
    PROVE  LagInv'
<1>0. /\ UNCHANGED <<since, target>> /\ asked'[watched] = {}
      /\ GiveUp(watched) \/ PowerCut(watched)
  BY WatchedAssumption
  DEF RequestFails, CheckFailures, Reset, GiveUp, PowerCut, Types, HeatersTypeOK
<1>1. CASE PowerCut(watched)
  <2>1. heater_state'[watched] = FALLBACK_HEATER_STATE
    BY <1>1, WatchedAssumption DEF PowerCut, Types, HeatersTypeOK
  <2> QED
    BY <1>0, <2>1, DefrostLag
<1>2. CASE ~PowerCut(watched) /\ RequestFails
  <2>1. /\ pc \in {"connecting", "waiting"} /\ pc' = "check"
        /\ heater_state'[watched] = heater_state[watched]
        /\ F!CountFailure
    BY <1>2 DEF RequestFails, F!WriteFails, F!ReplyFails, F!RequestFails
  <2>2. /\ request_state_failure_count \in 0 .. Longest
        /\ heater_state[watched] \in HeaterState
        /\ since[heater_state[watched]] \in 0 .. Longest
    BY WatchedAssumption
    DEF Types, F!TypeOK, HeatersTypeOK, SinceTypeOK, Longest
  <2>3. request_state_failure_count' = request_state_failure_count + 1
        \/ request_state_failure_count' = Longest
    BY <2>1, <2>2, ThresholdAssumption DEF F!CountFailure, Longest
  <2> QED
    BY <1>0, <2>1, <2>2, <2>3, LongestLemma DEF LagInv, F!running, Pending
<1>3. CASE ~PowerCut(watched) /\ CheckFailures
  <2>1. /\ pc = "check" /\ pc' = "loop"
        /\ UNCHANGED request_state_failure_count
        /\ \/ heater_state'[watched] = heater_state[watched]
           \/ heater_state'[watched] = FALLBACK_HEATER_STATE
    BY <1>3, SameProgram DEF CheckFailures, F!CheckFailures, F!ApplyDefault
  <2> QED
    BY <1>0, <2>1 DEF LagInv, F!running, Pending
<1>4. CASE ~PowerCut(watched) /\ Reset
  BY <1>4 DEF Reset
<1> QED
  BY <1>1, <1>2, <1>3, <1>4

LEMMA ReplyLag ==
    ASSUME Types, LagInv, DescriptorsInv, CurrentInv, AcceptReply
    PROVE  LagInv'
<1>1. /\ UNCHANGED <<since, target>> /\ asked'[watched] = {}
      /\ pc' = "check" /\ request_state_failure_count' = 0
  BY WatchedAssumption
  DEF AcceptReply, ReceiveReply, F!AcceptReply, Types, HeatersTypeOK
<1>2. since[heater_state'[watched]] = 0
  BY WatchedAssumption, ReplyInTime DEF AcceptReply, LagInv
<1> QED
  BY <1>1, <1>2 DEF LagInv, F!running, Pending

\* What makes a connection or moves a request on.
LEMMA ConnectionLag ==
    ASSUME Types, LagInv,
           \/ RequestTimer \/ OpenConnection \/ NextAttempt \/ WriteRequest
           \/ RequestArrives
    PROVE  LagInv'
<1>1. CASE RequestTimer
  <2>1. UNCHANGED <<vars, since, pc, request_state_failure_count>>
    BY <1>1 DEF RequestTimer, F!RequestTimer
  <2> QED
    BY <2>1 DEF vars, LagInv, F!running, Pending
<1>2. CASE OpenConnection
  <2>1. UNCHANGED <<since, target, asked, heater_state, pc,
                    request_state_failure_count>>
    BY <1>2 DEF OpenConnection, Connect, controller
  <2> QED
    BY <2>1 DEF LagInv, F!running, Pending
<1>3. CASE NextAttempt
  <2>1. /\ UNCHANGED <<since, target, heater_state, pc,
                       request_state_failure_count>>
        /\ asked'[watched] = {}
    BY <1>3, WatchedAssumption
    DEF NextAttempt, GiveUp, controller, Types, HeatersTypeOK
  <2> QED
    BY <2>1 DEF LagInv, F!running, Pending
<1>4. CASE WriteRequest
  <2>1. /\ UNCHANGED <<since, target, asked, heater_state,
                       request_state_failure_count>>
        /\ pc = "connecting" /\ pc' = "waiting"
    BY <1>4 DEF WriteRequest, vars, F!SendRequest
  <2> QED
    BY <2>1 DEF LagInv, F!running, Pending
<1>5. CASE RequestArrives
  <2>1. /\ UNCHANGED <<since, target, heater_state, pc,
                       request_state_failure_count>>
        /\ pc = "waiting"
        /\ asked'[watched] \in {asked[watched], {target[watched]}}
    BY <1>5, WatchedAssumption
    DEF RequestArrives, SendRequest, SendRest, controller, Types, HeatersTypeOK
  <2> QED
    BY <2>1 DEF LagInv, F!running, Pending
<1> QED
  BY <1>1, <1>2, <1>3, <1>4, <1>5

\* A new target, from a command, a fallback or the state file.
LEMMA TargetLag ==
    ASSUME Types, LagInv, NEW new, new[watched] \in HeaterState,
           Retarget(new), Told, UNCHANGED <<controller, heater_state>>
    PROVE  LagInv'
<1>1. /\ target'[watched] = new[watched]
      /\ asked'[watched] = IF asked[watched] = {} THEN {}
                           ELSE asked[watched] \cup {new[watched]}
  BY WatchedAssumption DEF Retarget
<1>2. /\ since'[new[watched]] = 0
      /\ \A state \in HeaterState : since'[state] \in {0, since[state]}
  BY <1>1 DEF Told, Types, SinceTypeOK
<1>3. heater_state[watched] \in HeaterState /\ asked[watched] \subseteq HeaterState
  BY WatchedAssumption DEF Types, HeatersTypeOK
<1>4. request_state_failure_count + Pending >= 0
  BY ThresholdAssumption DEF Types, F!TypeOK, Pending
<1>5. UNCHANGED <<pc, request_state_failure_count>>
  BY DEF controller
<1> QED
  BY <1>1, <1>2, <1>3, <1>4, <1>5 DEF LagInv, F!running, Pending

LEMMA StationLag ==
    ASSUME Types, LagInv, BaseStation
    PROVE  LagInv'
<1>1. ASSUME UNCHANGED <<since, target, asked, heater_state, controller>>
      PROVE  LagInv'
  BY <1>1 DEF controller, LagInv, F!running, Pending
<1>2. CASE Serve
  BY <1>1, <1>2, ServeKeeps
<1>3. CASE SaveState \/ StartStation
  BY <1>1, <1>3 DEF SaveState, StartStation, vars
<1>4. ASSUME NEW hs, NEW state \in Targets, SetTarget(hs, state), Told,
             UNCHANGED controller
      PROVE  LagInv'
  <2> DEFINE new == [h \in Heaters |-> IF h \in hs THEN state ELSE target[h]]
  <2>1. new[watched] \in HeaterState
    BY WatchedAssumption, TargetsLemma DEF Types, HeatersTypeOK
  <2>2. Retarget(new) /\ UNCHANGED heater_state
    BY <1>4 DEF SetTarget
  <2> QED
    BY <1>4, <2>1, <2>2, TargetLag
<1>5. CASE StopStation
  <2>1. PICK new \in [Heaters -> Targets] : Retarget(new)
    BY <1>5 DEF StopStation, Restart
  <2>2. new[watched] \in HeaterState
    BY WatchedAssumption, TargetsLemma
  <2>3. Told /\ UNCHANGED <<controller, heater_state>>
    BY <1>5 DEF StopStation, Restart
  <2> QED
    BY <2>1, <2>2, <2>3, TargetLag
<1> QED
  BY <1>2, <1>3, <1>4, <1>5 DEF BaseStation, CommandAll, CommandOne

LEMMA LagStep ==
    ASSUME Types, DescriptorsInv, CurrentInv, LagInv, [SystemNext]_systemVars
    PROVE  LagInv'
<1>1. CASE Controller
  BY <1>1, AloneLag, BeginLag, FailsLag, ReplyLag, ConnectionLag DEF Controller
<1>2. ASSUME NEW h \in Heaters \ {watched}, Neighbour(h)
      PROVE  LagInv'
  <2>1. /\ UNCHANGED <<controller, since, target>>
        /\ heater_state'[watched] = heater_state[watched]
        /\ asked'[watched] = asked[watched]
    BY <1>2, NeighbourKeeps DEF Types
  <2> QED
    BY <2>1 DEF controller, LagInv, F!running, Pending
<1>3. CASE BaseStation
  BY <1>3, StationLag
<1>4. CASE UNCHANGED systemVars
  BY <1>4 DEF systemVars, vars, controller, LagInv, F!running, Pending
<1> QED
  BY <1>1, <1>2, <1>3, <1>4 DEF SystemNext

LEMMA LagInvariant == SystemSpec => []LagInv
<1>1. DescriptorsInv /\ F!TypeOK /\ SinceTypeOK => Types
  BY DEF DescriptorsInv, Types
<1>2. Types /\ DescriptorsInv /\ CurrentInv /\ LagInv /\ [SystemNext]_systemVars
      => LagInv'
  BY LagStep
<1> QED
  BY <1>1, <1>2, InitLag, ConnectionsInvariants, ControllerInvariants, SinceType,
     PTL DEF SystemSpec

\* Between two requests the pins are at most as far behind as requests failed.
THEOREM PinsAreFollowing == SystemSpec => []PinsFollowTarget
<1>1. ASSUME DescriptorsInv, F!TypeOK, FP!WireCarriesState, LagInv, pc = "loop"
      PROVE  PinsLag(request_state_failure_count)
  <2>1. heater_state[watched] \in HeaterState
    BY <1>1, WatchedAssumption DEF DescriptorsInv, HeatersTypeOK
  <2>2. outputs = F!OutputsFor(heater_state[watched])
    BY <1>1, SameProgram DEF FP!WireCarriesState, FP!running
  <2>3. \/ heater_state[watched] = FALLBACK_HEATER_STATE
        \/ since[heater_state[watched]] <= request_state_failure_count
    BY <1>1, ThresholdAssumption DEF F!TypeOK, LagInv, F!running, Pending
  <2> QED
    BY <2>1, <2>2, <2>3 DEF PinsLag
<1>2. DescriptorsInv /\ F!TypeOK /\ FP!WireCarriesState /\ LagInv
      => PinsFollowTarget
  BY <1>1 DEF PinsFollowTarget
<1> QED
  BY <1>2, ConnectionsInvariants, ControllerInvariants, LagInvariant, PTL

\* No heater does something else than it is to be told for longer than the
\* threshold allows, unless it is in DEFROST.
THEOREM DisobedienceEnds == SystemSpec => []NoLongDisobedience
<1>1. ASSUME DescriptorsInv, F!TypeOK, FP!FailureInv, FP!WireCarriesState,
             SinceTypeOK, LagInv, F!running
      PROVE  PinsLag(REQUEST_STATE_FAILURE_THRESHOLD)
  <2>1. heater_state[watched] \in HeaterState
    BY <1>1, WatchedAssumption DEF DescriptorsInv, HeatersTypeOK
  <2>2. outputs = F!OutputsFor(heater_state[watched])
    BY <1>1, SameProgram DEF FP!WireCarriesState, FP!running, F!running
  <2>3. ASSUME heater_state[watched] # FALLBACK_HEATER_STATE
        PROVE  request_state_failure_count + Pending
                   <= REQUEST_STATE_FAILURE_THRESHOLD
    <3>1. ~FP!InDefrost
      BY <2>3, SameProgram DEF FP!InDefrost
    <3> QED
      BY <1>1, <3>1, ThresholdAssumption
      DEF F!TypeOK, FP!FailureInv, FP!running, F!running, Pending
  <2>4. since[heater_state[watched]] <= REQUEST_STATE_FAILURE_THRESHOLD
        \/ heater_state[watched] = FALLBACK_HEATER_STATE
    <3>1. /\ since[heater_state[watched]] \in Nat
          /\ request_state_failure_count + Pending \in Nat
      BY <1>1, <2>1, ThresholdAssumption, LongestLemma
      DEF SinceTypeOK, F!TypeOK, Pending
    <3> QED
      BY <1>1, <2>3, <3>1, ThresholdAssumption DEF LagInv
  <2> QED
    BY <2>1, <2>2, <2>4 DEF PinsLag
<1>2. DescriptorsInv /\ F!TypeOK /\ FP!FailureInv /\ FP!WireCarriesState
      /\ SinceTypeOK /\ LagInv => NoLongDisobedience
  BY <1>1 DEF NoLongDisobedience
<1> QED
  BY <1>2, ConnectionsInvariants, ControllerInvariants, SinceType, LagInvariant,
     PTL
=============================================================================
