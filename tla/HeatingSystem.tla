---------------------------- MODULE HeatingSystem ----------------------------
(***************************************************************************)
(* The heating as a whole: what commands make of the policy of the base    *)
(* station (HeatingPolicy), its connections with the heater controllers    *)
(* (HeaterConnections), and one controller, `watched', with its program    *)
(* (HeaterFirmware).  The three meet in what they share: `target', which   *)
(* the policy sets and parseMessage replies, and heater_state, which the   *)
(* reply sets and the program turns into voltages.                         *)
(*                                                                         *)
(* Each step is a step of the parts that take part in it and leaves the    *)
(* others as they are.                                                     *)
(***************************************************************************)
EXTENDS HeaterConnections

CONSTANTS
    watched,                      \* the heater whose controller is modelled
    REQUEST_STATE_FAILURE_THRESHOLD

ASSUME WatchedAssumption == watched \in Heaters
ASSUME ThresholdAssumption == REQUEST_STATE_FAILURE_THRESHOLD \in Nat \ {0}

VARIABLES
    up,                           \* the policy
    saved,
    pc,                           \* the program of the controller
    eeprom,
    registration,
    joining_wifi_network,
    wifi,
    requestPending,
    outputs,
    led_state,
    request_state_failure_count,
    since                         \* history: how many requests the controller
                                  \* has begun since it was last to be told
                                  \* each state

F == INSTANCE HeaterFirmware WITH heater_state <- heater_state[watched]
P == INSTANCE HeatingPolicy WITH Names <- Heaters

controller == <<pc, eeprom, registration, joining_wifi_network, wifi,
                requestPending, outputs, led_state,
                request_state_failure_count>>
station == <<up, saved>>
systemVars == <<vars, controller, station, since>>
-----------------------------------------------------------------------------
(***************************************************************************)
(* The history: counted up to one past the threshold.                      *)
(***************************************************************************)
Longest == REQUEST_STATE_FAILURE_THRESHOLD + 1

Told == since' = [since EXCEPT ![target'[watched]] = 0]

Asks ==
    since' = [s \in HeaterState |->
                 IF s = target[watched] THEN 0
                 ELSE IF since[s] < Longest THEN since[s] + 1 ELSE Longest]

SystemInit ==
    /\ Init
    /\ F!Init
    /\ P!Init
    /\ since = [s \in HeaterState |-> IF s = target[watched] THEN 0 ELSE Longest]
-----------------------------------------------------------------------------
(***************************************************************************)
(* The controller.                                                         *)
(***************************************************************************)
\* What has nothing to do with a connection.
Alone ==
    /\ UNCHANGED vars
    /\ \/ F!Setup \/ F!SetupUncommissioned
       \/ F!Register \/ F!JoinFails \/ F!Join \/ F!Program \/ F!Registered
       \/ F!WifiConnected \/ F!WifiGotIP \/ F!WifiDisconnected
       \/ F!SkipRequest \/ F!FactoryReset
    /\ UNCHANGED <<station, since>>

RequestTimer ==
    /\ UNCHANGED vars
    /\ F!RequestTimer
    /\ UNCHANGED <<station, since>>

BeginRequest ==
    /\ UNCHANGED vars
    /\ F!BeginRequest
    /\ Asks
    /\ UNCHANGED station

\* One of three attempts; the base station must run to answer it.
OpenConnection ==
    /\ pc = "connecting" /\ wifi = "up" /\ up
    /\ Connect(watched)
    /\ UNCHANGED <<controller, station, since>>

\* The attempt is given up, although the base station knows the connection.
NextAttempt ==
    /\ pc = "connecting"
    /\ Connected(watched)
    /\ GiveUp(watched)
    /\ heater_state' = heater_state
    /\ UNCHANGED <<controller, station, since>>

\* The request is handed to the network; it arrives later, or never.
WriteRequest ==
    /\ Connected(watched)
    /\ UNCHANGED vars
    /\ F!SendRequest
    /\ UNCHANGED <<station, since>>

RequestArrives ==
    /\ pc = "waiting" /\ wifi = "up"
    /\ SendRequest(watched) \/ SendRest(watched)
    /\ UNCHANGED <<controller, station, since>>

AcceptReply ==
    /\ ReceiveReply(watched)
    /\ \E state \in HeaterState : F!AcceptReply(state)
    /\ UNCHANGED <<station, since>>

\* A failure ends with client.stop, or in a reset.
RequestFails ==
    /\ \/ GiveUp(watched) /\ (F!WriteFails \/ F!ReplyFails)
       \/ PowerCut(watched) /\ F!ConnectFails /\ pc' = "off"
    /\ UNCHANGED <<station, since>>

\* The end of a pass, where a heater may fall back.
CheckFailures ==
    /\ GiveUp(watched)
    /\ F!CheckFailures
    /\ UNCHANGED <<station, since>>

\* Power is cut, or the settings are erased and the controller is reset.
Reset ==
    /\ PowerCut(watched)
    /\ F!PowerCut \/ F!Unregister \/ F!Restart
    /\ UNCHANGED <<station, since>>

\* The heaters beside it.
Neighbour(h) ==
    /\ \/ up /\ Connect(h)
       \/ SendRequest(h) \/ SendRest(h) \/ ReceiveReply(h)
       \/ GiveUp(h) \/ PowerCut(h)
    /\ UNCHANGED <<controller, station, since>>

Controller ==
    \/ Alone \/ RequestTimer \/ BeginRequest
    \/ OpenConnection \/ NextAttempt \/ WriteRequest \/ RequestArrives
    \/ AcceptReply \/ RequestFails \/ CheckFailures
    \/ Reset
-----------------------------------------------------------------------------
(***************************************************************************)
(* The base station.                                                       *)
(***************************************************************************)
\* Its two threads and its kernel serve connections.
Serve ==
    /\ \/ Accept \/ HandleNewDevice \/ HandleConnections
       \/ checkStaleConnections \/ Minute
       \/ \E f \in Fds : PeerResets(f)
    /\ UNCHANGED <<controller, station, since>>

\* A command for all heaters, or a fallback.
CommandAll(state) ==
    /\ SetTarget(Heaters, state)
    /\ P!SetAll(state)
    /\ Told
    /\ UNCHANGED controller

CommandOne(h, state) ==
    /\ SetTarget({h}, state)
    /\ P!SetOne(h, state)
    /\ Told
    /\ UNCHANGED controller

\* saveState, in the main thread too, and a save that fails.
SaveState ==
    /\ idle
    /\ P!Save \/ P!Lose
    /\ UNCHANGED <<vars, controller, since>>

\* The process ends; it is started again later.
StopStation ==
    /\ Restart
    /\ P!Stop
    /\ Told
    /\ UNCHANGED controller

StartStation ==
    /\ P!Restart
    /\ UNCHANGED <<vars, controller, since>>

BaseStation ==
    \/ Serve
    \/ \E state \in Targets : CommandAll(state)
    \/ \E h \in Heaters, state \in Targets : CommandOne(h, state)
    \/ SaveState
    \/ StopStation
    \/ StartStation

SystemNext ==
    \/ Controller
    \/ \E h \in Heaters \ {watched} : Neighbour(h)
    \/ BaseStation

SystemSpec == SystemInit /\ [][SystemNext]_systemVars
-----------------------------------------------------------------------------
SystemTypeOK ==
    /\ TypeOK
    /\ F!TypeOK
    /\ P!TypeOK
    /\ since \in [HeaterState -> 0 .. Longest]

\* The pins show DEFROST, or a state since which at most `n' requests began.
PinsLag(n) ==
    \E state \in HeaterState :
        /\ outputs = F!OutputsFor(state)
        /\ state = FALLBACK_HEATER_STATE \/ since[state] <= n

\* Between two requests the pins carry what the controller was to be told at
\* some time since it began its last request, or one request earlier for each
\* that has failed since: no reply is older than its request, whatever became
\* of the earlier ones, of the base station and of its descriptors.
PinsFollowTarget ==
    pc = "loop" => PinsLag(request_state_failure_count)

\* No heater does for longer than REQUEST_STATE_FAILURE_THRESHOLD requests what
\* it is no longer to be told, unless it is in DEFROST.
NoLongDisobedience == F!running => PinsLag(REQUEST_STATE_FAILURE_THRESHOLD)
=============================================================================
