------------------------- MODULE BaseStationNotices --------------------------
(***************************************************************************)
(* The handlers of process() that change no setting and send notices: the  *)
(* registry of heater controllers, the watchdog of the WiFi (checkWifi)    *)
(* and the message after a start (sendBootMsg).  They share the main       *)
(* thread, the emergency phone and its end by a crash.                     *)
(***************************************************************************)
EXTENDS DeviceRegistry

CONSTANT WIFI_ERROR_THRESHOLD

ASSUME WifiAssumption == WIFI_ERROR_THRESHOLD \in Nat \ {0}

VARIABLES
    phone,                  \* is an emergency phone set?
    wifi,                   \* wlan0, "gone" if it does not exist: external
    m_wifi_error_counter,
    bootTimer,              \* is the one-shot timer of sendBootMsg running?
    told                    \* history: was the loss of WiFi announced since
                            \* it was last found up?

WifiStates == {"up", "down", "gone"}
wifiVars == <<m_wifi_error_counter, told>>
vars == <<registryVars, phone, wifi, wifiVars, bootTimer>>

\* The main thread is between two handlers.
Idle == registering = NoDevice
-----------------------------------------------------------------------------
Init ==
    /\ RegistryInit
    /\ phone \in BOOLEAN
    /\ wifi \in WifiStates
    /\ m_wifi_error_counter = 0
    /\ bootTimer = TRUE
    /\ told = FALSE

\* The process ends at any point and is started again.
Restart ==
    /\ RestartRegistry
    /\ m_wifi_error_counter' = 0
    /\ bootTimer' = TRUE
    /\ told' = FALSE
    /\ UNCHANGED <<phone, wifi>>

Registry ==
    /\ \/ \E d \in Devices : DeviceBoots(d) \/ RequestLost(d) \/ TakeRequest(d)
       \/ CheckLostDevices(phone)
       \/ BeginPage
       \/ EndPage
       \/ Tick
       \/ SetClock
    /\ UNCHANGED <<phone, wifi, wifiVars, bootTimer>>

\* The second half of parseMessage, which the main thread goes on to.
Finish == FinishRequest /\ UNCHANGED <<phone, wifi, wifiVars, bootTimer>>

\* Mutants: the notice is repeated at every check; an error counts twice.
FromThreshold(errors) == errors >= WIFI_ERROR_THRESHOLD
CountTwice(errors) ==
    IF errors + 2 > WIFI_ERROR_THRESHOLD THEN WIFI_ERROR_THRESHOLD + 1
    ELSE errors + 2

AtThreshold(errors) == errors = WIFI_ERROR_THRESHOLD
\* One more error, counted up to one past the threshold: the code compares the
\* counter with the threshold and with 0 only.
Incremented(errors) ==
    IF errors > WIFI_ERROR_THRESHOLD THEN errors ELSE errors + 1

ToPhone(kind) == notice' = IF phone THEN Notice(kind, {}) ELSE Quiet

WifiError ==
    /\ m_wifi_error_counter' = Incremented(m_wifi_error_counter)
    /\ IF AtThreshold(m_wifi_error_counter + 1)
       THEN ToPhone("WIFI LOST") /\ told' = phone
       ELSE notice' = Quiet /\ UNCHANGED told

\* The notice of the recovery follows any error, announced or not.
WifiRestored ==
    /\ m_wifi_error_counter' = 0
    /\ told' = FALSE
    /\ IF m_wifi_error_counter # 0 THEN ToPhone("WIFI RESTORED")
       ELSE notice' = Quiet

\* The flags of an interface that is gone cannot be read: nothing is counted.
CheckWifi ==
    /\ Idle
    /\ \/ wifi = "up" /\ WifiRestored
       \/ wifi = "down" /\ WifiError
       \/ wifi = "gone" /\ notice' = Quiet /\ UNCHANGED wifiVars
    /\ UNCHANGED <<deviceVars, counterVars, tableVars, webVars, registering,
                   answer, due, phone, wifi, bootTimer>>

SendBootMsg ==
    /\ Idle
    /\ bootTimer
    /\ bootTimer' = FALSE
    /\ ToPhone("STARTED")
    /\ UNCHANGED <<deviceVars, counterVars, tableVars, webVars, registering,
                   answer, due, phone, wifi, wifiVars>>

\* SET EMERGENCY PHONE, REMOVE EMERGENCY PHONE; the network.
Environment ==
    /\ \/ Idle /\ phone' = ~phone /\ UNCHANGED wifi
       \/ wifi' \in WifiStates \ {wifi} /\ UNCHANGED phone
    /\ notice' = Quiet
    /\ UNCHANGED <<deviceVars, counterVars, tableVars, webVars, registering,
                   answer, due, wifiVars, bootTimer>>

Next ==
    \/ Restart
    \/ Registry
    \/ Finish
    \/ CheckWifi
    \/ SendBootMsg
    \/ Environment

Spec == Init /\ [][Next]_vars

\* process() comes to checkWifi again and again: a request only delays it.
FairSpec == Spec /\ WF_vars(Finish) /\ SF_vars(CheckWifi)
-----------------------------------------------------------------------------
TypeOK ==
    /\ RegistryTypeOK
    /\ phone \in BOOLEAN
    /\ wifi \in WifiStates
    /\ m_wifi_error_counter \in 0 .. WIFI_ERROR_THRESHOLD + 1
    /\ bootTimer \in BOOLEAN
    /\ told \in BOOLEAN

\* One outage is announced once, however long it lasts.
WifiLossToldOnce == [][notice'.kind = "WIFI LOST" => ~told]_vars

\* A loss of WiFi is announced if it lasts, unless the process ends or nobody
\* can be told when the threshold is reached.
WifiLossIsTold ==
    ~bootTimer /\ wifi = "down" /\ m_wifi_error_counter = 0 /\ phone
        ~> wifi # "down" \/ told \/ ~phone \/ bootTimer
=============================================================================
