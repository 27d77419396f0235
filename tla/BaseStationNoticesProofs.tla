---------------------- MODULE BaseStationNoticesProofs -----------------------
(***************************************************************************)
(* Proofs about BaseStationNotices and DeviceRegistry, for every set of    *)
(* controllers, states and random numbers and for every threshold.         *)
(***************************************************************************)
EXTENDS BaseStationNotices, TLAPS

USE DEF deviceVars, counterVars, tableVars, webVars

\* Steps of the handlers that do not touch the registry.
NotTheRegistry ==
    /\ UNCHANGED <<deviceVars, counterVars, tableVars, webVars, registering,
                   answer, due>>
    /\ \/ UNCHANGED notice
       \/ notice' = Quiet
       \/ \E kind \in {"WIFI LOST", "WIFI RESTORED", "STARTED"} :
              notice' = Notice(kind, {})

\* What a step is for the registry.
LEMMA RegistrySteps ==
    ASSUME [Next]_vars
    PROVE  \/ RestartRegistry
           \/ \E d \in Devices : DeviceBoots(d)
           \/ \E d \in Devices : RequestLost(d)
           \/ \E d \in Devices : TakeRequest(d)
           \/ FinishRequest
           \/ CheckLostDevices(phone)
           \/ BeginPage
           \/ EndPage
           \/ Tick
           \/ SetClock
           \/ NotTheRegistry
<1>1. CASE Restart
  BY <1>1 DEF Restart
<1>2. CASE Registry
  BY <1>2 DEF Registry
<1>3. CASE Finish
  BY <1>3 DEF Finish
<1>4. CASE CheckWifi
  BY <1>4 DEF CheckWifi, WifiRestored, WifiError, ToPhone, NotTheRegistry
<1>5. CASE SendBootMsg
  BY <1>5 DEF SendBootMsg, ToPhone, NotTheRegistry
<1>6. CASE Environment
  BY <1>6 DEF Environment, NotTheRegistry
<1>7. CASE UNCHANGED vars
  BY <1>7 DEF vars, registryVars, NotTheRegistry
<1> QED
  BY <1>1, <1>2, <1>3, <1>4, <1>5, <1>6, <1>7 DEF Next
-----------------------------------------------------------------------------
(***************************************************************************)
(* Types.                                                                  *)
(***************************************************************************)
LEMMA ClampLemma ==
    ASSUME NEW age \in Int
    PROVE  /\ Clamped(age) \in -MaxJump .. MaxAge
           /\ age >= 0 => Clamped(age) \in 0 .. MaxAge
           /\ age \in 0 .. MaxAge => Clamped(age) = age
  BY TimeAssumption DEF Clamped, MaxAge

LEMMA AgedType ==
    ASSUME NEW ticks \in Nat, NEW jump \in Int,
           m_heaters \in [Devices -> Row \cup {NoRow}]
    PROVE  Aged(ticks, jump) \in [Devices -> Row \cup {NoRow}]
<1>1. ASSUME NEW d \in Devices, m_heaters[d] # NoRow
      PROVE  [m_heaters[d] EXCEPT
                 !.age = Clamped(@ + ticks + jump),
                 !.silent = Clamped(@ + ticks),
                 !.clockSet = @ \/ jump # 0] \in Row
  <2>1. m_heaters[d] \in Row
    BY <1>1
  <2>2. m_heaters[d].age \in Int /\ m_heaters[d].silent \in Nat
    BY <2>1, TimeAssumption DEF Row, MaxAge
  <2>3. /\ Clamped(m_heaters[d].age + ticks + jump) \in -MaxJump .. MaxAge
        /\ Clamped(m_heaters[d].silent + ticks) \in 0 .. MaxAge
    BY <2>2, ClampLemma
  <2> QED
    BY <2>1, <2>3 DEF Row
<1> QED
  BY <1>1 DEF Aged

LEMMA DevicesType ==
    ASSUME DevicesTypeOK, [Next]_vars
    PROVE  DevicesTypeOK'
<1> USE DEF DevicesTypeOK
<1>1. ASSUME NEW d \in Devices, DeviceBoots(d) \/ RequestLost(d) \/ TakeRequest(d)
      PROVE  DevicesTypeOK'
  <2>1. CASE DeviceBoots(d)
    BY <2>1, BootAssumption DEF DeviceBoots
  <2>2. CASE RequestLost(d) \/ TakeRequest(d)
    <3>1. sent[d] < MaxSent /\ sent' = [sent EXCEPT ![d] = @ + 1]
      BY <2>2 DEF RequestLost, TakeRequest
    <3>2. UNCHANGED boot
      BY <2>2 DEF RequestLost, TakeRequest
    <3>3. sent[d] + 1 \in 0 .. MaxSent
      BY <3>1, BootAssumption
    <3> QED
      BY <3>1, <3>2, <3>3
  <2> QED
    BY <1>1, <2>1, <2>2
<1>2. CASE RestartRegistry \/ FinishRequest \/ CheckLostDevices(phone)
           \/ BeginPage \/ EndPage \/ Tick \/ SetClock \/ NotTheRegistry
  BY <1>2
  DEF RestartRegistry, FinishRequest, CheckLostDevices, BeginPage, EndPage,
      Tick, SetClock, NotTheRegistry
<1> QED
  BY <1>1, <1>2, RegistrySteps

LEMMA CounterType ==
    ASSUME DevicesTypeOK, NEW d \in Devices
    PROVE  Counter(d) \in Int
<1>1. boot[d] \in Boots /\ sent[d] \in 0 .. MaxSent
  BY DEF DevicesTypeOK
<1>2. sent[d] \in Int /\ BootSpan \in Int
  BY <1>1, BootAssumption
<1>b. boot[d] \in Int
  <2>1. \A b \in Boots : b \in Nat
    BY BootAssumption
  <2> QED
    BY <1>1, <2>1
<1>3. boot[d] * BootSpan \in Int
  BY <1>2, <1>b
<1> QED
  BY <1>2, <1>3 DEF Counter

\* No more requests were lost since the last start than were sent.
MissedInv == \A d \in Devices : missed[d] <= sent[d]

LEMMA CountersType ==
    ASSUME DevicesTypeOK, CountersTypeOK, MissedInv, [Next]_vars
    PROVE  CountersTypeOK' /\ MissedInv'
<1> USE DEF CountersTypeOK
<1>0. 0 \in 0 .. MaxSent
  BY BootAssumption
<1>s. \A d \in Devices : sent[d] \in 0 .. MaxSent /\ missed[d] \in 0 .. MaxSent
  BY DEF DevicesTypeOK
<1>1. ASSUME NEW d \in Devices, DeviceBoots(d)
      PROVE  CountersTypeOK' /\ MissedInv'
  <2>1. CountersTypeOK'
    BY <1>1, <1>0 DEF DeviceBoots
  <2>2. ASSUME NEW e \in Devices PROVE missed[e]' <= sent[e]'
    BY <1>1 DEF DeviceBoots, MissedInv, DevicesTypeOK
  <2> QED
    BY <2>1, <2>2 DEF MissedInv
<1>2. ASSUME NEW d \in Devices, RequestLost(d)
      PROVE  CountersTypeOK' /\ MissedInv'
  <2>1. missed[d] + 1 \in 0 .. MaxSent
    BY <1>2, <1>s, BootAssumption DEF RequestLost, MissedInv
  <2>2. CountersTypeOK'
    BY <1>2, <2>1 DEF RequestLost
  <2>3. ASSUME NEW e \in Devices PROVE missed[e]' <= sent[e]'
    BY <1>2, <1>s DEF RequestLost, MissedInv, DevicesTypeOK
  <2> QED
    BY <2>2, <2>3 DEF MissedInv
<1>3. ASSUME NEW d \in Devices, TakeRequest(d)
      PROVE  CountersTypeOK' /\ MissedInv'
  <2>1. Counter(d) \in Int /\ boot[d] \in Boots
    BY CounterType DEF DevicesTypeOK
  <2>2. CountersTypeOK'
    BY <1>3, <1>0, <2>1 DEF TakeRequest, RecordCounter
  <2>3. ASSUME NEW e \in Devices PROVE missed[e]' <= sent[e]'
    BY <1>3, <1>s DEF TakeRequest, MissedInv, DevicesTypeOK
  <2> QED
    BY <2>2, <2>3 DEF MissedInv
<1>4. CASE RestartRegistry
  BY <1>4 DEF RestartRegistry, NoCounter, NoBoot, MissedInv
<1>5. CASE \/ FinishRequest \/ CheckLostDevices(phone) \/ BeginPage
           \/ EndPage \/ Tick \/ SetClock \/ NotTheRegistry
  BY <1>5
  DEF FinishRequest, CheckLostDevices, BeginPage, EndPage, Tick, SetClock,
      NotTheRegistry, MissedInv
<1> QED
  BY <1>1, <1>2, <1>3, <1>4, <1>5, RegistrySteps

\* The row that is being written exists, and what it will say is known.
RegisteringInv ==
    registering # NoDevice =>
        m_heaters[registering] \in Row /\ answer[registering] \in States

NewRow == [state |-> "DEFROST", age |-> MaxAge, silent |-> 0,
           clockSet |-> FALSE]
LEMMA NewRowLemma == NewRow \in Row
  BY TimeAssumption, DeviceAssumption DEF NewRow, Row, MaxAge

LEMMA TableType ==
    ASSUME TableTypeOK, MutexTypeOK, RegisteringInv, [Next]_vars
    PROVE  TableTypeOK' /\ RegisteringInv'
<1> USE DEF TableTypeOK
<1>1. ASSUME NEW d \in Devices, DeviceBoots(d) \/ RequestLost(d)
      PROVE  TableTypeOK' /\ RegisteringInv'
  BY <1>1 DEF DeviceBoots, RequestLost, RegisteringInv
<1>2. ASSUME NEW d \in Devices, TakeRequest(d)
      PROVE  TableTypeOK' /\ RegisteringInv'
  <2>1. m_heaters' = [m_heaters EXCEPT ![d] = NewRow]
    BY <1>2 DEF TakeRequest, NewRow
  <2>2. m_heaters' \in [Devices -> Row \cup {NoRow}]
    BY <2>1, NewRowLemma
  <2>3. PICK s \in States : answer' = [answer EXCEPT ![d] = s]
    BY <1>2 DEF TakeRequest
  <2>4. answer' \in [Devices -> States \cup {"NONE"}]
    BY <2>3
  <2>5. reported' \in [Devices -> BOOLEAN]
    BY <1>2 DEF TakeRequest
  <2>6. registering' = d
    BY <1>2 DEF TakeRequest
  <2>7. m_heaters'[d] \in Row /\ answer'[d] \in States
    BY <2>1, <2>3, NewRowLemma
  <2> QED
    BY <2>2, <2>4, <2>5, <2>6, <2>7 DEF RegisteringInv
<1>3. CASE FinishRequest
  <2>1. registering \in Devices
    BY <1>3 DEF FinishRequest, MutexTypeOK
  <2>2. Update(m_heaters[registering], answer[registering]) \in Row
    <3>1. /\ m_heaters[registering] \in Row
          /\ answer[registering] \in States
      BY <1>3 DEF FinishRequest, RegisteringInv
    <3>2. 0 \in -MaxJump .. MaxAge
      BY TimeAssumption DEF MaxAge
    <3> QED
      BY <3>1, <3>2 DEF Update, Row
  <2>3. m_heaters' \in [Devices -> Row \cup {NoRow}]
    BY <1>3, <2>1, <2>2 DEF FinishRequest
  <2> QED
    BY <1>3, <2>3 DEF FinishRequest, RegisteringInv
<1>4. CASE CheckLostDevices(phone)
  BY <1>4 DEF CheckLostDevices, EraseLost, RegisteringInv
<1>5. CASE Tick
  BY <1>5, AgedType DEF Tick, RegisteringInv
<1>6. CASE SetClock
  <2>1. PICK jump \in -MaxJump .. MaxJump : m_heaters' = Aged(0, jump)
    BY <1>6 DEF SetClock
  <2>2. m_heaters' \in [Devices -> Row \cup {NoRow}]
    BY <2>1, AgedType, TimeAssumption
  <2> QED
    BY <1>6, <2>2 DEF SetClock, RegisteringInv
<1>7. CASE RestartRegistry
  BY <1>7 DEF RestartRegistry, RegisteringInv
<1>8. CASE BeginPage \/ EndPage \/ NotTheRegistry
  BY <1>8 DEF BeginPage, EndPage, NotTheRegistry, RegisteringInv
<1> QED
  BY <1>1, <1>2, <1>3, <1>4, <1>5, <1>6, <1>7, <1>8, RegistrySteps

\* Never both threads are in their critical sections.
Exclusion == registering = NoDevice \/ web = "idle"

LEMMA MutexType ==
    ASSUME MutexTypeOK, Exclusion, [Next]_vars
    PROVE  MutexTypeOK' /\ Exclusion'
<1> USE DeviceAssumption DEF MutexTypeOK, Exclusion
<1>1. ASSUME NEW d \in Devices, TakeRequest(d)
      PROVE  MutexTypeOK' /\ Exclusion'
  BY <1>1 DEF TakeRequest
<1>2. CASE FinishRequest
  BY <1>2 DEF FinishRequest, Unlock
<1>4. CASE BeginPage
  BY <1>4 DEF BeginPage, WebLock
<1>5. CASE EndPage
  BY <1>5 DEF EndPage, Unlock
<1>6. CASE RestartRegistry
  BY <1>6 DEF RestartRegistry
<1>3. CASE \/ \E d \in Devices : DeviceBoots(d) \/ RequestLost(d)
           \/ CheckLostDevices(phone) \/ Tick \/ SetClock \/ NotTheRegistry
  BY <1>3
  DEF DeviceBoots, RequestLost, CheckLostDevices, Tick, SetClock,
      NotTheRegistry
<1> QED
  BY <1>1, <1>2, <1>3, <1>4, <1>5, <1>6, RegistrySteps

LEMMA DueType ==
    ASSUME due \in 0 .. CHECK_LOST_DEVICES_PERIOD, [Next]_vars
    PROVE  (due \in 0 .. CHECK_LOST_DEVICES_PERIOD)'
<1> USE TimeAssumption
<1>1. CASE RestartRegistry \/ CheckLostDevices(phone) \/ Tick
  BY <1>1 DEF RestartRegistry, CheckLostDevices, Tick
<1>2. CASE \/ \E d \in Devices :
                 DeviceBoots(d) \/ RequestLost(d) \/ TakeRequest(d)
           \/ FinishRequest \/ BeginPage \/ EndPage \/ SetClock
           \/ NotTheRegistry
  BY <1>2
  DEF DeviceBoots, RequestLost, TakeRequest, FinishRequest, BeginPage, EndPage,
      SetClock, NotTheRegistry
<1> QED
  BY <1>1, <1>2, RegistrySteps

LEMMA NoticeType ==
    ASSUME notice.devices \subseteq Devices, [Next]_vars
    PROVE  (notice.devices \subseteq Devices)'
<1> USE DEF Quiet, Notice
<1>1. ASSUME NEW d \in Devices,
             DeviceBoots(d) \/ RequestLost(d) \/ TakeRequest(d)
      PROVE  notice'.devices \subseteq Devices
  BY <1>1 DEF DeviceBoots, RequestLost, TakeRequest
<1>2. CASE CheckLostDevices(phone)
  BY <1>2 DEF CheckLostDevices, Lost, Listed
<1>3. CASE \/ RestartRegistry \/ FinishRequest \/ BeginPage \/ EndPage
           \/ Tick \/ SetClock
  <2>1. notice' = Quiet
    BY <1>3 DEF RestartRegistry, FinishRequest, BeginPage, EndPage, Tick,
                SetClock
  <2> QED
    BY <2>1
<1>4. CASE NotTheRegistry
  <2>1. CASE UNCHANGED notice
    BY <2>1
  <2>2. CASE notice' = Quiet
    BY <2>2
  <2>3. ASSUME NEW kind, notice' = Notice(kind, {})
        PROVE  notice'.devices \subseteq Devices
    BY <2>3
  <2> QED
    BY <1>4, <2>1, <2>2, <2>3 DEF NotTheRegistry
<1> QED
  BY <1>1, <1>2, <1>3, <1>4, RegistrySteps

\* The watchdog of the WiFi, the environment and the timer of the message.
RestTypeOK ==
    /\ wifi \in WifiStates
    /\ m_wifi_error_counter \in 0 .. WIFI_ERROR_THRESHOLD + 1
FlagsTypeOK == phone \in BOOLEAN /\ bootTimer \in BOOLEAN /\ told \in BOOLEAN

LEMMA FlagsType ==
    ASSUME FlagsTypeOK, [Next]_vars
    PROVE  FlagsTypeOK'
<1> USE DEF FlagsTypeOK
<1>1. CASE Restart \/ Registry \/ Finish \/ SendBootMsg \/ Environment
  BY <1>1, Zenon
  DEF Restart, Registry, Finish, SendBootMsg, Environment, wifiVars
<1>2. CASE CheckWifi
  BY <1>2, Zenon DEF CheckWifi, WifiRestored, WifiError, wifiVars
<1>3. CASE UNCHANGED vars
  BY <1>3, Zenon DEF vars, wifiVars
<1> QED
  BY <1>1, <1>2, <1>3, Zenon DEF Next

LEMMA RestType ==
    ASSUME RestTypeOK, [Next]_vars
    PROVE  RestTypeOK'
<1> USE WifiAssumption DEF RestTypeOK
<1>1. CASE Restart \/ Registry \/ Finish \/ SendBootMsg \/ Environment
  BY <1>1 DEF Restart, Registry, Finish, SendBootMsg, Environment, wifiVars
<1>2. CASE CheckWifi
  <2>1. UNCHANGED wifi
    BY <1>2 DEF CheckWifi
  <2>2. m_wifi_error_counter' \in {m_wifi_error_counter, 0,
                                   Incremented(m_wifi_error_counter)}
    BY <1>2 DEF CheckWifi, WifiRestored, WifiError, wifiVars
  <2>3. Incremented(m_wifi_error_counter) \in 0 .. WIFI_ERROR_THRESHOLD + 1
    BY DEF Incremented
  <2> QED
    BY <2>1, <2>2, <2>3
<1>3. CASE UNCHANGED vars
  BY <1>3 DEF vars, wifiVars
<1> QED
  BY <1>1, <1>2, <1>3 DEF Next

TypeInv ==
    /\ TypeOK
    /\ MissedInv
    /\ RegisteringInv
    /\ Exclusion

LEMMA InitTypeInv == Init => TypeInv
<1> SUFFICES ASSUME Init PROVE TypeInv
  OBVIOUS
<1> USE DEF Init, RegistryInit
<1>1. DevicesTypeOK
  BY BootAssumption DEF DevicesTypeOK
<1>2. CountersTypeOK
  BY BootAssumption DEF CountersTypeOK, NoCounter, NoBoot
<1>3. TableTypeOK
  BY DEF TableTypeOK
<1>4. MutexTypeOK /\ Exclusion /\ RegisteringInv
  BY DEF MutexTypeOK, Exclusion, RegisteringInv
<1>5. due \in 0 .. CHECK_LOST_DEVICES_PERIOD
  BY TimeAssumption
<1>6. notice.devices \subseteq Devices
  BY DEF Quiet
<1>7. MissedInv
  BY DEF MissedInv
<1>8. RestTypeOK
  BY WifiAssumption DEF RestTypeOK
<1>9. FlagsTypeOK
  BY DEF FlagsTypeOK
<1> QED
  BY <1>1, <1>2, <1>3, <1>4, <1>5, <1>6, <1>7, <1>8, <1>9
  DEF TypeInv, TypeOK, RegistryTypeOK, RestTypeOK, FlagsTypeOK

LEMMA StepTypeInv == TypeInv /\ [Next]_vars => TypeInv'
<1> SUFFICES ASSUME TypeInv, [Next]_vars PROVE TypeInv'
  OBVIOUS
<1> USE DEF TypeInv, TypeOK, RegistryTypeOK
<1>1. DevicesTypeOK'
  BY DevicesType
<1>2. CountersTypeOK' /\ MissedInv'
  BY CountersType
<1>3. TableTypeOK' /\ RegisteringInv'
  BY TableType
<1>4. MutexTypeOK' /\ Exclusion'
  BY MutexType
<1>5. (due \in 0 .. CHECK_LOST_DEVICES_PERIOD)'
  BY DueType
<1>6. (notice.devices \subseteq Devices)'
  BY NoticeType
<1>7. RestTypeOK'
  BY RestType DEF RestTypeOK
<1>8. FlagsTypeOK'
  BY FlagsType DEF FlagsTypeOK
<1> QED
  BY <1>1, <1>2, <1>3, <1>4, <1>5, <1>6, <1>7, <1>8 DEF RestTypeOK, FlagsTypeOK

LEMMA TypeInvariant == Spec => []TypeInv
  BY InitTypeInv, StepTypeInv, PTL DEF Spec

\* Types are kept, and the mutex is held by the thread in its critical section,
\* for every set of controllers and every threshold.
THEOREM NoticesTypeCorrect == Spec => []TypeOK
<1>1. TypeInv => TypeOK
  BY DEF TypeInv
<1> QED
  BY <1>1, TypeInvariant, PTL
-----------------------------------------------------------------------------
(***************************************************************************)
(* The WiFi watchdog, and the page.                                        *)
(***************************************************************************)
\* The counter remembers that the loss was announced.
WifiInv == told => m_wifi_error_counter >= WIFI_ERROR_THRESHOLD

LEMMA ToPhoneLemma ==
    ASSUME NEW kind, ToPhone(kind)
    PROVE  notice'.kind \in {kind, "NONE"}
<1>1. CASE phone
  BY <1>1 DEF ToPhone, Notice
<1>2. CASE ~phone
  BY <1>2 DEF ToPhone, Quiet
<1> QED
  BY <1>1, <1>2

LEMMA WifiStep ==
    ASSUME RestTypeOK, WifiInv, Next
    PROVE  WifiInv' /\ (notice'.kind = "WIFI LOST" => ~told)
<1> USE WifiAssumption DEF RestTypeOK, WifiInv, Quiet
<1>1. CASE UNCHANGED wifiVars /\ notice'.kind # "WIFI LOST"
  BY <1>1 DEF wifiVars
<1>2. CASE Restart
  BY <1>2 DEF Restart, RestartRegistry
<1>3. CASE Registry
  <2>1. UNCHANGED wifiVars
    BY <1>3 DEF Registry
  <2>2. notice'.kind \in {"NONE", "REBOOT", "LOST"}
    BY <1>3 DEF Registry, DeviceBoots, RequestLost, TakeRequest, Notice,
                CheckLostDevices, BeginPage, EndPage, Tick, SetClock
  <2> QED
    BY <1>1, <2>1, <2>2
<1>4. CASE Finish
  <2>1. notice'.kind = "NONE"
    BY <1>4 DEF Finish, FinishRequest
  <2> QED
    BY <1>1, <1>4, <2>1 DEF Finish
<1>5. CASE CheckWifi
  <2>1. CASE WifiRestored
    <3>1. notice'.kind \in {"WIFI RESTORED", "NONE"}
      <4>1. ToPhone("WIFI RESTORED") \/ notice' = Quiet
        BY <2>1 DEF WifiRestored
      <4>2. CASE notice' = Quiet
        BY <4>2
      <4>3. CASE ToPhone("WIFI RESTORED")
        BY <4>3, ToPhoneLemma
      <4> QED
        BY <4>1, <4>2, <4>3
    <3>2. ~told'
      BY <2>1 DEF WifiRestored
    <3> QED
      BY <3>1, <3>2
  <2>2. CASE WifiError /\ AtThreshold(m_wifi_error_counter + 1)
    <3>1. m_wifi_error_counter + 1 = WIFI_ERROR_THRESHOLD
      BY <2>2 DEF AtThreshold
    <3>2. m_wifi_error_counter' = m_wifi_error_counter + 1
      <4>1. m_wifi_error_counter' = Incremented(m_wifi_error_counter)
        BY <2>2 DEF WifiError
      <4> QED
        BY <3>1, <4>1 DEF Incremented
    <3>3. ~(m_wifi_error_counter >= WIFI_ERROR_THRESHOLD)
      BY <3>1
    <3>4. m_wifi_error_counter' >= WIFI_ERROR_THRESHOLD
      BY <3>1, <3>2
    <3> QED
      BY <3>3, <3>4
  <2>3. CASE WifiError /\ ~AtThreshold(m_wifi_error_counter + 1)
    <3>1. notice'.kind = "NONE" /\ UNCHANGED told
      BY <2>3 DEF WifiError
    <3>2. m_wifi_error_counter >= WIFI_ERROR_THRESHOLD
          => m_wifi_error_counter' >= WIFI_ERROR_THRESHOLD
      <4>1. m_wifi_error_counter' = Incremented(m_wifi_error_counter)
        BY <2>3 DEF WifiError
      <4> QED
        BY <4>1 DEF Incremented
    <3> QED
      BY <3>1, <3>2
  <2>4. CASE notice' = Quiet /\ UNCHANGED wifiVars
    BY <1>1, <2>4
  <2> QED
    BY <1>5, <2>1, <2>2, <2>3, <2>4 DEF CheckWifi
<1>6. CASE SendBootMsg
  <2>1. notice'.kind \in {"STARTED", "NONE"}
    BY <1>6, ToPhoneLemma DEF SendBootMsg
  <2> QED
    BY <1>1, <1>6, <2>1 DEF SendBootMsg
<1>7. CASE Environment
  BY <1>1, <1>7 DEF Environment
<1> QED
  BY <1>2, <1>3, <1>4, <1>5, <1>6, <1>7 DEF Next

\* An outage of the WiFi is announced once, for every threshold.
THEOREM WifiToldOnce == Spec => WifiLossToldOnce
<1>1. Init => WifiInv
  BY DEF Init, WifiInv
<1>2. TypeInv => RestTypeOK
  BY DEF TypeInv, TypeOK, RestTypeOK
<1>3. TypeInv /\ WifiInv /\ [Next]_vars => WifiInv'
  BY <1>2, WifiStep DEF vars, wifiVars, WifiInv
<1>4. TypeInv /\ WifiInv /\ [Next]_vars
      => [notice'.kind = "WIFI LOST" => ~told]_vars
  BY <1>2, WifiStep
<1> QED
  BY <1>1, <1>3, <1>4, TypeInvariant, PTL DEF Spec, WifiLossToldOnce

\* Every row but the one that is being written says what its controller was
\* answered.
PageInv ==
    \A d \in Devices :
        m_heaters[d] # NoRow /\ d # registering
            => m_heaters[d].state = answer[d]

LEMMA AgedRow ==
    ASSUME NEW ticks, NEW jump, NEW d \in Devices, TableTypeOK
    PROVE  LET row == Aged(ticks, jump)[d]
           IN  /\ row = NoRow <=> m_heaters[d] = NoRow
               /\ row # NoRow =>
                      /\ row.state = m_heaters[d].state
                      /\ row.age = Clamped(m_heaters[d].age + ticks + jump)
                      /\ row.silent = Clamped(m_heaters[d].silent + ticks)
                      /\ row.clockSet = (m_heaters[d].clockSet \/ jump # 0)
<1>1. CASE m_heaters[d] = NoRow
  BY <1>1 DEF Aged
<1>2. CASE m_heaters[d] # NoRow
  <2>1. m_heaters[d] \in Row
    BY <1>2 DEF TableTypeOK
  <2>2. Aged(ticks, jump)[d] =
            [m_heaters[d] EXCEPT
                 !.age = Clamped(@ + ticks + jump),
                 !.silent = Clamped(@ + ticks),
                 !.clockSet = @ \/ jump # 0]
    BY <1>2 DEF Aged
  <2>3. Aged(ticks, jump)[d].state = m_heaters[d].state
    BY <2>1, <2>2 DEF Row
  <2>4. m_heaters[d].state # "NONE"
    BY <2>1, DeviceAssumption DEF Row
  <2>5. Aged(ticks, jump)[d] # NoRow
    BY <2>3, <2>4 DEF NoRow
  <2> QED
    BY <1>2, <2>1, <2>2, <2>5 DEF Row
<1> QED
  BY <1>1, <1>2

LEMMA NewRowStep ==
    ASSUME NEW d \in Devices, TakeRequest(d), TableTypeOK,
           NEW e \in Devices
    PROVE  /\ m_heaters'[e] = IF e = d THEN NewRow ELSE m_heaters[e]
           /\ reported'[e] = IF e = d THEN FALSE ELSE reported[e]
           /\ e # d => answer'[e] = answer[e]
           /\ registering = NoDevice /\ registering' = d
           /\ UNCHANGED due
  BY DEF TakeRequest, TableTypeOK, NewRow

\* What the other steps do to the table: nothing, or they only take rows away.
LEMMA PageStep ==
    ASSUME TypeInv, PageInv, [Next]_vars
    PROVE  PageInv'
<1> USE DEF PageInv
<1>t. TableTypeOK /\ MutexTypeOK
  BY DEF TypeInv, TypeOK, RegistryTypeOK
<1>1. ASSUME NEW d \in Devices, TakeRequest(d)
      PROVE  PageInv'
  BY <1>1, <1>t, NewRowStep, DeviceAssumption
<1>2. CASE FinishRequest
  <2>1. registering \in Devices
    BY <1>2, <1>t DEF FinishRequest, MutexTypeOK
  <2>2. m_heaters[registering] \in Row
    BY <1>2 DEF FinishRequest, TypeInv, RegisteringInv
  <2>3. m_heaters'[registering].state = answer[registering]
    BY <1>2, <1>t, <2>1, <2>2 DEF FinishRequest, Update, Row, TableTypeOK
  <2> QED
    BY <1>2, <1>t, <2>1, <2>3 DEF FinishRequest, TableTypeOK
<1>3. CASE Tick
  <2>1. \A d \in Devices : m_heaters'[d] = Aged(1, 0)[d]
    BY <1>3 DEF Tick
  <2>2. UNCHANGED <<answer, registering>>
    BY <1>3 DEF Tick
  <2> QED
    BY <1>t, <2>1, <2>2, AgedRow
<1>4. CASE SetClock
  <2>1. PICK jump \in -MaxJump .. MaxJump \ {0} : m_heaters' = Aged(0, jump)
    BY <1>4 DEF SetClock
  <2>2. UNCHANGED <<answer, registering>>
    BY <1>4 DEF SetClock
  <2> QED
    BY <1>t, <2>1, <2>2, AgedRow
<1>5. CASE CheckLostDevices(phone)
  BY <1>5, <1>t DEF CheckLostDevices, EraseLost
<1>6. CASE RestartRegistry
  BY <1>6 DEF RestartRegistry
<1>7. CASE \/ \E d \in Devices : DeviceBoots(d) \/ RequestLost(d)
           \/ BeginPage \/ EndPage \/ NotTheRegistry
  BY <1>7 DEF DeviceBoots, RequestLost, BeginPage, EndPage, NotTheRegistry
<1> QED
  BY <1>1, <1>2, <1>3, <1>4, <1>5, <1>6, <1>7, RegistrySteps

\* Whenever the web thread reads the table, no row is being written.
THEOREM PageCorrect == Spec => []PageShowsAnswers
<1>1. Init => PageInv
  BY DEF Init, RegistryInit, PageInv
<1>2. TypeInv /\ PageInv /\ [Next]_vars => PageInv'
  BY PageStep
<1>3. TypeInv /\ PageInv => PageShowsAnswers
  BY DeviceAssumption DEF TypeInv, Exclusion, PageInv, PageShowsAnswers, Listed
<1> QED
  BY <1>1, <1>2, <1>3, TypeInvariant, PTL DEF Spec
-----------------------------------------------------------------------------
(***************************************************************************)
(* Lost controllers.                                                       *)
(***************************************************************************)
\* A row shows the time since the request unless it is being written or the
\* clock was set, and the check comes before it is too old; a controller that
\* was reported has no row.
RowInv(d) ==
    m_heaters[d] # NoRow =>
        /\ ~reported[d]
        /\ ~m_heaters[d].clockSet =>
               /\ IF d = registering THEN m_heaters[d].silent = 0
                  ELSE m_heaters[d].age = m_heaters[d].silent
               /\ m_heaters[d].silent + due < MaxAge
RowsInv == \A d \in Devices : RowInv(d)

LEMMA RowLemma ==
    ASSUME TableTypeOK, NEW d \in Devices, m_heaters[d] # NoRow
    PROVE  /\ m_heaters[d] \in Row
           /\ m_heaters[d].age \in -MaxJump .. MaxAge
           /\ m_heaters[d].age \in Int
           /\ m_heaters[d].silent \in 0 .. MaxAge
           /\ m_heaters[d].clockSet \in BOOLEAN
<1>1. m_heaters[d] \in Row
  BY DEF TableTypeOK
<1>2. MaxAge \in Nat /\ MaxJump \in Nat
  BY TimeAssumption DEF MaxAge
<1> QED
  BY <1>1, <1>2 DEF Row

LEMMA TickRows ==
    ASSUME TypeInv, RowsInv, Tick, NEW d \in Devices
    PROVE  RowInv(d)'
<1> SUFFICES ASSUME m_heaters'[d] # NoRow
             PROVE  RowInv(d)'
  BY DEF RowInv
<1>t. TableTypeOK /\ due \in 0 .. CHECK_LOST_DEVICES_PERIOD
  BY DEF TypeInv, TypeOK, RegistryTypeOK
<1>1. m_heaters'[d] = Aged(1, 0)[d] /\ due' = due - 1 /\ due > 0
      /\ registering = NoDevice /\ UNCHANGED <<registering, reported>>
  BY DEF Tick
<1>2. /\ m_heaters[d] # NoRow
      /\ m_heaters'[d].age = Clamped(m_heaters[d].age + 1 + 0)
      /\ m_heaters'[d].silent = Clamped(m_heaters[d].silent + 1)
      /\ m_heaters'[d].clockSet = (m_heaters[d].clockSet \/ 0 # 0)
  BY <1>1, <1>t, AgedRow
<1>3. ~reported'[d]
  BY <1>1, <1>2 DEF RowsInv, RowInv
<1>4. ASSUME ~m_heaters'[d].clockSet
      PROVE  /\ m_heaters'[d].age = m_heaters'[d].silent
             /\ m_heaters'[d].silent + due' < MaxAge
  <2>1. ~m_heaters[d].clockSet
    BY <1>2, <1>4
  <2>2. /\ m_heaters[d].age = m_heaters[d].silent
        /\ m_heaters[d].silent + due < MaxAge
    BY <1>1, <1>2, <2>1, DeviceAssumption DEF RowsInv, RowInv
  <2>3. m_heaters[d].silent \in 0 .. MaxAge
    BY <1>t, <1>2, RowLemma
  <2>4. MaxAge \in Nat
    BY TimeAssumption DEF MaxAge
  <2>5. m_heaters[d].silent + 1 \in 0 .. MaxAge
    BY <1>t, <1>1, <2>2, <2>3, <2>4, TimeAssumption
  <2>6. m_heaters'[d].silent = m_heaters[d].silent + 1
    BY <1>2, <2>5, ClampLemma
  <2>7. m_heaters'[d].age = m_heaters'[d].silent
    BY <1>2, <2>2, <2>3
  <2> QED
    BY <1>t, <1>1, <2>2, <2>3, <2>4, <2>6, <2>7, TimeAssumption
<1>5. d # registering'
  BY <1>1, DeviceAssumption
<1> QED
  BY <1>3, <1>4, <1>5 DEF RowInv

LEMMA CheckRows ==
    ASSUME TypeInv, RowsInv, CheckLostDevices(phone), NEW d \in Devices
    PROVE  RowInv(d)'
<1> SUFFICES ASSUME m_heaters'[d] # NoRow
             PROVE  RowInv(d)'
  BY DEF RowInv
<1>t. TableTypeOK
  BY DEF TypeInv, TypeOK, RegistryTypeOK
<1>1. /\ m_heaters'[d] = IF d \in Lost THEN NoRow ELSE m_heaters[d]
      /\ reported'[d] = (reported[d] \/ d \in Lost)
      /\ due = 0 /\ due' = CHECK_LOST_DEVICES_PERIOD
      /\ registering = NoDevice /\ UNCHANGED registering
  BY DEF CheckLostDevices, EraseLost
<1>2. d \notin Lost /\ m_heaters'[d] = m_heaters[d]
  BY <1>1
<1>3. ~reported'[d]
  BY <1>1, <1>2 DEF RowsInv, RowInv
<1>4. ASSUME ~m_heaters[d].clockSet
      PROVE  /\ m_heaters[d].age = m_heaters[d].silent
             /\ m_heaters[d].silent + CHECK_LOST_DEVICES_PERIOD < MaxAge
  <2>1. m_heaters[d].age = m_heaters[d].silent
    BY <1>1, <1>2, <1>4, DeviceAssumption DEF RowsInv, RowInv
  <2>2. ~(m_heaters[d].age >= DEVICE_LOST_THRESHOLD)
    BY <1>2 DEF Lost, Listed
  <2>3. m_heaters[d].silent \in 0 .. MaxAge
    BY <1>t, <1>2, RowLemma
  <2>4. MaxAge \in Nat
    BY TimeAssumption DEF MaxAge
  <2> QED
    BY <2>1, <2>2, <2>3, <2>4, TimeAssumption DEF MaxAge
<1>5. d # registering'
  BY <1>1, DeviceAssumption
<1> QED
  BY <1>1, <1>2, <1>3, <1>4, <1>5 DEF RowInv

LEMMA RowsStep ==
    ASSUME TypeInv, RowsInv, [Next]_vars
    PROVE  RowsInv'
<1> SUFFICES ASSUME NEW e \in Devices PROVE RowInv(e)'
  BY DEF RowsInv
<1>t. TableTypeOK /\ MutexTypeOK /\ due \in 0 .. CHECK_LOST_DEVICES_PERIOD
  BY DEF TypeInv, TypeOK, RegistryTypeOK
<1>e. RowInv(e)
  BY DEF RowsInv
<1>m. 0 + due < MaxAge
  BY <1>t, TimeAssumption DEF MaxAge
<1>1. ASSUME NEW d \in Devices, TakeRequest(d)
      PROVE  RowInv(e)'
  <2>1. /\ m_heaters'[e] = IF e = d THEN NewRow ELSE m_heaters[e]
        /\ reported'[e] = IF e = d THEN FALSE ELSE reported[e]
        /\ registering = NoDevice /\ registering' = d
        /\ UNCHANGED due
    BY <1>1, <1>t, NewRowStep
  <2>2. CASE e = d
    BY <1>m, <2>1, <2>2 DEF NewRow, RowInv
  <2>3. CASE e # d
    BY <1>e, <2>1, <2>3, DeviceAssumption DEF RowInv
  <2> QED
    BY <2>2, <2>3
<1>2. CASE FinishRequest
  <2>1. /\ registering \in Devices
        /\ m_heaters' = [m_heaters EXCEPT ![registering] =
                             Update(@, answer[registering])]
        /\ registering' = NoDevice /\ UNCHANGED <<reported, due>>
    BY <1>2, <1>t DEF FinishRequest, MutexTypeOK
  <2>2. CASE e = registering
    <3>1. m_heaters[e] \in Row /\ m_heaters[e] # NoRow
      BY <2>2, <1>2, DeviceAssumption
      DEF TypeInv, RegisteringInv, FinishRequest, Row, NoRow
    <3>2. /\ m_heaters'[e].age = 0
          /\ m_heaters'[e].silent = m_heaters[e].silent
          /\ m_heaters'[e].clockSet = m_heaters[e].clockSet
      BY <1>t, <2>1, <2>2, <3>1 DEF Update, Row, TableTypeOK
    <3> QED
      BY <1>e, <2>1, <3>1, <3>2 DEF RowInv
  <2>3. CASE e # registering
    <3>1. m_heaters'[e] = m_heaters[e]
      BY <1>t, <2>1, <2>3 DEF TableTypeOK
    <3> QED
      BY <1>e, <2>1, <2>3, <3>1, DeviceAssumption DEF RowInv
  <2> QED
    BY <2>2, <2>3
<1>3. CASE SetClock
  <2>1. PICK jump \in -MaxJump .. MaxJump \ {0} : m_heaters' = Aged(0, jump)
    BY <1>3 DEF SetClock
  <2>2. UNCHANGED reported /\ jump # 0
    BY <1>3, <2>1 DEF SetClock
  <2>3. m_heaters'[e] # NoRow => m_heaters[e] # NoRow /\ m_heaters'[e].clockSet
    <3> SUFFICES ASSUME m_heaters'[e] # NoRow
                 PROVE  m_heaters[e] # NoRow /\ m_heaters'[e].clockSet
      OBVIOUS
    <3>1. /\ m_heaters[e] # NoRow
          /\ m_heaters'[e].clockSet = (m_heaters[e].clockSet \/ jump # 0)
      BY <1>t, <2>1, AgedRow
    <3> QED
      BY <2>2, <3>1, Zenon
  <2> QED
    BY <1>e, <2>2, <2>3 DEF RowInv
<1>4. CASE RestartRegistry
  BY <1>4 DEF RestartRegistry, RowInv
<1>5. CASE \/ \E d \in Devices : DeviceBoots(d) \/ RequestLost(d)
           \/ BeginPage \/ EndPage \/ NotTheRegistry
  BY <1>5, <1>e
  DEF DeviceBoots, RequestLost, BeginPage, EndPage, NotTheRegistry, RowInv
<1> QED
  BY <1>1, <1>2, <1>3, <1>4, <1>5, TickRows, CheckRows, RegistrySteps

LEMMA RowsCorrect == Spec => []RowsInv
<1>1. Init => RowsInv
  BY DEF Init, RegistryInit, RowsInv, RowInv
<1>2. TypeInv /\ RowsInv /\ [Next]_vars => RowsInv'
  BY RowsStep
<1> QED
  BY <1>1, <1>2, TypeInvariant, PTL DEF Spec

\* No controller stays in the table that was silent for longer than the
\* threshold and one period, unless the clock was set.
THEOREM ListedFresh == Spec => []ListedAreFresh
<1>1. TypeInv /\ RowsInv => ListedAreFresh
  <2> SUFFICES ASSUME TypeInv, RowsInv, NEW d \in Listed
               PROVE  \/ m_heaters[d].clockSet
                      \/ m_heaters[d].silent + due < MaxAge
    BY DEF ListedAreFresh
  <2> QED
    BY DEF Listed, RowsInv, RowInv
<1> QED
  BY <1>1, TypeInvariant, RowsCorrect, PTL

\* What is reported lost.
LEMMA LostStep ==
    ASSUME TypeInv, RowsInv, Next, notice'.kind = "LOST"
    PROVE  \A d \in notice'.devices :
               /\ ~reported[d]
               /\ \/ m_heaters[d].silent >= DEVICE_LOST_THRESHOLD
                  \/ m_heaters[d].clockSet
<1> SUFFICES ASSUME NEW d \in notice'.devices
             PROVE  /\ ~reported[d]
                    /\ \/ m_heaters[d].silent >= DEVICE_LOST_THRESHOLD
                       \/ m_heaters[d].clockSet
  OBVIOUS
<1>1. CheckLostDevices(phone) /\ notice' = Notice("LOST", Lost)
  <2>1. CASE Registry
    BY <2>1 DEF Registry, DeviceBoots, RequestLost, TakeRequest, BeginPage,
                EndPage, Tick, SetClock, Quiet, Notice, CheckLostDevices
  <2>2. CASE Restart \/ Finish \/ Environment
    BY <2>2 DEF Restart, RestartRegistry, Finish, FinishRequest, Environment,
                Quiet
  <2>3. CASE SendBootMsg
    BY <2>3, ToPhoneLemma DEF SendBootMsg
  <2>4. CASE CheckWifi
    <3>1. \/ ToPhone("WIFI LOST") \/ ToPhone("WIFI RESTORED")
          \/ notice' = Quiet
      BY <2>4 DEF CheckWifi, WifiRestored, WifiError
    <3>2. notice' # Quiet
      BY DEF Quiet
    <3>3. ASSUME ToPhone("WIFI LOST") PROVE FALSE
      <4>1. notice'.kind \in {"WIFI LOST", "NONE"}
        BY <3>3, ToPhoneLemma
      <4> QED
        BY <4>1
    <3>4. ASSUME ToPhone("WIFI RESTORED") PROVE FALSE
      <4>1. notice'.kind \in {"WIFI RESTORED", "NONE"}
        BY <3>4, ToPhoneLemma
      <4> QED
        BY <4>1
    <3> QED
      BY <3>1, <3>2, <3>3, <3>4
  <2> QED
    BY <2>1, <2>2, <2>3, <2>4 DEF Next
<1>2. d \in Devices /\ m_heaters[d] # NoRow
      /\ m_heaters[d].age >= DEVICE_LOST_THRESHOLD
  BY <1>1 DEF Notice, Lost, Listed
<1>3. d # registering
  BY <1>1, <1>2, DeviceAssumption DEF CheckLostDevices
<1> QED
  BY <1>2, <1>3 DEF RowsInv, RowInv

\* A controller is only reported lost if it was silent for DEVICE_LOST_THRESHOLD
\* or the clock was set meanwhile.
THEOREM LostSilent == Spec => LostIsSilent
<1>1. TypeInv /\ RowsInv /\ [Next]_vars
      => [notice'.kind = "LOST" =>
             \A d \in notice'.devices :
                 \/ m_heaters[d].silent >= DEVICE_LOST_THRESHOLD
                 \/ m_heaters[d].clockSet]_registryVars
  BY LostStep DEF vars
<1> QED
  BY <1>1, TypeInvariant, RowsCorrect, PTL DEF Spec, LostIsSilent

\* It is reported once until it asks again.
THEOREM ReportedOnce == Spec => LostReportedOnce
<1>1. TypeInv /\ RowsInv /\ [Next]_vars
      => [notice'.kind = "LOST" =>
             \A d \in notice'.devices : ~reported[d]]_registryVars
  BY LostStep DEF vars
<1> QED
  BY <1>1, TypeInvariant, RowsCorrect, PTL DEF Spec, LostReportedOnce
-----------------------------------------------------------------------------
(***************************************************************************)
(* Rebooted controllers.                                                   *)
(***************************************************************************)
\* The difference of two counters below half of the range is the distance.
LEMMA DifferenceLemma ==
    ASSUME NEW a \in Nat, NEW b \in Nat, 2 * a < Modulus, 2 * b < Modulus
    PROVE  Difference(a, b) = IF a >= b THEN a - b ELSE b - a
<1>1. Modulus \in Int
  BY BootAssumption
<1>2. CASE a >= b
  BY <1>1, <1>2 DEF Difference
<1>3. CASE ~(a >= b)
  BY <1>1, <1>3 DEF Difference
<1> QED
  BY <1>2, <1>3

\* Counters of starts with different numbers are far apart.
LEMMA FarLemma ==
    ASSUME NEW x \in Nat, NEW y \in Nat, x < y,
           NEW k \in 0 .. MaxSent, NEW l \in 0 .. MaxSent
    PROVE  (y * BootSpan + l) - (x * BootSpan + k) > RebootThreshold
<1>1. BootSpan \in Nat /\ MaxSent \in Nat /\ RebootThreshold \in Nat
      /\ MaxSent + RebootThreshold < BootSpan
  BY BootAssumption
<1>2. PICK z \in Nat : y = x + 1 + z
  <2>1. y - x - 1 \in Nat /\ y = x + 1 + (y - x - 1)
    OBVIOUS
  <2> QED
    BY <2>1
<1>3. y * BootSpan = x * BootSpan + BootSpan + z * BootSpan
  BY <1>1, <1>2
<1>4. z * BootSpan \in Nat /\ x * BootSpan \in Nat
  BY <1>1
<1> QED
  BY <1>1, <1>3, <1>4

\* A counter taken from a start with the random number b.
LEMMA RangeLemma ==
    ASSUME NEW b \in Boots, NEW k \in 0 .. MaxSent
    PROVE  b * BootSpan + k \in Nat /\ 2 * (b * BootSpan + k) < Modulus
<1>1. b \in Nat /\ BootSpan \in Nat /\ MaxSent \in Nat /\ Modulus \in Nat
  BY BootAssumption
<1>2. b * BootSpan \in Nat
  BY <1>1
<1>3. 2 * (b * BootSpan + MaxSent) < Modulus
  BY BootAssumption DEF CounterBound
<1> QED
  BY <1>1, <1>2, <1>3

\* What the base station remembers of a controller: the counter of a request
\* of the start it last heard of, which is the current start unless there was
\* another since, and then all later numbers were lost.
CounterInv(d) ==
    \/ heard[d] = NoBoot /\ m_heater_counter[d] = NoCounter
    \/ /\ heard[d] \in Boots
       /\ \E k \in 0 .. MaxSent : m_heater_counter[d] = heard[d] * BootSpan + k
       /\ ~restarted[d] =>
              /\ heard[d] = boot[d]
              /\ m_heater_counter[d] + 1 + missed[d] = Counter(d)
CountersInv == \A d \in Devices : CounterInv(d)

LEMMA CountersStep ==
    ASSUME TypeInv, CountersInv, [Next]_vars
    PROVE  CountersInv'
<1> SUFFICES ASSUME NEW e \in Devices PROVE CounterInv(e)'
  BY DEF CountersInv
<1>t. DevicesTypeOK /\ CountersTypeOK
  BY DEF TypeInv, TypeOK, RegistryTypeOK
<1>s. /\ sent[e] \in 0 .. MaxSent /\ missed[e] \in 0 .. MaxSent
      /\ boot[e] \in Boots
  BY <1>t DEF DevicesTypeOK, CountersTypeOK
<1>c. CounterInv(e)
  BY DEF CountersInv
<1>m. MaxSent \in Nat
  BY BootAssumption
<1>0. Counter(e) \in Int /\ Counter(e) = boot[e] * BootSpan + sent[e]
      /\ boot[e] * BootSpan \in Int
  <2>1. boot[e] * BootSpan + 0 \in Nat
    BY <1>s, <1>m, RangeLemma
  <2>2. boot[e] \in Nat /\ BootSpan \in Nat
    BY <1>s, BootAssumption
  <2>3. boot[e] * BootSpan \in Int
    BY <2>2
  <2> QED
    BY <2>3, <1>s, <1>m DEF Counter
<1>1. ASSUME NEW d \in Devices, DeviceBoots(d)
      PROVE  CounterInv(e)'
  <2>1. /\ UNCHANGED <<m_heater_counter, heard>>
        /\ restarted'[e] = (IF e = d THEN TRUE ELSE restarted[e])
        /\ missed'[e] = IF e = d THEN 0 ELSE missed[e]
    BY <1>1, <1>t DEF DeviceBoots, CountersTypeOK
  <2>2. e # d => boot'[e] = boot[e] /\ sent'[e] = sent[e]
    BY <1>1, <1>t DEF DeviceBoots, DevicesTypeOK
  <2> QED
    BY <1>c, <2>1, <2>2 DEF CounterInv, Counter
<1>2. ASSUME NEW d \in Devices, RequestLost(d)
      PROVE  CounterInv(e)'
  <2>1. UNCHANGED <<m_heater_counter, heard, restarted, boot>>
    BY <1>2 DEF RequestLost
  <2>2. CASE e # d
    <3>1. missed'[e] = missed[e] /\ sent'[e] = sent[e]
      BY <1>2, <1>t, <2>2 DEF RequestLost, DevicesTypeOK, CountersTypeOK
    <3> QED
      BY <1>c, <2>1, <3>1 DEF CounterInv, Counter
  <2>3. CASE e = d
    <3>1. missed'[e] = missed[e] + 1 /\ sent'[e] = sent[e] + 1
      BY <1>2, <1>t, <2>3 DEF RequestLost, DevicesTypeOK, CountersTypeOK
    <3>2. Counter(e)' = Counter(e) + 1
      BY <1>0, <1>s, <2>1, <3>1 DEF Counter
    <3>3. m_heater_counter[e] \in Int
      BY <1>t DEF CountersTypeOK
    <3>4. m_heater_counter[e] + 1 + missed[e] = Counter(e)
          => m_heater_counter[e] + 1 + missed'[e] = Counter(e)'
      BY <1>0, <1>s, <3>1, <3>2, <3>3
    <3> QED
      BY <1>c, <2>1, <3>4 DEF CounterInv
  <2> QED
    BY <2>2, <2>3
<1>3. ASSUME NEW d \in Devices, TakeRequest(d)
      PROVE  CounterInv(e)'
  <2>1. UNCHANGED boot
    BY <1>3 DEF TakeRequest
  <2>2. CASE e # d
    <3>1. /\ m_heater_counter'[e] = m_heater_counter[e]
          /\ heard'[e] = heard[e] /\ restarted'[e] = restarted[e]
          /\ missed'[e] = missed[e] /\ sent'[e] = sent[e]
      BY <1>3, <1>t, <2>2
      DEF TakeRequest, RecordCounter, DevicesTypeOK, CountersTypeOK
    <3> QED
      BY <1>c, <2>1, <3>1 DEF CounterInv, Counter
  <2>3. CASE e = d
    <3>1. /\ m_heater_counter'[e] = Counter(e)
          /\ heard'[e] = boot[e]
          /\ missed'[e] = 0 /\ sent'[e] = sent[e] + 1
      BY <1>3, <1>t, <2>3
      DEF TakeRequest, RecordCounter, DevicesTypeOK, CountersTypeOK
    <3>2. Counter(e)' = Counter(e) + 1
      BY <1>0, <1>s, <2>1, <3>1 DEF Counter
    <3> QED
      BY <1>0, <1>s, <2>1, <3>1, <3>2 DEF CounterInv
  <2> QED
    BY <2>2, <2>3
<1>4. CASE RestartRegistry
  BY <1>4 DEF RestartRegistry, CounterInv
<1>5. CASE \/ FinishRequest \/ CheckLostDevices(phone) \/ BeginPage
           \/ EndPage \/ Tick \/ SetClock \/ NotTheRegistry
  <2>1. UNCHANGED <<boot, sent, m_heater_counter, restarted, missed, heard>>
    BY <1>5
    DEF FinishRequest, CheckLostDevices, BeginPage, EndPage, Tick, SetClock,
        NotTheRegistry
  <2> QED
    BY <1>c, <2>1 DEF CounterInv, Counter
<1> QED
  BY <1>1, <1>2, <1>3, <1>4, <1>5, RegistrySteps

LEMMA CountersCorrect == Spec => []CountersInv
<1>1. Init => CountersInv
  BY DEF Init, RegistryInit, CountersInv, CounterInv
<1>2. TypeInv /\ CountersInv /\ [Next]_vars => CountersInv'
  BY CountersStep
<1> QED
  BY <1>1, <1>2, TypeInvariant, PTL DEF Spec

\* What the test on the counters tells of a controller heard of before.
LEMMA RebootedLemma ==
    ASSUME TypeInv, CountersInv, NEW d \in Devices
    PROVE  /\ heard[d] \notin {NoBoot, boot[d]} => Rebooted(d)
           /\ Rebooted(d) /\ ~restarted[d] => missed[d] >= RebootThreshold
<1>t. DevicesTypeOK /\ CountersTypeOK
  BY DEF TypeInv, TypeOK, RegistryTypeOK
<1>s. /\ sent[d] \in 0 .. MaxSent /\ missed[d] \in 0 .. MaxSent
      /\ boot[d] \in Boots /\ RebootThreshold \in Nat /\ MaxSent \in Nat
  BY <1>t, BootAssumption DEF DevicesTypeOK, CountersTypeOK
<1>1. Counter(d) \in Nat /\ 2 * Counter(d) < Modulus
  BY <1>s, RangeLemma DEF Counter
<1>2. ASSUME heard[d] \in Boots,
             NEW k \in 0 .. MaxSent,
             m_heater_counter[d] = heard[d] * BootSpan + k
      PROVE  /\ m_heater_counter[d] \in Nat
             /\ m_heater_counter[d] # NoCounter
             /\ Difference(Counter(d), m_heater_counter[d]) =
                    IF Counter(d) >= m_heater_counter[d]
                    THEN Counter(d) - m_heater_counter[d]
                    ELSE m_heater_counter[d] - Counter(d)
  <2>1. m_heater_counter[d] \in Nat /\ 2 * m_heater_counter[d] < Modulus
    BY <1>2, RangeLemma
  <2> QED
    BY <1>1, <2>1, DifferenceLemma DEF NoCounter
<1>3. CASE heard[d] = NoBoot /\ m_heater_counter[d] = NoCounter
  BY <1>3 DEF Rebooted
<1>4. CASE /\ heard[d] \in Boots
           /\ \E k \in 0 .. MaxSent : m_heater_counter[d] = heard[d] * BootSpan + k
           /\ ~restarted[d] =>
                  /\ heard[d] = boot[d]
                  /\ m_heater_counter[d] + 1 + missed[d] = Counter(d)
  <2>1. PICK k \in 0 .. MaxSent : m_heater_counter[d] = heard[d] * BootSpan + k
    BY <1>4
  <2>2. ASSUME heard[d] # boot[d] PROVE Rebooted(d)
    <3>1. heard[d] \in Nat /\ boot[d] \in Nat
      BY <1>4, <1>s, BootAssumption
    <3>2. heard[d] < boot[d] \/ boot[d] < heard[d]
      BY <2>2, <3>1
    <3>3. CASE heard[d] < boot[d]
      <4>1. Counter(d) - m_heater_counter[d] > RebootThreshold
        BY <1>s, <2>1, <3>1, <3>3, FarLemma DEF Counter
      <4> QED
        BY <1>1, <1>2, <1>4, <1>s, <2>1, <4>1 DEF Rebooted
    <3>4. CASE boot[d] < heard[d]
      <4>1. m_heater_counter[d] - Counter(d) > RebootThreshold
        BY <1>s, <2>1, <3>1, <3>4, FarLemma DEF Counter
      <4> QED
        BY <1>1, <1>2, <1>4, <1>s, <2>1, <4>1 DEF Rebooted
    <3> QED
      BY <3>2, <3>3, <3>4
  <2>3. ASSUME Rebooted(d), ~restarted[d] PROVE missed[d] >= RebootThreshold
    <3>1. m_heater_counter[d] + 1 + missed[d] = Counter(d)
      BY <1>4, <2>3
    <3>2. m_heater_counter[d] \in Nat
      BY <1>2, <1>4, <2>1
    <3>3. Difference(Counter(d), m_heater_counter[d]) = 1 + missed[d]
      BY <1>1, <1>2, <1>4, <1>s, <2>1, <3>1, <3>2
    <3> QED
      BY <1>s, <2>3, <3>3 DEF Rebooted
  <2> QED
    BY <2>2, <2>3
<1> QED
  BY <1>3, <1>4 DEF CountersInv, CounterInv

\* The warning on a reboot and the step that takes a request.
LEMMA RebootStep ==
    ASSUME TypeInv, Next, NEW d \in Devices
    PROVE  /\ notice'.kind = "REBOOT" /\ d \in notice'.devices => Rebooted(d)
           /\ registering = NoDevice /\ registering' = d =>
                  notice' = IF Rebooted(d) THEN Notice("REBOOT", {d}) ELSE Quiet
<1>1. ASSUME NEW e \in Devices, TakeRequest(e)
      PROVE  /\ registering' = e
             /\ notice' = IF Rebooted(e) THEN Notice("REBOOT", {e}) ELSE Quiet
  BY <1>1 DEF TakeRequest
<1>2. CASE \E e \in Devices : TakeRequest(e)
  <2>1. PICK e \in Devices : TakeRequest(e)
    BY <1>2
  <2>2. registering' = e
        /\ notice' = IF Rebooted(e) THEN Notice("REBOOT", {e}) ELSE Quiet
    BY <1>1, <2>1
  <2>3. registering = NoDevice /\ registering' = d =>
            notice' = IF Rebooted(d) THEN Notice("REBOOT", {d}) ELSE Quiet
    BY <2>2
  <2>4. CASE Rebooted(e)
    <3>1. notice'.devices = {e}
      BY <2>2, <2>4 DEF Notice
    <3> QED
      BY <2>3, <2>4, <3>1
  <2>5. CASE ~Rebooted(e)
    <3>1. notice'.kind = "NONE"
      BY <2>2, <2>5 DEF Quiet
    <3> QED
      BY <2>3, <3>1
  <2> QED
    BY <2>4, <2>5
<1>3. CASE ~\E e \in Devices : TakeRequest(e)
  <2>1. notice'.kind # "REBOOT"
    <3>1. CASE Registry
      BY <1>3, <3>1
      DEF Registry, DeviceBoots, RequestLost, BeginPage, EndPage, Tick,
          SetClock, CheckLostDevices, Quiet, Notice
    <3>2. CASE Restart \/ Finish \/ Environment
      BY <3>2 DEF Restart, RestartRegistry, Finish, FinishRequest,
                  Environment, Quiet
    <3>3. CASE SendBootMsg
      BY <3>3, ToPhoneLemma DEF SendBootMsg
    <3>4. CASE CheckWifi
      <4>1. \/ ToPhone("WIFI LOST") \/ ToPhone("WIFI RESTORED")
            \/ notice' = Quiet
        BY <3>4 DEF CheckWifi, WifiRestored, WifiError
      <4>2. ASSUME ToPhone("WIFI LOST") PROVE notice'.kind # "REBOOT"
        <5>1. notice'.kind \in {"WIFI LOST", "NONE"}
          BY <4>2, ToPhoneLemma
        <5> QED
          BY <5>1
      <4>3. ASSUME ToPhone("WIFI RESTORED") PROVE notice'.kind # "REBOOT"
        <5>1. notice'.kind \in {"WIFI RESTORED", "NONE"}
          BY <4>3, ToPhoneLemma
        <5> QED
          BY <5>1
      <4>4. ASSUME notice' = Quiet PROVE notice'.kind # "REBOOT"
        BY <4>4 DEF Quiet
      <4> QED
        BY <4>1, <4>2, <4>3, <4>4, Zenon
    <3> QED
      BY <3>1, <3>2, <3>3, <3>4 DEF Next
  <2>2. registering' \in {registering, NoDevice}
    BY <1>3
    DEF Next, Registry, DeviceBoots, RequestLost, BeginPage, EndPage, Tick,
        SetClock, CheckLostDevices, Restart, RestartRegistry, Finish,
        FinishRequest, Environment, SendBootMsg, CheckWifi
  <2> QED
    BY <2>1, <2>2, DeviceAssumption
<1> QED
  BY <1>2, <1>3

\* The warning is only sent of a controller that did start again, or of which
\* RebootThreshold requests were lost.
THEOREM RebootTrue == Spec => RebootNoticeIsTrue
<1>1. TypeInv /\ CountersInv /\ [Next]_vars
      => [\A d \in Devices :
              notice'.kind = "REBOOT" /\ d \in notice'.devices =>
                  restarted[d] \/ missed[d] >= RebootThreshold]_registryVars
  <2> SUFFICES ASSUME TypeInv, CountersInv, Next,
                      NEW d \in Devices,
                      notice'.kind = "REBOOT", d \in notice'.devices,
                      ~restarted[d]
               PROVE  missed[d] >= RebootThreshold
    BY DEF vars
  <2>1. Rebooted(d)
    BY RebootStep
  <2> QED
    BY <2>1, RebootedLemma
<1> QED
  BY <1>1, TypeInvariant, CountersCorrect, PTL DEF Spec, RebootNoticeIsTrue

\* A start with another number is noticed at the first request taken since.
THEOREM RebootSeen == Spec => RebootNoticed
<1>1. TypeInv /\ CountersInv /\ [Next]_vars
      => [\A d \in Devices :
              /\ registering = NoDevice /\ registering' = d
              /\ heard[d] \notin {NoBoot, boot[d]}
              => notice' = Notice("REBOOT", {d})]_registryVars
  <2> SUFFICES ASSUME TypeInv, CountersInv, Next,
                      NEW d \in Devices,
                      registering = NoDevice, registering' = d,
                      heard[d] \notin {NoBoot, boot[d]}
               PROVE  notice' = Notice("REBOOT", {d})
    BY DEF vars
  <2>1. Rebooted(d)
    BY RebootedLemma
  <2> QED
    BY <2>1, RebootStep
<1> QED
  BY <1>1, TypeInvariant, CountersCorrect, PTL DEF Spec, RebootNoticed
=============================================================================
