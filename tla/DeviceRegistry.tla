--------------------------- MODULE DeviceRegistry ----------------------------
(***************************************************************************)
(* What the base station knows of the heater controllers: the counter of   *)
(* the last request of each (m_heater_counter), from which it tells that   *)
(* one has rebooted (BaseStation::parseMessage), and the table the web     *)
(* page shows (m_heaters), from which a controller that stays silent is    *)
(* erased and reported lost (BaseStation::checkLostDevices).               *)
(*                                                                         *)
(* A controller starts its counter at a random number times BootSpan and   *)
(* adds one per request, so that counters of different starts are far      *)
(* apart (setup_commissioned).  The base station takes requests in the     *)
(* order in which they were sent; any of them may be lost.                 *)
(*                                                                         *)
(* Time passes in Ticks.  The table holds wall-clock times: here each row  *)
(* has the age the clock shows, and beside it, as history, the time that   *)
(* really passed and whether the clock was set since.                      *)
(***************************************************************************)
EXTENDS Integers, FiniteSets

CONSTANTS
    Devices,            \* MAC addresses
    NoDevice,
    States,             \* the heater states a controller may be told
    Boots,              \* the random numbers: 28 bits
    BootSpan,           \* 2^32
    Modulus,            \* 2^64, counters being uint64_t
    RebootThreshold,    \* 100
    MaxSent,            \* bound on the requests between two starts
    DEVICE_LOST_THRESHOLD,
    CHECK_LOST_DEVICES_PERIOD,
    MaxJump             \* bound on how far the clock is set

\* The comment in setup_commissioned: the highest bits are cleared so that the
\* counter does not overflow.
CounterBound == \A b \in Boots : 2 * (b * BootSpan + MaxSent) < Modulus
ASSUME BootAssumption ==
    /\ Boots \subseteq Nat /\ BootSpan \in Nat /\ Modulus \in Nat
    /\ RebootThreshold \in Nat /\ MaxSent \in Nat
    /\ MaxSent + RebootThreshold < BootSpan
    /\ CounterBound
ASSUME TimeAssumption ==
    /\ DEVICE_LOST_THRESHOLD \in Nat \ {0}
    /\ CHECK_LOST_DEVICES_PERIOD \in Nat \ {0}
    /\ MaxJump \in Nat
ASSUME DeviceAssumption ==
    NoDevice \notin Devices /\ "DEFROST" \in States /\ "NONE" \notin States

VARIABLES
    boot,               \* the random number of each controller's last start
    sent,               \* the requests it has made since
    m_heater_counter,   \* the counter of the last request taken from each
    m_heaters,          \* the table, NoRow for a controller not in it
    m_heaters_mutex,    \* who holds it
    registering,        \* whose row the main thread is writing
    web,                \* does the web thread build a page?
    due,                \* time until the timer of checkLostDevices expires
    notice,             \* what the last step handed to SMSSender
    restarted,          \* history: started since its last request was taken?
    missed,             \* history: requests lost since then
    heard,              \* history: the random number of that request
    answer,             \* history: the state it was answered with
    reported            \* history: reported lost since its last request?

deviceVars == <<boot, sent>>
counterVars == <<m_heater_counter, restarted, missed, heard>>
tableVars == <<m_heaters, reported>>
webVars == <<web, m_heaters_mutex>>
registryVars == <<deviceVars, counterVars, tableVars, webVars, registering,
                  answer, due, notice>>

Quiet == [kind |-> "NONE", devices |-> {}]
Notice(kind, devices) == [kind |-> kind, devices |-> devices]

\* Ages are compared with the threshold only.
MaxAge == DEVICE_LOST_THRESHOLD + CHECK_LOST_DEVICES_PERIOD
Clamped(age) == IF age > MaxAge THEN MaxAge
                ELSE IF age < -MaxJump THEN -MaxJump ELSE age
NoRow == [state |-> "NONE", age |-> 0, silent |-> 0, clockSet |-> FALSE]
Row == [state : States, age : -MaxJump .. MaxAge, silent : 0 .. MaxAge,
        clockSet : BOOLEAN]
Listed == {d \in Devices : m_heaters[d] # NoRow}

NoCounter == -1
NoBoot == -1
Counter(d) == boot[d] * BootSpan + sent[d]
-----------------------------------------------------------------------------
\* The base station has just been started, the controllers at any time.
RegistryInit ==
    /\ boot \in [Devices -> Boots]
    /\ sent = [d \in Devices |-> 0]
    /\ m_heater_counter = [d \in Devices |-> NoCounter]
    /\ m_heaters = [d \in Devices |-> NoRow]
    /\ m_heaters_mutex = "free"
    /\ registering = NoDevice
    /\ web = "idle"
    /\ due = CHECK_LOST_DEVICES_PERIOD
    /\ notice = Quiet
    /\ restarted = [d \in Devices |-> FALSE]
    /\ missed = [d \in Devices |-> 0]
    /\ heard = [d \in Devices |-> NoBoot]
    /\ answer = [d \in Devices |-> "NONE"]
    /\ reported = [d \in Devices |-> FALSE]

\* The process of the base station ends and is started again.
RestartRegistry ==
    /\ m_heater_counter' = [d \in Devices |-> NoCounter]
    /\ m_heaters' = [d \in Devices |-> NoRow]
    /\ m_heaters_mutex' = "free"
    /\ registering' = NoDevice
    /\ web' = "idle"
    /\ due' = CHECK_LOST_DEVICES_PERIOD
    /\ notice' = Quiet
    /\ heard' = [d \in Devices |-> NoBoot]
    /\ answer' = [d \in Devices |-> "NONE"]
    /\ reported' = [d \in Devices |-> FALSE]
    /\ UNCHANGED <<deviceVars, restarted, missed>>
-----------------------------------------------------------------------------
(***************************************************************************)
(* The controllers.                                                        *)
(***************************************************************************)
\* A controller starts: the number may be the one it had before.
DeviceBoots(d) ==
    /\ \E b \in Boots : boot' = [boot EXCEPT ![d] = b]
    /\ sent' = [sent EXCEPT ![d] = 0]
    /\ restarted' = [restarted EXCEPT ![d] = TRUE]
    /\ missed' = [missed EXCEPT ![d] = 0]
    /\ notice' = Quiet
    /\ UNCHANGED <<m_heater_counter, heard, tableVars, webVars, registering,
                   answer, due>>

\* A request uses up a number and does not reach the base station.
RequestLost(d) ==
    /\ sent[d] < MaxSent
    /\ sent' = [sent EXCEPT ![d] = @ + 1]
    /\ missed' = [missed EXCEPT ![d] = @ + 1]
    /\ notice' = Quiet
    /\ UNCHANGED <<boot, m_heater_counter, restarted, heard, tableVars,
                   webVars, registering, answer, due>>
-----------------------------------------------------------------------------
(***************************************************************************)
(* parseMessage.                                                           *)
(***************************************************************************)
\* Mutant: the difference is not made positive.
SignedDifference(a, b) == a - b

\* llabs(a - b): an unsigned difference, taken for a signed number.
Difference(a, b) ==
    LET unsigned == IF a >= b THEN a - b ELSE a - b + Modulus
        signed == IF 2 * unsigned < Modulus THEN unsigned
                  ELSE unsigned - Modulus
    IN  IF signed < 0 THEN -signed ELSE signed

Rebooted(d) ==
    /\ m_heater_counter[d] # NoCounter
    /\ Difference(Counter(d), m_heater_counter[d]) > RebootThreshold

\* Mutant: the first counter is kept.
KeepCounter(d) ==
    m_heater_counter' = [m_heater_counter EXCEPT
        ![d] = IF @ = NoCounter THEN Counter(d) ELSE @]
RecordCounter(d) ==
    m_heater_counter' = [m_heater_counter EXCEPT ![d] = Counter(d)]

\* A request is taken, up to the lock of m_heaters_mutex.  The warning on a
\* reboot goes to the emergency phone, also if none is set.
TakeRequest(d) ==
    /\ registering = NoDevice /\ m_heaters_mutex = "free"
    /\ sent[d] < MaxSent
    /\ notice' = IF Rebooted(d) THEN Notice("REBOOT", {d}) ELSE Quiet
    /\ RecordCounter(d)
    /\ sent' = [sent EXCEPT ![d] = @ + 1]
    /\ restarted' = [restarted EXCEPT ![d] = FALSE]
    /\ missed' = [missed EXCEPT ![d] = 0]
    /\ heard' = [heard EXCEPT ![d] = boot[d]]
    /\ \E s \in States : answer' = [answer EXCEPT ![d] = s]
    /\ m_heaters_mutex' = "main"
    /\ registering' = d
    \* m_heaters[mac_addr] = Heater(name, dst): the epoch, and DEFROST.
    /\ m_heaters' = [m_heaters EXCEPT ![d] =
           [state |-> "DEFROST", age |-> MaxAge, silent |-> 0,
            clockSet |-> FALSE]]
    /\ reported' = [reported EXCEPT ![d] = FALSE]
    /\ UNCHANGED <<boot, web, due>>

\* Mutants: the time of the request is not kept; the mutex is not released.
UpdateState(row, state) == [row EXCEPT !.state = state]
KeepMutex == UNCHANGED m_heaters_mutex

Update(row, state) == [row EXCEPT !.state = state, !.age = 0]
Unlock == m_heaters_mutex' = "free"

\* m_heaters[mac_addr].update(state), and the reply.
FinishRequest ==
    /\ registering # NoDevice
    /\ m_heaters' = [m_heaters EXCEPT ![registering] =
                         Update(@, answer[registering])]
    /\ Unlock
    /\ registering' = NoDevice
    /\ notice' = Quiet
    /\ UNCHANGED <<deviceVars, counterVars, reported, web, answer, due>>
-----------------------------------------------------------------------------
(***************************************************************************)
(* checkLostDevices.                                                       *)
(***************************************************************************)
Lost == {d \in Listed : m_heaters[d].age >= DEVICE_LOST_THRESHOLD}

\* Mutant: the rows stay.
KeepLost == UNCHANGED m_heaters
EraseLost ==
    m_heaters' = [d \in Devices |-> IF d \in Lost THEN NoRow ELSE m_heaters[d]]

\* One SMS for all lost controllers, if there is an emergency phone: all are
\* erased either way.
CheckLostDevices(phone) ==
    /\ due = 0
    /\ registering = NoDevice /\ m_heaters_mutex = "free"
    /\ due' = CHECK_LOST_DEVICES_PERIOD
    /\ EraseLost
    /\ reported' = [d \in Devices |-> reported[d] \/ d \in Lost]
    /\ notice' = IF phone /\ Lost # {} THEN Notice("LOST", Lost) ELSE Quiet
    /\ UNCHANGED <<deviceVars, counterVars, webVars, registering, answer>>
-----------------------------------------------------------------------------
(***************************************************************************)
(* The web thread (BaseStation::buildWebpage), and time.                   *)
(***************************************************************************)
\* Mutant: the table is read without the mutex.
NoLock == UNCHANGED m_heaters_mutex
WebLock == m_heaters_mutex = "free" /\ m_heaters_mutex' = "web"

BeginPage ==
    /\ web = "idle"
    /\ web' = "reading"
    /\ WebLock
    /\ notice' = Quiet
    /\ UNCHANGED <<deviceVars, counterVars, tableVars, registering, answer, due>>

EndPage ==
    /\ web = "reading"
    /\ web' = "idle"
    /\ Unlock
    /\ notice' = Quiet
    /\ UNCHANGED <<deviceVars, counterVars, tableVars, registering, answer, due>>

\* The rows as they are after `ticks' of time, with the clock set by `jump'.
Aged(ticks, jump) ==
    [d \in Devices |->
        IF m_heaters[d] = NoRow THEN NoRow
        ELSE [m_heaters[d] EXCEPT
                 !.age = Clamped(@ + ticks + jump),
                 !.silent = Clamped(@ + ticks),
                 !.clockSet = @ \/ jump # 0]]

\* The main loop comes round every 50 ms: a request is finished and the timer
\* is served before the next tick.
Tick ==
    /\ due > 0 /\ registering = NoDevice
    /\ due' = due - 1
    /\ m_heaters' = Aged(1, 0)
    /\ notice' = Quiet
    /\ UNCHANGED <<deviceVars, counterVars, reported, webVars, registering,
                   answer>>

\* The clock is set, by NTP or by hand.
SetClock ==
    /\ registering = NoDevice
    /\ \E jump \in -MaxJump .. MaxJump \ {0} : m_heaters' = Aged(0, jump)
    /\ notice' = Quiet
    /\ UNCHANGED <<deviceVars, counterVars, reported, webVars, registering,
                   answer, due>>
-----------------------------------------------------------------------------
DevicesTypeOK ==
    /\ boot \in [Devices -> Boots]
    /\ sent \in [Devices -> 0 .. MaxSent]
CountersTypeOK ==
    /\ m_heater_counter \in [Devices -> Int]
    /\ restarted \in [Devices -> BOOLEAN]
    /\ missed \in [Devices -> 0 .. MaxSent]
    /\ heard \in [Devices -> Boots \cup {NoBoot}]
TableTypeOK ==
    /\ m_heaters \in [Devices -> Row \cup {NoRow}]
    /\ answer \in [Devices -> States \cup {"NONE"}]
    /\ reported \in [Devices -> BOOLEAN]
\* The mutex is held by the thread that is in its critical section.
MutexTypeOK ==
    /\ registering \in Devices \cup {NoDevice}
    /\ web \in {"idle", "reading"}
    /\ m_heaters_mutex = IF registering # NoDevice THEN "main"
                         ELSE IF web = "reading" THEN "web" ELSE "free"
RegistryTypeOK ==
    /\ DevicesTypeOK
    /\ CountersTypeOK
    /\ TableTypeOK
    /\ MutexTypeOK
    /\ due \in 0 .. CHECK_LOST_DEVICES_PERIOD
    /\ notice.devices \subseteq Devices

\* The SMS that a controller has rebooted is only sent if it did, or if so
\* many of its requests were lost that the counter cannot tell.
RebootNoticeIsTrue ==
    [][\A d \in Devices :
           notice'.kind = "REBOOT" /\ d \in notice'.devices =>
               restarted[d] \/ missed[d] >= RebootThreshold]_registryVars

\* The first request after a start with another number is noticed, if this
\* process has heard of the controller before: whichever number is larger, and
\* however many requests came before and were lost in between.
RebootNoticed ==
    [][\A d \in Devices :
           /\ registering = NoDevice /\ registering' = d
           /\ heard[d] \notin {NoBoot, boot[d]}
           => notice' = Notice("REBOOT", {d})]_registryVars

\* A controller is only reported lost if it was silent for as long as the SMS
\* says, or if the clock was set in the meantime.
LostIsSilent ==
    [][notice'.kind = "LOST" =>
           \A d \in notice'.devices :
               \/ m_heaters[d].silent >= DEVICE_LOST_THRESHOLD
               \/ m_heaters[d].clockSet]_registryVars

\* It is reported once: not again before another request was taken from it.
LostReportedOnce ==
    [][notice'.kind = "LOST" =>
           \A d \in notice'.devices : ~reported[d]]_registryVars

\* No controller stays in the table that was silent for longer than the
\* threshold and one period, if the clock was not set.
ListedAreFresh ==
    \A d \in Listed :
        m_heaters[d].clockSet \/ m_heaters[d].silent + due < MaxAge

\* The page shows each controller with the state it was answered with, never
\* with the state and the time of a row that is being written.
PageShowsAnswers ==
    web = "reading" =>
        \A d \in Listed : m_heaters[d].state = answer[d]
=============================================================================
