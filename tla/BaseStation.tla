----------------------------- MODULE BaseStation -----------------------------
(***************************************************************************)
(* The settings of the base station: the commands received by SMS that     *)
(* change them (BaseStation::parseCommands), the two watchdogs that        *)
(* override them (check3G, checkSMSDaemon), and the state file they are    *)
(* saved to and loaded from (saveState, loadState), with a process that    *)
(* may be killed between any two steps.                                    *)
(*                                                                         *)
(* The SMS thread only appends to m_commands (handleSMSCommand); all other *)
(* actions are steps of the main thread, which runs process() in a loop.   *)
(* `pc' is the place the main thread has reached:                          *)
(*   "idle"   between two commands or two handlers of process();           *)
(*   "open"   about to run `std::ofstream file(STATE_FILE_PATH)';          *)
(*   "write"  the file is truncated, its buffer not yet written;           *)
(*   "reply"  saved, about to acknowledge a heater command;                *)
(*   "down"   the process does not run.                                    *)
(***************************************************************************)
EXTENDS Naturals, Sequences, HeaterStates

CONSTANTS
    Names,           \* heater names, as upper-cased by parseCommands
    InvalidName,     \* a name check_heater_name refuses
    Senders,         \* the phone numbers SMS come from
    ValidNumbers,    \* the strings check_phone_number_format accepts
    InvalidNumber,   \* a string it refuses
    NoPhone,         \* the empty string, and a missing operand
    BASE_STATION_PIN,
    Commands,        \* the commands that may be received
    MODULE_3G_ERROR_THRESHOLD,
    DAEMON_ERROR_THRESHOLD,
    ModemStates,     \* the states of the 3G module considered
    StorageMayFail,  \* may opening or writing the state file fail?
    MaxCommands      \* bound on the length of m_commands

VARIABLES
    m_heater_default_state,
    m_heater_state,          \* settings by heater name
    m_locked,
    m_phone_whitelist,
    m_emergency_phone,
    m_commands,              \* queue of SMS waiting for the main thread
    m_3g_error_counter,
    m_daemon_error_counter,
    pc,
    replyTo,                 \* whom "reply" acknowledges, NoPhone elsewhere
    stateFile,               \* /var/lib/base_station.state
    sms,                     \* what the last step handed to SMSSender
    modem,                   \* the 3G module: external
    smsd,                    \* is the SMS daemon running? external
    fallbacks                \* history: the watchdogs that have fired

userState == <<m_heater_default_state, m_heater_state, m_phone_whitelist,
               m_emergency_phone>>
watchdogs == <<m_3g_error_counter, m_daemon_error_counter, fallbacks>>
environment == <<modem, smsd>>
vars == <<userState, m_locked, m_commands, watchdogs, pc, replyTo, stateFile,
          sms, environment>>
-----------------------------------------------------------------------------
(***************************************************************************)
(* Data.                                                                   *)
(***************************************************************************)
Numbers == ValidNumbers \cup {InvalidNumber, NoPhone}

Message == [from : Senders, command : Commands]

\* What the main thread hands to SMSSender::sendSMS; NoSms when nothing.
Sms == [to : Senders \cup ValidNumbers \cup {NoPhone},
        text : {"NONE", "ACK", "ERROR", "ANSWER", "3G RESTORED",
                "SMSD RESTORED"}]
NoSms == [to |-> NoPhone, text |-> "NONE"]
Reply(to, text) == [to |-> to, text |-> text]

\* What saveState writes and loadState reads back.
Content == [default : HeaterState, settings : SettingsOver(Names),
            whitelist : SUBSET ValidNumbers,
            emergency : ValidNumbers \cup {NoPhone}]

\* `content' is what loadState would find, of an empty file too.
StateFile == [exists : BOOLEAN, content : Content]

\* The settings of the constructor, which an empty file leaves as they are.
Factory == [default |-> FALLBACK_HEATER_STATE,
            settings |-> [n \in {} |-> FALLBACK_HEATER_STATE],
            whitelist |-> {}, emergency |-> NoPhone]

Memory == [default |-> m_heater_default_state, settings |-> m_heater_state,
           whitelist |-> m_phone_whitelist, emergency |-> m_emergency_phone]

running == pc # "down"

ASSUME NumbersAssumption ==
    /\ NoPhone \notin ValidNumbers \cup Senders \cup {InvalidNumber}
    /\ InvalidNumber \notin ValidNumbers
ASSUME NamesAssumption == InvalidName \notin Names
\* "ALL" and "HEATER" stand for the five spellings each has (ON is COMFORT),
\* "QUERY" for the commands that only reply.  A phone command whose operand is
\* missing, or followed by more words, has number NoPhone.
ASSUME CommandsAssumption ==
    \A c \in Commands :
        \/ c.kind = "ALL" /\ c.state \in HeaterState
        \/ /\ c.kind = "HEATER"
           /\ c.name \in Names \cup {InvalidName} /\ c.state \in HeaterState
        \/ /\ c.kind \in {"ADD PHONE", "REMOVE PHONE", "SET EMERGENCY PHONE"}
           /\ c.number \in Numbers
        \/ c.kind = "UNLOCK" /\ c.pin \in STRING
        \/ c.kind \in {"LOCK", "REMOVE EMERGENCY PHONE", "DEBUG REBOOT",
                       "QUERY"}
ASSUME ThresholdsAssumption ==
    /\ MODULE_3G_ERROR_THRESHOLD \in Nat \ {0}
    /\ DAEMON_ERROR_THRESHOLD \in Nat \ {0}
ASSUME ModemAssumption ==
    ModemStates \subseteq {"absent", "unregistered", "registered"}
ASSUME BoundsAssumption == StorageMayFail \in BOOLEAN /\ MaxCommands \in Nat
-----------------------------------------------------------------------------
(***************************************************************************)
(* Initially: the base station was just installed and has no state file.   *)
(***************************************************************************)
Init ==
    /\ m_heater_default_state = Factory.default
    /\ m_heater_state = Factory.settings
    /\ m_phone_whitelist = Factory.whitelist
    /\ m_emergency_phone = Factory.emergency
    /\ m_locked = FALSE
    /\ m_commands = <<>>
    /\ m_3g_error_counter = 0
    /\ m_daemon_error_counter = 0
    /\ fallbacks = {}
    /\ pc = "down"
    /\ replyTo = NoPhone
    /\ stateFile = [exists |-> FALSE, content |-> Factory]
    /\ sms = NoSms
    /\ modem \in ModemStates
    /\ smsd \in BOOLEAN
-----------------------------------------------------------------------------
(***************************************************************************)
(* The constructor and the end of the process.                             *)
(***************************************************************************)
\* Mutant: the heater_<name>_state lines are not read back.
RestoreDefaultOnly(content) ==
    /\ m_heater_default_state' = content.default
    /\ m_heater_state' = Factory.settings
    /\ m_phone_whitelist' = content.whitelist
    /\ m_emergency_phone' = content.emergency

Restore(content) ==
    /\ m_heater_default_state' = content.default
    /\ m_heater_state' = content.settings
    /\ m_phone_whitelist' = content.whitelist
    /\ m_emergency_phone' = content.emergency

\* if (!loadState()) saveState();  Nothing but the file survives: m_locked
\* and the counters start afresh.
Start ==
    /\ pc = "down"
    /\ Restore(stateFile.content)
    /\ pc' = IF stateFile.exists THEN "idle" ELSE "open"
    /\ sms' = NoSms
    /\ UNCHANGED <<m_locked, m_commands, watchdogs, replyTo, stateFile,
                   environment>>

\* The process ends and its memory with it; "down" shows the constructor's
\* values in the place of those that are gone.
Stop ==
    /\ Restore(Factory)
    /\ m_locked' = FALSE
    /\ m_commands' = <<>>
    /\ m_3g_error_counter' = 0
    /\ m_daemon_error_counter' = 0
    /\ fallbacks' = {}
    /\ pc' = "down"
    /\ replyTo' = NoPhone
    /\ sms' = NoSms
    /\ UNCHANGED <<stateFile, environment>>

Crash == running /\ Stop
-----------------------------------------------------------------------------
(***************************************************************************)
(* saveState: two steps, since a crash between them leaves an empty file.  *)
(***************************************************************************)
AfterSave == IF replyTo = NoPhone THEN "idle" ELSE "reply"

OpenStateFile ==
    /\ pc = "open"
    /\ \/ /\ stateFile' = [exists |-> TRUE, content |-> Factory]
          /\ pc' = "write"
       \/ /\ StorageMayFail
          /\ pc' = AfterSave
          /\ UNCHANGED stateFile
    /\ sms' = NoSms
    /\ UNCHANGED <<userState, m_locked, m_commands, watchdogs, replyTo,
                   environment>>

\* Mutant: the heater_<name>_state lines are not written.
WriteDefaultOnly ==
    /\ pc = "write"
    /\ stateFile' = [exists |-> TRUE,
                     content |-> [Memory EXCEPT !.settings = Factory.settings]]
    /\ pc' = AfterSave
    /\ sms' = NoSms
    /\ UNCHANGED <<userState, m_locked, m_commands, watchdogs, replyTo,
                   environment>>

\* The contents fit the stream's buffer: they are written when the stream is
\* closed, and a failure to do so goes unnoticed.
WriteStateFile ==
    /\ pc = "write"
    /\ \/ stateFile' = [exists |-> TRUE, content |-> Memory]
       \/ StorageMayFail /\ UNCHANGED stateFile
    /\ pc' = AfterSave
    /\ sms' = NoSms
    /\ UNCHANGED <<userState, m_locked, m_commands, watchdogs, replyTo,
                   environment>>

\* The acknowledgement of a heater command, sent after saveState.
AcknowledgeHeaterCommand ==
    /\ pc = "reply"
    /\ sms' = Reply(replyTo, "ACK")
    /\ replyTo' = NoPhone
    /\ pc' = "idle"
    /\ UNCHANGED <<userState, m_locked, m_commands, watchdogs, stateFile,
                   environment>>
-----------------------------------------------------------------------------
(***************************************************************************)
(* parseCommands.                                                          *)
(***************************************************************************)
\* handleSMSCommand, called by the SMS thread.
ReceiveSMS ==
    /\ running
    /\ Len(m_commands) < MaxCommands
    /\ \E msg \in Message : m_commands' = Append(m_commands, msg)
    /\ sms' = NoSms
    /\ UNCHANGED <<userState, m_locked, watchdogs, pc, replyTo, stateFile,
                   environment>>

\* Mutant: the test on the whitelist is inverted.
RefusedIfListEmpty(from) ==
    m_locked /\ m_phone_whitelist = {} /\ from \notin m_phone_whitelist

\* The test at the head of the loop.
Refused(from) ==
    m_locked /\ m_phone_whitelist # {} /\ from \notin m_phone_whitelist

Pop == /\ pc = "idle"
       /\ m_commands # <<>>
       /\ m_commands' = Tail(m_commands)

\* Mutant: the SMS stays at the head of the queue.
DropNothing ==
    /\ pc = "idle" /\ m_commands # <<>>
    /\ Refused(Head(m_commands).from)
    /\ sms' = NoSms
    /\ UNCHANGED <<userState, m_locked, m_commands, watchdogs, pc, replyTo,
                   stateFile, environment>>

\* Mutant: the rest of the queue is dropped with it.
DropQueue ==
    /\ pc = "idle" /\ m_commands # <<>>
    /\ Refused(Head(m_commands).from)
    /\ m_commands' = <<>>
    /\ sms' = NoSms
    /\ UNCHANGED <<userState, m_locked, watchdogs, pc, replyTo, stateFile,
                   environment>>

\* An SMS from a phone that is not on the whitelist is dropped silently.
DropCommand ==
    /\ Pop
    /\ Refused(Head(m_commands).from)
    /\ sms' = NoSms
    /\ UNCHANGED <<userState, m_locked, watchdogs, pc, replyTo, stateFile,
                   environment>>

\* The next command is of kind `kind' and is executed.
Execute(kind) ==
    /\ Pop
    /\ ~Refused(Head(m_commands).from)
    /\ Head(m_commands).command.kind = kind
    /\ UNCHANGED <<watchdogs, stateFile, environment>>

\* The sender and the command at the head of the queue.
From == Head(m_commands).from
Command == Head(m_commands).command

\* Mutants: the call to saveState is missing.
ReplyWithoutSave == pc' = "reply" /\ replyTo' = From /\ sms' = NoSms
ReplyNeverSave == sms' = Reply(From, "ACK") /\ UNCHANGED <<pc, replyTo>>

\* Save, then acknowledge to `from': heater commands.
SaveThenReply == pc' = "open" /\ replyTo' = From /\ sms' = NoSms
\* Reply, then save: phone commands.
ReplyThenSave == pc' = "open" /\ sms' = Reply(From, "ACK") /\ UNCHANGED replyTo
\* Only reply.
OnlyReply(text) == sms' = Reply(From, text) /\ UNCHANGED <<pc, replyTo>>
\* Say nothing.
Ignore == sms' = NoSms /\ UNCHANGED <<pc, replyTo>>

check_heater_name(name) == name \in Names

\* Mutant: every string is a phone number.
AnyString(number) == TRUE
check_phone_number_format(number) == number \in ValidNumbers

\* Mutant: the whitelist can be edited while locked.
OperandPresent(number) == number # NoPhone
\* When ADD PHONE and REMOVE PHONE do anything at all.
MayEditWhitelist(number) == ~m_locked /\ number # NoPhone

\* ALL OFF | ECO | DEFROST | COMFORT | ON
ExecuteAll ==
    /\ Execute("ALL")
    /\ m_heater_default_state' = Command.state
    /\ m_heater_state' = AllSetTo(m_heater_state, Command.state)
    /\ SaveThenReply
    /\ UNCHANGED <<m_locked, m_phone_whitelist, m_emergency_phone>>

\* HEATER <name> OFF | ECO | DEFROST | COMFORT | ON
ExecuteHeater ==
    /\ Execute("HEATER")
    /\ IF check_heater_name(Command.name)
       THEN /\ m_heater_state' =
                   WithEntry(m_heater_state, Command.name, Command.state)
            /\ SaveThenReply
       ELSE OnlyReply("ERROR") /\ UNCHANGED m_heater_state
    /\ UNCHANGED <<m_heater_default_state, m_locked, m_phone_whitelist,
                   m_emergency_phone>>

ExecuteLock ==
    /\ Execute("LOCK")
    /\ IF From \in m_phone_whitelist
       THEN OnlyReply("ACK") /\ m_locked' = TRUE
       ELSE OnlyReply("ERROR") /\ UNCHANGED m_locked
    /\ UNCHANGED userState

ExecuteUnlock ==
    /\ Execute("UNLOCK")
    /\ IF Command.pin = BASE_STATION_PIN
       THEN OnlyReply("ACK") /\ m_locked' = FALSE
       ELSE OnlyReply("ERROR") /\ UNCHANGED m_locked
    /\ UNCHANGED userState

\* ADD PHONE <number>: without effect, and without an answer, while locked.
ExecuteAddPhone ==
    /\ Execute("ADD PHONE")
    /\ IF ~MayEditWhitelist(Command.number)
       THEN Ignore /\ UNCHANGED m_phone_whitelist
       ELSE IF check_phone_number_format(Command.number)
       THEN /\ m_phone_whitelist' = m_phone_whitelist \cup {Command.number}
            /\ ReplyThenSave
       ELSE OnlyReply("ERROR") /\ UNCHANGED m_phone_whitelist
    /\ UNCHANGED <<m_heater_default_state, m_heater_state, m_locked,
                   m_emergency_phone>>

\* REMOVE PHONE <number>: the number is not checked.
ExecuteRemovePhone ==
    /\ Execute("REMOVE PHONE")
    /\ IF ~MayEditWhitelist(Command.number)
       THEN Ignore /\ UNCHANGED m_phone_whitelist
       ELSE /\ m_phone_whitelist' = m_phone_whitelist \ {Command.number}
            /\ ReplyThenSave
    /\ UNCHANGED <<m_heater_default_state, m_heater_state, m_locked,
                   m_emergency_phone>>

\* SET EMERGENCY PHONE <number>: also while locked.
ExecuteSetEmergencyPhone ==
    /\ Execute("SET EMERGENCY PHONE")
    /\ IF Command.number = NoPhone
       THEN Ignore /\ UNCHANGED m_emergency_phone
       ELSE IF check_phone_number_format(Command.number)
       THEN m_emergency_phone' = Command.number /\ ReplyThenSave
       ELSE OnlyReply("ERROR") /\ UNCHANGED m_emergency_phone
    /\ UNCHANGED <<m_heater_default_state, m_heater_state, m_locked,
                   m_phone_whitelist>>

\* REMOVE EMERGENCY PHONE: there is no call to saveState here.
ExecuteRemoveEmergencyPhone ==
    /\ Execute("REMOVE EMERGENCY PHONE")
    /\ IF m_emergency_phone # NoPhone THEN OnlyReply("ACK") ELSE Ignore
    /\ m_emergency_phone' = NoPhone
    /\ UNCHANGED <<m_heater_default_state, m_heater_state, m_locked,
                   m_phone_whitelist>>

\* PING, VERSION, GET ..., HELP, the other DEBUG commands, unknown commands.
ExecuteQuery ==
    /\ Execute("QUERY")
    /\ OnlyReply("ANSWER")
    /\ UNCHANGED <<userState, m_locked>>

\* DEBUG REBOOT: sync(); reboot(RB_AUTOBOOT);
ExecuteReboot ==
    /\ pc = "idle"
    /\ m_commands # <<>>
    /\ ~Refused(From)
    /\ Command.kind = "DEBUG REBOOT"
    /\ Stop

ParseCommands ==
    \/ DropCommand
    \/ ExecuteAll
    \/ ExecuteHeater
    \/ ExecuteLock
    \/ ExecuteUnlock
    \/ ExecuteAddPhone
    \/ ExecuteRemovePhone
    \/ ExecuteSetEmergencyPhone
    \/ ExecuteRemoveEmergencyPhone
    \/ ExecuteQuery
    \/ ExecuteReboot
-----------------------------------------------------------------------------
(***************************************************************************)
(* The watchdogs.  Each handler runs when its timer has expired; how long  *)
(* that takes is left open.                                                *)
(***************************************************************************)
\* One more error, counted up to one past the threshold: the code compares
\* the counter with the threshold only.
Incremented(counter, threshold) ==
    IF counter > threshold THEN counter ELSE counter + 1

\* Mutant: heaters without a setting of their own keep the default.
FallBackSettingsOnly(cause) ==
    /\ m_heater_state' = AllSetTo(m_heater_state, FALLBACK_HEATER_STATE)
    /\ fallbacks' = fallbacks \cup {cause}
    /\ UNCHANGED m_heater_default_state

\* Both handlers put all heaters in the fallback state, and do not save it.
FallBack(cause) ==
    /\ m_heater_default_state' = FALLBACK_HEATER_STATE
    /\ m_heater_state' = AllSetTo(m_heater_state, FALLBACK_HEATER_STATE)
    /\ fallbacks' = fallbacks \cup {cause}

\* Mutant: the notice follows any error.
NoticeAfterAnyError ==
    IF m_3g_error_counter # 0
    THEN [to |-> m_emergency_phone, text |-> "3G RESTORED"]
    ELSE NoSms

\* What is sent when the 3G module works again; the emergency phone is not
\* tested for being set.
ModemNotice ==
    IF m_3g_error_counter >= MODULE_3G_ERROR_THRESHOLD
    THEN [to |-> m_emergency_phone, text |-> "3G RESTORED"]
    ELSE NoSms

\* What is sent when the SMS daemon runs again, after any error.
DaemonNotice ==
    IF m_daemon_error_counter # 0 /\ m_emergency_phone # NoPhone
    THEN [to |-> m_emergency_phone, text |-> "SMSD RESTORED"]
    ELSE NoSms

Check3G ==
    /\ pc = "idle"
    /\ \/ /\ modem = "absent"
          /\ m_3g_error_counter' =
                 Incremented(m_3g_error_counter, MODULE_3G_ERROR_THRESHOLD)
          /\ IF m_3g_error_counter + 1 = MODULE_3G_ERROR_THRESHOLD
             THEN FallBack("3G")
             ELSE UNCHANGED <<m_heater_default_state, m_heater_state, fallbacks>>
          /\ sms' = NoSms
       \/ /\ modem = "unregistered"
          /\ sms' = NoSms
          /\ UNCHANGED <<m_heater_default_state, m_heater_state,
                         m_3g_error_counter, fallbacks>>
       \/ /\ modem = "registered"
          /\ m_3g_error_counter' = 0
          /\ sms' = ModemNotice
          /\ UNCHANGED <<m_heater_default_state, m_heater_state, fallbacks>>
    /\ UNCHANGED <<m_locked, m_phone_whitelist, m_emergency_phone, m_commands,
                   m_daemon_error_counter, pc, replyTo, stateFile, environment>>

CheckSMSDaemon ==
    /\ pc = "idle"
    /\ IF ~smsd
       THEN /\ m_daemon_error_counter' =
                   Incremented(m_daemon_error_counter, DAEMON_ERROR_THRESHOLD)
            /\ IF m_daemon_error_counter + 1 = DAEMON_ERROR_THRESHOLD
               THEN FallBack("SMSD")
               ELSE UNCHANGED <<m_heater_default_state, m_heater_state,
                                fallbacks>>
            /\ sms' = NoSms
       ELSE /\ m_daemon_error_counter' = 0
            /\ sms' = DaemonNotice
            /\ UNCHANGED <<m_heater_default_state, m_heater_state, fallbacks>>
    /\ UNCHANGED <<m_locked, m_phone_whitelist, m_emergency_phone, m_commands,
                   m_3g_error_counter, pc, replyTo, stateFile, environment>>
-----------------------------------------------------------------------------
(***************************************************************************)
(* The environment: the 3G module comes and goes, smsd stops and starts.   *)
(***************************************************************************)
ModemChanges ==
    /\ modem' \in ModemStates \ {modem}
    /\ sms' = NoSms
    /\ UNCHANGED <<userState, m_locked, m_commands, watchdogs, pc, replyTo,
                   stateFile, smsd>>

SmsdChanges ==
    /\ smsd' = ~smsd
    /\ sms' = NoSms
    /\ UNCHANGED <<userState, m_locked, m_commands, watchdogs, pc, replyTo,
                   stateFile, modem>>

\* The main thread between two handlers, and inside saveState.
MainThread ==
    \/ OpenStateFile
    \/ WriteStateFile
    \/ AcknowledgeHeaterCommand
    \/ ParseCommands

Next ==
    \/ Start
    \/ Crash
    \/ ReceiveSMS
    \/ MainThread
    \/ Check3G
    \/ CheckSMSDaemon
    \/ ModemChanges
    \/ SmsdChanges

Spec == Init /\ [][Next]_vars
-----------------------------------------------------------------------------
(***************************************************************************)
(* Safety.                                                                 *)
(***************************************************************************)
SettingsTypeOK ==
    /\ m_heater_default_state \in HeaterState
    /\ m_heater_state \in SettingsOver(Names)
    /\ m_phone_whitelist \in SUBSET ValidNumbers
    /\ m_emergency_phone \in ValidNumbers \cup {NoPhone}
WatchdogsTypeOK ==
    /\ m_3g_error_counter \in 0 .. MODULE_3G_ERROR_THRESHOLD + 1
    /\ m_daemon_error_counter \in 0 .. DAEMON_ERROR_THRESHOLD + 1
    /\ fallbacks \in SUBSET {"3G", "SMSD"}
ControlTypeOK ==
    /\ pc \in {"idle", "open", "write", "reply", "down"}
    /\ replyTo \in Senders \cup {NoPhone}
EnvironmentTypeOK ==
    /\ modem \in ModemStates
    /\ smsd \in BOOLEAN

\* Every variable holds a value the C++ variable it stands for can hold.
TypeOK ==
    /\ SettingsTypeOK
    /\ m_locked \in BOOLEAN
    /\ m_commands \in Seq(Message)
    /\ WatchdogsTypeOK
    /\ ControlTypeOK
    /\ stateFile \in StateFile
    /\ sms \in Sms
    /\ EnvironmentTypeOK

\* The base station is never locked for everybody: some phone that sends SMS
\* is on the whitelist, whatever LOCK, UNLOCK, ADD and REMOVE PHONE came from
\* whom, and whatever was restored from the file.
LockedHasKeyholder == m_locked => m_phone_whitelist \cap Senders # {}

\* Between two commands the file holds the settings in memory, except what
\* the code does not save: a fallback, which has put every heater in DEFROST,
\* and the removal of the emergency phone.
UnsavedFallback ==
    /\ fallbacks # {}
    /\ m_heater_default_state = FALLBACK_HEATER_STATE
    /\ m_heater_state = AllSetTo(stateFile.content.settings,
                                 FALLBACK_HEATER_STATE)
SavedWhenIdle ==
    ~StorageMayFail /\ pc = "idle" =>
        /\ m_phone_whitelist = stateFile.content.whitelist
        /\ m_emergency_phone \in {NoPhone, stateFile.content.emergency}
        /\ \/ UnsavedFallback
           \/ /\ m_heater_default_state = stateFile.content.default
              /\ m_heater_state = stateFile.content.settings

\* While the base station is locked, settings change only by a command of a
\* whitelisted phone, or by a fallback that puts every heater in DEFROST.
OnlyKeyholdersCommand ==
    [][m_locked /\ pc' # "down" /\ userState' # userState =>
         \/ Pop /\ From \in m_phone_whitelist
         \/ /\ m_commands' = m_commands
            /\ m_heater_default_state' = FALLBACK_HEATER_STATE
            /\ \A n \in DOMAIN m_heater_state :
                   m_heater_state'[n] = FALLBACK_HEATER_STATE
            /\ UNCHANGED <<m_phone_whitelist, m_emergency_phone>>]_vars

\* While the base station stays locked, nobody gets on or off the whitelist.
WhitelistFrozenWhileLocked ==
    [][m_locked /\ m_locked' => UNCHANGED m_phone_whitelist]_vars

\* A lock ends with an UNLOCK and the right PIN from a whitelisted phone, or
\* with the process: m_locked is not in the state file.
OnlyUnlockEndsLock ==
    [][m_locked /\ ~m_locked' =>
         \/ pc' = "down"
         \/ /\ Pop /\ From \in m_phone_whitelist
            /\ Command.kind = "UNLOCK" /\ Command.pin = BASE_STATION_PIN]_vars

\* An UNLOCK with the right PIN from a whitelisted phone stays in the queue for
\* as long as the lock lasts, whatever is refused before it and whoever tries
\* to get its sender off the whitelist.
UnlockQueued ==
    \E i \in DOMAIN m_commands :
        /\ m_commands[i].from \in m_phone_whitelist
        /\ m_commands[i].command.kind = "UNLOCK"
        /\ m_commands[i].command.pin = BASE_STATION_PIN
UnlockWaits == [][m_locked /\ m_locked' /\ UnlockQueued => UnlockQueued']_vars

\* When a heater command is acknowledged, a crash at any later point finds it
\* in the file: the acknowledgement comes after the write.
AcknowledgedIsSaved ==
    [][pc = "reply" /\ sms'.text = "ACK" /\ ~StorageMayFail =>
         stateFile.content = Memory]_vars

\* The SMS that says the heaters were set to DEFROST because of the 3G module
\* is sent only by a process that did set them.
ModemNoticeIsTrue ==
    [][sms'.text = "3G RESTORED" => "3G" \in fallbacks]_vars
-----------------------------------------------------------------------------
(***************************************************************************)
(* The heating policy this implements.                                     *)
(***************************************************************************)
PolicyOf(content) ==
    [n \in Names |-> StateOf(n, content.default, content.settings)]

Policy == INSTANCE HeatingPolicy
    WITH up <- running,
         target <- IF running THEN PolicyOf(Memory)
                   ELSE PolicyOf(stateFile.content),
         saved <- PolicyOf(stateFile.content)

\* What each heater is told changes only by a command for it or for all, by a
\* fallback or by a restart; what the file would restore is always the current
\* policy at some save, or DEFROST everywhere.
PolicySpec == Policy!Spec
-----------------------------------------------------------------------------
(***************************************************************************)
(* Liveness.  The main thread is scheduled (weak fairness).  process()     *)
(* reaches check3G and checkSMSDaemon again and again, since SMS arrive    *)
(* more slowly than parseCommands takes them (strong fairness: a command   *)
(* disables them for as long as it is being executed).  Nothing is assumed *)
(* of Start, Crash, the SMS thread or the environment.                     *)
(***************************************************************************)
FairSpec == /\ Spec
            /\ WF_vars(MainThread)
            /\ SF_vars(Check3G)
            /\ SF_vars(CheckSMSDaemon)

\* Every heater is told to go to DEFROST.
AllDefrost == PolicyOf(Memory) = Policy!Everywhere(FALLBACK_HEATER_STATE)

\* An UNLOCK with the right PIN from a whitelisted phone ends the lock, however
\* many SMS of strangers are queued before it.
KeyholderCanUnlock == m_locked /\ UnlockQueued ~> ~m_locked

\* A 3G module that stays absent puts every heater in DEFROST, if its errors
\* had not reached the threshold before; so does an SMS daemon that stays down.
OutagesFallBack ==
    /\ running /\ modem = "absent" /\ m_3g_error_counter < MODULE_3G_ERROR_THRESHOLD
           ~> ~running \/ modem # "absent" \/ AllDefrost
    /\ running /\ ~smsd /\ m_daemon_error_counter < DAEMON_ERROR_THRESHOLD
           ~> ~running \/ smsd \/ AllDefrost
-----------------------------------------------------------------------------
(***************************************************************************)
(* What documentation, comments and messages say and the code does not do. *)
(***************************************************************************)
\* base_station/README.md: any phone can send the UNLOCK command.
AnyPhoneCanUnlock ==
    [][Pop /\ Command.kind = "UNLOCK" /\ Command.pin = BASE_STATION_PIN =>
         ~m_locked']_vars

\* base_station/README.md: REMOVE EMERGENCY PHONE removes it, so that a
\* restart should not bring it back.
RemovedEmergencyPhoneIsForgotten ==
    pc = "idle" /\ m_emergency_phone = NoPhone =>
        stateFile.content.emergency = NoPhone

\* The SMS of checkSMSDaemon says all heaters were set to DEFROST.
DaemonNoticeIsTrue ==
    [][sms'.text = "SMSD RESTORED" => fallbacks # {}]_vars
=============================================================================
