-------------------------- MODULE BaseStationProofs --------------------------
(***************************************************************************)
(* Proofs about BaseStation, for every set of names, phones and commands,  *)
(* every threshold and every queue bound.                                  *)
(***************************************************************************)
EXTENDS BaseStation, TLAPS

\* Settings stay settings when an entry is written and when all are set.
LEMMA SettingsLemma ==
    ASSUME NEW N, NEW f \in SettingsOver(N), NEW s \in HeaterState
    PROVE  /\ DOMAIN f \subseteq N
           /\ \A n \in DOMAIN f : f[n] \in HeaterState
           /\ AllSetTo(f, s) \in SettingsOver(N)
           /\ \A n \in N : WithEntry(f, n, s) \in SettingsOver(N)
<1>1. PICK S \in SUBSET N : f \in [S -> HeaterState]
  BY DEF SettingsOver
<1>2. AllSetTo(f, s) \in [S -> HeaterState]
  BY <1>1 DEF AllSetTo
<1>3. ASSUME NEW n \in N
      PROVE  WithEntry(f, n, s) \in [S \cup {n} -> HeaterState]
  BY <1>1 DEF WithEntry
<1>4. ASSUME NEW T \in SUBSET N, NEW g \in [T -> HeaterState]
      PROVE  g \in SettingsOver(N)
  BY DEF SettingsOver
<1>5. AllSetTo(f, s) \in SettingsOver(N)
  BY <1>2, <1>4
<1>6. \A n \in N : WithEntry(f, n, s) \in SettingsOver(N)
  BY <1>3, <1>4
<1>7. DOMAIN f \subseteq N /\ \A n \in DOMAIN f : f[n] \in HeaterState
  BY <1>1
<1> QED
  BY <1>5, <1>6, <1>7

\* The constructor's settings are ones the file can hold.
LEMMA FactoryLemma == Factory \in Content
<1>1. [n \in {} |-> FALLBACK_HEATER_STATE] \in [{} -> HeaterState]
  BY DEF FALLBACK_HEATER_STATE, HeaterState
<1>2. [n \in {} |-> FALLBACK_HEATER_STATE] \in SettingsOver(Names)
  BY <1>1 DEF SettingsOver
<1> QED
  BY <1>2 DEF Factory, Content, FALLBACK_HEATER_STATE, HeaterState

LEMMA FallbackLemma == FALLBACK_HEATER_STATE \in HeaterState
  BY DEF FALLBACK_HEATER_STATE, HeaterState

\* A queued SMS, and what is left of the queue without it.
LEMMA QueueLemma ==
    ASSUME m_commands \in Seq(Message), m_commands # <<>>
    PROVE  /\ Head(m_commands) \in Message
           /\ From \in Senders
           /\ Command \in Commands
           /\ Tail(m_commands) \in Seq(Message)
<1>1. Head(m_commands) \in Message /\ Tail(m_commands) \in Seq(Message)
  OBVIOUS
<1> QED
  BY <1>1 DEF Message, From, Command
\* The parts of a file's contents.
LEMMA ContentLemma ==
    ASSUME NEW c \in Content
    PROVE  /\ c.default \in HeaterState
           /\ c.settings \in SettingsOver(Names)
           /\ c.whitelist \in SUBSET ValidNumbers
           /\ c.emergency \in ValidNumbers \cup {NoPhone}
  BY DEF Content

LEMMA SmsLemma ==
    /\ NoSms \in Sms
    /\ \A to \in Senders \cup ValidNumbers \cup {NoPhone} :
          \A text \in {"ACK", "ERROR", "ANSWER", "3G RESTORED", "SMSD RESTORED"} :
              [to |-> to, text |-> text] \in Sms
  BY DEF NoSms, Sms

LEMMA InitType == Init => TypeOK
<1> SUFFICES ASSUME Init PROVE TypeOK
  OBVIOUS
<1>1. SettingsTypeOK
  BY FactoryLemma, ContentLemma DEF Init, SettingsTypeOK
<1>2. WatchdogsTypeOK
  BY ThresholdsAssumption DEF Init, WatchdogsTypeOK
<1>3. ControlTypeOK
  BY DEF Init, ControlTypeOK
<1>4. stateFile \in StateFile
  BY FactoryLemma DEF Init, StateFile
<1>5. sms \in Sms
  BY SmsLemma DEF Init
<1>6. EnvironmentTypeOK
  BY DEF Init, EnvironmentTypeOK
<1>7. m_locked \in BOOLEAN
  BY DEF Init
<1>8. m_commands \in Seq(Message)
  BY DEF Init
<1> QED
  BY <1>1, <1>2, <1>3, <1>4, <1>5, <1>6, <1>7, <1>8 DEF TypeOK

\* The end of the process leaves values of the right types.
LEMMA StopType == TypeOK /\ Stop => TypeOK'
<1> SUFFICES ASSUME TypeOK, Stop PROVE TypeOK'
  OBVIOUS
<1>1. SettingsTypeOK'
  BY FactoryLemma, ContentLemma DEF Stop, Restore, SettingsTypeOK
<1>2. WatchdogsTypeOK'
  BY ThresholdsAssumption DEF Stop, WatchdogsTypeOK
<1>3. ControlTypeOK'
  BY DEF Stop, ControlTypeOK
<1>4. (stateFile \in StateFile)' /\ (sms \in Sms)'
  BY SmsLemma DEF TypeOK, Stop
<1>5. EnvironmentTypeOK'
  BY DEF TypeOK, Stop, environment, EnvironmentTypeOK
<1>6. (m_locked \in BOOLEAN)'
  BY DEF Stop
<1>7. (m_commands \in Seq(Message))'
  BY DEF Stop
<1> QED
  BY <1>1, <1>2, <1>3, <1>4, <1>5, <1>6, <1>7 DEF TypeOK

\* What a handler knows of the command it executes.
LEMMA ExecuteLemma ==
    ASSUME TypeOK, NEW kind, Execute(kind)
    PROVE  /\ From \in Senders
           /\ Command \in Commands
           /\ Command.kind = kind
           /\ m_commands' \in Seq(Message)
           /\ pc = "idle"
           /\ m_commands' = Tail(m_commands)
           /\ UNCHANGED <<watchdogs, stateFile, environment>>
<1>1. m_commands \in Seq(Message) /\ m_commands # <<>>
  BY DEF TypeOK, Execute, Pop
<1> QED
  BY <1>1, QueueLemma DEF Execute, Pop, Command

\* The state a heater command asks for.
LEMMA CommandLemma ==
    ASSUME NEW c \in Commands, c.kind \in {"ALL", "HEATER"}
    PROVE  c.state \in HeaterState
  BY CommandsAssumption

\* The ways a handler ends leave pc, replyTo and sms well typed.
Ends == \/ SaveThenReply
        \/ ReplyThenSave
        \/ \E text \in {"ACK", "ERROR", "ANSWER"} : OnlyReply(text)
        \/ Ignore

\* A handler of parseCommands that ends in one of these ways and leaves the
\* settings and the lock well typed preserves TypeOK.
LEMMA HandlerType ==
    ASSUME TypeOK, NEW kind, Execute(kind), Ends,
           SettingsTypeOK', (m_locked \in BOOLEAN)'
    PROVE  TypeOK'
<1>1. From \in Senders /\ (m_commands \in Seq(Message))'
  BY ExecuteLemma
<1>2. ControlTypeOK'
  BY <1>1 DEF TypeOK, ControlTypeOK, Ends, SaveThenReply, ReplyThenSave,
              OnlyReply, Ignore
<1>3. (sms \in Sms)'
  BY <1>1, SmsLemma DEF Ends, SaveThenReply, ReplyThenSave, OnlyReply, Ignore,
                        Reply
<1>4. WatchdogsTypeOK'
  BY DEF TypeOK, Execute, watchdogs, WatchdogsTypeOK
<1>5. EnvironmentTypeOK' /\ (stateFile \in StateFile)'
  BY DEF TypeOK, Execute, environment, EnvironmentTypeOK
<1> QED
  BY <1>1, <1>2, <1>3, <1>4, <1>5 DEF TypeOK

LEMMA ParseCommandsType == TypeOK /\ ParseCommands => TypeOK'
<1> SUFFICES ASSUME TypeOK, ParseCommands PROVE TypeOK'
  OBVIOUS
<1>0. SettingsTypeOK /\ m_locked \in BOOLEAN
  BY DEF TypeOK
<1>1. CASE DropCommand
  <2>1. (m_commands \in Seq(Message))'
    BY <1>1, QueueLemma DEF TypeOK, DropCommand, Pop
  <2>2. (sms \in Sms)'
    BY <1>1, SmsLemma DEF DropCommand
  <2>3. SettingsTypeOK' /\ WatchdogsTypeOK' /\ ControlTypeOK'
    BY <1>1 DEF TypeOK, DropCommand, userState, watchdogs, SettingsTypeOK,
                WatchdogsTypeOK, ControlTypeOK
  <2>4. EnvironmentTypeOK' /\ (stateFile \in StateFile)' /\ (m_locked \in BOOLEAN)'
    BY <1>1 DEF TypeOK, DropCommand, environment, EnvironmentTypeOK
  <2> QED
    BY <2>1, <2>2, <2>3, <2>4 DEF TypeOK
<1>2. CASE ExecuteAll
  <2>1. Execute("ALL") /\ Ends /\ UNCHANGED m_locked
    BY <1>2 DEF ExecuteAll, Ends
  <2>2. Command.state \in HeaterState
    BY <2>1, ExecuteLemma, CommandLemma
  <2>3. AllSetTo(m_heater_state, Command.state) \in SettingsOver(Names)
    BY <1>0, <2>2, SettingsLemma DEF SettingsTypeOK
  <2>4. SettingsTypeOK'
    BY <1>0, <1>2, <2>2, <2>3 DEF ExecuteAll, SettingsTypeOK
  <2> QED
    BY <1>0, <2>1, <2>4, HandlerType
<1>3. CASE ExecuteHeater
  <2>1. Execute("HEATER") /\ Ends /\ UNCHANGED m_locked
    BY <1>3 DEF ExecuteHeater, Ends
  <2>2. Command.state \in HeaterState
    BY <2>1, ExecuteLemma, CommandLemma
  <2>3. Command.name \in Names =>
          WithEntry(m_heater_state, Command.name, Command.state)
              \in SettingsOver(Names)
    BY <1>0, <2>2, SettingsLemma DEF SettingsTypeOK
  <2>4. SettingsTypeOK'
    BY <1>0, <1>3, <2>3 DEF ExecuteHeater, check_heater_name, SettingsTypeOK
  <2> QED
    BY <1>0, <2>1, <2>4, HandlerType
<1>4. CASE ExecuteLock
  <2>1. Execute("LOCK") /\ Ends /\ SettingsTypeOK' /\ (m_locked \in BOOLEAN)'
    BY <1>0, <1>4 DEF ExecuteLock, Ends, userState, SettingsTypeOK
  <2> QED
    BY <2>1, HandlerType
<1>5. CASE ExecuteUnlock
  <2>1. Execute("UNLOCK") /\ Ends /\ SettingsTypeOK' /\ (m_locked \in BOOLEAN)'
    BY <1>0, <1>5 DEF ExecuteUnlock, Ends, userState, SettingsTypeOK
  <2> QED
    BY <2>1, HandlerType
<1>6. CASE ExecuteAddPhone
  <2>1. Execute("ADD PHONE") /\ Ends /\ UNCHANGED m_locked
    BY <1>6 DEF ExecuteAddPhone, Ends
  <2>2. SettingsTypeOK'
    BY <1>0, <1>6 DEF ExecuteAddPhone, check_phone_number_format, SettingsTypeOK
  <2> QED
    BY <1>0, <2>1, <2>2, HandlerType
<1>7. CASE ExecuteRemovePhone
  <2>1. Execute("REMOVE PHONE") /\ Ends /\ UNCHANGED m_locked
    BY <1>7 DEF ExecuteRemovePhone, Ends
  <2>2. SettingsTypeOK'
    BY <1>0, <1>7 DEF ExecuteRemovePhone, SettingsTypeOK
  <2> QED
    BY <1>0, <2>1, <2>2, HandlerType
<1>8. CASE ExecuteSetEmergencyPhone
  <2>1. Execute("SET EMERGENCY PHONE") /\ Ends /\ UNCHANGED m_locked
    BY <1>8 DEF ExecuteSetEmergencyPhone, Ends
  <2>2. SettingsTypeOK'
    BY <1>0, <1>8
    DEF ExecuteSetEmergencyPhone, check_phone_number_format, SettingsTypeOK
  <2> QED
    BY <1>0, <2>1, <2>2, HandlerType
<1>9. CASE ExecuteRemoveEmergencyPhone
  <2>1. Execute("REMOVE EMERGENCY PHONE") /\ Ends /\ UNCHANGED m_locked
    BY <1>9 DEF ExecuteRemoveEmergencyPhone, Ends
  <2>2. SettingsTypeOK'
    BY <1>0, <1>9 DEF ExecuteRemoveEmergencyPhone, SettingsTypeOK
  <2> QED
    BY <1>0, <2>1, <2>2, HandlerType
<1>10. CASE ExecuteQuery
  <2>1. Execute("QUERY") /\ Ends /\ SettingsTypeOK' /\ UNCHANGED m_locked
    BY <1>0, <1>10 DEF ExecuteQuery, Ends, userState, SettingsTypeOK
  <2> QED
    BY <1>0, <2>1, HandlerType
<1>11. CASE ExecuteReboot
  BY <1>11, StopType DEF ExecuteReboot
<1> QED
  BY <1>1, <1>2, <1>3, <1>4, <1>5, <1>6, <1>7, <1>8, <1>9, <1>10, <1>11
  DEF ParseCommands

\* Both fallbacks leave settings of the right type.
LEMMA FallBackType ==
    ASSUME TypeOK, NEW cause \in {"3G", "SMSD"}, FallBack(cause),
           UNCHANGED <<m_phone_whitelist, m_emergency_phone>>
    PROVE  SettingsTypeOK' /\ (fallbacks \in SUBSET {"3G", "SMSD"})'
<1>1. AllSetTo(m_heater_state, FALLBACK_HEATER_STATE) \in SettingsOver(Names)
  BY SettingsLemma, FallbackLemma DEF TypeOK, SettingsTypeOK
<1> QED
  BY <1>1, FallbackLemma DEF TypeOK, SettingsTypeOK, WatchdogsTypeOK, FallBack

LEMMA CounterLemma ==
    ASSUME NEW t \in Nat, NEW c \in 0 .. t + 1
    PROVE  Incremented(c, t) \in 0 .. t + 1
  BY DEF Incremented

LEMMA StepType == TypeOK /\ [Next]_vars => TypeOK'
<1> SUFFICES ASSUME TypeOK, [Next]_vars PROVE TypeOK'
  OBVIOUS
<1>1. CASE Start
  <2>1. stateFile.content \in Content
    BY DEF TypeOK, StateFile
  <2>2. SettingsTypeOK'
    BY <1>1, <2>1, ContentLemma DEF Start, Restore, SettingsTypeOK
  <2>3. (sms \in Sms)'
    BY <1>1, SmsLemma DEF Start
  <2>4. WatchdogsTypeOK' /\ ControlTypeOK' /\ (m_commands \in Seq(Message))'
    BY <1>1 DEF TypeOK, Start, watchdogs, WatchdogsTypeOK, ControlTypeOK
  <2>5. EnvironmentTypeOK' /\ (stateFile \in StateFile)' /\ (m_locked \in BOOLEAN)'
    BY <1>1 DEF TypeOK, Start, environment, EnvironmentTypeOK
  <2> QED
    BY <2>2, <2>3, <2>4, <2>5 DEF TypeOK
<1>2. CASE Crash
  BY <1>2, StopType DEF Crash
<1>3. CASE ReceiveSMS
  <2>1. (m_commands \in Seq(Message))'
    <3>1. PICK msg \in Message : m_commands' = Append(m_commands, msg)
      BY <1>3 DEF ReceiveSMS
    <3>2. m_commands \in Seq(Message)
      BY DEF TypeOK
    <3> QED
      BY <3>1, <3>2
  <2>2. (sms \in Sms)'
    BY <1>3, SmsLemma DEF ReceiveSMS
  <2>3. SettingsTypeOK' /\ WatchdogsTypeOK' /\ ControlTypeOK'
    BY <1>3 DEF TypeOK, ReceiveSMS, userState, watchdogs, SettingsTypeOK,
                WatchdogsTypeOK, ControlTypeOK
  <2>4. EnvironmentTypeOK' /\ (stateFile \in StateFile)' /\ (m_locked \in BOOLEAN)'
    BY <1>3 DEF TypeOK, ReceiveSMS, environment, EnvironmentTypeOK
  <2> QED
    BY <2>1, <2>2, <2>3, <2>4 DEF TypeOK
<1>4. CASE OpenStateFile
  <2>1. (stateFile \in StateFile)'
    <3>1. [exists |-> TRUE, content |-> Factory] \in StateFile
      BY FactoryLemma DEF StateFile
    <3> QED
      BY <1>4, <3>1 DEF TypeOK, OpenStateFile
  <2>2. (sms \in Sms)'
    BY <1>4, SmsLemma DEF OpenStateFile
  <2>3. SettingsTypeOK' /\ WatchdogsTypeOK' /\ ControlTypeOK'
    BY <1>4 DEF TypeOK, OpenStateFile, AfterSave, userState, watchdogs,
                SettingsTypeOK, WatchdogsTypeOK, ControlTypeOK
  <2>4. /\ EnvironmentTypeOK'
        /\ (m_commands \in Seq(Message))'
        /\ (m_locked \in BOOLEAN)'
    BY <1>4 DEF TypeOK, OpenStateFile, environment, EnvironmentTypeOK
  <2> QED
    BY <2>1, <2>2, <2>3, <2>4 DEF TypeOK
<1>5. CASE WriteStateFile
  <2>1. Memory \in Content
    BY DEF TypeOK, SettingsTypeOK, Memory, Content
  <2>2. (stateFile \in StateFile)'
    <3>1. [exists |-> TRUE, content |-> Memory] \in StateFile
      BY <2>1 DEF StateFile
    <3> QED
      BY <1>5, <3>1 DEF TypeOK, WriteStateFile
  <2>3. (sms \in Sms)'
    BY <1>5, SmsLemma DEF WriteStateFile
  <2>4. SettingsTypeOK' /\ WatchdogsTypeOK' /\ ControlTypeOK'
    BY <1>5 DEF TypeOK, WriteStateFile, AfterSave, userState, watchdogs,
                SettingsTypeOK, WatchdogsTypeOK, ControlTypeOK
  <2>5. /\ EnvironmentTypeOK'
        /\ (m_commands \in Seq(Message))'
        /\ (m_locked \in BOOLEAN)'
    BY <1>5 DEF TypeOK, WriteStateFile, environment, EnvironmentTypeOK
  <2> QED
    BY <2>2, <2>3, <2>4, <2>5 DEF TypeOK
<1>6. CASE AcknowledgeHeaterCommand
  <2>1. (sms \in Sms)'
    BY <1>6, SmsLemma
    DEF TypeOK, ControlTypeOK, AcknowledgeHeaterCommand, Reply
  <2>2. SettingsTypeOK' /\ WatchdogsTypeOK' /\ ControlTypeOK'
    BY <1>6 DEF TypeOK, AcknowledgeHeaterCommand, userState, watchdogs,
                SettingsTypeOK, WatchdogsTypeOK, ControlTypeOK
  <2>3. /\ EnvironmentTypeOK'
        /\ (m_commands \in Seq(Message))'
        /\ (m_locked \in BOOLEAN)'
        /\ (stateFile \in StateFile)'
    BY <1>6 DEF TypeOK, AcknowledgeHeaterCommand, environment, EnvironmentTypeOK
  <2> QED
    BY <2>1, <2>2, <2>3 DEF TypeOK
<1>7. CASE ParseCommands
  BY <1>7, ParseCommandsType
<1>8. CASE Check3G
  <2>1. (sms \in Sms)'
    BY <1>8, SmsLemma DEF TypeOK, SettingsTypeOK, Check3G, ModemNotice
  <2>2. SettingsTypeOK' /\ (fallbacks \in SUBSET {"3G", "SMSD"})'
    BY <1>8, FallBackType
    DEF TypeOK, Check3G, SettingsTypeOK, WatchdogsTypeOK
  <2>3. (m_3g_error_counter \in 0 .. MODULE_3G_ERROR_THRESHOLD + 1)'
    <3>1. /\ MODULE_3G_ERROR_THRESHOLD \in Nat
          /\ m_3g_error_counter \in 0 .. MODULE_3G_ERROR_THRESHOLD + 1
      BY ThresholdsAssumption DEF TypeOK, WatchdogsTypeOK
    <3>2. Incremented(m_3g_error_counter, MODULE_3G_ERROR_THRESHOLD)
              \in 0 .. MODULE_3G_ERROR_THRESHOLD + 1
      BY <3>1, CounterLemma
    <3>3. \/ m_3g_error_counter' = Incremented(m_3g_error_counter, MODULE_3G_ERROR_THRESHOLD)
          \/ m_3g_error_counter' = m_3g_error_counter
          \/ m_3g_error_counter' = 0
      BY <1>8, Zenon DEF Check3G
    <3>4. 0 \in 0 .. MODULE_3G_ERROR_THRESHOLD + 1
      BY <3>1
    <3> QED
      BY <3>1, <3>2, <3>3, <3>4
  <2>4. WatchdogsTypeOK' /\ ControlTypeOK'
    BY <1>8, <2>2, <2>3 DEF TypeOK, Check3G, WatchdogsTypeOK, ControlTypeOK
  <2>5. /\ EnvironmentTypeOK'
        /\ (m_commands \in Seq(Message))'
        /\ (m_locked \in BOOLEAN)'
        /\ (stateFile \in StateFile)'
    BY <1>8 DEF TypeOK, Check3G, environment, EnvironmentTypeOK
  <2> QED
    BY <2>1, <2>2, <2>4, <2>5 DEF TypeOK
<1>9. CASE CheckSMSDaemon
  <2>1. (sms \in Sms)'
    BY <1>9, SmsLemma
    DEF TypeOK, SettingsTypeOK, CheckSMSDaemon, DaemonNotice
  <2>2. SettingsTypeOK' /\ (fallbacks \in SUBSET {"3G", "SMSD"})'
    BY <1>9, FallBackType
    DEF TypeOK, CheckSMSDaemon, SettingsTypeOK, WatchdogsTypeOK
  <2>3. (m_daemon_error_counter \in 0 .. DAEMON_ERROR_THRESHOLD + 1)'
    <3>1. /\ DAEMON_ERROR_THRESHOLD \in Nat
          /\ m_daemon_error_counter \in 0 .. DAEMON_ERROR_THRESHOLD + 1
      BY ThresholdsAssumption DEF TypeOK, WatchdogsTypeOK
    <3>2. Incremented(m_daemon_error_counter, DAEMON_ERROR_THRESHOLD)
              \in 0 .. DAEMON_ERROR_THRESHOLD + 1
      BY <3>1, CounterLemma
    <3>3. \/ m_daemon_error_counter' = Incremented(m_daemon_error_counter, DAEMON_ERROR_THRESHOLD)
          \/ m_daemon_error_counter' = m_daemon_error_counter
          \/ m_daemon_error_counter' = 0
      BY <1>9, Zenon DEF CheckSMSDaemon
    <3>4. 0 \in 0 .. DAEMON_ERROR_THRESHOLD + 1
      BY <3>1
    <3> QED
      BY <3>1, <3>2, <3>3, <3>4
  <2>4. WatchdogsTypeOK' /\ ControlTypeOK'
    BY <1>9, <2>2, <2>3
    DEF TypeOK, CheckSMSDaemon, WatchdogsTypeOK, ControlTypeOK
  <2>5. /\ EnvironmentTypeOK'
        /\ (m_commands \in Seq(Message))'
        /\ (m_locked \in BOOLEAN)'
        /\ (stateFile \in StateFile)'
    BY <1>9 DEF TypeOK, CheckSMSDaemon, environment, EnvironmentTypeOK
  <2> QED
    BY <2>1, <2>2, <2>4, <2>5 DEF TypeOK
<1>10. CASE ModemChanges \/ SmsdChanges
  <2>1. (sms \in Sms)'
    BY <1>10, SmsLemma DEF ModemChanges, SmsdChanges
  <2>2. EnvironmentTypeOK'
    BY <1>10 DEF TypeOK, ModemChanges, SmsdChanges, EnvironmentTypeOK
  <2>3. SettingsTypeOK' /\ WatchdogsTypeOK' /\ ControlTypeOK'
    BY <1>10 DEF TypeOK, ModemChanges, SmsdChanges, userState, watchdogs,
                 SettingsTypeOK, WatchdogsTypeOK, ControlTypeOK
  <2>4. /\ (m_commands \in Seq(Message))'
        /\ (m_locked \in BOOLEAN)'
        /\ (stateFile \in StateFile)'
    BY <1>10 DEF TypeOK, ModemChanges, SmsdChanges
  <2> QED
    BY <2>1, <2>2, <2>3, <2>4 DEF TypeOK
<1>11. CASE UNCHANGED vars
  <2>1. SettingsTypeOK' /\ WatchdogsTypeOK' /\ ControlTypeOK'
    BY <1>11 DEF TypeOK, vars, userState, watchdogs, SettingsTypeOK,
                 WatchdogsTypeOK, ControlTypeOK
  <2>2. EnvironmentTypeOK'
    BY <1>11 DEF TypeOK, vars, environment, EnvironmentTypeOK
  <2> QED
    BY <1>11, <2>1, <2>2 DEF TypeOK, vars
<1> QED
  BY <1>1, <1>2, <1>3, <1>4, <1>5, <1>6, <1>7, <1>8, <1>9, <1>10, <1>11
  DEF Next, MainThread

\* Every variable keeps the type of the C++ variable it stands for, whatever is
\* received, in whatever order, and wherever the process is killed.
THEOREM TypeCorrect == Spec => []TypeOK
  BY InitType, StepType, PTL DEF Spec
=============================================================================
