----------------------- MODULE BaseStationSafetyProofs -----------------------
(***************************************************************************)
(* Proofs of the safety properties of BaseStation: who may command a       *)
(* locked base station, and what the state file holds.                     *)
(***************************************************************************)
EXTENDS BaseStationProofs

-----------------------------------------------------------------------------
(***************************************************************************)
(* The lock.  LockedHasKeyholder is not inductive by itself: Start keeps   *)
(* m_locked and replaces the whitelist, so one has to know that a process  *)
(* starts unlocked.                                                        *)
(***************************************************************************)
LockInv == /\ TypeOK
           /\ LockedHasKeyholder
           /\ pc = "down" => ~m_locked

LEMMA LockInit == Init => LockInv
  BY InitType DEF Init, LockInv, LockedHasKeyholder

\* The whitelist and the lock under the handlers of parseCommands.
LEMMA LockParse ==
    ASSUME LockInv, ParseCommands
    PROVE  /\ LockedHasKeyholder'
           /\ (pc = "down" => ~m_locked)'
           /\ m_locked /\ m_locked' => UNCHANGED m_phone_whitelist
<1> DEFINE Goal == /\ LockedHasKeyholder'
                   /\ (pc = "down" => ~m_locked)'
                   /\ m_locked /\ m_locked' => UNCHANGED m_phone_whitelist
<1> SUFFICES Goal
  OBVIOUS
<1>0. TypeOK /\ LockedHasKeyholder
  BY DEF LockInv
<1>1. CASE ExecuteLock
  <2>1. Execute("LOCK") /\ UNCHANGED <<pc, m_phone_whitelist>>
    BY <1>1 DEF ExecuteLock, OnlyReply, userState
  <2>2. pc = "idle" /\ From \in Senders
    BY <1>0, <2>1, ExecuteLemma
  <2>3. m_locked' => m_phone_whitelist \cap Senders # {}
    BY <1>0, <1>1, <2>2 DEF ExecuteLock, LockedHasKeyholder
  <2> QED
    BY <2>1, <2>2, <2>3 DEF LockedHasKeyholder
<1>2. CASE ExecuteUnlock
  <2>1. Execute("UNLOCK") /\ UNCHANGED <<pc, m_phone_whitelist>>
    BY <1>2 DEF ExecuteUnlock, OnlyReply, userState
  <2>2. pc = "idle"
    BY <1>0, <2>1, ExecuteLemma
  <2>3. m_locked' => m_locked
    BY <1>2 DEF ExecuteUnlock
  <2> QED
    BY <1>0, <2>1, <2>2, <2>3 DEF LockedHasKeyholder
<1>3. CASE ExecuteAddPhone \/ ExecuteRemovePhone
  <2>1. /\ m_locked' = m_locked
        /\ m_locked => m_phone_whitelist' = m_phone_whitelist
        /\ pc' \in {pc, "open"}
    BY <1>3 DEF ExecuteAddPhone, ExecuteRemovePhone, MayEditWhitelist, Ignore,
                ReplyThenSave, OnlyReply
  <2>2. pc = "idle"
    BY <1>3 DEF ExecuteAddPhone, ExecuteRemovePhone, Execute, Pop
  <2> QED
    BY <1>0, <2>1, <2>2 DEF LockedHasKeyholder
<1>4. CASE ExecuteReboot
  BY <1>4 DEF ExecuteReboot, Stop, LockedHasKeyholder
<1>5. CASE \/ DropCommand \/ ExecuteAll \/ ExecuteHeater
           \/ ExecuteSetEmergencyPhone \/ ExecuteRemoveEmergencyPhone
           \/ ExecuteQuery
  <2>1. UNCHANGED <<m_locked, m_phone_whitelist>>
    BY <1>5 DEF DropCommand, ExecuteAll, ExecuteHeater,
                ExecuteSetEmergencyPhone, ExecuteRemoveEmergencyPhone,
                ExecuteQuery, userState
  <2>2. pc = "idle"
    BY <1>5 DEF DropCommand, ExecuteAll, ExecuteHeater,
                ExecuteSetEmergencyPhone, ExecuteRemoveEmergencyPhone,
                ExecuteQuery, Execute, Pop
  <2>3. pc' \in {pc, "open"}
    BY <1>5 DEF DropCommand, ExecuteAll, ExecuteHeater,
                ExecuteSetEmergencyPhone, ExecuteRemoveEmergencyPhone,
                ExecuteQuery, SaveThenReply, ReplyThenSave, OnlyReply, Ignore
  <2> QED
    BY <1>0, <2>1, <2>2, <2>3 DEF LockedHasKeyholder
<1> QED
  BY <1>1, <1>2, <1>3, <1>4, <1>5 DEF ParseCommands

LEMMA LockStep ==
    ASSUME LockInv, [Next]_vars
    PROVE  /\ LockInv'
           /\ m_locked /\ m_locked' => UNCHANGED m_phone_whitelist
<1> DEFINE Goal == /\ LockedHasKeyholder'
                   /\ (pc = "down" => ~m_locked)'
                   /\ m_locked /\ m_locked' => UNCHANGED m_phone_whitelist
<1>0. TypeOK /\ LockedHasKeyholder /\ (pc = "down" => ~m_locked)
  BY DEF LockInv
<1>1. TypeOK'
  BY <1>0, StepType
<1>2. Goal
  <2>1. CASE Start
    <3>1. ~m_locked /\ ~m_locked'
      BY <1>0, <2>1 DEF Start
    <3> QED
      BY <3>1 DEF LockedHasKeyholder
  <2>2. CASE Crash
    BY <2>2 DEF Crash, Stop, LockedHasKeyholder
  <2>3. CASE ParseCommands
    BY <2>3, LockParse
  <2>4. CASE OpenStateFile \/ WriteStateFile \/ AcknowledgeHeaterCommand
    <3>1. UNCHANGED <<m_locked, m_phone_whitelist>>
      BY <2>4 DEF OpenStateFile, WriteStateFile, AcknowledgeHeaterCommand,
                  userState
    <3>2. pc' # "down"
      BY <2>4 DEF OpenStateFile, WriteStateFile, AcknowledgeHeaterCommand,
                  AfterSave
    <3> QED
      BY <1>0, <3>1, <3>2 DEF LockedHasKeyholder
  <2>5. CASE ReceiveSMS \/ Check3G \/ CheckSMSDaemon \/ ModemChanges
             \/ SmsdChanges \/ UNCHANGED vars
    <3>1. UNCHANGED <<m_locked, m_phone_whitelist, pc>>
      BY <2>5 DEF ReceiveSMS, Check3G, CheckSMSDaemon, ModemChanges,
                  SmsdChanges, vars, userState
    <3> QED
      BY <1>0, <3>1 DEF LockedHasKeyholder
  <2> QED
    BY <2>1, <2>2, <2>3, <2>4, <2>5 DEF Next, MainThread
<1> QED
  BY <1>1, <1>2 DEF LockInv

\* A locked base station always has a whitelisted phone that sends SMS.
THEOREM LockHasKey == Spec => []LockedHasKeyholder
<1>1. LockInv /\ [Next]_vars => LockInv'
  BY LockStep
<1>2. LockInv => LockedHasKeyholder
  BY DEF LockInv
<1> QED
  BY LockInit, <1>1, <1>2, PTL DEF Spec

\* The whitelist does not change while the base station stays locked.
THEOREM WhitelistFrozen == Spec => WhitelistFrozenWhileLocked
<1>1. LockInv /\ [Next]_vars => LockInv'
  BY LockStep
<1>2. LockInv /\ [Next]_vars =>
        [m_locked /\ m_locked' => UNCHANGED m_phone_whitelist]_vars
  BY LockStep
<1> QED
  BY LockInit, <1>1, <1>2, PTL DEF Spec, WhitelistFrozenWhileLocked

\* While locked, settings change by a whitelisted phone's command or by a
\* fallback only.  This needs no invariant but the place a process is at when
\* it is down.
LEMMA KeyholderStep ==
    ASSUME LockInv, [Next]_vars, m_locked, pc' # "down",
           userState' # userState
    PROVE  \/ Pop /\ From \in m_phone_whitelist
           \/ /\ m_commands' = m_commands
              /\ m_heater_default_state' = FALLBACK_HEATER_STATE
              /\ \A n \in DOMAIN m_heater_state :
                     m_heater_state'[n] = FALLBACK_HEATER_STATE
              /\ UNCHANGED <<m_phone_whitelist, m_emergency_phone>>
<1> DEFINE Commanded == Pop /\ From \in m_phone_whitelist
           FellBack ==
              /\ m_commands' = m_commands
              /\ m_heater_default_state' = FALLBACK_HEATER_STATE
              /\ \A n \in DOMAIN m_heater_state :
                     m_heater_state'[n] = FALLBACK_HEATER_STATE
              /\ UNCHANGED <<m_phone_whitelist, m_emergency_phone>>
<1>1. CASE ParseCommands
  <2>1. Pop
    BY <1>1 DEF ParseCommands, DropCommand, ExecuteAll, ExecuteHeater,
                ExecuteLock, ExecuteUnlock, ExecuteAddPhone, ExecuteRemovePhone,
                ExecuteSetEmergencyPhone, ExecuteRemoveEmergencyPhone,
                ExecuteQuery, ExecuteReboot, Execute, Stop
  <2>2. ~DropCommand
    BY DEF DropCommand
  <2>3. ~Refused(From)
    BY <1>1, <2>2
    DEF ParseCommands, ExecuteAll, ExecuteHeater, ExecuteLock, ExecuteUnlock,
        ExecuteAddPhone, ExecuteRemovePhone, ExecuteSetEmergencyPhone,
        ExecuteRemoveEmergencyPhone, ExecuteQuery, ExecuteReboot, Execute, From
  <2>4. m_phone_whitelist # {}
    BY DEF LockInv, LockedHasKeyholder
  <2> QED
    BY <2>1, <2>3, <2>4 DEF Refused
<1>2. CASE Check3G \/ CheckSMSDaemon
  <2>1. PICK cause : FallBack(cause)
    BY <1>2 DEF Check3G, CheckSMSDaemon, userState
  <2>2. \A n \in DOMAIN m_heater_state :
            m_heater_state'[n] = FALLBACK_HEATER_STATE
    BY <2>1 DEF FallBack, AllSetTo
  <2> QED
    BY <1>2, <2>1, <2>2 DEF Check3G, CheckSMSDaemon, FallBack
<1>3. CASE Start
  BY <1>3 DEF LockInv, Start
<1>4. CASE Crash
  BY <1>4 DEF Crash, Stop
<1>5. CASE OpenStateFile \/ WriteStateFile \/ AcknowledgeHeaterCommand
           \/ ReceiveSMS \/ ModemChanges \/ SmsdChanges \/ UNCHANGED vars
  BY <1>5 DEF OpenStateFile, WriteStateFile, AcknowledgeHeaterCommand,
              ReceiveSMS, ModemChanges, SmsdChanges, vars
<1> QED
  BY <1>1, <1>2, <1>3, <1>4, <1>5 DEF Next, MainThread

\* Nobody but a whitelisted phone commands a locked base station.
THEOREM KeyholdersCommand == Spec => OnlyKeyholdersCommand
<1>1. LockInv /\ [Next]_vars => LockInv'
  BY LockStep
<1>2. LockInv /\ [Next]_vars =>
        [m_locked /\ pc' # "down" /\ userState' # userState =>
         \/ Pop /\ From \in m_phone_whitelist
         \/ /\ m_commands' = m_commands
            /\ m_heater_default_state' = FALLBACK_HEATER_STATE
            /\ \A n \in DOMAIN m_heater_state :
                   m_heater_state'[n] = FALLBACK_HEATER_STATE
            /\ UNCHANGED <<m_phone_whitelist, m_emergency_phone>>]_vars
  BY KeyholderStep
<1> QED
  BY LockInit, <1>1, <1>2, PTL DEF Spec, OnlyKeyholdersCommand

\* A command is executed while locked only if its sender is on the whitelist.
LEMMA UnlockStep ==
    ASSUME LockInv, [Next]_vars, m_locked, ~m_locked', pc' # "down"
    PROVE  /\ Pop /\ From \in m_phone_whitelist
           /\ Command.kind = "UNLOCK" /\ Command.pin = BASE_STATION_PIN
<1>1. ~Stop /\ ~Crash /\ ~ExecuteReboot
  BY DEF Stop, Crash, ExecuteReboot
<1>2. ~UNCHANGED m_locked
  OBVIOUS
<1>3. ExecuteLock \/ ExecuteUnlock
  BY <1>1, <1>2
  DEF Next, MainThread, ParseCommands, Start, ReceiveSMS, OpenStateFile,
      WriteStateFile, AcknowledgeHeaterCommand, DropCommand, ExecuteAll,
      ExecuteHeater, ExecuteAddPhone, ExecuteRemovePhone,
      ExecuteSetEmergencyPhone, ExecuteRemoveEmergencyPhone, ExecuteQuery,
      Check3G, CheckSMSDaemon, ModemChanges, SmsdChanges, vars
<1>4. ~ExecuteLock
  BY <1>2 DEF ExecuteLock
<1>5. /\ Execute("UNLOCK")
      /\ Command.pin = BASE_STATION_PIN
  BY <1>2, <1>3, <1>4 DEF ExecuteUnlock
<1>6. Pop /\ ~Refused(From) /\ Command.kind = "UNLOCK"
  BY <1>5 DEF Execute, From, Command
<1>7. m_phone_whitelist # {}
  BY DEF LockInv, LockedHasKeyholder
<1> QED
  BY <1>5, <1>6, <1>7 DEF Refused

\* A lock ends only with an UNLOCK and the right PIN of a whitelisted phone, or
\* with the process.
THEOREM OnlyUnlockEnds == Spec => OnlyUnlockEndsLock
<1>1. LockInv /\ [Next]_vars => LockInv'
  BY LockStep
<1>2. LockInv /\ [Next]_vars =>
        [m_locked /\ ~m_locked' =>
         \/ pc' = "down"
         \/ /\ Pop /\ From \in m_phone_whitelist
            /\ Command.kind = "UNLOCK" /\ Command.pin = BASE_STATION_PIN]_vars
  BY UnlockStep
<1> QED
  BY LockInit, <1>1, <1>2, PTL DEF Spec, OnlyUnlockEndsLock

\* A keyholder's UNLOCK is not taken from the queue without ending the lock.
LEMMA UnlockStays ==
    ASSUME LockInv, [Next]_vars, m_locked, m_locked', UnlockQueued
    PROVE  UnlockQueued'
<1>0. m_commands \in Seq(Message) /\ m_phone_whitelist' = m_phone_whitelist
  BY LockStep DEF LockInv, TypeOK
<1>1. PICK i \in 1 .. Len(m_commands) :
          /\ m_commands[i].from \in m_phone_whitelist
          /\ m_commands[i].command.kind = "UNLOCK"
          /\ m_commands[i].command.pin = BASE_STATION_PIN
  BY <1>0 DEF UnlockQueued
<1>2. ~Stop /\ ~Crash /\ ~ExecuteReboot
  BY DEF Stop, Crash, ExecuteReboot
<1>3. CASE ParseCommands
  <2>1. Pop
    BY <1>2, <1>3
    DEF ParseCommands, DropCommand, ExecuteAll, ExecuteHeater, ExecuteLock,
        ExecuteUnlock, ExecuteAddPhone, ExecuteRemovePhone,
        ExecuteSetEmergencyPhone, ExecuteRemoveEmergencyPhone, ExecuteQuery,
        Execute
  <2>2. i # 1
    <3> SUFFICES ASSUME i = 1 PROVE FALSE
      OBVIOUS
    <3>1. Head(m_commands) = m_commands[i]
      BY <1>0, <1>1
    <3>2. ~DropCommand
      BY <1>1, <3>1 DEF DropCommand, Refused
    <3>3. ExecuteUnlock
      BY <1>1, <1>2, <1>3, <3>1, <3>2
      DEF ParseCommands, ExecuteAll, ExecuteHeater, ExecuteLock,
          ExecuteAddPhone, ExecuteRemovePhone, ExecuteSetEmergencyPhone,
          ExecuteRemoveEmergencyPhone, ExecuteQuery, Execute
    <3>4. Command.pin = BASE_STATION_PIN
      BY <1>1, <3>1 DEF Command
    <3> QED
      BY <3>3, <3>4 DEF ExecuteUnlock
  <2>3. /\ i - 1 \in DOMAIN m_commands'
        /\ m_commands'[i - 1] = m_commands[i]
    BY <1>0, <2>1, <2>2 DEF Pop
  <2> QED
    BY <1>0, <1>1, <2>3 DEF UnlockQueued
<1>4. CASE ReceiveSMS
  <2>1. PICK msg \in Message : m_commands' = Append(m_commands, msg)
    BY <1>4 DEF ReceiveSMS
  <2>2. i \in DOMAIN m_commands' /\ m_commands'[i] = m_commands[i]
    BY <1>0, <2>1
  <2> QED
    BY <1>0, <1>1, <2>2 DEF UnlockQueued
<1>5. CASE \/ Start \/ OpenStateFile \/ WriteStateFile
           \/ AcknowledgeHeaterCommand \/ Check3G \/ CheckSMSDaemon
           \/ ModemChanges \/ SmsdChanges \/ UNCHANGED vars
  <2>1. m_commands' = m_commands
    BY <1>5 DEF Start, OpenStateFile, WriteStateFile, AcknowledgeHeaterCommand,
                Check3G, CheckSMSDaemon, ModemChanges, SmsdChanges, vars
  <2> QED
    BY <1>0, <2>1 DEF UnlockQueued
<1> QED
  BY <1>2, <1>3, <1>4, <1>5 DEF Next, MainThread

\* A keyholder's UNLOCK waits in the queue until the lock ends.
THEOREM UnlockIsKept == Spec => UnlockWaits
<1>1. LockInv /\ [Next]_vars => LockInv'
  BY LockStep
<1>2. LockInv /\ [Next]_vars =>
        [m_locked /\ m_locked' /\ UnlockQueued => UnlockQueued']_vars
  BY UnlockStays
<1> QED
  BY LockInit, <1>1, <1>2, PTL DEF Spec, UnlockWaits
-----------------------------------------------------------------------------
(***************************************************************************)
(* The state file.  What is known between two commands follows from what   *)
(* is known at "reply", right after a save.                                *)
(***************************************************************************)
SavedInv == /\ TypeOK
            /\ SavedWhenIdle
            /\ ~StorageMayFail /\ pc = "reply" => stateFile.content = Memory

LEMMA SavedInit == Init => SavedInv
  BY InitType DEF Init, SavedInv, SavedWhenIdle

\* The properties of the file, as a function of what it is compared with.
LEMMA MemoryIsSaved ==
    ASSUME stateFile.content = Memory
    PROVE  SavedWhenIdle
  BY DEF SavedWhenIdle, Memory

LEMMA AllSetTwice ==
    ASSUME NEW N, NEW f \in SettingsOver(N), NEW s
    PROVE  AllSetTo(AllSetTo(f, s), s) = AllSetTo(f, s)
  BY DEF AllSetTo

\* A fallback leaves the file one unsaved fallback behind.
LEMMA FallBackUnsaved ==
    ASSUME TypeOK, SavedWhenIdle, ~StorageMayFail, pc = "idle",
           NEW cause, FallBack(cause), UNCHANGED stateFile
    PROVE  UnsavedFallback'
<1>1. stateFile.content.settings \in SettingsOver(Names)
  BY ContentLemma DEF TypeOK, StateFile
<1>2. \/ m_heater_state = stateFile.content.settings
      \/ m_heater_state = AllSetTo(stateFile.content.settings,
                                   FALLBACK_HEATER_STATE)
  BY DEF SavedWhenIdle, UnsavedFallback
<1>3. AllSetTo(m_heater_state, FALLBACK_HEATER_STATE)
        = AllSetTo(stateFile.content.settings, FALLBACK_HEATER_STATE)
  BY <1>1, <1>2, AllSetTwice
<1> QED
  BY <1>3 DEF FallBack, UnsavedFallback

\* A handler that stays at "idle" has not touched what it would have to save.
LEMMA SavedParse ==
    ASSUME SavedInv, ParseCommands, ~StorageMayFail
    PROVE  SavedWhenIdle' /\ pc' # "reply"
<1>0. TypeOK /\ SavedWhenIdle
  BY DEF SavedInv
<1>1. CASE ExecuteReboot
  BY <1>1 DEF ExecuteReboot, Stop, SavedWhenIdle
<1>2. CASE ~ExecuteReboot
  <2>1. pc = "idle" /\ UNCHANGED <<stateFile, fallbacks>>
    BY <1>2 DEF ParseCommands, DropCommand, ExecuteAll, ExecuteHeater,
                ExecuteLock, ExecuteUnlock, ExecuteAddPhone, ExecuteRemovePhone,
                ExecuteSetEmergencyPhone, ExecuteRemoveEmergencyPhone,
                ExecuteQuery, Execute, Pop, watchdogs
  <2>2. pc' \in {"idle", "open"}
    BY <1>2, <2>1
    DEF ParseCommands, DropCommand, ExecuteAll, ExecuteHeater, ExecuteLock,
        ExecuteUnlock, ExecuteAddPhone, ExecuteRemovePhone,
        ExecuteSetEmergencyPhone, ExecuteRemoveEmergencyPhone, ExecuteQuery,
        SaveThenReply, ReplyThenSave, OnlyReply, Ignore
  <2>3. ASSUME pc' = "idle"
        PROVE  /\ UNCHANGED <<m_heater_default_state, m_heater_state,
                              m_phone_whitelist>>
               /\ m_emergency_phone' \in {m_emergency_phone, NoPhone}
    BY <1>2, <2>1, <2>3
    DEF ParseCommands, DropCommand, ExecuteAll, ExecuteHeater, ExecuteLock,
        ExecuteUnlock, ExecuteAddPhone, ExecuteRemovePhone,
        ExecuteSetEmergencyPhone, ExecuteRemoveEmergencyPhone, ExecuteQuery,
        SaveThenReply, ReplyThenSave, userState
  <2> QED
    BY <1>0, <2>1, <2>2, <2>3 DEF SavedWhenIdle, UnsavedFallback
<1> QED
  BY <1>1, <1>2

LEMMA SavedStep == SavedInv /\ [Next]_vars => SavedInv'
<1> SUFFICES ASSUME SavedInv, [Next]_vars PROVE SavedInv'
  OBVIOUS
<1>0. TypeOK /\ SavedWhenIdle
  BY DEF SavedInv
<1>1. TypeOK'
  BY <1>0, StepType
<1> SUFFICES ASSUME ~StorageMayFail
             PROVE  /\ SavedWhenIdle'
                    /\ pc' = "reply" => stateFile'.content = Memory'
  BY <1>1 DEF SavedInv, SavedWhenIdle
<1>2. CASE Start
  BY <1>2 DEF Start, Restore, SavedWhenIdle
<1>3. CASE Crash
  BY <1>3 DEF Crash, Stop, SavedWhenIdle
<1>4. CASE OpenStateFile
  BY <1>4 DEF OpenStateFile, SavedWhenIdle
<1>5. CASE WriteStateFile
  <2>1. stateFile'.content = Memory'
    BY <1>5 DEF WriteStateFile, Memory, userState
  <2> QED
    BY <2>1 DEF SavedWhenIdle, Memory
<1>6. CASE AcknowledgeHeaterCommand
  <2>1. stateFile.content = Memory
    BY <1>6 DEF SavedInv, AcknowledgeHeaterCommand
  <2>2. stateFile'.content = Memory'
    BY <1>6, <2>1 DEF AcknowledgeHeaterCommand, Memory, userState
  <2> QED
    BY <2>2 DEF SavedWhenIdle, Memory
<1>7. CASE ParseCommands
  BY <1>7, SavedParse
<1>8. CASE Check3G \/ CheckSMSDaemon
  <2>1. /\ pc = "idle"
        /\ UNCHANGED <<pc, m_phone_whitelist, m_emergency_phone, stateFile>>
    BY <1>8 DEF Check3G, CheckSMSDaemon
  <2>2. \/ \E cause \in {"3G", "SMSD"} : FallBack(cause)
        \/ UNCHANGED <<m_heater_default_state, m_heater_state, fallbacks>>
    BY <1>8 DEF Check3G, CheckSMSDaemon
  <2>3. CASE UNCHANGED <<m_heater_default_state, m_heater_state, fallbacks>>
    BY <1>0, <2>1, <2>3 DEF SavedWhenIdle, UnsavedFallback
  <2>4. ASSUME NEW cause, FallBack(cause) PROVE UnsavedFallback'
    BY <1>0, <2>1, <2>4, FallBackUnsaved
  <2> QED
    BY <1>0, <2>1, <2>2, <2>3, <2>4 DEF SavedWhenIdle
<1>9. CASE ReceiveSMS \/ ModemChanges \/ SmsdChanges \/ UNCHANGED vars
  <2>1. UNCHANGED <<userState, pc, stateFile, fallbacks>>
    BY <1>9 DEF ReceiveSMS, ModemChanges, SmsdChanges, vars, watchdogs
  <2> QED
    BY <1>0, <2>1 DEF SavedInv, SavedWhenIdle, UnsavedFallback, Memory, userState
<1> QED
  BY <1>2, <1>3, <1>4, <1>5, <1>6, <1>7, <1>8, <1>9 DEF Next, MainThread

\* Unless the storage fails, the file between two commands holds what is in
\* memory, but for a fallback and a removed emergency phone.
THEOREM FileIsCurrent == Spec => []SavedWhenIdle
<1>1. SavedInv => SavedWhenIdle
  BY DEF SavedInv
<1> QED
  BY SavedInit, SavedStep, <1>1, PTL DEF Spec

\* No heater command is acknowledged before it is in the file.
THEOREM AcknowledgementsAreSaved == Spec => AcknowledgedIsSaved
<1>1. SavedInv /\ [Next]_vars =>
        [pc = "reply" /\ sms'.text = "ACK" /\ ~StorageMayFail =>
           stateFile.content = Memory]_vars
  BY DEF SavedInv
<1> QED
  BY SavedInit, SavedStep, <1>1, PTL DEF Spec, AcknowledgedIsSaved
-----------------------------------------------------------------------------
(***************************************************************************)
(* The notice of check3G: its counter reaches the threshold only by the    *)
(* step that falls back.                                                   *)
(***************************************************************************)
NoticeInv == /\ TypeOK
             /\ m_3g_error_counter >= MODULE_3G_ERROR_THRESHOLD
                  => "3G" \in fallbacks

LEMMA NoticeInit == Init => NoticeInv
  BY InitType, ThresholdsAssumption DEF Init, NoticeInv

LEMMA NoticeStep == NoticeInv /\ [Next]_vars => NoticeInv'
<1> SUFFICES ASSUME NoticeInv, [Next]_vars PROVE NoticeInv'
  OBVIOUS
<1>0. /\ TypeOK /\ TypeOK'
      /\ MODULE_3G_ERROR_THRESHOLD \in Nat \ {0}
      /\ m_3g_error_counter \in Nat
  BY StepType, ThresholdsAssumption DEF NoticeInv, TypeOK, WatchdogsTypeOK
<1>1. CASE Check3G
  <2>1. CASE UNCHANGED <<m_3g_error_counter, fallbacks>>
    BY <1>0, <2>1 DEF NoticeInv
  <2>2. CASE m_3g_error_counter' = 0
    BY <1>0, <2>2 DEF NoticeInv
  <2>3. CASE /\ m_3g_error_counter' =
                    Incremented(m_3g_error_counter, MODULE_3G_ERROR_THRESHOLD)
             /\ IF m_3g_error_counter + 1 = MODULE_3G_ERROR_THRESHOLD
                THEN FallBack("3G")
                ELSE UNCHANGED fallbacks
    BY <1>0, <2>3 DEF NoticeInv, Incremented, FallBack
  <2> QED
    BY <1>1, <2>1, <2>2, <2>3, Zenon DEF Check3G
<1>2. CASE Stop
  BY <1>0, <1>2 DEF Stop, NoticeInv
<1>3. CASE CheckSMSDaemon
  <2>1. UNCHANGED m_3g_error_counter /\ fallbacks \subseteq fallbacks'
    BY <1>3 DEF CheckSMSDaemon, FallBack
  <2> QED
    BY <1>0, <2>1 DEF NoticeInv
<1>4. CASE UNCHANGED <<m_3g_error_counter, fallbacks>>
  BY <1>0, <1>4 DEF NoticeInv
<1>5. \/ Stop \/ Check3G \/ CheckSMSDaemon
      \/ UNCHANGED <<m_3g_error_counter, fallbacks>>
  BY DEF Next, MainThread, ParseCommands, Start, Crash, ReceiveSMS,
         OpenStateFile, WriteStateFile, AcknowledgeHeaterCommand, DropCommand,
         ExecuteAll, ExecuteHeater, ExecuteLock, ExecuteUnlock, ExecuteAddPhone,
         ExecuteRemovePhone, ExecuteSetEmergencyPhone,
         ExecuteRemoveEmergencyPhone, ExecuteQuery, ExecuteReboot, Execute,
         ModemChanges, SmsdChanges, watchdogs, vars
<1> QED
  BY <1>1, <1>2, <1>3, <1>4, <1>5

\* Only Check3G sends the notice, and it looks at its counter.
LEMMA NoticeSent ==
    ASSUME NoticeInv, Next, sms'.text = "3G RESTORED"
    PROVE  "3G" \in fallbacks
<1>1. /\ NoSms.text # "3G RESTORED"
      /\ DaemonNotice.text # "3G RESTORED"
  BY DEF NoSms, DaemonNotice
<1>2. \A to, text : Reply(to, text).text = text
  BY DEF Reply
<1>3. Check3G
  <2>1. ~ParseCommands
    <3>1. ASSUME SaveThenReply \/ ReplyThenSave \/ Ignore
                   \/ OnlyReply("ACK") \/ OnlyReply("ERROR")
                   \/ OnlyReply("ANSWER")
          PROVE  FALSE
      BY <1>1, <1>2, <3>1 DEF SaveThenReply, ReplyThenSave, OnlyReply, Ignore
    <3>2. ~Stop /\ ~DropCommand
      BY <1>1 DEF Stop, DropCommand
    <3> QED
      BY <3>1, <3>2
      DEF ParseCommands, ExecuteAll, ExecuteHeater, ExecuteLock, ExecuteUnlock,
          ExecuteAddPhone, ExecuteRemovePhone, ExecuteSetEmergencyPhone,
          ExecuteRemoveEmergencyPhone, ExecuteQuery, ExecuteReboot
  <2>2. /\ ~Start /\ ~Crash /\ ~ReceiveSMS /\ ~OpenStateFile /\ ~WriteStateFile
        /\ ~ModemChanges /\ ~SmsdChanges
    BY <1>1 DEF Start, Crash, Stop, ReceiveSMS, OpenStateFile, WriteStateFile,
                ModemChanges, SmsdChanges
  <2>3. ~AcknowledgeHeaterCommand
    BY <1>2 DEF AcknowledgeHeaterCommand
  <2>4. ~CheckSMSDaemon
    BY <1>1 DEF CheckSMSDaemon
  <2> QED
    BY <2>1, <2>2, <2>3, <2>4 DEF Next, MainThread
<1>4. sms' = NoSms \/ sms' = ModemNotice
  BY <1>3 DEF Check3G
<1>5. m_3g_error_counter >= MODULE_3G_ERROR_THRESHOLD
  BY <1>1, <1>4 DEF ModemNotice
<1> QED
  BY <1>5 DEF NoticeInv

\* The notice that all heaters were set to DEFROST because of the 3G module is
\* sent only by a process that set them.
THEOREM ModemNoticeTrue == Spec => ModemNoticeIsTrue
<1>1. NoticeInv /\ [Next]_vars =>
        [sms'.text = "3G RESTORED" => "3G" \in fallbacks]_vars
  BY NoticeSent
<1> QED
  BY NoticeInit, NoticeStep, <1>1, PTL DEF Spec, ModemNoticeIsTrue
=============================================================================
