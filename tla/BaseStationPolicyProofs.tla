----------------------- MODULE BaseStationPolicyProofs -----------------------
(***************************************************************************)
(* BaseStation implements HeatingPolicy: under the refinement mapping of   *)
(* BaseStation's `Policy', its initial states are the policy's, and each   *)
(* of its steps is a step of the policy or changes nothing the policy can  *)
(* see.  The only fact about reachable states that is needed is the type   *)
(* invariant: it gives the state a command asks for.                       *)
(***************************************************************************)
EXTENDS BaseStationProofs

\* The mapping, by name.
target == IF running THEN PolicyOf(Memory) ELSE PolicyOf(stateFile.content)
saved == PolicyOf(stateFile.content)

\* Settings that all say `state', with a default of `state', are `state'
\* everywhere.
LEMMA EverywhereLemma ==
    ASSUME NEW c, NEW f, NEW state,
           c.default = state, c.settings = AllSetTo(f, state)
    PROVE  PolicyOf(c) = Policy!Everywhere(state)
<1>1. \A n \in Names : StateOf(n, c.default, c.settings) = state
  BY DEF StateOf, AllSetTo
<1> QED
  BY <1>1 DEF PolicyOf, Policy!Everywhere

\* An empty file means DEFROST everywhere.
LEMMA FactoryPolicy ==
    PolicyOf(Factory) = Policy!Everywhere(FALLBACK_HEATER_STATE)
<1>1. \A n \in Names :
          StateOf(n, Factory.default, Factory.settings) = FALLBACK_HEATER_STATE
  BY DEF StateOf, Factory
<1> QED
  BY <1>1 DEF PolicyOf, Policy!Everywhere

\* One more setting changes what one heater is told.
LEMMA EntryLemma ==
    ASSUME NEW d, NEW f, NEW name \in Names, NEW state
    PROVE  [n \in Names |-> StateOf(n, d, WithEntry(f, name, state))]
             = [[n \in Names |-> StateOf(n, d, f)] EXCEPT ![name] = state]
  BY DEF StateOf, WithEntry

LEMMA InitPolicy == Init => Policy!Init
<1> SUFFICES ASSUME Init PROVE Policy!Init
  OBVIOUS
<1>1. stateFile.content = Factory /\ ~running
  BY DEF Init, running
<1> QED
  BY <1>1, FactoryPolicy
  DEF Policy!Init, Policy!FALLBACK_HEATER_STATE, FALLBACK_HEATER_STATE

\* What decides the target while the process runs.
LEMMA MemoryPolicy ==
    PolicyOf(Memory) =
        [n \in Names |-> StateOf(n, m_heater_default_state, m_heater_state)]
  BY DEF PolicyOf, Memory

\* Steps that keep the process running and touch neither the heating settings
\* nor the file are invisible to the policy.
LEMMA Invisible ==
    ASSUME running, running',
           UNCHANGED <<m_heater_default_state, m_heater_state, stateFile>>
    PROVE  UNCHANGED <<running, target, saved>>
<1>1. PolicyOf(Memory)' = PolicyOf(Memory)
  BY DEF PolicyOf, Memory
<1>2. PolicyOf(stateFile.content)' = PolicyOf(stateFile.content)
  BY DEF PolicyOf
<1> QED
  BY <1>1, <1>2 DEF target, saved

LEMMA StopPolicy ==
    ASSUME Stop
    PROVE  ~running' /\ target' = saved /\ UNCHANGED saved
<1>1. ~running'
  BY DEF Stop, running
<1>2. PolicyOf(stateFile.content)' = PolicyOf(stateFile.content)
  BY DEF Stop, PolicyOf
<1> QED
  BY <1>1, <1>2 DEF target, saved

\* A step that sets the default and every setting to `state'.
LEMMA SetAllPolicy ==
    ASSUME running, running', NEW state \in HeaterState,
           m_heater_default_state' = state,
           m_heater_state' = AllSetTo(m_heater_state, state),
           UNCHANGED stateFile
    PROVE  target' = Policy!Everywhere(state) /\ UNCHANGED saved
<1>1. /\ Memory'.default = state
      /\ Memory'.settings = AllSetTo(m_heater_state, state)
  BY DEF Memory
<1>2. PolicyOf(Memory') = Policy!Everywhere(state)
  BY <1>1, EverywhereLemma
<1>3. PolicyOf(Memory)' = PolicyOf(Memory')
  BY DEF PolicyOf, Memory
<1>4. PolicyOf(stateFile.content)' = PolicyOf(stateFile.content)
  BY DEF PolicyOf
<1> QED
  BY <1>2, <1>3, <1>4 DEF target, saved

\* The steps of the policy under the mapping.
LEMMA StopStep ==
    ASSUME running, Stop
    PROVE  Policy!Next
<1>1. Policy!Stop
  BY StopPolicy DEF Policy!Stop, target, saved
<1> QED
  BY <1>1 DEF Policy!Next

LEMMA CommandSteps ==
    ASSUME running, running'
    PROVE  /\ saved' = target /\ UNCHANGED target => Policy!Next
           /\ saved' = Policy!Everywhere(FALLBACK_HEATER_STATE)
                /\ UNCHANGED target => Policy!Next
           /\ \A state \in HeaterState :
                 target' = Policy!Everywhere(state) /\ UNCHANGED saved
                   => Policy!Next
           /\ \A name \in Names, state \in HeaterState :
                 target' = [target EXCEPT ![name] = state] /\ UNCHANGED saved
                   => Policy!Next
<1> USE DEF target, saved
<1>0. UNCHANGED running
  OBVIOUS
<1>2. saved' = target /\ UNCHANGED target => Policy!Next
  BY <1>0 DEF Policy!Next, Policy!Save
<1>3. saved' = Policy!Everywhere(FALLBACK_HEATER_STATE) /\ UNCHANGED target
        => Policy!Next
  BY <1>0 DEF Policy!Next, Policy!Lose, Policy!FALLBACK_HEATER_STATE,
         FALLBACK_HEATER_STATE
<1>4. ASSUME NEW state \in HeaterState,
             target' = Policy!Everywhere(state), UNCHANGED saved
      PROVE  Policy!Next
  <2>1. Policy!SetAll(state)
    BY <1>0, <1>4 DEF Policy!SetAll
  <2> QED
    BY <2>1 DEF Policy!Next, Policy!HeaterState, HeaterState
<1>5. ASSUME NEW name \in Names, NEW state \in HeaterState,
             target' = [target EXCEPT ![name] = state], UNCHANGED saved
      PROVE  Policy!Next
  <2>1. Policy!SetOne(name, state)
    BY <1>0, <1>5 DEF Policy!SetOne
  <2> QED
    BY <2>1 DEF Policy!Next, Policy!HeaterState, HeaterState
<1> QED
  BY <1>2, <1>3, <1>4, <1>5

LEMMA ParsePolicy ==
    ASSUME TypeOK, ParseCommands
    PROVE  Policy!Next \/ UNCHANGED <<running, target, saved>>
<1>1. CASE ExecuteReboot
  BY <1>1, StopStep DEF ExecuteReboot, running
<1>2. CASE ExecuteAll
  <2>1. Execute("ALL")
    BY <1>2 DEF ExecuteAll
  <2>2. pc = "idle" /\ UNCHANGED stateFile /\ Command.state \in HeaterState
    BY <2>1, ExecuteLemma, CommandLemma
  <2>3. running /\ running'
    BY <1>2, <2>2 DEF running, ExecuteAll, SaveThenReply
  <2> QED
    BY <1>2, <2>2, <2>3, SetAllPolicy, CommandSteps DEF ExecuteAll
<1>3. CASE ExecuteHeater
  <2>1. Execute("HEATER")
    BY <1>3 DEF ExecuteHeater
  <2>2. pc = "idle" /\ UNCHANGED stateFile /\ Command.state \in HeaterState
    BY <2>1, ExecuteLemma, CommandLemma
  <2>3. running /\ running'
    BY <1>3, <2>2 DEF running, ExecuteHeater, SaveThenReply, OnlyReply
  <2>4. CASE Command.name \in Names
    <3>1. /\ m_heater_state' =
                 WithEntry(m_heater_state, Command.name, Command.state)
          /\ UNCHANGED m_heater_default_state
      BY <1>3, <2>4 DEF ExecuteHeater, check_heater_name
    <3>2. PolicyOf(Memory)'
            = [PolicyOf(Memory) EXCEPT ![Command.name] = Command.state]
      BY <2>4, <3>1, EntryLemma DEF PolicyOf, Memory
    <3>3. PolicyOf(stateFile.content)' = PolicyOf(stateFile.content)
      BY <2>2 DEF PolicyOf
    <3>4. /\ target' = [target EXCEPT ![Command.name] = Command.state]
          /\ UNCHANGED saved
      BY <2>3, <3>2, <3>3 DEF target, saved
    <3> QED
      BY <2>2, <2>3, <2>4, <3>4, CommandSteps
  <2>5. CASE Command.name \notin Names
    <3>1. UNCHANGED <<m_heater_default_state, m_heater_state>>
      BY <1>3, <2>5 DEF ExecuteHeater, check_heater_name
    <3> QED
      BY <2>2, <2>3, <3>1, Invisible
  <2> QED
    BY <2>4, <2>5
<1>4. CASE \/ DropCommand \/ ExecuteLock \/ ExecuteUnlock \/ ExecuteAddPhone
           \/ ExecuteRemovePhone \/ ExecuteSetEmergencyPhone
           \/ ExecuteRemoveEmergencyPhone \/ ExecuteQuery
  <2>1. UNCHANGED <<m_heater_default_state, m_heater_state, stateFile>>
    BY <1>4 DEF DropCommand, ExecuteLock, ExecuteUnlock, ExecuteAddPhone,
                ExecuteRemovePhone, ExecuteSetEmergencyPhone,
                ExecuteRemoveEmergencyPhone, ExecuteQuery, Execute, userState
  <2>2. pc = "idle" /\ pc' \in {"idle", "open"}
    BY <1>4 DEF DropCommand, ExecuteLock, ExecuteUnlock, ExecuteAddPhone,
                ExecuteRemovePhone, ExecuteSetEmergencyPhone,
                ExecuteRemoveEmergencyPhone, ExecuteQuery, Execute, Pop,
                ReplyThenSave, OnlyReply, Ignore
  <2> QED
    BY <2>1, <2>2, Invisible DEF running
<1> QED
  BY <1>1, <1>2, <1>3, <1>4 DEF ParseCommands

LEMMA StepPolicy ==
    ASSUME TypeOK, [Next]_vars
    PROVE  Policy!Next \/ UNCHANGED <<running, target, saved>>
<1>1. CASE Start
  <2>1. ~running /\ running' /\ UNCHANGED stateFile
    BY <1>1 DEF Start, running
  <2>2. PolicyOf(Memory)' = PolicyOf(stateFile.content)
    BY <1>1 DEF Start, Restore, PolicyOf, Memory
  <2>3. PolicyOf(stateFile.content)' = PolicyOf(stateFile.content)
    BY <2>1 DEF PolicyOf
  <2>4. ~running /\ running' /\ UNCHANGED <<target, saved>>
    BY <2>1, <2>2, <2>3 DEF target, saved
  <2>5. Policy!Restart
    BY <2>4, Zenon DEF Policy!Restart, target, saved
  <2> QED
    BY <2>5 DEF Policy!Next
<1>2. CASE Crash
  BY <1>2, StopStep DEF Crash
<1>3. CASE ParseCommands
  BY <1>3, ParsePolicy
<1>4. CASE OpenStateFile \/ WriteStateFile
  <2>1. /\ running /\ running'
        /\ UNCHANGED <<m_heater_default_state, m_heater_state>>
    BY <1>4 DEF OpenStateFile, WriteStateFile, AfterSave, running, userState
  <2>2. PolicyOf(Memory)' = PolicyOf(Memory)
    BY <2>1 DEF PolicyOf, Memory
  <2>3. UNCHANGED target
    BY <2>1, <2>2 DEF target
  <2>4. stateFile'.content \in {Factory, Memory} \/ UNCHANGED stateFile
    BY <1>4 DEF OpenStateFile, WriteStateFile
  <2>5. saved' = PolicyOf(stateFile'.content)
    BY DEF saved, PolicyOf
  <2>6. CASE stateFile'.content = Factory
    <3>1. saved' = Policy!Everywhere(FALLBACK_HEATER_STATE)
      BY <2>5, <2>6, FactoryPolicy
    <3> QED
      BY <2>1, <2>3, <3>1, CommandSteps
  <2>7. CASE stateFile'.content = Memory
    <3>1. saved' = target
      BY <2>1, <2>5, <2>7 DEF target
    <3> QED
      BY <2>1, <2>3, <3>1, CommandSteps
  <2>8. CASE UNCHANGED stateFile
    BY <2>1, <2>8, Invisible
  <2> QED
    BY <2>4, <2>6, <2>7, <2>8
<1>5. CASE AcknowledgeHeaterCommand
  BY <1>5, Invisible DEF AcknowledgeHeaterCommand, running, userState
<1>6. CASE Check3G \/ CheckSMSDaemon
  <2>1. running /\ running' /\ UNCHANGED stateFile
    BY <1>6 DEF Check3G, CheckSMSDaemon, running
  <2>2. \/ \E cause \in {"3G", "SMSD"} : FallBack(cause)
        \/ UNCHANGED <<m_heater_default_state, m_heater_state>>
    BY <1>6 DEF Check3G, CheckSMSDaemon
  <2>3. CASE \E cause \in {"3G", "SMSD"} : FallBack(cause)
    BY <2>1, <2>3, FallbackLemma, SetAllPolicy, CommandSteps DEF FallBack
  <2> QED
    BY <2>1, <2>2, <2>3, Invisible
<1>7. CASE ReceiveSMS \/ ModemChanges \/ SmsdChanges \/ UNCHANGED vars
  <2>1. UNCHANGED <<userState, pc, stateFile>>
    BY <1>7 DEF ReceiveSMS, ModemChanges, SmsdChanges, vars
  <2>2. PolicyOf(Memory)' = PolicyOf(Memory)
    BY <2>1 DEF PolicyOf, Memory, userState
  <2>3. PolicyOf(stateFile.content)' = PolicyOf(stateFile.content)
    BY <2>1 DEF PolicyOf
  <2>4. running' = running
    BY <2>1 DEF running
  <2> QED
    BY <2>2, <2>3, <2>4 DEF target, saved
<1> QED
  BY <1>1, <1>2, <1>3, <1>4, <1>5, <1>6, <1>7 DEF Next, MainThread

\* The base station implements the heating policy, for every set of heaters
\* and phones, and also when writing the state file may fail.
THEOREM ImplementsPolicy == Spec => PolicySpec
<1>1. TypeOK /\ [Next]_vars => [Policy!Next]_(Policy!policyVars)
  BY StepPolicy DEF target, saved, Policy!policyVars
<1>2. TypeOK /\ [Next]_vars => TypeOK'
  BY StepType
<1> QED
  BY InitType, InitPolicy, <1>1, <1>2, PTL DEF Spec, PolicySpec, Policy!Spec
=============================================================================
