--------------------------- MODULE HeatingPolicy ----------------------------
(***************************************************************************)
(* What the base station promises about heating, whatever else it does:    *)
(* which state each heater is told (`target') and which state it would be  *)
(* told after a restart (`saved').  While the base station is up, a target *)
(* changes only when a command sets all heaters or one of them, or by a    *)
(* fallback to DEFROST.  What is saved is the current target or, when the  *)
(* state file is lost, DEFROST; after a restart, what was saved is the     *)
(* target of every heater.                                                 *)
(***************************************************************************)
EXTENDS HeaterStates

CONSTANT Names              \* the heaters, by name

VARIABLES up,               \* can heaters be told anything?
          target,           \* what each heater is told, or will be
          saved             \* what each would be told after a restart

policyVars == <<up, target, saved>>

Policy == [Names -> HeaterState]

Everywhere(state) == [name \in Names |-> state]

TypeOK == up \in BOOLEAN /\ target \in Policy /\ saved \in Policy

Init == /\ up = FALSE
        /\ target = Everywhere(FALLBACK_HEATER_STATE)
        /\ saved = Everywhere(FALLBACK_HEATER_STATE)

\* A command for all heaters; the fallback is SetAll(FALLBACK_HEATER_STATE).
SetAll(state) ==
    up /\ target' = Everywhere(state) /\ UNCHANGED <<up, saved>>

SetOne(name, state) ==
    up /\ target' = [target EXCEPT ![name] = state] /\ UNCHANGED <<up, saved>>

Save == up /\ saved' = target /\ UNCHANGED <<up, target>>

\* The state file is truncated before it is written again.
Lose == /\ up
        /\ saved' = Everywhere(FALLBACK_HEATER_STATE)
        /\ UNCHANGED <<up, target>>

Stop == up /\ up' = FALSE /\ target' = saved /\ UNCHANGED saved

\* Nothing but what was saved is told after a restart.
Restart == ~up /\ up' = TRUE /\ UNCHANGED <<target, saved>>

Next == \/ \E state \in HeaterState : SetAll(state)
        \/ \E name \in Names, state \in HeaterState : SetOne(name, state)
        \/ Save
        \/ Lose
        \/ Stop
        \/ Restart

Spec == Init /\ [][Next]_policyVars
=============================================================================
