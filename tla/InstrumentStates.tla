--------------------------- MODULE InstrumentStates ---------------------------
(***************************************************************************)
(* The states of the instrument as the control authority records them and  *)
(* the transitions it accepts: the enumeration InstrumentState of          *)
(* domain/enums.py and the table of control/state_machine.py.              *)
(***************************************************************************)
InstrumentState ==
  { "OFFLINE", "INITIALIZING", "STANDBY", "PREPARING", "READY", "EXPOSING",
    "READING", "CALIBRATING", "MAINTENANCE", "SAFE_FAULT" }

\* ALLOWED_TRANSITIONS, as a set of targets for each state.
AllowedTransitions ==
  [ x \in InstrumentState |->
      CASE x = "OFFLINE"      -> {"INITIALIZING"}
        [] x = "INITIALIZING" -> {"STANDBY", "SAFE_FAULT"}
        [] x = "STANDBY"      -> {"PREPARING", "CALIBRATING", "MAINTENANCE", "OFFLINE"}
        [] x = "PREPARING"    -> {"READY", "SAFE_FAULT"}
        [] x = "READY"        -> {"EXPOSING", "STANDBY", "SAFE_FAULT"}
        [] x = "EXPOSING"     -> {"READING", "STANDBY", "SAFE_FAULT"}
        [] x = "READING"      -> {"READY", "STANDBY", "SAFE_FAULT"}
        [] x = "CALIBRATING"  -> {"STANDBY", "SAFE_FAULT"}
        [] x = "MAINTENANCE"  -> {"STANDBY", "SAFE_FAULT"}
        [] x = "SAFE_FAULT"   -> {"INITIALIZING", "OFFLINE"} ]

\* ControlRunner._transition: nothing happens when the target is the current
\* state, otherwise assert_transition raises unless the table lists it.
CanMoveTo(current, target) ==
  current = target \/ target \in AllowedTransitions[current]
===============================================================================
