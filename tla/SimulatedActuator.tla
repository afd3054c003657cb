-------------------------- MODULE SimulatedActuator --------------------------
(***************************************************************************)
(* simulators/devices/mock_motor_controller.py and                         *)
(* mock_window_controller.py: vend_slot, open_window and close_window have *)
(* the same form.  A command answers nothing but that it was done, and an  *)
(* ambiguous result is an exception.                                       *)
(***************************************************************************)
EXTENDS CommandRunner, FiniteSetsExt

VARIABLE performed  \* vend_history: how often the command was done under each key

actuatorVars == <<runnerVars, performed>>

ActuatorInit == RunnerInit /\ performed = [k \in Keys |-> 0]

ActuatorCodes ==
  <<"command_timeout", "transient_command_failure", "ambiguous_physical_result">>
ActuatorFaults ==
  {"command_timeout", "transient_command_failure", "ambiguous_physical_result", "motor_fault"}

FailsFirst(c) ==
  /\ call[c].at = "ready"
  /\ PolicyFault(c, ActuatorCodes)
  /\ UNCHANGED performed

(* Slip: the fault is reported to the health monitor only.                 *)
BreaksSilently(c) ==
  /\ call[c].at = "ready" /\ NoPolicyFault(ActuatorCodes) /\ Pending("motor_fault")
  /\ plans' = Consumed("motor_fault")
  /\ ActivateFault("motor_fault")
  /\ End(c, "done")
  /\ UNCHANGED <<injected, remembered, moved, performed>>

(* MOTOR_FAULT, WINDOW_FAULT.                                              *)
Breaks(c) ==
  /\ call[c].at = "ready" /\ NoPolicyFault(ActuatorCodes) /\ Pending("motor_fault")
  /\ plans' = Consumed("motor_fault")
  /\ ActivateFault("motor_fault")
  /\ End(c, "adapter_error")
  /\ UNCHANGED <<injected, remembered, moved, performed>>

Performs(c) ==
  /\ call[c].at = "ready" /\ NoPolicyFault(ActuatorCodes) /\ ~Pending("motor_fault")
  /\ moved' = [moved EXCEPT ![c] = @ + 1]
  /\ performed' = [performed EXCEPT ![KeyOf[c]] = @ + 1]
  /\ Heartbeat("ready")
  /\ End(c, "done")
  /\ UNCHANGED <<plans, injected, remembered>>

Operates(c) == FailsFirst(c) \/ Breaks(c) \/ Performs(c)

ActuatorControls ==
  /\ \/ \E f \in ActuatorFaults, n \in 1 .. 2, slow \in BOOLEAN :
          /\ slow => f # "motor_fault"
          /\ InjectFault(f, [hits |-> n, slow |-> slow])
     \/ ClearFaults
  /\ UNCHANGED performed

ActuatorNext ==
  \/ \E c \in Calls : (RunnerStep(c) /\ UNCHANGED performed) \/ Operates(c)
  \/ ActuatorControls

ActuatorSpec == ActuatorInit /\ [][ActuatorNext]_actuatorVars

-----------------------------------------------------------------------------
(* The command of a key is completed at most once, however many calls are  *)
(* made with it, one after another, and whatever was tried again           *)
(* (test_retry_success_records_recovery_without_duplicate_side_effect).    *)
PerformedOncePerKey == \A k \in Keys : performed[k] <= 1

(* Who is told that the command was done can rely on it, also when told    *)
(* from memory after the fault.                                            *)
DoneWasPerformed ==
  \A c \in Calls :
    call[c].at = "returned" => call[c].outcome = "done" /\ performed[KeyOf[c]] > 0

(* --------------------------- What it implements ------------------------ *)

Verdict(k) == IF performed[k] = 0 THEN "none" ELSE "done"

Told(c) ==
  CASE call[c].at = "returned" -> call[c].outcome
    [] call[c].at = "raised" -> "error"
    [] OTHER -> "nothing"

Device == INSTANCE KeyedDevice
  WITH Acts <- {"done"},
       Effect <- [k \in Keys |-> [v \in {"done"} |-> 1]],
       verdict <- [k \in Keys |-> Verdict(k)],
       told <- [c \in Calls |-> Told(c)],
       given <- MapThenSumSet(LAMBDA k : performed[k], Keys)

(* The motor and the window keep the promise of a keyed device: a command  *)
(* is completed once, a caller is told so only after it was, and none is   *)
(* told of a failure once it was.                                          *)
KeepsItsWord == Device!Spec
=============================================================================
