------------------------------ MODULE MCActuator ------------------------------
(***************************************************************************)
(* Small instances of SimulatedActuator: three calls, two with one key.    *)
(***************************************************************************)
EXTENDS SimulatedActuator, TLC

CONSTANTS c1, c2, c3, sale, other

MCCalls == {c1, c2, c3}
MCKeys == {sale, other}
MCKeyOf == (c1 :> sale) @@ (c2 :> sale) @@ (c3 :> other)
MCRetryable == {"command_timeout", "transient_command_failure", "communication_error"}
MCNonRetryable ==
  {"ambiguous_physical_result", "physical_state_mismatch", "reconciliation_required",
   "unsupported_operation", "configuration_error"}
=============================================================================
