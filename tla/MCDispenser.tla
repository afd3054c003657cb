----------------------------- MODULE MCDispenser -----------------------------
(***************************************************************************)
(* A small instance of SimulatedDispenser: two keys, one used twice.       *)
(***************************************************************************)
EXTENDS SimulatedDispenser, TLC

CONSTANTS c1, c2, c3, refund, change

MCCalls == {c1, c2, c3}
MCKeys == {refund, change}
MCKeyOf == (c1 :> refund) @@ (c2 :> refund) @@ (c3 :> change)
MCRequested == (refund :> 2) @@ (change :> 1)

\* an installation that also tries again when the payout is unavailable
MCRetryableUnavailable ==
  {"command_timeout", "transient_command_failure", "communication_error",
   "payout_unavailable"}
MCNonRetryable ==
  {"ambiguous_physical_result", "physical_state_mismatch", "reconciliation_required",
   "unsupported_operation", "configuration_error"}
=============================================================================
