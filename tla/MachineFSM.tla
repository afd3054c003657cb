----------------------------- MODULE MachineFSM -----------------------------
(***************************************************************************)
(* The transition table of the kiosk (app/fsm/states.py, transitions.py)   *)
(* and the engine's legality test (machine_fsm.py).  The current state     *)
(* itself is the variable `fsm' of module KioskState.                      *)
(***************************************************************************)

(* Product chosen, nothing paid.                                           *)
SelectionStates ==
  {"PRODUCT_SELECTED", "CHECKING_AVAILABILITY", "CHECKING_CHANGE", "WAITING_FOR_PAYMENT"}

(* Paid, product not yet handed over.                                      *)
FulfilmentStates ==
  {"PAYMENT_ACCEPTED", "DISPENSING_CHANGE", "DISPENSING_PRODUCT",
   "OPENING_DELIVERY_WINDOW", "WAITING_FOR_CUSTOMER_PICKUP", "CLOSING_DELIVERY_WINDOW"}

(* UNSAFE_MACHINE_STATES: the status projection forbids every sale.        *)
UnsafeStates ==
  {"BOOT", "SELF_TEST", "OUT_OF_SERVICE", "FAULT", "SERVICE_MODE", "RECOVERY_PENDING"}

MachineStates ==
  SelectionStates \cup FulfilmentStates \cup UnsafeStates
    \cup {"IDLE", "ACCEPTING_CASH", "COMPLETED", "CANCELLED"}

(* ALLOWED_TRANSITIONS read backwards: the states from which `target' is a *)
(* legal next state.                                                       *)
Predecessors(target) ==
  CASE target = "SELF_TEST" -> {"BOOT"}
    [] target = "IDLE" -> {"SELF_TEST", "COMPLETED", "CANCELLED", "OUT_OF_SERVICE",
                           "SERVICE_MODE", "RECOVERY_PENDING"}
    [] target = "PRODUCT_SELECTED" -> {"IDLE"}
    [] target = "CHECKING_AVAILABILITY" -> {"PRODUCT_SELECTED"}
    [] target = "CHECKING_CHANGE" -> {"CHECKING_AVAILABILITY"}
    [] target = "WAITING_FOR_PAYMENT" -> {"CHECKING_CHANGE"}
    [] target = "ACCEPTING_CASH" -> {"WAITING_FOR_PAYMENT"}
    [] target = "PAYMENT_ACCEPTED" -> {"ACCEPTING_CASH"}
    [] target = "DISPENSING_CHANGE" -> {"PAYMENT_ACCEPTED"}
    [] target = "DISPENSING_PRODUCT" -> {"PAYMENT_ACCEPTED", "DISPENSING_CHANGE"}
    [] target = "OPENING_DELIVERY_WINDOW" -> {"DISPENSING_PRODUCT"}
    [] target = "WAITING_FOR_CUSTOMER_PICKUP" -> {"OPENING_DELIVERY_WINDOW"}
    [] target = "CLOSING_DELIVERY_WINDOW" -> {"WAITING_FOR_CUSTOMER_PICKUP"}
    [] target = "COMPLETED" -> {"CLOSING_DELIVERY_WINDOW"}
    [] target = "CANCELLED" -> SelectionStates \cup {"ACCEPTING_CASH"}
    [] target = "SERVICE_MODE" -> {"IDLE", "OUT_OF_SERVICE", "FAULT", "RECOVERY_PENDING"}
    [] target = "OUT_OF_SERVICE" ->
         (SelectionStates \ {"PRODUCT_SELECTED"})
           \cup {"SELF_TEST", "IDLE", "ACCEPTING_CASH", "COMPLETED", "CANCELLED",
                 "FAULT", "SERVICE_MODE", "RECOVERY_PENDING"}
    [] target = "FAULT" ->
         (SelectionStates \ {"CHECKING_CHANGE"}) \cup FulfilmentStates
           \cup {"BOOT", "SELF_TEST", "IDLE", "ACCEPTING_CASH", "SERVICE_MODE",
                 "RECOVERY_PENDING"}
    [] target = "RECOVERY_PENDING" ->
         FulfilmentStates \cup {"SELF_TEST", "ACCEPTING_CASH", "OUT_OF_SERVICE", "FAULT",
                                "SERVICE_MODE"}
    [] OTHER -> {}

(* Slip: a machine waiting for the customer may confirm a payment again.   *)
CanTransitionLateBill(s, target) ==
  \/ s \in Predecessors(target)
  \/ s = "WAITING_FOR_CUSTOMER_PICKUP" /\ target = "PAYMENT_ACCEPTED"

CanTransition(s, target) == s \in Predecessors(target)

(* StateMachineEngine.transition returns (a step to the same state is a    *)
(* no-op); otherwise it raises InvariantViolationError and changes nothing.*)
TransitionReturns(s, target) == target = s \/ CanTransition(s, target)
=============================================================================
