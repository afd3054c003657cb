--------------------------- MODULE SaleTransaction ---------------------------
(***************************************************************************)
(* The Transaction entity (domain/entities/transaction.py) together with   *)
(* the status of its PaymentSession, as operators on a record.  A method   *)
(* that may raise has a predicate ...Returns, false exactly when it        *)
(* raises.  The session's accepted_amount is always the transaction's.     *)
(***************************************************************************)
EXTENDS ChangeManager

TransactionStatuses ==
  {"created", "accepting_cash", "payment_accepted", "dispensing_change",
   "dispensing_product", "opening_delivery_window", "waiting_for_customer_pickup",
   "closing_delivery_window", "pickup_timed_out", "completed", "cancelled",
   "faulted", "ambiguous"}

TransactionRecords ==
  [status : TransactionStatuses,
   accepted_amount : Nat,
   change_due : Nat,
   payment_status : {"pending", "accepting", "confirmed", "cancelled"},
   payout_status : {"not_required", "reserved", "pending", "dispensed", "partial"},
   dispense_status : {"not_started", "authorized", "dispensed"},
   delivery_status : {"not_started", "window_opened", "pickup_confirmed", "window_closed"},
   recovery_status : {"none", "pending", "manual_review"},
   session : {"none", "accepting", "cancelled", "completed"},
   change_reserve : Counts]

NewTransaction ==
  [status |-> "created", accepted_amount |-> 0, change_due |-> 0,
   payment_status |-> "pending", payout_status |-> "not_required",
   dispense_status |-> "not_started", delivery_status |-> "not_started",
   recovery_status |-> "none", session |-> "none", change_reserve |-> NoPieces]

AttachPaymentSession(x) ==
  [x EXCEPT !.session = "accepting", !.status = "accepting_cash",
            !.payment_status = "accepting"]

AttachChangeReserve(x, plan) ==
  [x EXCEPT !.change_reserve = plan, !.payout_status = "reserved"]

DropReserve(x) == [x EXCEPT !.change_reserve = NoPieces]

(* A completed session still takes bills; only a missing or a cancelled    *)
(* one raises.                                                             *)
RecordStackedCashReturns(x) == x.session \notin {"none", "cancelled"}
RecordStackedCash(x, bill) == [x EXCEPT !.accepted_amount = @ + bill]

Covered(x) == x.accepted_amount >= Price

(* Slip: the overpayment is forgotten.                                     *)
ConfirmPaymentWithoutChange(x) ==
  [x EXCEPT !.payment_status = "confirmed", !.status = "payment_accepted",
            !.session = "completed", !.payout_status = "not_required"]

ConfirmPayment(x) ==
  LET overpaid == x.accepted_amount - Price
  IN  [x EXCEPT !.payment_status = "confirmed", !.status = "payment_accepted",
                !.session = IF @ = "none" THEN "none" ELSE "completed",
                !.change_due = overpaid,
                !.payout_status = IF overpaid = 0 THEN "not_required" ELSE @]

MarkChangePending(x) ==
  [x EXCEPT !.payout_status = "pending", !.status = "dispensing_change"]
MarkChangeDispensed(x) == [x EXCEPT !.payout_status = "dispensed"]
MarkChangePartial(x) ==
  [x EXCEPT !.payout_status = "partial", !.status = "ambiguous",
            !.recovery_status = "pending"]

(* Slip: a vend always waits for change.                                   *)
AuthorizeVendAfterChange(x) ==
  x.payment_status = "confirmed" /\ x.payout_status = "dispensed"

AuthorizeVendReturns(x) ==
  /\ x.payment_status = "confirmed"
  /\ x.change_due > 0 => x.payout_status = "dispensed"
AuthorizeVend(x) ==
  [x EXCEPT !.dispense_status = "authorized", !.status = "dispensing_product"]

MarkProductDispensed(x) ==
  [x EXCEPT !.dispense_status = "dispensed", !.status = "opening_delivery_window"]
MarkWindowOpened(x) ==
  [x EXCEPT !.delivery_status = "window_opened", !.status = "waiting_for_customer_pickup"]
ConfirmPickup(x) ==
  [x EXCEPT !.delivery_status = "pickup_confirmed", !.status = "closing_delivery_window"]
MarkWindowClosed(x) ==
  [x EXCEPT !.delivery_status = "window_closed", !.status = "completed"]
MarkPickupTimedOutWindowClosed(x) ==
  [x EXCEPT !.delivery_status = "window_closed", !.status = "pickup_timed_out",
            !.recovery_status = "manual_review"]

(* No guard: any transaction, whatever it has reached, can be cancelled.   *)
Cancel(x) ==
  [x EXCEPT !.status = "cancelled", !.payment_status = "cancelled",
            !.session = IF @ = "none" THEN "none" ELSE "cancelled"]

MarkFaulted(x) == [x EXCEPT !.status = "faulted", !.recovery_status = "pending"]
MarkAmbiguous(x) == [x EXCEPT !.status = "ambiguous", !.recovery_status = "manual_review"]

Terminal(x) == x.status \in {"completed", "cancelled"}
Unresolved(x) == x.recovery_status # "none" \/ ~Terminal(x)
=============================================================================
