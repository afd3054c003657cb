--------------------------- MODULE VendingMachine ---------------------------
(***************************************************************************)
(* The kiosk: the validator loop, the UI clicks, the pickup timeouts and   *)
(* the operator, on the shared state of KioskState.                        *)
(***************************************************************************)
EXTENDS VendingController, PickupTimeout, OperatorDesk, EventLoop

LoopStep == PaymentLoopStep \/ VendLoopStep

(* A click that has been started goes on.                                  *)
ClickStep(c) == PaymentClickStep(c) \/ VendClickStep(c) \/ RecoverAsCancelled(c)

CustomerStep ==
  \/ \E b \in BillValues : InsertBill(b)
  \/ JamBill
  \/ \E c \in Clicks : CheckoutClick(c) \/ CancelClick(c) \/ PickupPress(c)

DeadlineStep(x) == DeadlinePasses(x) \/ TimerStep(x)

KioskInit == Init /\ ready = <<>>

Next ==
  /\ \/ LoopStep
     \/ \E c \in Clicks : ClickStep(c)
     \/ \E x \in Transactions : DeadlineStep(x)
     \/ CustomerStep
     \/ OperatorStep
  /\ Scheduled

kioskVars == <<vars, ready>>

Spec == KioskInit /\ [][Next]_kioskVars

(* The event loop runs every task that may go on, a device command ends    *)
(* and a deadline passes; nobody owes a bill or a click.                   *)
Fairness ==
  /\ WF_kioskVars(LoopStep /\ Scheduled)
  /\ \A c \in Clicks : WF_kioskVars(ClickStep(c) /\ Scheduled)
  /\ \A x \in Transactions : WF_kioskVars(DeadlineStep(x) /\ Scheduled)

FairSpec == Spec /\ Fairness

(* ------------------------------- Safety -------------------------------- *)

Paid(x) == Value(paidOut[x])

(* A machine that is faulted, in service or waiting for recovery starts no *)
(* sale: the status that start_purchase and start_cash_session consult     *)
(* follows the state machine through every transition of every task.       *)
UnsafeStateBlocksSales == fsm \in UnsafeStates => ~SalesAllowed(status)

(* The motor runs at most once per transaction, whatever clicks, bills,    *)
(* failures and service actions interleave: no guard says so, it follows   *)
(* from the order of the state machine and the one validator loop.         *)
AtMostOneVend == \A x \in Transactions : vends[x] <= 1

(* For each transaction, the change, the refund and the product together   *)
(* are worth no more than the bills credited to it.                        *)
GivesAtMostWhatItTook ==
  \A x \in Transactions : Paid(x) + vends[x] * Price <= txs[x].accepted_amount

(* A completed sale has handed over one product and kept exactly its price.*)
CompletedExactly ==
  \A x \in known : txs[x].status = "completed" =>
     vends[x] = 1 /\ txs[x].accepted_amount - Paid(x) = Price

(* Pieces reserved in the inventory are those some transaction holds for   *)
(* its change; ChangeManager keeps the two apart and updates both.  (A     *)
(* consumed reserve stays attached to its transaction.)                    *)
HeldPieces(x) ==
  IF txs[x].payout_status = "dispensed" THEN NoPieces ELSE txs[x].change_reserve
ReservesAreHeld ==
  \A d \in Denominations :
     inventory.reserved[d] = MapThenSumSet(LAMBDA x : HeldPieces(x)[d], known)

(* No promise exceeds what the accounting says is there.                   *)
ReservedIsCovered ==
  \A d \in Denominations : inventory.reserved[d] <= inventory.accounting[d]

(* While the accounting differs from the pieces in the dispenser, no sale  *)
(* can be assessed as safe: drift is flagged, or the machine is in an      *)
(* unsafe state.                                                           *)
MismatchStopsSales ==
  inventory.accounting # coins =>
     inventory.drift_detected \/ fsm \in UnsafeStates

(* A machine ready for the next customer has its window closed, whatever   *)
(* presses and deadlines were closing it at once.                          *)
IdleWindowClosed == fsm = "IDLE" => window = "closed"

(* A pickup press that waits for its turn confirms the sale it was made    *)
(* for: by then its session may have ended, but not have become another    *)
(* sale's, whose window it would close on the next customer.               *)
PressKeepsItsSale ==
  \A c \in Clicks : clicks[c].label = "pressed" => session \in {NoTx, clicks[c].tx}

(* Once the window has closed behind a product, the motor and the dispenser *)
(* do nothing more for its sale, even if a late bill still reaches it: the *)
(* late bill is credited and confirmed before the machine refuses.         *)
DeliveredIsFinal ==
  [][\A x \in Transactions : txs[x].delivery_status = "window_closed" =>
       vends'[x] = vends[x] /\ paidOut'[x] = paidOut[x]]_kioskVars

(* ------------------------------- Liveness ------------------------------ *)

(* A confirmed payment ends in a pickup, in a timed-out pickup, or in a    *)
(* state an operator is called to.  (A second press of the pickup button   *)
(* may mark the finished sale as being closed once more, and nothing ends  *)
(* it again: it is the sale not picked up yet that settles.)               *)
Settled(x) == x.status \in {"completed", "pickup_timed_out", "faulted", "ambiguous"}
AwaitsDelivery(x) ==
  x.payment_status = "confirmed" /\ x.delivery_status \in {"not_started", "window_opened"}
PaymentSettles ==
  \A x \in Transactions :
     AwaitsDelivery(txs[x]) ~> Settled(txs[x]) \/ fsm \in UnsafeStates

(* A window that was opened for a customer does not stay open.             *)
WindowCloses == window = "open" ~> window = "closed"

(* --------------------- What the documents promise ---------------------- *)

(* Cash already stacked is refunded before a purchase counts as cancelled. *)
CancelledKeepsNothing ==
  \A x \in known : txs[x].status = "cancelled" => Paid(x) = txs[x].accepted_amount
=============================================================================
