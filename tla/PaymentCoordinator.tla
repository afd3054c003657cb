------------------------- MODULE PaymentCoordinator -------------------------
(***************************************************************************)
(* app/orchestrators/payment_coordinator.py with the ChangeManager methods *)
(* it awaits, the validator event loop of app/bootstrap.py that calls it,  *)
(* and the bill validator that feeds the loop.                             *)
(*                                                                         *)
(* The loop has no exception handler: whatever is raised below it ends it, *)
(* and nothing starts it again.                                            *)
(***************************************************************************)
EXTENDS KioskState, SequencesExt

LoopGoesTo(where) == loop' = [loop EXCEPT !.label = where]
LoopDies == loop' = DeadLoop

(* fsm.transition, then the event that follows it; or the loop ends with   *)
(* the InvariantViolationError.                                            *)
LoopProceeds(s, where, shown) ==
  IF TransitionReturns(fsm, s)
  THEN Project(s, status) /\ LoopGoesTo(where) /\ screen' = shown
  ELSE LoopDies /\ UNCHANGED <<machine, screen>>

(* Slip: an error of the payout is not handled.                            *)
PayoutRaisesUnhandled == LoopDies /\ UNCHANGED machine

(* The except-branch of complete_payment around the payout.                *)
PayoutRaises ==
  /\ ProjectIfLegal("RECOVERY_PENDING", status)
  /\ LoopDies

(* ------------------------- Bill validator (device) --------------------- *)

(* What the active transaction still lacks once every bill on its way is   *)
(* credited.                                                               *)
Outstanding ==
  LET queued == FoldSeq(LAMBDA bill, sum : bill + sum, 0, validator.events)
      inHand == IF loop.label = "device_event" THEN loop.event ELSE 0
  IN  IF active = NoTx THEN 0 ELSE Price - txs[active].accepted_amount - queued - inHand

(* A customer who watches the screen stops once the price is covered.      *)
InsertBill(bill) ==
  /\ validator.accepting
  /\ "late bill" \in Operations \/ Outstanding > 0
  /\ stacked + bill <= MaxCash
  /\ stacked' = stacked + bill
  /\ validator' = [validator EXCEPT !.events = Append(@, bill)]
  /\ UNCHANGED <<machine, ledger, ui, money, goods, inventory, answered,
                 loop, clicks, timers, failures>>

JamBill ==
  /\ validator.accepting
  /\ Fails
  /\ validator' = [accepting |-> FALSE, events |-> Append(validator.events, FaultEvent)]
  /\ UNCHANGED <<machine, ledger, ui, stacked, money, goods, inventory, answered,
                 loop, clicks, timers>>

(* ------------------------ process_validator_event ---------------------- *)

(* The event is lost when no transaction is active.                        *)
ReadEvent ==
  /\ loop.label = "read" /\ validator.events # <<>>
  /\ validator' = [validator EXCEPT !.events = Tail(@)]
  /\ loop' = IF active = NoTx
             THEN loop
             ELSE [loop EXCEPT !.label = "device_event", !.tx = active,
                               !.event = Head(validator.events)]
  /\ UNCHANGED <<machine, ledger, ui, stacked, money, goods, inventory, answered,
                 clicks, timers, failures>>

ValidatorFault ==
  /\ loop.label = "device_event" /\ loop.event = FaultEvent
  /\ Record(loop.tx, MarkFaulted(txs[loop.tx]))
  /\ ProjectIfLegal("FAULT", BlockSales(status, "validator_fault"))
  /\ LoopDies
  /\ UNCHANGED <<known, active, ui, bills, money, goods, inventory, answered,
                 clicks, timers, failures>>

CreditBill ==
  /\ loop.label = "device_event" /\ loop.event \in BillValues
  /\ LET x == txs[loop.tx]
     IN  IF RecordStackedCashReturns(x)
         THEN /\ Record(loop.tx, RecordStackedCash(x, loop.event))
              /\ screen' = "payment"
              /\ LoopGoesTo("amount_updated")
         ELSE LoopDies /\ UNCHANGED <<txs, screen>>
  /\ UNCHANGED <<machine, known, active, session, bills, money, goods, inventory,
                 answered, clicks, timers, failures>>

AwaitMoreCash ==
  /\ loop.label = "amount_updated" /\ ~Covered(txs[loop.tx])
  /\ loop' = ReadingLoop
  /\ UNCHANGED <<machine, ledger, ui, bills, money, goods, inventory, answered,
                 clicks, timers, failures>>

(* --------------------------- complete_payment -------------------------- *)

AcceptPayment == LoopProceeds("PAYMENT_ACCEPTED", "payment_confirmed", "dispensing")

(* The disable command carries the transaction's correlation id: asked     *)
(* again for the same transaction it is answered from the cache at once.   *)
CompletePayment ==
  /\ loop.label = "amount_updated" /\ Covered(txs[loop.tx])
  /\ Record(loop.tx, ConfirmPayment(txs[loop.tx]))
  /\ IF answered[loop.tx].disable
     THEN AcceptPayment
     ELSE LoopGoesTo("disabling") /\ UNCHANGED <<machine, screen>>
  /\ UNCHANGED <<known, active, session, bills, money, goods, inventory, answered,
                 clicks, timers, failures>>

AcceptanceDisabled ==
  /\ loop.label = "disabling"
  /\ validator' = [validator EXCEPT !.accepting = FALSE]
  /\ answered' = [answered EXCEPT ![loop.tx].disable = TRUE]
  /\ AcceptPayment
  /\ UNCHANGED <<ledger, session, stacked, money, goods, inventory, clicks, timers,
                 failures>>

DisableFails ==
  /\ loop.label = "disabling" /\ Fails
  /\ validator' \in {validator, [validator EXCEPT !.accepting = FALSE]}
  /\ Record(loop.tx, MarkAmbiguous(txs[loop.tx]))
  /\ Project("RECOVERY_PENDING", status)
  /\ LoopDies
  /\ UNCHANGED <<known, active, ui, stacked, money, goods, inventory, answered,
                 clicks, timers>>

(* finalize_reserve: the worst-case reserve is given back and, when change *)
(* is due, replaced by a reserve of the exact plan.                        *)
FinalizeReserve ==
  /\ loop.label = "payment_confirmed"
  /\ LET x == txs[loop.tx]
         freed == Release(inventory, x.change_reserve)
     IN  \/ /\ x.change_due = 0
            /\ inventory' = freed
            /\ Record(loop.tx, DropReserve(x))
            /\ LoopGoesTo("vend_authorized")
            /\ UNCHANGED <<machine, screen>>
         \/ /\ x.change_due > 0 /\ ChangePlans(freed, x.change_due) = {}
            /\ inventory' = freed
            /\ Record(loop.tx, DropReserve(x))
            /\ PayoutRaises
            /\ UNCHANGED screen
         \/ /\ x.change_due > 0
            /\ \E plan \in ChangePlans(freed, x.change_due) :
                 /\ inventory' = Reserve(freed, plan)
                 /\ Record(loop.tx, MarkChangePending(AttachChangeReserve(x, plan)))
            /\ IF TransitionReturns(fsm, "DISPENSING_CHANGE")
               THEN LoopProceeds("DISPENSING_CHANGE", "change_requested", "dispensing")
               ELSE PayoutRaises /\ UNCHANGED screen
  /\ UNCHANGED <<known, active, session, bills, money, goods, answered, clicks,
                 timers, failures>>

(* --------------------- ChangeManager.dispense (change) ----------------- *)

(* The plan sent to the dispenser is the reserve at this moment; without   *)
(* a reserve ChangeUnavailableError is raised.                             *)
RequestChange ==
  /\ loop.label = "change_requested"
  /\ LET reserve == txs[loop.tx].change_reserve
     IN  IF reserve = NoPieces
         THEN PayoutRaises
         ELSE /\ loop' = [loop EXCEPT !.label = "dispensing_change", !.plan = reserve]
              /\ UNCHANGED machine
  /\ UNCHANGED <<ledger, ui, bills, money, goods, inventory, answered, clicks,
                 timers, failures>>

(* The accounting is corrected by the reserve the transaction holds when   *)
(* the answer comes, if it still holds one.                                *)
ChangeDispensed ==
  /\ loop.label = "dispensing_change" /\ CanDispense(loop.plan)
  /\ PayOut(loop.tx, loop.plan)
  /\ LET x == txs[loop.tx]
     IN  IF x.change_reserve = NoPieces
         THEN PayoutRaises /\ UNCHANGED <<txs, inventory, screen>>
         ELSE /\ inventory' = Consume(inventory, x.change_reserve)
              /\ Record(loop.tx, MarkChangeDispensed(x))
              /\ LoopGoesTo("vend_authorized")
              /\ screen' = "dispensing"
              /\ UNCHANGED machine
  /\ UNCHANGED <<known, active, session, bills, goods, answered, clicks, timers,
                 failures>>

(* A partial, failed or ambiguous answer.                                  *)
ChangeNotDispensed ==
  /\ loop.label = "dispensing_change"
  /\ \/ /\ Fails
        /\ \E part \in PartsOf(loop.plan) : PayOut(loop.tx, part)
        /\ \/ Record(loop.tx, MarkChangePartial(txs[loop.tx]))
           \/ Record(loop.tx, MarkAmbiguous(txs[loop.tx]))
     \/ /\ ~CanDispense(loop.plan)
        /\ Record(loop.tx, MarkAmbiguous(txs[loop.tx]))
        /\ UNCHANGED <<money, failures>>
  /\ inventory' = MarkDrift(inventory)
  /\ PayoutRaises
  /\ UNCHANGED <<known, active, ui, bills, goods, answered, clicks, timers>>

(* The command times out or the device raises: neither the transaction nor *)
(* the inventory is told.                                                  *)
ChangeCommandRaises ==
  /\ loop.label = "dispensing_change" /\ Fails
  /\ \E part \in PartsOf(loop.plan) : PayOut(loop.tx, part)
  /\ PayoutRaises
  /\ UNCHANGED <<ledger, ui, bills, goods, inventory, answered, clicks, timers>>

PaymentLoopStep ==
  \/ ReadEvent \/ ValidatorFault \/ CreditBill \/ AwaitMoreCash \/ CompletePayment
  \/ AcceptanceDisabled \/ FinalizeReserve \/ RequestChange \/ ChangeDispensed
  \/ DisableFails \/ ChangeNotDispensed \/ ChangeCommandRaises

(* -------------------------- start_cash_session ------------------------- *)

(* A FlowerVendingError: the presenter shows an error screen.              *)
ClickRejected(c) == EndClick(c) /\ screen' = "notice"

(* PurchaseTransactionAggregate.start_cash_session and what follows it, up *)
(* to the enable command.                                                  *)
OpenSession(c, x, record, st) ==
  /\ Record(x, AttachPaymentSession(record))
  /\ IF TransitionReturns(fsm, "ACCEPTING_CASH")
     THEN Project("ACCEPTING_CASH", st) /\ Suspend(c, "enabling", x, NoPieces) /\ UNCHANGED screen
     ELSE fsm' = fsm /\ status' = st /\ ClickRejected(c)

(* The sale is assessed and the worst-case change reserved.                *)
StartCashSession(c) ==
  /\ clicks[c].label = "purchase_started"
  /\ LET x == clicks[c].tx
         supported == SaleSupported(inventory)
         st == SetExactChangeOnly(status, ~supported)
     IN  \/ /\ ~SalesAllowed(status)
            /\ ClickRejected(c)
            /\ UNCHANGED <<machine, txs, inventory>>
         \/ /\ SalesAllowed(status) /\ ~supported
            /\ status' = st
            /\ ClickRejected(c)
            /\ UNCHANGED <<fsm, txs, inventory>>
         \/ /\ SalesAllowed(status) /\ supported /\ WorstCaseChange = 0
            /\ OpenSession(c, x, txs[x], st)
            /\ UNCHANGED inventory
         \/ /\ SalesAllowed(status) /\ supported /\ WorstCaseChange > 0
            /\ status' = st
            /\ \E plan \in ChangePlans(inventory, WorstCaseChange) :
                 /\ inventory' = Reserve(inventory, plan)
                 /\ Record(x, AttachChangeReserve(txs[x], plan))
            /\ Suspend(c, "reserve_created", x, NoPieces)
            /\ UNCHANGED <<fsm, screen>>
  /\ UNCHANGED <<known, active, session, bills, money, goods, answered, loop,
                 timers, failures>>

ReserveCreated(c) ==
  /\ clicks[c].label = "reserve_created"
  /\ OpenSession(c, clicks[c].tx, txs[clicks[c].tx], status)
  /\ UNCHANGED <<known, active, session, bills, money, goods, inventory, answered,
                 loop, timers, failures>>

AcceptanceEnabled(c) ==
  /\ clicks[c].label = "enabling"
  /\ validator' = [validator EXCEPT !.accepting = TRUE]
  /\ session' = clicks[c].tx /\ screen' = "payment"
  /\ EndClick(c)
  /\ UNCHANGED <<machine, ledger, stacked, money, goods, inventory, answered, loop,
                 timers, failures>>

EnableFails(c) ==
  /\ clicks[c].label = "enabling" /\ Fails
  /\ validator' \in {validator, [validator EXCEPT !.accepting = TRUE]}
  /\ Record(clicks[c].tx, MarkFaulted(txs[clicks[c].tx]))
  /\ ProjectIfLegal("FAULT", BlockSales(status, "validator_fault"))
  /\ ClickRejected(c)
  /\ UNCHANGED <<known, active, session, stacked, money, goods, inventory, answered,
                 loop, timers>>

(* ---------------------------- cancel_purchase -------------------------- *)

CancelClick(c) ==
  /\ "cancel" \in Operations
  /\ clicks[c].label = "idle" /\ screen = "payment" /\ session # NoTx
  /\ Suspend(c, "cancel_disabling", session, NoPieces)
  /\ UNCHANGED <<machine, ledger, ui, bills, money, goods, inventory, answered, loop,
                 timers, failures>>

(* The end of cancel_purchase: whatever the transaction has become by now, *)
(* its reserve is released and it is cancelled.                            *)
FinishCancel(c, x, record, inv) ==
  /\ inventory' = Release(inv, record.change_reserve)
  /\ Record(x, Cancel(DropReserve(record)))
  /\ IF TransitionReturns(fsm, "CANCELLED")
     THEN /\ Project("CANCELLED", status)
          /\ session' = NoTx /\ screen' = "home"
          /\ Suspend(c, "purchase_cancelled", x, NoPieces)
     ELSE ClickRejected(c) /\ UNCHANGED <<machine, session>>

OwesRefund(record) ==
  record.payment_status # "confirmed" /\ record.accepted_amount > 0

CancelDisabled(c) ==
  /\ clicks[c].label = "cancel_disabling"
  /\ validator' = [validator EXCEPT !.accepting = FALSE]
  /\ LET x == clicks[c].tx
         record == txs[x]
     IN  IF OwesRefund(record)
         THEN /\ inventory' = Release(inventory, record.change_reserve)
              /\ Record(x, DropReserve(record))
              /\ Suspend(c, "refund_requested", x, NoPieces)
              /\ UNCHANGED <<machine, ui>>
         ELSE FinishCancel(c, x, record, inventory)
  /\ UNCHANGED <<known, active, stacked, money, goods, answered, loop, timers,
                 failures>>

CancelDisableFails(c) ==
  /\ clicks[c].label = "cancel_disabling" /\ Fails
  /\ validator' \in {validator, [validator EXCEPT !.accepting = FALSE]}
  /\ Record(clicks[c].tx, MarkAmbiguous(txs[clicks[c].tx]))
  /\ Project("RECOVERY_PENDING", status)
  /\ EndClick(c)
  /\ UNCHANGED <<known, active, ui, stacked, money, goods, inventory, answered,
                 loop, timers>>

(* The except-branch of _refund_cancelled_cash.                            *)
RefundRaises(x) ==
  /\ Record(x, MarkAmbiguous(txs[x]))
  /\ Project("RECOVERY_PENDING", status)

(* What dispense_refund does with the dispenser's answer.                  *)
RefundAnswered(c, x, plan, inv, answer) ==
  IF answer = "dispensed"
  THEN /\ inventory' = Consume(inv, plan)
       /\ Suspend(c, "refund_dispensed", x, NoPieces)
       /\ UNCHANGED <<machine, txs, screen>>
  ELSE /\ inventory' = MarkDrift(inv)
       /\ RefundRaises(x)
       /\ ClickRejected(c)

(* The amount is planned and reserved afresh; a request the dispenser has  *)
(* answered before is answered from the command runner's cache.            *)
RequestRefund(c) ==
  /\ clicks[c].label = "refund_requested"
  /\ LET x == clicks[c].tx
         plans == ChangePlans(inventory, txs[x].accepted_amount)
     IN  \/ /\ plans = {}
            /\ RefundRaises(x)
            /\ ClickRejected(c)
            /\ UNCHANGED inventory
         \/ \E plan \in plans :
              IF answered[x].refund = "none"
              THEN /\ inventory' = Reserve(inventory, plan)
                   /\ Suspend(c, "refunding", x, plan)
                   /\ UNCHANGED <<machine, txs, screen>>
              ELSE RefundAnswered(c, x, plan, Reserve(inventory, plan), answered[x].refund)
  /\ UNCHANGED <<known, active, session, bills, money, goods, answered, loop, timers,
                 failures>>

RefundDispensed(c) ==
  /\ clicks[c].label = "refunding" /\ CanDispense(clicks[c].plan)
  /\ PayOut(clicks[c].tx, clicks[c].plan)
  /\ answered' = [answered EXCEPT ![clicks[c].tx].refund = "dispensed"]
  /\ RefundAnswered(c, clicks[c].tx, clicks[c].plan, inventory, "dispensed")
  /\ UNCHANGED <<known, active, session, bills, goods, loop, timers, failures>>

RefundNotDispensed(c) ==
  /\ clicks[c].label = "refunding"
  /\ \E answer \in {"partial", "failed"} :
       /\ \/ Fails /\ \E part \in PartsOf(clicks[c].plan) : PayOut(clicks[c].tx, part)
          \/ /\ answer = "failed" /\ ~CanDispense(clicks[c].plan)
             /\ UNCHANGED <<money, failures>>
       /\ answered' = [answered EXCEPT ![clicks[c].tx].refund = answer]
       /\ RefundAnswered(c, clicks[c].tx, clicks[c].plan, inventory, answer)
  /\ UNCHANGED <<known, active, session, bills, goods, loop, timers>>

RefundCommandRaises(c) ==
  /\ clicks[c].label = "refunding" /\ Fails
  /\ \E part \in PartsOf(clicks[c].plan) : PayOut(clicks[c].tx, part)
  /\ RefundRaises(clicks[c].tx)
  /\ EndClick(c)
  /\ UNCHANGED <<known, active, ui, bills, goods, inventory, answered, loop, timers>>

RefundPublished(c) ==
  /\ clicks[c].label = "refund_dispensed"
  /\ FinishCancel(c, clicks[c].tx, txs[clicks[c].tx], inventory)
  /\ UNCHANGED <<known, active, bills, money, goods, answered, loop, timers, failures>>

ClearActive(x) == active' = IF active = x THEN NoTx ELSE active

(* VendingController.cancel_purchase and the presenter finish the click.   *)
CancelPublished(c) ==
  /\ clicks[c].label = "purchase_cancelled"
  /\ ClearActive(clicks[c].tx)
  /\ IF fsm = "CANCELLED" THEN Project("IDLE", status) ELSE UNCHANGED machine
  /\ session' = NoTx /\ screen' = "home"
  /\ EndClick(c)
  /\ UNCHANGED <<txs, known, bills, money, goods, inventory, answered, loop, timers,
                 failures>>

PaymentClickStep(c) ==
  \/ StartCashSession(c) \/ ReserveCreated(c) \/ AcceptanceEnabled(c) \/ EnableFails(c)
  \/ CancelDisabled(c) \/ CancelDisableFails(c) \/ RequestRefund(c)
  \/ RefundDispensed(c) \/ RefundNotDispensed(c) \/ RefundCommandRaises(c)
  \/ RefundPublished(c) \/ CancelPublished(c)
=============================================================================
