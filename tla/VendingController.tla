-------------------------- MODULE VendingController --------------------------
(***************************************************************************)
(* app/orchestrators/vending_controller.py: the checkout click up to the   *)
(* cash session, the vend that the validator loop runs once the payment is *)
(* settled, and the pickup click.                                          *)
(***************************************************************************)
EXTENDS PaymentCoordinator

(* ---------------------------- start_purchase --------------------------- *)

(* The availability and blocker checks are made before the sensor is read  *)
(* and not again after it.                                                 *)
CheckoutClick(c) ==
  /\ "checkout" \in Operations
  /\ clicks[c].label = "idle" /\ screen = "home"
  /\ IF SalesAllowed(status) /\ stock > 0
     THEN Suspend(c, "sensing", NoTx, NoPieces) /\ UNCHANGED screen
     ELSE ClickRejected(c)
  /\ UNCHANGED <<machine, ledger, session, bills, money, goods, inventory, answered,
                 loop, timers, failures>>

SensorMismatch(c) ==
  /\ clicks[c].label = "sensing" /\ Fails
  /\ ClickRejected(c)
  /\ UNCHANGED <<machine, ledger, session, bills, money, goods, inventory, answered,
                 loop, timers>>

(* create_transaction, then the four transitions from IDLE.  The first of  *)
(* them raises when the machine is elsewhere, and the new transaction      *)
(* stays active.                                                           *)
CreateTransaction(c, x) ==
  /\ clicks[c].label = "sensing" /\ active = NoTx /\ x \notin known
  /\ known' = known \cup {x} /\ active' = x
  /\ Record(x, NewTransaction)
  /\ IF CanTransition(fsm, "PRODUCT_SELECTED")
     THEN /\ Project("WAITING_FOR_PAYMENT", status)
          /\ Suspend(c, "purchase_started", x, NoPieces)
          /\ UNCHANGED screen
     ELSE ClickRejected(c) /\ UNCHANGED machine
  /\ UNCHANGED <<session, bills, money, goods, inventory, answered, loop, timers,
                 failures>>

AlreadyActive(c) ==
  /\ clicks[c].label = "sensing" /\ active # NoTx
  /\ ClickRejected(c)
  /\ UNCHANGED <<machine, ledger, session, bills, money, goods, inventory, answered,
                 loop, timers, failures>>

(* ------------------------- handle_vend_authorized ---------------------- *)

VendAuthorized ==
  /\ loop.label = "vend_authorized"
  /\ IF AuthorizeVendReturns(txs[loop.tx])
     THEN /\ Record(loop.tx, AuthorizeVend(txs[loop.tx]))
          /\ LoopProceeds("DISPENSING_PRODUCT", "vending", "dispensing")
     ELSE LoopDies /\ UNCHANGED <<machine, txs, screen>>
  /\ UNCHANGED <<known, active, session, bills, money, goods, inventory, answered,
                 clicks, timers, failures>>

MotorRuns == vends' = [vends EXCEPT ![loop.tx] = @ + 1]

(* InventoryService.mark_vended raises for an empty slot.                  *)
ProductVended ==
  /\ loop.label = "vending"
  /\ MotorRuns
  /\ IF stock > 0
     THEN /\ stock' = stock - 1
          /\ Record(loop.tx, MarkProductDispensed(txs[loop.tx]))
          /\ screen' = "dispensing"
          /\ LoopGoesTo("product_dispensed")
     ELSE LoopDies /\ UNCHANGED <<stock, txs, screen>>
  /\ UNCHANGED <<machine, known, active, session, bills, money, window, inventory,
                 answered, clicks, timers, failures>>

VendFails ==
  /\ loop.label = "vending" /\ Fails
  /\ MotorRuns \/ UNCHANGED vends
  /\ Record(loop.tx, MarkFaulted(txs[loop.tx]))
  /\ ProjectIfLegal("FAULT", status)
  /\ LoopDies
  /\ UNCHANGED <<known, active, ui, bills, money, stock, window, inventory, answered,
                 clicks, timers>>

OpenWindow ==
  /\ loop.label = "product_dispensed"
  /\ LoopProceeds("OPENING_DELIVERY_WINDOW", "opening_window", screen)
  /\ UNCHANGED <<ledger, session, bills, money, goods, inventory, answered, clicks,
                 timers, failures>>

WindowOpened ==
  /\ loop.label = "opening_window"
  /\ window' = "open"
  /\ Record(loop.tx, MarkWindowOpened(txs[loop.tx]))
  /\ IF TransitionReturns(fsm, "WAITING_FOR_CUSTOMER_PICKUP")
     THEN /\ Project("WAITING_FOR_CUSTOMER_PICKUP", status)
          /\ screen' = "pickup"
          /\ loop' = ReadingLoop
     ELSE LoopDies /\ UNCHANGED <<machine, screen>>
  /\ UNCHANGED <<known, active, session, bills, money, stock, vends, inventory,
                 answered, clicks, timers, failures>>

OpenFails ==
  /\ loop.label = "opening_window" /\ Fails
  /\ window' \in {window, "open"}
  /\ Record(loop.tx, MarkFaulted(txs[loop.tx]))
  /\ ProjectIfLegal("FAULT", status)
  /\ LoopDies
  /\ UNCHANGED <<known, active, ui, bills, money, stock, vends, inventory, answered,
                 clicks, timers>>

(* ----------------------------- confirm_pickup -------------------------- *)

(* The button starts a task (kiosk_window.py) that runs one round of the   *)
(* event loop later, whatever the screen shows by then.                    *)
PickupPress(c) ==
  /\ "pickup" \in Operations
  /\ clicks[c].label = "idle" /\ screen = "pickup" /\ session # NoTx
  /\ Suspend(c, "pressed", session, NoPieces)
  /\ UNCHANGED <<machine, ledger, ui, bills, money, goods, inventory, answered, loop,
                 timers, failures>>

(* Slip: a press that finds the window closing counts as picked up.        *)
PickupClickWhileClosing(c) ==
  /\ clicks[c].label = "pressed"
  /\ Record(clicks[c].tx, ConfirmPickup(txs[clicks[c].tx]))
  /\ CASE fsm = "CLOSING_DELIVERY_WINDOW" ->
            fsm' = "COMPLETED" /\ Suspend(c, "completed", clicks[c].tx, NoPieces)
       [] CanTransition(fsm, "CLOSING_DELIVERY_WINDOW") ->
            fsm' = "CLOSING_DELIVERY_WINDOW" /\ Suspend(c, "closing_window", clicks[c].tx, NoPieces)
       [] OTHER -> fsm' = fsm /\ EndClick(c)
  /\ UNCHANGED <<status, known, active, ui, bills, money, goods, inventory, answered,
                 loop, timers, failures>>

(* Whatever the screen shows by now, the sale of the session is confirmed: *)
(* the one the press was made in, for no other session can have begun      *)
(* (PressKeepsItsSale).  A session that has just ended may be there still, *)
(* since the handlers of the event that ended it come behind the press.    *)
(* The transaction is marked first; the transition raises afterwards when  *)
(* the machine is not waiting for the pickup.                              *)
PickupClick(c) ==
  /\ clicks[c].label = "pressed"
  /\ LET x == clicks[c].tx
     IN  \/ /\ Record(x, ConfirmPickup(txs[x]))
            /\ IF TransitionReturns(fsm, "CLOSING_DELIVERY_WINDOW")
               THEN /\ Project("CLOSING_DELIVERY_WINDOW", status)
                    /\ Suspend(c, "closing_window", x, NoPieces)
                    /\ UNCHANGED screen
               ELSE ClickRejected(c) /\ UNCHANGED machine
         \/ /\ session = NoTx
            /\ EndClick(c) /\ screen' = "home"
            /\ UNCHANGED <<machine, txs>>
  /\ UNCHANGED <<known, active, session, bills, money, goods, inventory, answered,
                 loop, timers, failures>>

(* COMPLETED is not projected to the machine status.                       *)
PickupWindowClosed(c) ==
  /\ clicks[c].label = "closing_window"
  /\ window' = "closed"
  /\ Record(clicks[c].tx, MarkWindowClosed(txs[clicks[c].tx]))
  /\ IF TransitionReturns(fsm, "COMPLETED")
     THEN /\ fsm' = "COMPLETED"
          /\ session' = NoTx /\ screen' = "home"
          /\ Suspend(c, "completed", clicks[c].tx, NoPieces)
     ELSE ClickRejected(c) /\ UNCHANGED <<fsm, session>>
  /\ UNCHANGED <<status, known, active, bills, money, stock, vends, inventory,
                 answered, loop, timers, failures>>

(* The raised device error is no FlowerVendingError: the screen stays, and *)
(* so does the machine, closing its window.                                *)
PickupCloseFails(c) ==
  /\ clicks[c].label = "closing_window" /\ Fails
  /\ window' \in {window, "closed"}
  /\ Record(clicks[c].tx, MarkFaulted(txs[clicks[c].tx]))
  /\ EndClick(c)
  /\ UNCHANGED <<machine, known, active, ui, bills, money, stock, vends, inventory,
                 answered, loop, timers>>

SaleCompleted(c) ==
  /\ clicks[c].label = "completed"
  /\ ClearActive(clicks[c].tx)
  /\ IF TransitionReturns(fsm, "IDLE")
     THEN /\ Project("IDLE", status)
          /\ session' = NoTx /\ screen' = "home"
          /\ EndClick(c)
     ELSE ClickRejected(c) /\ UNCHANGED <<machine, session>>
  /\ UNCHANGED <<txs, known, bills, money, goods, inventory, answered, loop, timers,
                 failures>>

VendLoopStep ==
  VendAuthorized \/ ProductVended \/ VendFails \/ OpenWindow \/ WindowOpened \/ OpenFails

VendClickStep(c) ==
  \/ SensorMismatch(c) \/ AlreadyActive(c)
  \/ \E x \in Transactions : CreateTransaction(c, x)
  \/ PickupClick(c) \/ PickupWindowClosed(c) \/ PickupCloseFails(c) \/ SaleCompleted(c)
=============================================================================
