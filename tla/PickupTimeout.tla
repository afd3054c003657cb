---------------------------- MODULE PickupTimeout ----------------------------
(***************************************************************************)
(* app/orchestrators/pickup_timeout_coordinator.py: the deadline of a      *)
(* waiting transaction passes (found by the poll loop, or forced from the  *)
(* service screen) and the window is closed without the customer.  Time is *)
(* abstracted: a deadline may pass whenever the transaction waits.         *)
(***************************************************************************)
EXTENDS KioskState

TimerGoesTo(x, where) == timers' = [timers EXCEPT ![x] = where]

(* Slip: the deadline is armed for a sale whose window is still opening.   *)
DeadlinePassesWhileOpening(x) ==
  /\ "timeout" \in Operations
  /\ timers[x] = "idle" /\ x \in known
  /\ txs[x].status = "opening_delivery_window"
  /\ TimerGoesTo(x, "elapsed")
  /\ screen' = "notice"
  /\ UNCHANGED <<machine, ledger, session, bills, money, goods, inventory, answered,
                 loop, clicks, failures>>

(* Slip: only the event of an opened window arms a deadline, so that a     *)
(* restored sale has none.                                                 *)
DeadlinePassesOnceArmed(x) ==
  /\ "timeout" \in Operations
  /\ timers[x] = "idle" /\ x \in known
  /\ txs[x].status = "waiting_for_customer_pickup"
  /\ fsm = "WAITING_FOR_CUSTOMER_PICKUP"
  /\ TimerGoesTo(x, "elapsed")
  /\ screen' = "notice"
  /\ UNCHANGED <<machine, ledger, session, bills, money, goods, inventory, answered,
                 loop, clicks, failures>>

(* _collect_expired, and _handle_timeout as far as the first event.        *)
DeadlinePasses(x) ==
  /\ "timeout" \in Operations
  /\ timers[x] = "idle" /\ x \in known
  /\ txs[x].status = "waiting_for_customer_pickup"
  /\ TimerGoesTo(x, "elapsed")
  /\ screen' = "notice"
  /\ UNCHANGED <<machine, ledger, session, bills, money, goods, inventory, answered,
                 loop, clicks, failures>>

CloseOnTimeout(x) ==
  /\ timers[x] = "elapsed"
  /\ IF fsm = "WAITING_FOR_CUSTOMER_PICKUP"
     THEN Project("CLOSING_DELIVERY_WINDOW", status)
     ELSE UNCHANGED machine
  /\ TimerGoesTo(x, "closing_window")
  /\ UNCHANGED <<ledger, ui, bills, money, goods, inventory, answered, loop, clicks,
                 failures>>

(* Nothing of what happened while the window closed is looked at again.    *)
TimeoutWindowClosed(x) ==
  /\ timers[x] = "closing_window"
  /\ window' = "closed"
  /\ Record(x, MarkPickupTimedOutWindowClosed(txs[x]))
  /\ Project("RECOVERY_PENDING", BlockSales(status, "recovery_pending"))
  /\ screen' = "notice"
  /\ TimerGoesTo(x, "idle")
  /\ UNCHANGED <<known, active, session, bills, money, stock, vends, inventory,
                 answered, loop, clicks, failures>>

TimeoutCloseFails(x) ==
  /\ timers[x] = "closing_window" /\ Fails
  /\ window' \in {window, "closed"}
  /\ Record(x, MarkFaulted(txs[x]))
  /\ Project("FAULT", BlockSales(status, "delivery_window_fault"))
  /\ screen' = "notice"
  /\ TimerGoesTo(x, "idle")
  /\ UNCHANGED <<known, active, session, bills, money, stock, vends, inventory,
                 answered, loop, clicks>>

TimerStep(x) == CloseOnTimeout(x) \/ TimeoutWindowClosed(x) \/ TimeoutCloseFails(x)
=============================================================================
