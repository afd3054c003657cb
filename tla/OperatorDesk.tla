---------------------------- MODULE OperatorDesk ----------------------------
(***************************************************************************)
(* What a technician and the supervision loops do: service mode            *)
(* (service_mode_coordinator.py), recovery of an interrupted transaction   *)
(* (recovery_manager.py), the health monitor's sale blockers               *)
(* (health_monitor.py) and the way out of the presenter's notices          *)
(* (kiosk_presenter.py).                                                   *)
(***************************************************************************)
EXTENDS KioskState

(* The presenter's part after the await is merged into the click: it only  *)
(* shows a screen.                                                         *)
EnterServiceMode ==
  /\ "service" \in Operations
  /\ screen \in {"home", "notice"}
  /\ Project("SERVICE_MODE", SetServiceMode(status, TRUE))
  /\ screen' = "service"
  /\ UNCHANGED <<ledger, session, bills, money, goods, inventory, answered, loop,
                 clicks, timers, failures>>

(* IDLE is forced when no transition leads there.                          *)
ExitServiceMode ==
  /\ "service" \in Operations
  /\ screen = "service"
  /\ Project("IDLE", SetServiceMode(status, FALSE))
  /\ session' = NoTx /\ screen' = "home"
  /\ UNCHANGED <<ledger, bills, money, goods, inventory, answered, loop, clicks,
                 timers, failures>>

(* RecoveryManager.assess: the answer for an unresolved transaction.       *)
CancelSafe(x) ==
  /\ x.status \notin {"completed", "cancelled", "pickup_timed_out", "ambiguous", "faulted"}
  /\ x.payment_status # "confirmed"

(* recover_transaction up to its first event; a plan that needs an         *)
(* operator raises after it, and one for a settled transaction is done.    *)
RecoverClick(c) ==
  /\ "recover" \in Operations
  /\ clicks[c].label = "idle" /\ screen = "service"
  /\ \E x \in known :
       /\ Unresolved(txs[x])
       /\ IF CancelSafe(txs[x]) THEN Suspend(c, "recovering", x, NoPieces)
          ELSE UNCHANGED clicks
  /\ Project("RECOVERY_PENDING", BlockSales(status, "recovery_pending"))
  /\ screen' = "notice"
  /\ UNCHANGED <<ledger, session, bills, money, goods, inventory, answered, loop,
                 timers, failures>>

(* The plan assessed before the event is carried out after it.             *)
RecoverAsCancelled(c) ==
  /\ clicks[c].label = "recovering"
  /\ LET x == clicks[c].tx
         unblocked == UnblockSales(status, "recovery_pending")
     IN  /\ Record(x, Cancel(txs[x]))
         /\ active' = IF active = x THEN NoTx ELSE active
         /\ ProjectIfLegal("IDLE", unblocked)
  /\ screen' = "notice"
  /\ EndClick(c)
  /\ UNCHANGED <<known, session, bills, money, goods, inventory, answered, loop,
                 timers, failures>>

(* HealthMonitor.poll_once, one condition at a time: the event of a bad    *)
(* one shows a notice, a good one takes its blocker away.                  *)
HealthPoll(reason) ==
  /\ reason \in Operations
  /\ \/ status' = BlockSales(status, reason) /\ screen' = "notice"
     \/ status' = UnblockSales(status, reason) /\ UNCHANGED screen
  /\ UNCHANGED <<fsm, ledger, session, bills, money, goods, inventory, answered, loop,
                 clicks, timers, failures>>

(* show_home and show_catalog; the second keeps the session.  They are     *)
(* also what a click on an outdated payment or pickup screen does when     *)
(* the session is gone.                                                    *)
LeaveNotice ==
  /\ \/ screen = "notice" /\ session' \in {NoTx, session}
     \/ screen \in {"payment", "pickup"} /\ session = NoTx /\ UNCHANGED session
  /\ screen' = "home"
  /\ UNCHANGED <<machine, ledger, bills, money, goods, inventory, answered, loop,
                 clicks, timers, failures>>

OperatorStep ==
  \/ EnterServiceMode \/ ExitServiceMode \/ LeaveNotice
  \/ \E c \in Clicks : RecoverClick(c)
  \/ \E reason \in HealthBlockers : HealthPoll(reason)
=============================================================================
