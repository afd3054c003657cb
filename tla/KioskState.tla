----------------------------- MODULE KioskState -----------------------------
(***************************************************************************)
(* The state the kiosk's tasks share, and the few ways they change it.     *)
(*                                                                         *)
(* The program is one asyncio event loop: a task runs alone from one await *)
(* to the next, so every action of the component modules is one such       *)
(* segment and the label of a task names the await it is suspended at.     *)
(* The tasks are the validator loop, one task per UI click (kiosk_window   *)
(* starts each click with create_task and nothing makes it wait for an     *)
(* earlier one), and one pickup timeout per transaction.  A task waits for *)
(* a device, for the handlers of an event it publishes or, when a button   *)
(* has just been pressed, for its first turn; module EventLoop says in     *)
(* what order the latter two go on.  What the kiosk presenter does on an   *)
(* event is part of the action that publishes it.                          *)
(***************************************************************************)
EXTENDS SaleTransaction, MachineStatus, Sequences

CONSTANTS
  Transactions,   \* transaction identities a run may create
  NoTx,           \* no transaction
  Clicks,         \* UI click tasks that may be in progress at once
  InitialChange,  \* pieces in the change dispenser
  InitialStock,   \* quantity of the slot on sale
  MaxCash,        \* bound on the value of the bills customers insert
  MaxFailures,    \* bound on the device failures
  Operations      \* what the environment does, of: "checkout", "cancel", "pickup",
                  \* "timeout", "service", "recover", "late bill", and the health
                  \* conditions that come and go (HealthBlockers)

ASSUME KioskAssumption ==
  /\ NoTx \notin Transactions
  /\ InitialChange \in Counts
  /\ InitialStock \in Nat /\ MaxCash \in Nat /\ MaxFailures \in Nat

(* A validator event: a stacked bill, or the validator's own fault.        *)
FaultEvent == 0
ValidatorEvents == BillValues \cup {FaultEvent}

LoopLabels ==
  {"read", "device_event", "amount_updated", "disabling", "payment_confirmed",
   "change_requested", "dispensing_change", "vend_authorized", "vending",
   "product_dispensed", "opening_window", "dead"}
ClickLabels ==
  {"idle", "sensing", "purchase_started", "reserve_created", "enabling",
   "cancel_disabling", "refund_requested", "refunding", "refund_dispensed",
   "purchase_cancelled", "pressed", "closing_window", "completed", "recovering"}
TimerLabels == {"idle", "elapsed", "closing_window"}
Screens == {"home", "payment", "dispensing", "pickup", "service", "notice"}

VARIABLES
  fsm,        \* StateMachineEngine.current_state
  status,     \* MachineStatus
  txs,        \* TransactionCoordinator._transactions, and ...
  known,      \* ... the transactions created so far
  active,     \* ... _active_transaction_id
  inventory,  \* MoneyInventory
  stock,      \* Slot.quantity
  validator,  \* acceptance switch and event queue of the bill validator
  answered,   \* DeviceCommandRunner._idempotency_cache, for the keys that repeat
  loop,       \* the validator event loop
  clicks,     \* the UI click tasks
  timers,     \* the pickup timeouts being handled
  screen,     \* NavigationState
  session,    \* KioskSessionState.active_transaction_id
  window,     \* physical position of the delivery window
  coins,      \* pieces physically in the change dispenser
  paidOut,    \* pieces physically paid out for each transaction
  vends,      \* times the motor has run for each transaction
  stacked,    \* value of the bills the validator has kept
  failures    \* device failures so far

machine == <<fsm, status>>
ledger == <<txs, known, active>>
ui == <<screen, session>>
bills == <<validator, stacked>>
money == <<coins, paidOut>>
goods == <<stock, vends, window>>
vars == <<machine, ledger, ui, bills, money, goods, inventory, answered,
          loop, clicks, timers, failures>>

IdleClick == [label |-> "idle", tx |-> NoTx, plan |-> NoPieces]
ReadingLoop == [label |-> "read", tx |-> NoTx, event |-> FaultEvent, plan |-> NoPieces]
DeadLoop == [ReadingLoop EXCEPT !.label = "dead"]

RefundAnswers == {"none", "dispensed", "partial", "failed"}

TypeOK ==
  /\ fsm \in MachineStates /\ status \in StatusRecords
  /\ txs \in [Transactions -> TransactionRecords]
  /\ known \subseteq Transactions /\ active \in Transactions \cup {NoTx}
  /\ inventory \in InventoryRecords /\ stock \in Nat
  /\ validator \in [accepting : BOOLEAN, events : Seq(ValidatorEvents)]
  /\ answered \in [Transactions -> [disable : BOOLEAN, refund : RefundAnswers]]
  /\ loop \in [label : LoopLabels, tx : Transactions \cup {NoTx},
               event : ValidatorEvents, plan : Counts]
  /\ clicks \in [Clicks -> [label : ClickLabels, tx : Transactions \cup {NoTx},
                            plan : Counts]]
  /\ timers \in [Transactions -> TimerLabels]
  /\ screen \in Screens /\ session \in Transactions \cup {NoTx}
  /\ window \in {"open", "closed"}
  /\ coins \in Counts /\ paidOut \in [Transactions -> Counts]
  /\ vends \in [Transactions -> Nat] /\ stacked \in Nat /\ failures \in Nat

Init ==
  /\ fsm = "IDLE"
  /\ status = [machine_state |-> "IDLE", service_mode |-> FALSE,
               exact_change_only |-> FALSE, sale_blockers |-> {},
               allow_cash_sales |-> TRUE]
  /\ txs = [x \in Transactions |-> NewTransaction] /\ known = {} /\ active = NoTx
  /\ inventory = [accounting |-> InitialChange, reserved |-> NoPieces,
                  drift_detected |-> FALSE]
  /\ stock = InitialStock
  /\ validator = [accepting |-> FALSE, events |-> <<>>]
  /\ answered = [x \in Transactions |-> [disable |-> FALSE, refund |-> "none"]]
  /\ loop = ReadingLoop
  /\ clicks = [c \in Clicks |-> IdleClick]
  /\ timers = [x \in Transactions |-> "idle"]
  /\ screen = "home" /\ session = NoTx /\ window = "closed"
  /\ coins = InitialChange /\ paidOut = [x \in Transactions |-> NoPieces]
  /\ vends = [x \in Transactions |-> 0] /\ stacked = 0 /\ failures = 0

(* ---------------------------- Shared effects --------------------------- *)

(* transition or force_state, then set_machine_state.                      *)
Project(s, st) == fsm' = s /\ status' = SetMachineState(st, s)

(* The transition is taken when it is legal; otherwise the machine keeps   *)
(* its state (the caller raises, or has asked can_transition first).       *)
ProjectIfLegal(s, st) ==
  IF TransitionReturns(fsm, s) THEN Project(s, st) ELSE fsm' = fsm /\ status' = st

Record(x, record) == txs' = [txs EXCEPT ![x] = record]

Fails == failures < MaxFailures /\ failures' = failures + 1

PayOut(x, pieces) ==
  /\ coins' = MinusCounts(coins, pieces)
  /\ paidOut' = [paidOut EXCEPT ![x] = PlusCounts(@, pieces)]

CanDispense(plan) == \A d \in Denominations : plan[d] <= coins[d]

(* What a dispenser that fails half way may have paid.                     *)
PartsOf(plan) == {p \in SubPlans(plan) : CanDispense(p)}

Suspend(c, where, x, plan) ==
  clicks' = [clicks EXCEPT ![c] = [label |-> where, tx |-> x, plan |-> plan]]
EndClick(c) == clicks' = [clicks EXCEPT ![c] = IdleClick]
=============================================================================
