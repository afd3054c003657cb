---------------------------- MODULE DurableKiosk ----------------------------
(***************************************************************************)
(* The kiosk with its database (runtime/bootstrap.py and the SQLite        *)
(* repositories): what is written when, and what a restart brings back.    *)
(*                                                                         *)
(* Every save commits at once.  The orchestrators write the journal around *)
(* each command; the rows of the transactions and of the money inventory   *)
(* are written by a critical handler of every event                        *)
(* (RuntimePersistenceProjector), so the task that published the event     *)
(* goes on only when they are.  Between the event and the write other      *)
(* tasks run, and the write saves what is then in memory.  The slot's      *)
(* quantity is written once, when the catalog is seeded, and the status    *)
(* row is never read back.                                                 *)
(***************************************************************************)
EXTENDS VendingMachine, Journal

CONSTANTS
  MaxCrashes,       \* bound on the stops and crashes of the program
  MaxWriteFailures  \* bound on the database errors

(* The writes of the health conditions' events are not modelled.           *)

ASSUME DurableAssumption ==
  /\ Operations \cap HealthBlockers = {}
  /\ MaxCrashes \in Nat /\ MaxWriteFailures \in Nat

VARIABLES
  rows,            \* the saved transactions, by identity
  savedInventory,  \* the saved money inventory
  journal,         \* the journal's intents and outcomes
  unwritten,       \* published events the projector has not handled yet: who
                   \* waits for each (NoTx: nobody) and its transaction
  polling,         \* the pickup timeout loop runs
  restored,        \* history: the transactions the last restart brought back
  crashes, writeFailures

disk == <<rows, savedInventory, journal>>
durableVars ==
  <<kioskVars, disk, unwritten, polling, restored, crashes, writeFailures>>

DurableInit ==
  /\ KioskInit
  /\ rows = [x \in {} |-> NewTransaction]
  /\ savedInventory = inventory /\ journal = EmptyJournal
  /\ unwritten = <<>> /\ polling = TRUE /\ restored = {}
  /\ crashes = 0 /\ writeFailures = 0

(* -------------------------- Commands and events ------------------------ *)

(* The command a task is about to send or waits for, by its label.         *)
LoopCommand(label) ==
  CASE label = "disabling" -> "disable"
    [] label \in {"change_requested", "dispensing_change"} -> "change"
    [] label = "vending" -> "vend"
    [] label = "opening_window" -> "open"
    [] OTHER -> "none"
ClickCommand(label) ==
  CASE label = "enabling" -> "enable"
    [] label = "cancel_disabling" -> "cancel_disable"
    [] label = "refunding" -> "refund"
    [] label = "closing_window" -> "pickup_close"
    [] OTHER -> "none"
TimerCommand(label) == IF label = "closing_window" THEN "timeout_close" ELSE "none"

Command(t) ==
  CASE t = "loop" -> LoopCommand(Label(t))
    [] t \in Clicks -> ClickCommand(Label(t))
    [] t \in Transactions -> TimerCommand(Label(t))

Subject(t) ==
  CASE t = "loop" -> loop.tx
    [] t \in Clicks -> clicks[t].tx
    [] t \in Transactions -> t

MovedSubject(t) == IF Subject(t)' = NoTx THEN Subject(t) ELSE Subject(t)'

(* A command's intent and outcome go by its transaction and its step.      *)
Entry(t, step) == [tx |-> MovedSubject(t), step |-> step]

(* What a task's step writes to the journal.  The intent to vend waits for *)
(* one more event (Projected); a refund that is not sent is journalled too.*)
JournalAfter(t) ==
  LET before == Command(t)
      after == Command(t)'
      closed == IF before \notin {"none", after}
                   THEN RecordOutcome(journal, Entry(t, before)) ELSE journal
  IN  IF Label(t) = "refund_requested" /\ after = "none"
      THEN RecordOutcome(RecordIntent(journal, Entry(t, "refund")), Entry(t, "refund"))
      ELSE IF after \in {"none", "vend", before} THEN closed
      ELSE RecordIntent(closed, Entry(t, after))

Event(t, x) == <<[by |-> t, tx |-> x]>>

(* The event a task's step publishes.  vend_authorized itself is written   *)
(* together with the event its first handler publishes; before it, change  *)
(* that has been paid is announced.                                        *)
PublishedBy(t) ==
  LET from == Label(t)
      to == Label(t)'
      x == MovedSubject(t)
      awaited ==
        \/ to \in PublishLabels \ {"vend_authorized"}
        \/ to = "vend_authorized" /\ from = "dispensing_change"
        \/ t = "loop" /\ to = "vending"
        \/ t = "loop" /\ from = "opening_window" /\ to = "read"
      unawaited ==
        \/ from = "vend_authorized" /\ to = "dead"
        \/ from \in {"refund_requested", "refunding"} /\ to = "idle"
        \/ t \in Transactions /\ from = "closing_window"
        \/ from = "enabling" /\ txs' = txs
        \/ from = "recovering" /\ fsm' = "IDLE"
  IN  IF awaited THEN Event(t, x) ELSE IF unawaited THEN Event(NoTx, x) ELSE <<>>

BillWithoutSale ==
  loop.label = "read" /\ ~Moves("loop") /\ Len(validator'.events) < Len(validator.events)

(* The technician's events, and a bill nobody is credited with.            *)
PublishedByNobody ==
  IF BillWithoutSale THEN Event("loop", NoTx)
  ELSE IF screen # screen' /\ "service" \in {screen, screen'} THEN Event(NoTx, NoTx)
  ELSE <<>>

(* Slip: the projector is a best-effort handler.                           *)
MayMoveUnwritten(t) == TRUE

MayMove(t) == \A i \in DOMAIN unwritten : unwritten[i].by # t

(* ----------------------------- Running --------------------------------- *)

(* The event loop runs what is ready in the order in which it became so: a *)
(* click comes after the handlers of the events published before it, while *)
(* an answer of a device may already be waiting in front of them.  Events  *)
(* published between a pickup press and its turn are handled after it.     *)
Click ==
  \/ \E c \in Clicks : CheckoutClick(c) \/ CancelClick(c) \/ PickupPress(c)
  \/ OperatorStep
Arrival == \/ \E b \in BillValues : InsertBill(b)
           \/ JamBill

(* Every poll arms whatever waits for its customer, a restored sale too.   *)
PollFinds(x) == polling /\ DeadlinePasses(x)

KioskStep ==
  /\ \/ LoopStep
     \/ \E c \in Clicks : ClickStep(c)
     \/ \E x \in Transactions : PollFinds(x)
     \/ \E x \in Transactions : TimerStep(x)
     \/ Arrival
     \/ Click /\ unwritten = <<>>
  /\ Scheduled

(* A new transaction has an identity no saved one has.                     *)
Durably ==
  LET moved == {t \in Tasks : Moves(t)}
  IN  /\ (known' \ known) \cap DOMAIN rows = {}
      /\ \A t \in moved : MayMove(t)
      /\ BillWithoutSale => MayMove("loop")
      /\ \/ /\ moved = {}
            /\ unwritten' = unwritten \o PublishedByNobody
            /\ UNCHANGED journal
         \/ \E t \in moved :
              /\ unwritten' = unwritten \o PublishedBy(t) \o PublishedByNobody
              /\ journal' = JournalAfter(t)
      /\ UNCHANGED <<rows, savedInventory, polling, restored, crashes, writeFailures>>

DurableStep == KioskStep /\ Durably

(* _transactions_to_persist: the unresolved ones, and the event's or the   *)
(* active one.                                                             *)
Persisted(x) ==
  {y \in known : Unresolved(txs[y]) \/ y = IF x = NoTx THEN active ELSE x}
Saving(written) ==
  [x \in written \cup DOMAIN rows |-> IF x \in written THEN txs[x] ELSE rows[x]]

(* The motor's intent follows the write its handler has waited for.        *)
MotorIntent(event) ==
  IF event.by = "loop" /\ loop.label = "vending"
  THEN RecordIntent(journal, [tx |-> loop.tx, step |-> "vend"]) ELSE journal
SaveInventory == savedInventory' = inventory

(* Slip: the money inventory is written only when the program is stopped.  *)
ProjectedWithoutInventory ==
  /\ unwritten # <<>>
  /\ rows' = Saving(Persisted(Head(unwritten).tx))
  /\ journal' = MotorIntent(Head(unwritten))
  /\ unwritten' = Tail(unwritten)
  /\ UNCHANGED <<kioskVars, savedInventory, polling, restored, crashes, writeFailures>>

Projected ==
  /\ unwritten # <<>>
  /\ rows' = Saving(Persisted(Head(unwritten).tx))
  /\ journal' = MotorIntent(Head(unwritten))
  /\ SaveInventory
  /\ unwritten' = Tail(unwritten)
  /\ UNCHANGED <<kioskVars, polling, restored, crashes, writeFailures>>

(* A database error is raised in the task that waits for the event.  Only  *)
(* the payout has a handler for it; a click and the loops end.             *)
PublishRaises(t) ==
  \/ /\ t = "loop"
     /\ IF loop.label \in {"change_requested", "vend_authorized"}
        THEN PayoutRaises
        ELSE LoopDies /\ UNCHANGED machine
     /\ UNCHANGED <<clicks, timers, polling>>
  \/ /\ t \in Clicks
     /\ EndClick(t)
     /\ UNCHANGED <<machine, loop, timers, polling>>
  \/ /\ t \in Transactions
     /\ TimerGoesTo(t, "idle")
     /\ polling' = FALSE
     /\ UNCHANGED <<machine, loop, clicks>>

WriteFails ==
  /\ unwritten # <<>> /\ Head(unwritten).by # NoTx
  /\ writeFailures < MaxWriteFailures /\ writeFailures' = writeFailures + 1
  /\ PublishRaises(Head(unwritten).by)
  /\ Scheduled
  /\ unwritten' = Tail(unwritten)
  /\ UNCHANGED <<ledger, ui, bills, money, goods, inventory, answered, failures,
                 disk, restored, crashes>>

(* ------------------------------ Restarting ----------------------------- *)

(* What is on disk when the program ends: a write may have been cut after  *)
(* some rows, and an orderly stop writes everything.                       *)
DiskAtTheEnd ==
  LET begun == IF unwritten = <<>> THEN {} ELSE Persisted(Head(unwritten).tx)
  IN  {[rows |-> Saving(written), inventory |-> savedInventory] : written \in SUBSET begun}
        \cup {[rows |-> Saving(Persisted(NoTx)), inventory |-> inventory]}

Sent(t) == Command(t) # "none" /\ (Label(t) = "vending" => MayMove(t))

Paying(t) ==
  Label(t) \in {"dispensing_change", "refunding"}
PlanOf(t) == IF t = "loop" THEN loop.plan ELSE clicks[t].plan

(* Commands that were sent may have done all, some or nothing of their     *)
(* work.  A simulated dispenser starts from the restored accounting and a  *)
(* simulated window closed; a real one stays as it is.                     *)
CommandsCut(accounting) ==
  LET payers == {t \in {"loop"} \cup Clicks : Paying(t)}
      Sum(part, ts) == [d \in Denominations |-> MapThenSumSet(LAMBDA t : part[t][d], ts)]
      sent == {Command(t) : t \in {u \in Tasks : Sent(u)}}
  IN  /\ \E part \in [payers -> UNION {SubPlans(PlanOf(t)) : t \in payers}] :
           /\ \A t \in payers : part[t] \in SubPlans(PlanOf(t))
           /\ CanDispense(Sum(part, payers))
           /\ paidOut' = [x \in Transactions |->
                 PlusCounts(paidOut[x], Sum(part, {t \in payers : Subject(t) = x}))]
           /\ coins' \in {MinusCounts(coins, Sum(part, payers)), accounting}
      /\ \/ UNCHANGED vends
         \/ "vend" \in sent /\ MotorRuns
      /\ window' \in {window, "closed"} \cup (IF "open" \in sent THEN {"open"} ELSE {})

FreshStatus ==
  [machine_state |-> "SELF_TEST", service_mode |-> FALSE, exact_change_only |-> FALSE,
   sale_blockers |-> {}, allow_cash_sales |-> FALSE]

(* Slip: the state machine alone keeps the machine from selling.           *)
StartUnblocked(back) ==
  IF back = {} THEN Project("IDLE", FreshStatus) ELSE Project("RECOVERY_PENDING", FreshStatus)

StartBlocked(back) ==
  IF back = {}
  THEN Project("IDLE", FreshStatus)
  ELSE Project("RECOVERY_PENDING", BlockSales(FreshStatus, "recovery_pending"))

(* list_unresolved, and the transactions of the intents without outcome.   *)
ListUnresolved(saved) == {x \in DOMAIN saved : Unresolved(saved[x])}
Doubtful == {journal.intents[i].tx : i \in UnresolvedIntents(journal)}

(* restore_transactions: the first open one becomes the active one; they   *)
(* come in the order of their last change, which is not kept here.         *)
RestoreTransactions(back, saved) ==
  LET open == {x \in back : ~Terminal(saved[x])}
  IN  known' = back /\ active' \in IF open = {} THEN {NoTx} ELSE open

(* _restore_runtime_state and _complete_startup_flow.                      *)
Restored(saved) ==
  LET back == ListUnresolved(saved) \cup (Doubtful \cap DOMAIN saved)
      record(x) == Remembered(x, saved[x], journal)
  IN  /\ restored' = back /\ RestoreTransactions(back, saved)
      /\ txs' = [x \in Transactions |-> IF x \in back THEN record(x) ELSE NewTransaction]
      /\ rows' = [x \in DOMAIN saved |-> IF x \in back THEN record(x) ELSE saved[x]]
      /\ StartBlocked(back)

(* The stored inventory, its reserves included, becomes the machine's.     *)
LoadInventory(stored) == savedInventory' = stored /\ inventory' = stored

Restart ==
  /\ crashes < MaxCrashes /\ crashes' = crashes + 1
  /\ \E end \in DiskAtTheEnd :
       /\ Restored(end.rows)
       /\ LoadInventory(end.inventory)
       /\ CommandsCut(end.inventory.accounting)
  /\ stock' = InitialStock
  /\ validator' = [accepting |-> FALSE, events |-> <<>>]
  /\ answered' = [x \in Transactions |-> [disable |-> FALSE, refund |-> "none"]]
  /\ loop' = ReadingLoop /\ clicks' = [c \in Clicks |-> IdleClick]
  /\ timers' = [x \in Transactions |-> "idle"] /\ polling' = TRUE
  /\ screen' = "home" /\ session' = NoTx
  /\ ready' = <<>> /\ unwritten' = <<>>
  /\ UNCHANGED <<journal, stacked, failures, writeFailures>>

DurableNext ==
  \/ DurableStep
  \/ Projected
  \/ WriteFails
  \/ Restart

DurableSpec == DurableInit /\ [][DurableNext]_durableVars

(* As in VendingMachine, and the projector's handler is run; the program   *)
(* need not stop.                                                          *)
DurableFairness ==
  /\ WF_durableVars(LoopStep /\ Scheduled /\ Durably)
  /\ \A c \in Clicks : WF_durableVars(ClickStep(c) /\ Scheduled /\ Durably)
  /\ \A x \in Transactions :
       /\ WF_durableVars(PollFinds(x) /\ Scheduled /\ Durably)
       /\ WF_durableVars(TimerStep(x) /\ Scheduled /\ Durably)
  /\ WF_durableVars(Projected)

FairDurableSpec == DurableSpec /\ DurableFairness

(* ------------------------------ Properties ----------------------------- *)

(* A motor, a payout or a window command that was under way when the       *)
(* program ended leaves its transaction to an operator: it is restored as  *)
(* ambiguous, whatever the row said and whatever the command did, and the  *)
(* machine does not sell.                                                  *)
InterruptedCommandsAreReviewed ==
  [][\A t \in Tasks :
       crashes' # crashes /\ Sent(t) /\ Command(t) \in ManualReviewSteps =>
         /\ Subject(t) \in known' /\ txs'[Subject(t)].status = "ambiguous"
         /\ ~SalesAllowed(status')]_durableVars

(* "Critical transaction steps will be recorded in a durable transaction   *)
(* journal before or at intent boundaries": while a motor, payout or       *)
(* window command is under way, the journal holds its unresolved intent.   *)
CriticalStepsAreJournalled ==
  \A t \in Tasks :
    Sent(t) /\ Command(t) \in ManualReviewSteps =>
      \E i \in UnresolvedIntents(journal) :
        journal.intents[i] = [tx |-> Subject(t), step |-> Command(t)]

(* A sale that a restart has brought back blocks every other sale until it *)
(* is settled or an operator has cancelled it, however often service mode  *)
(* is entered and left; or until one that came back with it is cancelled,  *)
(* for one blocker stands for all of them.                                 *)
RestoredSaleBlocksSales ==
  \A x \in restored \cap known :
     ~Terminal(txs[x]) =>
       \/ ~SalesAllowed(status)
       \/ \E y \in restored \ {x} : txs[y].status = "cancelled"

(* The pieces the books miss are the pieces that were paid, or the machine *)
(* knows that it does not know.                                            *)
BooksBalance ==
  \/ inventory.drift_detected \/ ~SalesAllowed(status)
  \/ \A d \in Denominations :
       InitialChange[d] - inventory.accounting[d]
         = MapThenSumSet(LAMBDA x : paidOut[x][d], Transactions)

(* No product leaves the machine for a sale whose payment is not on disk.  *)
NothingLeavesUnrecorded ==
  \A x \in Transactions :
     vends[x] > 0 => x \in DOMAIN rows /\ rows[x].payment_status = "confirmed"

(* A sale that waits for its customer, restored or not, does not wait for  *)
(* ever: the poll loop arms a deadline for every waiting sale it finds.    *)
WaitingSaleTimesOut ==
  \A x \in Transactions :
     txs[x].status = "waiting_for_customer_pickup"
       ~> txs[x].status # "waiting_for_customer_pickup" \/ ~polling
=============================================================================
