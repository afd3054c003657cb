----------------------------- MODULE KioskProofs ------------------------------
(***************************************************************************)
(* The status projection follows the state machine: whatever the tasks and *)
(* the operator do, in whatever order, a machine in an unsafe state starts *)
(* no sale.                                                                *)
(*                                                                         *)
(* UnsafeStateBlocksSales alone is not inductive: it says nothing of the   *)
(* machine state that the status remembers, and a step that changes        *)
(* another field recomputes the permission from that memory.               *)
(* StatusFollows adds that the memory is the state itself, except at       *)
(* COMPLETED, which confirm_pickup enters without projecting it, and that  *)
(* the permission is the one the projection would compute now.             *)
(*                                                                         *)
(* Every variable keeps its type.  Among other things: no counter of       *)
(* pieces, of products or of money goes below zero, the dispenser never    *)
(* pays a piece it does not hold, and a task that is in the middle of a    *)
(* purchase knows which transaction it works for.                          *)
(*                                                                         *)
(* The last of these is what makes the type invariant inductive: a step    *)
(* reads the record of its task's transaction, so it must have one.        *)
(***************************************************************************)
EXTENDS VendingMachine, SumProofs, SequenceTheorems, TLAPS

StatusFollows ==
  /\ fsm \in MachineStates /\ status \in StatusRecords
  /\ status.allow_cash_sales = Permitted(status)
  /\ fsm = "COMPLETED" \/ status.machine_state = fsm

(* The four ways a step treats the machine and its status.                 *)
Keeps == UNCHANGED machine
Projects == \E s \in MachineStates, st \in StatusRecords : Project(s, st)
Refreshes ==
  /\ fsm' = fsm
  /\ \E st \in StatusRecords : /\ st.machine_state = status.machine_state
                               /\ status' = RefreshPermissions(st)
CompletesUnprojected == fsm' = "COMPLETED" /\ status' = status
MachineStep == Keeps \/ Projects \/ Refreshes \/ CompletesUnprojected

-----------------------------------------------------------------------------

(* The operations of the status return a status whose permission is the    *)
(* one its other fields call for.                                          *)
LEMMA RefreshedStatus ==
  ASSUME NEW st \in StatusRecords
  PROVE  /\ RefreshPermissions(st) \in StatusRecords
         /\ RefreshPermissions(st).allow_cash_sales = Permitted(RefreshPermissions(st))
         /\ RefreshPermissions(st).machine_state = st.machine_state
  BY DEF StatusRecords, RefreshPermissions, Permitted

(* The service and blocker operations refresh a status that differs from   *)
(* the old one neither in its machine state nor in its type.               *)
LEMMA StatusOperations ==
  ASSUME NEW st \in StatusRecords, NEW reason \in Blockers, NEW enabled \in BOOLEAN
  PROVE  \A r \in {BlockSales(st, reason), UnblockSales(st, reason),
                   SetServiceMode(st, enabled), SetExactChangeOnly(st, enabled)} :
           /\ r \in StatusRecords
           /\ \E old \in StatusRecords : /\ old.machine_state = st.machine_state
                                         /\ r = RefreshPermissions(old)
  <1>1. \A old \in StatusRecords : RefreshPermissions(old) \in StatusRecords
    BY RefreshedStatus
  <1>2. [st EXCEPT !.sale_blockers = @ \cup {reason}] \in StatusRecords
    BY DEF StatusRecords
  <1>3. [st EXCEPT !.sale_blockers = @ \ {reason}] \in StatusRecords
    BY DEF StatusRecords
  <1>4. [st EXCEPT !.service_mode = enabled] \in StatusRecords
    BY DEF StatusRecords
  <1>5. [st EXCEPT !.exact_change_only = enabled] \in StatusRecords
    BY DEF StatusRecords
  <1>6. /\ [st EXCEPT !.sale_blockers = @ \cup {reason}].machine_state = st.machine_state
        /\ [st EXCEPT !.sale_blockers = @ \ {reason}].machine_state = st.machine_state
        /\ [st EXCEPT !.service_mode = enabled].machine_state = st.machine_state
        /\ [st EXCEPT !.exact_change_only = enabled].machine_state = st.machine_state
    BY DEF StatusRecords
  <1> QED
    BY <1>1, <1>2, <1>3, <1>4, <1>5, <1>6
    DEF BlockSales, UnblockSales, SetServiceMode, SetExactChangeOnly

(* Each of the four ways keeps the status following the machine.           *)
LEMMA MachineStepPreserves ==
  ASSUME StatusFollows, MachineStep
  PROVE  StatusFollows'
  <1>1. CASE Keeps
    BY <1>1 DEF StatusFollows, Keeps, machine, Permitted
  <1>2. CASE Projects
    <2>1. PICK s \in MachineStates, st \in StatusRecords : Project(s, st)
      BY <1>2 DEF Projects
    <2>2. [st EXCEPT !.machine_state = s] \in StatusRecords
      BY DEF StatusRecords
    <2>3. [st EXCEPT !.machine_state = s].machine_state = s
      BY DEF StatusRecords
    <2> QED
      BY <2>1, <2>2, <2>3, RefreshedStatus
      DEF StatusFollows, Project, SetMachineState, Permitted
  <1>3. CASE Refreshes
    BY <1>3, RefreshedStatus DEF StatusFollows, Refreshes, Permitted
  <1>4. CASE CompletesUnprojected
    <2>1. "COMPLETED" \in MachineStates
      BY DEF MachineStates
    <2> QED
      BY <1>4, <2>1 DEF StatusFollows, CompletesUnprojected, Permitted
  <1> QED
    BY <1>1, <1>2, <1>3, <1>4 DEF MachineStep

-----------------------------------------------------------------------------

(* The names of the states and of the blockers that the actions mention.   *)
LEMMA Names ==
  /\ {"IDLE", "ACCEPTING_CASH", "PAYMENT_ACCEPTED", "DISPENSING_CHANGE",
      "DISPENSING_PRODUCT", "OPENING_DELIVERY_WINDOW", "WAITING_FOR_CUSTOMER_PICKUP",
      "CLOSING_DELIVERY_WINDOW", "CANCELLED", "WAITING_FOR_PAYMENT", "SERVICE_MODE",
      "RECOVERY_PENDING", "FAULT"} \subseteq MachineStates
  /\ {"validator_fault", "delivery_window_fault", "recovery_pending"} \subseteq Blockers
  /\ HealthBlockers \subseteq Blockers
  BY DEF MachineStates, SelectionStates, FulfilmentStates, UnsafeStates, Blockers

(* Statuses that a step may project or keep: the present one, or a refresh *)
(* of one with the same machine state.                                     *)
Offspring(st) ==
  /\ st \in StatusRecords
  /\ \/ st = status
     \/ \E old \in StatusRecords : /\ old.machine_state = status.machine_state
                                   /\ st = RefreshPermissions(old)

(* A transition taken when it is legal is one of the four ways, whether or *)
(* not it is taken.                                                        *)
LEMMA LegalOrNot ==
  ASSUME StatusFollows, NEW s \in MachineStates, NEW st, Offspring(st),
         ProjectIfLegal(s, st)
  PROVE  MachineStep
  <1>1. CASE TransitionReturns(fsm, s)
    <2>1. Project(s, st)
      BY <1>1 DEF ProjectIfLegal
    <2>2. Projects
      BY <2>1 DEF Projects, Offspring
    <2> QED
      BY <2>2 DEF MachineStep
  <1>2. CASE ~TransitionReturns(fsm, s)
    <2>1. fsm' = fsm /\ status' = st
      BY <1>2 DEF ProjectIfLegal
    <2>2. Keeps \/ Refreshes
      BY <2>1 DEF Keeps, Refreshes, machine, Offspring
    <2> QED
      BY <2>2 DEF MachineStep
  <1> QED
    BY <1>1, <1>2

(* The validator loop: what it raises keeps the machine, or projects a     *)
(* state where operators are called.                                       *)
LEMMA LoopProceedsIsMachineStep ==
  ASSUME StatusFollows, NEW s \in MachineStates, NEW where, NEW shown,
         LoopProceeds(s, where, shown)
  PROVE  MachineStep
  <1>1. CASE TransitionReturns(fsm, s)
    <2>1. Project(s, status) /\ status \in StatusRecords
      BY <1>1 DEF LoopProceeds, StatusFollows
    <2> QED
      BY <2>1 DEF MachineStep, Projects
  <1>2. CASE ~TransitionReturns(fsm, s)
    BY <1>2 DEF LoopProceeds, MachineStep, Keeps
  <1> QED
    BY <1>1, <1>2

(* The present status, and the present status with a blocker added or      *)
(* removed or a mode set, may be projected or kept.                        *)
LEMMA StatusOffspring ==
  ASSUME StatusFollows
  PROVE  /\ Offspring(status)
         /\ \A reason \in Blockers : /\ Offspring(BlockSales(status, reason))
                                     /\ Offspring(UnblockSales(status, reason))
         /\ \A enabled \in BOOLEAN : /\ Offspring(SetServiceMode(status, enabled))
                                     /\ Offspring(SetExactChangeOnly(status, enabled))
  <1>1. status \in StatusRecords
    BY DEF StatusFollows
  <1>2. \A reason \in Blockers, enabled \in BOOLEAN :
          \A r \in {BlockSales(status, reason), UnblockSales(status, reason),
                    SetServiceMode(status, enabled), SetExactChangeOnly(status, enabled)} :
            /\ r \in StatusRecords
            /\ \E old \in StatusRecords : /\ old.machine_state = status.machine_state
                                          /\ r = RefreshPermissions(old)
    BY <1>1, StatusOperations
  <1>3. "recovery_pending" \in Blockers /\ TRUE \in BOOLEAN
    BY Names
  <1> QED
    BY <1>1, <1>2, <1>3 DEF Offspring

-----------------------------------------------------------------------------

(* What the coordinators do when a payout, a refund or a click fails is    *)
(* one of the four ways.                                                   *)
LEMMA PayoutRaisesIsMachineStep ==
  ASSUME StatusFollows, PayoutRaises
  PROVE  MachineStep
  BY Names, StatusOffspring, LegalOrNot DEF PayoutRaises

LEMMA ProjectedIsMachineStep ==
  ASSUME NEW s \in MachineStates, NEW st, Offspring(st), Project(s, st)
  PROVE  MachineStep
  BY DEF MachineStep, Projects, Offspring

(* Every step of the validator loop is one of the four ways.               *)
LEMMA LoopStepIsMachineStep ==
  ASSUME StatusFollows, LoopStep
  PROVE  MachineStep
  <1> USE StatusOffspring, Names
  <1>1. CASE ReadEvent \/ CreditBill \/ AwaitMoreCash \/ ProductVended
    BY <1>1 DEF ReadEvent, CreditBill, AwaitMoreCash, ProductVended, MachineStep, Keeps
  <1>2. CASE ValidatorFault
    BY <1>2, LegalOrNot DEF ValidatorFault
  <1>3. CASE CompletePayment \/ AcceptanceDisabled
    <2>1. AcceptPayment \/ UNCHANGED machine
      BY <1>3 DEF CompletePayment, AcceptanceDisabled
    <2> QED
      BY <2>1, LoopProceedsIsMachineStep DEF AcceptPayment, MachineStep, Keeps
  <1>4. CASE DisableFails
    BY <1>4, ProjectedIsMachineStep DEF DisableFails
  <1>5. CASE FinalizeReserve
    <2>1. \/ UNCHANGED machine
          \/ PayoutRaises
          \/ LoopProceeds("DISPENSING_CHANGE", "change_requested", "dispensing")
      BY <1>5 DEF FinalizeReserve
    <2> QED
      BY <2>1, PayoutRaisesIsMachineStep, LoopProceedsIsMachineStep DEF MachineStep, Keeps
  <1>6. CASE RequestChange \/ ChangeDispensed \/ ChangeNotDispensed \/ ChangeCommandRaises
    <2>1. PayoutRaises \/ UNCHANGED machine
      BY <1>6 DEF RequestChange, ChangeDispensed, ChangeNotDispensed, ChangeCommandRaises
    <2> QED
      BY <2>1, PayoutRaisesIsMachineStep DEF MachineStep, Keeps
  <1>7. CASE VendAuthorized
    <2>1. UNCHANGED machine \/ LoopProceeds("DISPENSING_PRODUCT", "vending", "dispensing")
      BY <1>7 DEF VendAuthorized
    <2> QED
      BY <2>1, LoopProceedsIsMachineStep DEF MachineStep, Keeps
  <1>8. CASE VendFails \/ OpenFails
    BY <1>8, LegalOrNot DEF VendFails, OpenFails
  <1>9. CASE OpenWindow
    BY <1>9, LoopProceedsIsMachineStep DEF OpenWindow
  <1>10. CASE WindowOpened
    <2>1. UNCHANGED machine \/ Project("WAITING_FOR_CUSTOMER_PICKUP", status)
      BY <1>10 DEF WindowOpened
    <2> QED
      BY <2>1, ProjectedIsMachineStep DEF MachineStep, Keeps
  <1> QED
    BY <1>1, <1>2, <1>3, <1>4, <1>5, <1>6, <1>7, <1>8, <1>9, <1>10
    DEF LoopStep, PaymentLoopStep, VendLoopStep

(* Every step of a click in progress is one of the four ways.              *)
LEMMA ClickStepIsMachineStep ==
  ASSUME StatusFollows, NEW c \in Clicks, ClickStep(c)
  PROVE  MachineStep
  <1> USE StatusOffspring, Names
  <1>1. CASE StartCashSession(c) \/ ReserveCreated(c)
    <2>1. \/ UNCHANGED machine
          \/ \E enabled \in BOOLEAN :
               /\ UNCHANGED fsm
               /\ status' = SetExactChangeOnly(status, enabled)
          \/ \E x, record, st : OpenSession(c, x, record, st) /\ Offspring(st)
      <3>1. CASE StartCashSession(c)
        <4> DEFINE unsupported == ~SaleSupported(inventory)
                   st == SetExactChangeOnly(status, unsupported)
        <4>1. unsupported \in BOOLEAN
          BY DEF SaleSupported
        <4>2. Offspring(st)
          BY <4>1
        <4>3. \/ UNCHANGED machine
              \/ UNCHANGED fsm /\ status' = st
              \/ OpenSession(c, clicks[c].tx, txs[clicks[c].tx], st)
          BY <3>1 DEF StartCashSession
        <4> QED
          BY <4>1, <4>2, <4>3
      <3>2. CASE ReserveCreated(c)
        BY <3>2 DEF ReserveCreated
      <3> QED
        BY <1>1, <3>1, <3>2
    <2>2. ASSUME NEW enabled \in BOOLEAN, UNCHANGED fsm,
                 status' = SetExactChangeOnly(status, enabled)
          PROVE  MachineStep
      <3>1. Offspring(status')
        BY <2>2
      <3> QED
        BY <2>2, <3>1 DEF Offspring, MachineStep, Keeps, Refreshes, machine
    <2>3. ASSUME NEW x, NEW record, NEW st, OpenSession(c, x, record, st), Offspring(st)
          PROVE  MachineStep
      <3>1. Project("ACCEPTING_CASH", st) \/ (fsm' = fsm /\ status' = st)
        BY <2>3 DEF OpenSession
      <3> QED
        BY <2>3, <3>1, ProjectedIsMachineStep
        DEF Offspring, MachineStep, Keeps, Refreshes, machine
    <2> QED
      BY <2>1, <2>2, <2>3 DEF MachineStep, Keeps
  <1>2. CASE EnableFails(c)
    BY <1>2, LegalOrNot DEF EnableFails
  <1>3. CASE CancelDisabled(c) \/ RefundPublished(c)
    <2>1. UNCHANGED machine \/ Project("CANCELLED", status)
      BY <1>3 DEF CancelDisabled, RefundPublished, FinishCancel
    <2> QED
      BY <2>1, ProjectedIsMachineStep DEF MachineStep, Keeps
  <1>4. CASE CancelDisableFails(c)
    BY <1>4, ProjectedIsMachineStep DEF CancelDisableFails
  <1>5. CASE RequestRefund(c) \/ RefundDispensed(c) \/ RefundNotDispensed(c)
               \/ RefundCommandRaises(c)
    <2>1. UNCHANGED machine \/ Project("RECOVERY_PENDING", status)
      BY <1>5 DEF RequestRefund, RefundDispensed, RefundNotDispensed,
                  RefundCommandRaises, RefundAnswered, RefundRaises
    <2> QED
      BY <2>1, ProjectedIsMachineStep DEF MachineStep, Keeps
  <1>6. CASE CancelPublished(c) \/ SaleCompleted(c)
    <2>1. UNCHANGED machine \/ Project("IDLE", status)
      BY <1>6 DEF CancelPublished, SaleCompleted
    <2> QED
      BY <2>1, ProjectedIsMachineStep DEF MachineStep, Keeps
  <1>7. CASE \E x \in Transactions : CreateTransaction(c, x)
    <2>1. UNCHANGED machine \/ Project("WAITING_FOR_PAYMENT", status)
      BY <1>7 DEF CreateTransaction
    <2> QED
      BY <2>1, ProjectedIsMachineStep DEF MachineStep, Keeps
  <1>8. CASE PickupWindowClosed(c)
    BY <1>8 DEF PickupWindowClosed, MachineStep, Keeps, CompletesUnprojected, machine
  <1>9. CASE RecoverAsCancelled(c)
    BY <1>9, LegalOrNot DEF RecoverAsCancelled
  <1>10. CASE AcceptanceEnabled(c) \/ SensorMismatch(c) \/ AlreadyActive(c) \/ PickupCloseFails(c)
    BY <1>10 DEF AcceptanceEnabled, SensorMismatch, AlreadyActive, PickupCloseFails,
                 MachineStep, Keeps
  <1>11. CASE PickupClick(c)
    <2>1. UNCHANGED machine \/ Project("CLOSING_DELIVERY_WINDOW", status)
      BY <1>11 DEF PickupClick
    <2> QED
      BY <2>1, ProjectedIsMachineStep DEF MachineStep, Keeps
  <1> QED
    BY <1>1, <1>2, <1>3, <1>4, <1>5, <1>6, <1>7, <1>8, <1>9, <1>10, <1>11
    DEF ClickStep, PaymentClickStep, VendClickStep

(* So is every step of a pickup timeout, of a customer and of the operator.*)
LEMMA OtherStepIsMachineStep ==
  ASSUME StatusFollows,
         (\E x \in Transactions : DeadlineStep(x)) \/ CustomerStep \/ OperatorStep
  PROVE  MachineStep
  <1> USE StatusOffspring, Names
  <1>1. ASSUME NEW x \in Transactions, DeadlineStep(x)
        PROVE  MachineStep
    <2>1. CASE DeadlinePasses(x)
      BY <2>1 DEF DeadlinePasses, MachineStep, Keeps
    <2>2. CASE CloseOnTimeout(x)
      <3>1. UNCHANGED machine \/ Project("CLOSING_DELIVERY_WINDOW", status)
        BY <2>2 DEF CloseOnTimeout
      <3> QED
        BY <3>1, ProjectedIsMachineStep DEF MachineStep, Keeps
    <2>3. CASE TimeoutWindowClosed(x)
      BY <2>3, ProjectedIsMachineStep DEF TimeoutWindowClosed
    <2>4. CASE TimeoutCloseFails(x)
      BY <2>4, ProjectedIsMachineStep DEF TimeoutCloseFails
    <2> QED
      BY <1>1, <2>1, <2>2, <2>3, <2>4 DEF DeadlineStep, TimerStep
  <1>2. CASE CustomerStep
    BY <1>2 DEF CustomerStep, InsertBill, JamBill, CheckoutClick, CancelClick, PickupPress,
                MachineStep, Keeps
  <1>3. CASE OperatorStep
    <2>1. CASE EnterServiceMode
      BY <2>1, ProjectedIsMachineStep DEF EnterServiceMode
    <2>2. CASE ExitServiceMode
      BY <2>2, ProjectedIsMachineStep DEF ExitServiceMode
    <2>3. CASE LeaveNotice
      BY <2>3 DEF LeaveNotice, MachineStep, Keeps
    <2>4. CASE \E c \in Clicks : RecoverClick(c)
      BY <2>4, ProjectedIsMachineStep DEF RecoverClick
    <2>5. ASSUME NEW reason \in HealthBlockers, HealthPoll(reason)
          PROVE  MachineStep
      <3>1. fsm' = fsm /\ Offspring(status')
        BY <2>5 DEF HealthPoll
      <3> QED
        BY <3>1 DEF Offspring, MachineStep, Keeps, Refreshes, machine
    <2> QED
      BY <1>3, <2>1, <2>2, <2>3, <2>4, <2>5 DEF OperatorStep
  <1> QED
    BY <1>1, <1>2, <1>3

-----------------------------------------------------------------------------

LEMMA StatusFollowsAtFirst == KioskInit => StatusFollows
  BY DEF KioskInit, Init, StatusFollows, StatusRecords, Permitted, MachineStates,
         UnsafeStates, Blockers

LEMMA StatusStillFollows ==
  ASSUME StatusFollows, Next
  PROVE  StatusFollows'
  <1>1. MachineStep
    BY LoopStepIsMachineStep, ClickStepIsMachineStep, OtherStepIsMachineStep DEF Next
  <1> QED
    BY <1>1, MachineStepPreserves

(* The status follows the machine in every reachable state, for any number *)
(* of transactions, clicks and failures.                                   *)
THEOREM StatusAlwaysFollows == Spec => []StatusFollows
  <1>1. StatusFollows /\ [Next]_kioskVars => StatusFollows'
    <2>1. StatusFollows /\ UNCHANGED kioskVars => StatusFollows'
      BY DEF kioskVars, vars, machine, StatusFollows, Permitted
    <2> QED
      BY <2>1, StatusStillFollows
  <1> QED
    BY <1>1, StatusFollowsAtFirst, PTL DEF Spec

(* A machine that is faulted, in service or waiting for recovery starts no *)
(* sale: the permission start_purchase and start_cash_session consult is   *)
(* withdrawn by whichever task took the machine there.                     *)
THEOREM UnsafeStatesBlockSales == Spec => []UnsafeStateBlocksSales
  <1>1. StatusFollows => UnsafeStateBlocksSales
    BY DEF StatusFollows, UnsafeStateBlocksSales, Permitted, SalesAllowed, UnsafeStates
  <1> QED
    BY <1>1, StatusAlwaysFollows, PTL

-----------------------------------------------------------------------------

LoopRecords ==
  [label : LoopLabels, tx : Transactions \cup {NoTx}, event : ValidatorEvents, plan : Counts]
ClickRecords == [label : ClickLabels, tx : Transactions \cup {NoTx}, plan : Counts]
Answers == [disable : BOOLEAN, refund : RefundAnswers]

(* The conjuncts of TypeOK, by what they speak of.                         *)
LedgerOK ==
  txs \in [Transactions -> TransactionRecords] /\ known \subseteq Transactions
    /\ active \in Transactions \cup {NoTx}
CashOK ==
  /\ inventory \in InventoryRecords /\ coins \in [Denominations -> Int]
  /\ paidOut \in [Transactions -> Counts]
GoodsOK == stock \in Nat /\ vends \in [Transactions -> Nat] /\ window \in {"open", "closed"}
DevicesOK ==
  /\ validator \in [accepting : BOOLEAN, events : Seq(ValidatorEvents)]
  /\ answered \in [Transactions -> Answers]
  /\ stacked \in Nat /\ failures \in Nat
UiOK == screen \in Screens /\ session \in Transactions \cup {NoTx}
LoopOK ==
  /\ loop \in LoopRecords
  /\ loop.label \notin {"read", "dead"} => loop.tx \in Transactions
ClicksOK ==
  /\ clicks \in [Clicks -> ClickRecords]
  /\ \A c \in Clicks : clicks[c].label \notin {"idle", "sensing"} => clicks[c].tx \in Transactions
TimersOK == timers \in [Transactions -> TimerLabels]
DataOK ==
  LedgerOK /\ CashOK /\ GoodsOK /\ DevicesOK /\ UiOK /\ LoopOK /\ ClicksOK /\ TimersOK

(* The dispenser's pieces are counted apart: what a start of the program   *)
(* makes of them is another matter.                                        *)
TypeInvariant == StatusFollows /\ DataOK /\ coins \in Counts

LEMMA TypeInvariantImpliesTypeOK == TypeInvariant => TypeOK
  BY DEF TypeInvariant, DataOK, StatusFollows, LedgerOK, CashOK, GoodsOK, DevicesOK, UiOK,
         LoopOK, ClicksOK, TimersOK, TypeOK, Answers, LoopRecords, ClickRecords

-----------------------------------------------------------------------------

(* Pieces added, taken away down to zero, or taken from a stock that holds *)
(* them are pieces again.                                                  *)
LEMMA CountsClosed ==
  ASSUME NEW a \in Counts, NEW b \in Counts
  PROVE  /\ PlusCounts(a, b) \in Counts
         /\ FloorMinus(a, b) \in Counts
         /\ (\A d \in Denominations : b[d] <= a[d]) => MinusCounts(a, b) \in Counts
  BY ChangeAssumption DEF Counts, PlusCounts, FloorMinus, MinusCounts

LEMMA NoPiecesCount == NoPieces \in Counts
  BY DEF NoPieces, Counts

(* A part of a stock of pieces gives every denomination a number of pieces *)
(* the stock holds.                                                        *)
LEMMA SubPlansTyped ==
  ASSUME NEW counts \in Counts, NEW p \in SubPlans(counts)
  PROVE  p \in Counts /\ \A d \in Denominations : p[d] <= counts[d]
  <1>1. \A d \in Denominations : 0 .. counts[d] \subseteq Nat
    BY DEF Counts
  <1>2. UNION {0 .. counts[d] : d \in Denominations} \subseteq Nat
    BY <1>1
  <1> QED
    BY <1>2 DEF SubPlans, Counts

(* What the inventory offers for a plan, and so every plan made on it.     *)
LEMMA PlansTyped ==
  ASSUME NEW inv \in InventoryRecords, NEW target, NEW p \in ChangePlans(inv, target)
  PROVE  p \in Counts
  <1>1. Available(inv) \in Counts
    BY DEF Available, FloorMinus, InventoryRecords, Counts
  <1>2. p \in SubPlans(Available(inv))
    BY DEF ChangePlans, ExactPlans
  <1> QED
    BY <1>1, <1>2, SubPlansTyped

(* The inventory operations keep the inventory well formed.                *)
LEMMA InventoryOperations ==
  ASSUME NEW inv \in InventoryRecords, NEW plan \in Counts
  PROVE  /\ Reserve(inv, plan) \in InventoryRecords
         /\ Release(inv, plan) \in InventoryRecords
         /\ Consume(inv, plan) \in InventoryRecords
         /\ MarkDrift(inv) \in InventoryRecords
  <1>1. inv.reserved \in Counts /\ inv.accounting \in [Denominations -> Int]
    BY DEF InventoryRecords
  <1>2. PlusCounts(inv.reserved, plan) \in Counts /\ FloorMinus(inv.reserved, plan) \in Counts
    BY <1>1, CountsClosed
  <1>3. MinusCounts(inv.accounting, plan) \in [Denominations -> Int]
    BY <1>1 DEF MinusCounts, Counts
  <1> QED
    BY <1>1, <1>2, <1>3 DEF InventoryRecords, Reserve, Release, Consume, MarkDrift

(* One field of a transaction replaced.                                    *)
WithStatus(x, v) == [x EXCEPT !.status = v]
WithAmount(x, v) == [x EXCEPT !.accepted_amount = v]
WithDue(x, v) == [x EXCEPT !.change_due = v]
WithPayment(x, v) == [x EXCEPT !.payment_status = v]
WithPayout(x, v) == [x EXCEPT !.payout_status = v]
WithDispense(x, v) == [x EXCEPT !.dispense_status = v]
WithDelivery(x, v) == [x EXCEPT !.delivery_status = v]
WithRecovery(x, v) == [x EXCEPT !.recovery_status = v]
WithSession(x, v) == [x EXCEPT !.session = v]
WithReserve(x, v) == [x EXCEPT !.change_reserve = v]

(* Replacing a field by a value of its type keeps a record well formed.    *)
LEMMA StatusReplaced ==
  ASSUME NEW x \in TransactionRecords, NEW v \in TransactionStatuses
  PROVE  WithStatus(x, v) \in TransactionRecords
  BY DEF WithStatus, TransactionRecords

LEMMA AmountReplaced ==
  ASSUME NEW x \in TransactionRecords, NEW v \in Nat
  PROVE  WithAmount(x, v) \in TransactionRecords
  BY DEF WithAmount, TransactionRecords

LEMMA DueReplaced ==
  ASSUME NEW x \in TransactionRecords, NEW v \in Nat
  PROVE  WithDue(x, v) \in TransactionRecords
  BY DEF WithDue, TransactionRecords

LEMMA PaymentReplaced ==
  ASSUME NEW x \in TransactionRecords, NEW v \in {"pending", "accepting", "confirmed", "cancelled"}
  PROVE  WithPayment(x, v) \in TransactionRecords
  BY DEF WithPayment, TransactionRecords

LEMMA PayoutReplaced ==
  ASSUME NEW x \in TransactionRecords, NEW v \in {"not_required", "reserved", "pending", "dispensed", "partial"}
  PROVE  WithPayout(x, v) \in TransactionRecords
  BY DEF WithPayout, TransactionRecords

LEMMA DispenseReplaced ==
  ASSUME NEW x \in TransactionRecords, NEW v \in {"not_started", "authorized", "dispensed"}
  PROVE  WithDispense(x, v) \in TransactionRecords
  BY DEF WithDispense, TransactionRecords

LEMMA DeliveryReplaced ==
  ASSUME NEW x \in TransactionRecords, NEW v \in {"not_started", "window_opened", "pickup_confirmed", "window_closed"}
  PROVE  WithDelivery(x, v) \in TransactionRecords
  BY DEF WithDelivery, TransactionRecords

LEMMA RecoveryReplaced ==
  ASSUME NEW x \in TransactionRecords, NEW v \in {"none", "pending", "manual_review"}
  PROVE  WithRecovery(x, v) \in TransactionRecords
  BY DEF WithRecovery, TransactionRecords

LEMMA SessionReplaced ==
  ASSUME NEW x \in TransactionRecords, NEW v \in {"none", "accepting", "cancelled", "completed"}
  PROVE  WithSession(x, v) \in TransactionRecords
  BY DEF WithSession, TransactionRecords

LEMMA ReserveReplaced ==
  ASSUME NEW x \in TransactionRecords, NEW v \in Counts
  PROVE  WithReserve(x, v) \in TransactionRecords
  BY DEF WithReserve, TransactionRecords

(* The methods of the transaction keep its record well formed; a payment   *)
(* may be confirmed once the price is covered.                             *)
LEMMA TransactionOperations ==
  ASSUME NEW x \in TransactionRecords, NEW plan \in Counts, NEW bill \in Nat
  PROVE  /\ x.change_reserve \in Counts
         /\ AttachPaymentSession(x) \in TransactionRecords
         /\ AttachChangeReserve(x, plan) \in TransactionRecords
         /\ DropReserve(x) \in TransactionRecords
         /\ RecordStackedCash(x, bill) \in TransactionRecords
         /\ Covered(x) => ConfirmPayment(x) \in TransactionRecords
         /\ MarkChangePending(x) \in TransactionRecords
         /\ MarkChangeDispensed(x) \in TransactionRecords
         /\ MarkChangePartial(x) \in TransactionRecords
         /\ AuthorizeVend(x) \in TransactionRecords
         /\ MarkProductDispensed(x) \in TransactionRecords
         /\ MarkWindowOpened(x) \in TransactionRecords
         /\ ConfirmPickup(x) \in TransactionRecords
         /\ MarkWindowClosed(x) \in TransactionRecords
         /\ MarkPickupTimedOutWindowClosed(x) \in TransactionRecords
         /\ Cancel(x) \in TransactionRecords
         /\ MarkFaulted(x) \in TransactionRecords
         /\ MarkAmbiguous(x) \in TransactionRecords
  <1> DEFINE TR == TransactionRecords
  <1>1. /\ x.accepted_amount \in Nat
        /\ x.payout_status \in {"not_required", "reserved", "pending", "dispensed", "partial"}
        /\ x.session \in {"none", "accepting", "cancelled", "completed"}
        /\ x.change_reserve \in Counts
    BY DEF TransactionRecords
  <1>2. /\ "accepting_cash" \in TransactionStatuses
        /\ "payment_accepted" \in TransactionStatuses
        /\ "dispensing_change" \in TransactionStatuses
        /\ "dispensing_product" \in TransactionStatuses
        /\ "opening_delivery_window" \in TransactionStatuses
        /\ "waiting_for_customer_pickup" \in TransactionStatuses
        /\ "closing_delivery_window" \in TransactionStatuses
        /\ "pickup_timed_out" \in TransactionStatuses
        /\ "completed" \in TransactionStatuses
        /\ "cancelled" \in TransactionStatuses
        /\ "faulted" \in TransactionStatuses
        /\ "ambiguous" \in TransactionStatuses
    BY DEF TransactionStatuses
  <1>3. AttachPaymentSession(x) =
          WithPayment(WithStatus(WithSession(x, "accepting"), "accepting_cash"), "accepting")
    BY DEF AttachPaymentSession, WithPayment, WithStatus, WithSession
  <1>4. AttachChangeReserve(x, plan) = WithPayout(WithReserve(x, plan), "reserved")
    BY DEF AttachChangeReserve, WithPayout, WithReserve
  <1>5. /\ DropReserve(x) = WithReserve(x, NoPieces)
        /\ RecordStackedCash(x, bill) = WithAmount(x, x.accepted_amount + bill)
        /\ MarkChangeDispensed(x) = WithPayout(x, "dispensed")
    BY DEF DropReserve, RecordStackedCash, MarkChangeDispensed, WithReserve, WithAmount, WithPayout
  <1>6. /\ MarkChangePending(x) = WithStatus(WithPayout(x, "pending"), "dispensing_change")
        /\ MarkChangePartial(x) =
             WithRecovery(WithStatus(WithPayout(x, "partial"), "ambiguous"), "pending")
    BY DEF MarkChangePending, MarkChangePartial, WithStatus, WithPayout, WithRecovery
  <1>7. /\ AuthorizeVend(x) = WithStatus(WithDispense(x, "authorized"), "dispensing_product")
        /\ MarkProductDispensed(x) =
             WithStatus(WithDispense(x, "dispensed"), "opening_delivery_window")
    BY DEF AuthorizeVend, MarkProductDispensed, WithStatus, WithDispense
  <1>8. /\ MarkWindowOpened(x) =
             WithStatus(WithDelivery(x, "window_opened"), "waiting_for_customer_pickup")
        /\ ConfirmPickup(x) =
             WithStatus(WithDelivery(x, "pickup_confirmed"), "closing_delivery_window")
        /\ MarkWindowClosed(x) = WithStatus(WithDelivery(x, "window_closed"), "completed")
    BY DEF MarkWindowOpened, ConfirmPickup, MarkWindowClosed, WithStatus, WithDelivery
  <1>9. MarkPickupTimedOutWindowClosed(x) =
          WithRecovery(WithStatus(WithDelivery(x, "window_closed"), "pickup_timed_out"),
                       "manual_review")
    BY DEF MarkPickupTimedOutWindowClosed, WithRecovery, WithStatus, WithDelivery
  <1>10. /\ MarkFaulted(x) = WithRecovery(WithStatus(x, "faulted"), "pending")
         /\ MarkAmbiguous(x) = WithRecovery(WithStatus(x, "ambiguous"), "manual_review")
    BY DEF MarkFaulted, MarkAmbiguous, WithRecovery, WithStatus
  <1>11. Cancel(x) =
           WithSession(WithPayment(WithStatus(x, "cancelled"), "cancelled"),
                       IF x.session = "none" THEN "none" ELSE "cancelled")
    BY DEF Cancel, WithSession, WithPayment, WithStatus
  <1>12. ASSUME Covered(x)
         PROVE  ConfirmPayment(x) \in TR
    <2> DEFINE overpaid == x.accepted_amount - Price
               left == IF x.session = "none" THEN "none" ELSE "completed"
               payout == IF overpaid = 0 THEN "not_required" ELSE x.payout_status
               paid == WithStatus(WithPayment(x, "confirmed"), "payment_accepted")
    <2>1. overpaid \in Nat
      BY <1>1, <1>12, ChangeAssumption DEF Covered
    <2>2. ConfirmPayment(x) = WithPayout(WithDue(WithSession(paid, left), overpaid), payout)
      BY DEF ConfirmPayment, WithPayout, WithDue, WithSession, WithStatus, WithPayment
    <2>3. paid \in TR
      BY <1>2, PaymentReplaced, StatusReplaced
    <2>4. WithSession(paid, left) \in TR
      BY <1>1, <2>3, SessionReplaced
    <2> HIDE DEF overpaid, paid, left
    <2>5. WithDue(WithSession(paid, left), overpaid) \in TR
      BY <2>1, <2>4, DueReplaced
    <2> QED
      BY <1>1, <2>2, <2>5, PayoutReplaced
  <1>13. AttachPaymentSession(x) \in TR
    BY <1>2, <1>3, SessionReplaced, StatusReplaced, PaymentReplaced
  <1>14. AttachChangeReserve(x, plan) \in TR
    BY <1>4, ReserveReplaced, PayoutReplaced
  <1>15. /\ DropReserve(x) \in TR
         /\ RecordStackedCash(x, bill) \in TR
         /\ MarkChangeDispensed(x) \in TR
    BY <1>1, <1>5, NoPiecesCount, ReserveReplaced, AmountReplaced, PayoutReplaced
  <1>16. MarkChangePending(x) \in TR
    BY <1>2, <1>6, PayoutReplaced, StatusReplaced
  <1>17. MarkChangePartial(x) \in TR
    BY <1>2, <1>6, PayoutReplaced, StatusReplaced, RecoveryReplaced
  <1>18. AuthorizeVend(x) \in TR
    BY <1>2, <1>7, DispenseReplaced, StatusReplaced
  <1>19. MarkProductDispensed(x) \in TR
    BY <1>2, <1>7, DispenseReplaced, StatusReplaced
  <1>20. MarkWindowOpened(x) \in TR
    BY <1>2, <1>8, DeliveryReplaced, StatusReplaced
  <1>21. ConfirmPickup(x) \in TR
    BY <1>2, <1>8, DeliveryReplaced, StatusReplaced
  <1>22. MarkWindowClosed(x) \in TR
    BY <1>2, <1>8, DeliveryReplaced, StatusReplaced
  <1>23. MarkPickupTimedOutWindowClosed(x) \in TR
    BY <1>2, <1>9, DeliveryReplaced, StatusReplaced, RecoveryReplaced
  <1>24. Cancel(x) \in TR
    BY <1>1, <1>2, <1>11, StatusReplaced, PaymentReplaced, SessionReplaced
  <1>25. MarkFaulted(x) \in TR
    BY <1>2, <1>10, StatusReplaced, RecoveryReplaced
  <1>26. MarkAmbiguous(x) \in TR
    BY <1>2, <1>10, StatusReplaced, RecoveryReplaced
  <1> QED
    BY <1>1, <1>12, <1>13, <1>14, <1>15, <1>16, <1>17, <1>18, <1>19, <1>20, <1>21, <1>22,
       <1>23, <1>24, <1>25, <1>26

LEMMA NewTransactionTyped == NewTransaction \in TransactionRecords
  BY NoPiecesCount DEF NewTransaction, TransactionRecords, TransactionStatuses

-----------------------------------------------------------------------------

(* What the shared effects leave well typed.                               *)
LEMMA RecordTyped ==
  ASSUME LedgerOK, NEW x, NEW r \in TransactionRecords, Record(x, r)
  PROVE  txs' \in [Transactions -> TransactionRecords]
  BY DEF LedgerOK, Record

LEMMA PayOutTyped ==
  ASSUME CashOK, NEW x, NEW pieces \in Counts, PayOut(x, pieces)
  PROVE  coins' \in [Denominations -> Int] /\ paidOut' \in [Transactions -> Counts]
  <1>1. coins' \in [Denominations -> Int]
    BY DEF CashOK, PayOut, MinusCounts, Counts
  <1>2. ASSUME NEW y \in Transactions
        PROVE  paidOut'[y] \in Counts
    BY CountsClosed DEF CashOK, PayOut
  <1>3. paidOut' = [y \in Transactions |-> paidOut'[y]]
    BY DEF CashOK, PayOut
  <1> QED
    BY <1>1, <1>2, <1>3

(* Part of what was asked for is pieces the dispenser holds.               *)
LEMMA PartsTyped ==
  ASSUME CashOK, NEW plan \in Counts, NEW part \in PartsOf(plan)
  PROVE  part \in Counts /\ \A d \in Denominations : part[d] <= coins[d]
  <1>1. part \in SubPlans(plan) /\ CanDispense(part)
    BY DEF PartsOf
  <1> QED
    BY <1>1, SubPlansTyped DEF CanDispense

(* A device command that fails, or is answered, may have switched the bill *)
(* validator on or off.                                                    *)
LEMMA FailureTyped ==
  ASSUME DevicesOK
  PROVE  /\ Fails => failures' \in Nat
         /\ \A on \in BOOLEAN :
              [validator EXCEPT !.accepting = on] \in
                [accepting : BOOLEAN, events : Seq(ValidatorEvents)]
  BY DEF DevicesOK, Fails

LEMMA LoopMoves ==
  ASSUME LoopOK, loop.tx \in Transactions, NEW where \in LoopLabels, LoopGoesTo(where)
  PROVE  LoopOK'
  BY DEF LoopOK, LoopRecords, LoopGoesTo

LEMMA LoopRests ==
  ASSUME loop' = ReadingLoop \/ LoopDies
  PROVE  LoopOK'
  BY NoPiecesCount
  DEF LoopOK, LoopRecords, LoopDies, DeadLoop, ReadingLoop, LoopLabels, ValidatorEvents

LEMMA LoopProceedsTyped ==
  ASSUME LoopOK, UiOK, loop.tx \in Transactions,
         NEW s, NEW where \in LoopLabels, NEW shown \in Screens, LoopProceeds(s, where, shown)
  PROVE  LoopOK' /\ screen' \in Screens
  BY LoopMoves, LoopRests DEF LoopProceeds, UiOK

LEMMA ClickEnds ==
  ASSUME ClicksOK, NEW c \in Clicks, EndClick(c)
  PROVE  ClicksOK'
  BY NoPiecesCount DEF ClicksOK, EndClick, IdleClick, ClickRecords, ClickLabels

LEMMA ClickWaits ==
  ASSUME ClicksOK, NEW c \in Clicks, NEW where \in ClickLabels, NEW x, NEW plan \in Counts,
         Suspend(c, where, x, plan),
         x \in Transactions \/ (where = "sensing" /\ x = NoTx)
  PROVE  ClicksOK'
  BY DEF ClicksOK, Suspend, ClickRecords

-----------------------------------------------------------------------------

(* The steps of the payment part of the validator loop.                    *)
LEMMA PaymentLoopStepTyped ==
  ASSUME DataOK, PaymentLoopStep
  PROVE  DataOK'
  <1> DEFINE x == txs[loop.tx]
             inLoop == loop.tx \in Transactions
  <1> USE DEF DataOK
  <1>a. /\ loop.plan \in Counts
        /\ loop.label \notin {"read", "dead"} => inLoop
        /\ inLoop => x \in TransactionRecords /\ x.change_reserve \in Counts
    BY DEF LoopOK, LoopRecords, LedgerOK, TransactionRecords
  <1>b. /\ {"device_event", "amount_updated", "disabling", "payment_confirmed",
            "change_requested", "dispensing_change", "vend_authorized"} \subseteq LoopLabels
        /\ {"payment", "dispensing"} \subseteq Screens
    BY DEF LoopLabels, Screens
  <1>1. CASE ReadEvent
    <2>1. /\ Head(validator.events) \in ValidatorEvents
          /\ Tail(validator.events) \in Seq(ValidatorEvents)
      BY <1>1 DEF ReadEvent, DevicesOK
    <2>2. LoopOK'
      BY <1>1, <1>b, <2>1 DEF ReadEvent, LoopOK, LoopRecords, LedgerOK
    <2>3. DevicesOK'
      BY <1>1, <2>1 DEF ReadEvent, DevicesOK
    <2> QED
      BY <1>1, <2>2, <2>3
      DEF ReadEvent, LedgerOK, CashOK, GoodsOK, UiOK, ClicksOK, TimersOK,
          ledger, ui, money, goods
  <1>2. CASE ValidatorFault
    <2>1. MarkFaulted(x) \in TransactionRecords
      BY <1>2, <1>a, TransactionOperations, NoPiecesCount DEF ValidatorFault
    <2>2. LedgerOK'
      BY <1>2, <2>1, RecordTyped DEF ValidatorFault, LedgerOK
    <2>3. LoopOK'
      BY <1>2, LoopRests DEF ValidatorFault
    <2> QED
      BY <1>2, <2>2, <2>3
      DEF ValidatorFault, CashOK, GoodsOK, DevicesOK, UiOK, ClicksOK, TimersOK,
          bills, ui, money, goods
  <1>3. CASE CreditBill
    <2>1. inLoop /\ loop.event \in Nat
      BY <1>3, <1>a, ChangeAssumption DEF CreditBill
    <2>2. RecordStackedCash(x, loop.event) \in TransactionRecords
      BY <1>a, <2>1, TransactionOperations, NoPiecesCount
    <2>3. LedgerOK'
      BY <1>3, <2>2, RecordTyped DEF CreditBill, LedgerOK
    <2>4. LoopOK'
      BY <1>3, <1>b, <2>1, LoopRests, LoopMoves DEF CreditBill
    <2> QED
      BY <1>3, <1>b, <2>3, <2>4
      DEF CreditBill, CashOK, GoodsOK, DevicesOK, UiOK, ClicksOK, TimersOK, bills, money, goods
  <1>4. CASE AwaitMoreCash
    <2>1. LoopOK'
      BY <1>4, LoopRests DEF AwaitMoreCash
    <2> QED
      BY <1>4, <2>1
      DEF AwaitMoreCash, LedgerOK, CashOK, GoodsOK, DevicesOK, UiOK, ClicksOK, TimersOK,
          ledger, ui, bills, money, goods
  <1>5. CASE CompletePayment
    <2>1. inLoop /\ Covered(x)
      BY <1>5, <1>a DEF CompletePayment
    <2>2. ConfirmPayment(x) \in TransactionRecords
      BY <1>a, <2>1, TransactionOperations, NoPiecesCount
    <2>3. LedgerOK'
      BY <1>5, <2>2, RecordTyped DEF CompletePayment, LedgerOK
    <2>4. LoopOK' /\ screen' \in Screens
      BY <1>5, <1>b, <2>1, LoopMoves, LoopProceedsTyped DEF CompletePayment, AcceptPayment, UiOK
    <2> QED
      BY <1>5, <2>3, <2>4
      DEF CompletePayment, CashOK, GoodsOK, DevicesOK, UiOK, ClicksOK, TimersOK,
          bills, money, goods
  <1>6. CASE AcceptanceDisabled
    <2>1. inLoop
      BY <1>6, <1>a DEF AcceptanceDisabled
    <2>2. LoopOK' /\ screen' \in Screens
      BY <1>6, <1>b, <2>1, LoopProceedsTyped DEF AcceptanceDisabled, AcceptPayment
    <2>3. validator' \in [accepting : BOOLEAN, events : Seq(ValidatorEvents)]
      BY <1>6 DEF AcceptanceDisabled, DevicesOK
    <2>4. answered' \in [Transactions -> Answers]
      BY <1>6 DEF AcceptanceDisabled, DevicesOK, Answers
    <2> QED
      BY <1>6, <2>2, <2>3, <2>4
      DEF AcceptanceDisabled, LedgerOK, CashOK, GoodsOK, DevicesOK, UiOK, ClicksOK, TimersOK,
          ledger, money, goods
  <1>7. CASE DisableFails
    <2>1. MarkAmbiguous(x) \in TransactionRecords
      BY <1>7, <1>a, TransactionOperations, NoPiecesCount DEF DisableFails
    <2>2. LedgerOK'
      BY <1>7, <2>1, RecordTyped DEF DisableFails, LedgerOK
    <2>3. LoopOK'
      BY <1>7, LoopRests DEF DisableFails
    <2>4. DevicesOK'
      <3>1. failures' \in Nat
        BY <1>7, FailureTyped DEF DisableFails
      <3>2. validator' \in [accepting : BOOLEAN, events : Seq(ValidatorEvents)]
        BY <1>7, FailureTyped DEF DisableFails, DevicesOK
      <3> QED
        BY <1>7, <3>1, <3>2 DEF DisableFails, DevicesOK
    <2>5. UNCHANGED <<ui, money, goods, inventory, clicks, timers>>
      BY <1>7 DEF DisableFails
    <2> QED
      BY <2>2, <2>3, <2>4, <2>5
      DEF CashOK, GoodsOK, UiOK, ClicksOK, TimersOK, ui, money, goods
  <1>8. CASE FinalizeReserve
    <2> DEFINE freed == Release(inventory, x.change_reserve)
    <2>1. inLoop
      BY <1>8, <1>a DEF FinalizeReserve
    <2>2. freed \in InventoryRecords /\ DropReserve(x) \in TransactionRecords
      BY <1>a, <2>1, InventoryOperations, TransactionOperations DEF CashOK
    <2>3. ASSUME NEW plan \in ChangePlans(freed, x.change_due)
          PROVE  /\ Reserve(freed, plan) \in InventoryRecords
                 /\ MarkChangePending(AttachChangeReserve(x, plan)) \in TransactionRecords
      <3>1. plan \in Counts
        BY <2>2, PlansTyped
      <3>2. AttachChangeReserve(x, plan) \in TransactionRecords
        BY <1>a, <2>1, <3>1, TransactionOperations
      <3> QED
        BY <2>2, <3>1, <3>2, InventoryOperations, TransactionOperations
    <2> HIDE DEF freed
    <2>4. inventory' \in InventoryRecords /\ txs' \in [Transactions -> TransactionRecords]
      BY <1>8, <2>2, <2>3, RecordTyped DEF FinalizeReserve, freed
    <2>5. LoopOK' /\ screen' \in Screens
      <3>1. \/ LoopGoesTo("vend_authorized") /\ UNCHANGED screen
            \/ LoopDies /\ UNCHANGED screen
            \/ LoopProceeds("DISPENSING_CHANGE", "change_requested", "dispensing")
        BY <1>8 DEF FinalizeReserve, PayoutRaises
      <3> QED
        BY <1>b, <2>1, <3>1, LoopMoves, LoopRests, LoopProceedsTyped DEF UiOK
    <2> QED
      BY <1>8, <2>4, <2>5
      DEF FinalizeReserve, LedgerOK, CashOK, GoodsOK, DevicesOK, UiOK, ClicksOK, TimersOK,
          bills, money, goods
  <1>9. CASE RequestChange
    <2>1. inLoop
      BY <1>9, <1>a DEF RequestChange
    <2>2. LoopOK'
      <3>1. CASE PayoutRaises
        BY <3>1, LoopRests DEF PayoutRaises
      <3>2. CASE loop' = [loop EXCEPT !.label = "dispensing_change", !.plan = x.change_reserve]
        BY <1>a, <1>b, <2>1, <3>2 DEF LoopOK, LoopRecords
      <3> QED
        BY <1>9, <3>1, <3>2 DEF RequestChange
    <2> QED
      BY <1>9, <2>2
      DEF RequestChange, LedgerOK, CashOK, GoodsOK, DevicesOK, UiOK, ClicksOK, TimersOK,
          ledger, ui, bills, money, goods
  <1>10. CASE ChangeDispensed
    <2>1. inLoop
      BY <1>10, <1>a DEF ChangeDispensed
    <2>2. /\ Consume(inventory, x.change_reserve) \in InventoryRecords
          /\ MarkChangeDispensed(x) \in TransactionRecords
      BY <1>a, <2>1, InventoryOperations, TransactionOperations DEF CashOK
    <2>3. inventory' \in InventoryRecords /\ txs' \in [Transactions -> TransactionRecords]
      BY <1>10, <2>2, RecordTyped DEF ChangeDispensed, CashOK, LedgerOK
    <2>4. coins' \in [Denominations -> Int] /\ paidOut' \in [Transactions -> Counts]
      BY <1>10, <1>a, PayOutTyped DEF ChangeDispensed, CanDispense
    <2>5. LoopOK' /\ screen' \in Screens
      BY <1>10, <1>b, <2>1, LoopMoves, LoopRests DEF ChangeDispensed, PayoutRaises, UiOK
    <2> QED
      BY <1>10, <2>3, <2>4, <2>5
      DEF ChangeDispensed, LedgerOK, CashOK, GoodsOK, DevicesOK, UiOK, ClicksOK, TimersOK,
          bills, goods
  <1>11. CASE ChangeNotDispensed \/ ChangeCommandRaises
    <2>1. inLoop
      BY <1>11, <1>a DEF ChangeNotDispensed, ChangeCommandRaises
    <2>2. /\ MarkDrift(inventory) \in InventoryRecords
          /\ MarkChangePartial(x) \in TransactionRecords
          /\ MarkAmbiguous(x) \in TransactionRecords
      BY <1>a, <2>1, InventoryOperations, TransactionOperations, NoPiecesCount DEF CashOK
    <2>3. inventory' \in InventoryRecords /\ txs' \in [Transactions -> TransactionRecords]
      BY <1>11, <2>2, RecordTyped
      DEF ChangeNotDispensed, ChangeCommandRaises, CashOK, LedgerOK, ledger
    <2>4. coins' \in [Denominations -> Int] /\ paidOut' \in [Transactions -> Counts]
      <3>1. (\E part \in PartsOf(loop.plan) : PayOut(loop.tx, part)) \/ UNCHANGED money
        BY <1>11 DEF ChangeNotDispensed, ChangeCommandRaises
      <3> QED
        BY <1>a, <3>1, PartsTyped, PayOutTyped DEF money, CashOK
    <2>5. LoopOK'
      BY <1>11, LoopRests DEF ChangeNotDispensed, ChangeCommandRaises, PayoutRaises
    <2>6. DevicesOK'
      BY <1>11 DEF ChangeNotDispensed, ChangeCommandRaises, DevicesOK, Fails, bills
    <2> QED
      BY <1>11, <2>3, <2>4, <2>5, <2>6
      DEF ChangeNotDispensed, ChangeCommandRaises, LedgerOK, CashOK, GoodsOK, UiOK,
          ClicksOK, TimersOK, ledger, ui, goods
  <1> QED
    BY <1>1, <1>2, <1>3, <1>4, <1>5, <1>6, <1>7, <1>8, <1>9, <1>10, <1>11 DEF PaymentLoopStep

(* The steps of the vending part of the validator loop.                    *)
LEMMA VendLoopStepTyped ==
  ASSUME DataOK, VendLoopStep
  PROVE  DataOK'
  <1> DEFINE x == txs[loop.tx]
             inLoop == loop.tx \in Transactions
  <1> USE DEF DataOK
  <1>a. inLoop
    BY DEF VendLoopStep, VendAuthorized, ProductVended, VendFails, OpenWindow, WindowOpened,
           OpenFails, LoopOK
  <1>b. x \in TransactionRecords
    BY <1>a DEF LedgerOK
  <1>c. /\ {"vending", "product_dispensed", "opening_window"} \subseteq LoopLabels
        /\ {"dispensing", "pickup"} \subseteq Screens
    BY DEF LoopLabels, Screens
  <1>d. /\ AuthorizeVend(x) \in TransactionRecords
        /\ MarkProductDispensed(x) \in TransactionRecords
        /\ MarkWindowOpened(x) \in TransactionRecords
        /\ MarkFaulted(x) \in TransactionRecords
    BY <1>b, TransactionOperations, NoPiecesCount
  <1>e. ASSUME MotorRuns
        PROVE  vends' \in [Transactions -> Nat]
    BY <1>a, <1>e DEF MotorRuns, GoodsOK
  <1>1. CASE VendAuthorized
    <2>1. LoopOK' /\ screen' \in Screens
      BY <1>1, <1>a, <1>c, LoopProceedsTyped, LoopRests DEF VendAuthorized, UiOK
    <2>2. LedgerOK'
      BY <1>1, <1>d, RecordTyped DEF VendAuthorized, LedgerOK
    <2> QED
      BY <1>1, <2>1, <2>2
      DEF VendAuthorized, CashOK, GoodsOK, DevicesOK, UiOK, ClicksOK, TimersOK,
          bills, money, goods
  <1>2. CASE ProductVended
    <2>1. LoopOK' /\ screen' \in Screens
      BY <1>2, <1>a, <1>c, LoopMoves, LoopRests DEF ProductVended, UiOK
    <2>2. LedgerOK'
      BY <1>2, <1>d, RecordTyped DEF ProductVended, LedgerOK
    <2>3. stock' \in Nat
      BY <1>2 DEF ProductVended, GoodsOK
    <2>4. vends' \in [Transactions -> Nat]
      BY <1>2, <1>e DEF ProductVended
    <2> QED
      BY <1>2, <2>1, <2>2, <2>3, <2>4
      DEF ProductVended, CashOK, GoodsOK, DevicesOK, UiOK, ClicksOK, TimersOK, bills, money
  <1>3. CASE VendFails
    <2>1. LoopOK'
      BY <1>3, LoopRests DEF VendFails
    <2>2. LedgerOK'
      BY <1>3, <1>d, RecordTyped DEF VendFails, LedgerOK
    <2>3. vends' \in [Transactions -> Nat]
      BY <1>3, <1>e DEF VendFails, GoodsOK
    <2>4. failures' \in Nat
      BY <1>3, FailureTyped DEF VendFails
    <2>5. UNCHANGED <<ui, bills, money, stock, window, inventory, answered, clicks, timers>>
      BY <1>3 DEF VendFails
    <2> QED
      BY <2>1, <2>2, <2>3, <2>4, <2>5
      DEF CashOK, GoodsOK, DevicesOK, UiOK, ClicksOK, TimersOK, ui, bills, money
  <1>4. CASE OpenWindow
    <2>1. screen \in Screens
      BY DEF UiOK
    <2>2. LoopOK' /\ screen' \in Screens
      BY <1>4, <1>a, <1>c, <2>1, LoopProceedsTyped DEF OpenWindow
    <2> QED
      BY <1>4, <2>2
      DEF OpenWindow, LedgerOK, CashOK, GoodsOK, DevicesOK, UiOK, ClicksOK, TimersOK,
          ledger, bills, money, goods
  <1>5. CASE WindowOpened
    <2>1. LoopOK' /\ screen' \in Screens
      BY <1>5, <1>c, LoopRests DEF WindowOpened, UiOK
    <2>2. LedgerOK'
      BY <1>5, <1>d, RecordTyped DEF WindowOpened, LedgerOK
    <2> QED
      BY <1>5, <2>1, <2>2
      DEF WindowOpened, CashOK, GoodsOK, DevicesOK, UiOK, ClicksOK, TimersOK, bills, money
  <1>6. CASE OpenFails
    <2>1. LoopOK'
      BY <1>6, LoopRests DEF OpenFails
    <2>2. LedgerOK'
      BY <1>6, <1>d, RecordTyped DEF OpenFails, LedgerOK
    <2>3. failures' \in Nat
      BY <1>6, FailureTyped DEF OpenFails
    <2> QED
      BY <1>6, <2>1, <2>2, <2>3
      DEF OpenFails, CashOK, GoodsOK, DevicesOK, UiOK, ClicksOK, TimersOK, ui, bills, money
  <1> QED
    BY <1>1, <1>2, <1>3, <1>4, <1>5, <1>6 DEF VendLoopStep

(* The steps of a purchase click that is paying or cancelling.             *)
LEMMA PaymentClickStepTyped ==
  ASSUME DataOK, NEW c \in Clicks, PaymentClickStep(c)
  PROVE  DataOK'
  <1> DEFINE t == clicks[c].tx
             x == txs[t]
             plan == clicks[c].plan
  <1> USE DEF DataOK
  <1>a. t \in Transactions /\ plan \in Counts
    BY DEF PaymentClickStep, StartCashSession, ReserveCreated, AcceptanceEnabled, EnableFails,
           CancelDisabled, CancelDisableFails, RequestRefund, RefundDispensed,
           RefundNotDispensed, RefundCommandRaises, RefundPublished, CancelPublished,
           ClicksOK, ClickRecords
  <1>b. x \in TransactionRecords /\ x.change_reserve \in Counts /\ inventory \in InventoryRecords
    BY <1>a DEF LedgerOK, TransactionRecords, CashOK
  <1>c. /\ {"reserve_created", "enabling", "refund_requested", "refunding", "refund_dispensed",
            "purchase_cancelled"} \subseteq ClickLabels
        /\ {"home", "payment", "notice"} \subseteq Screens
    BY DEF ClickLabels, Screens
  <1>d. NoPieces \in Counts
    BY NoPiecesCount
  <1>e. ASSUME ClickRejected(c)
        PROVE  ClicksOK' /\ screen' \in Screens
    BY <1>c, <1>e, ClickEnds DEF ClickRejected
  <1>f. /\ DropReserve(x) \in TransactionRecords
        /\ Cancel(DropReserve(x)) \in TransactionRecords
        /\ MarkAmbiguous(x) \in TransactionRecords
        /\ MarkFaulted(x) \in TransactionRecords
    BY <1>b, <1>d, TransactionOperations
  (* What the helpers do with the record, the task and the screen.         *)
  <1>g. ASSUME NEW record \in TransactionRecords, NEW st, OpenSession(c, t, record, st)
        PROVE  /\ txs' \in [Transactions -> TransactionRecords]
               /\ ClicksOK' /\ screen' \in Screens
    <2>1. AttachPaymentSession(record) \in TransactionRecords
      BY <1>d, TransactionOperations
    <2>2. txs' \in [Transactions -> TransactionRecords]
      BY <1>g, <2>1, RecordTyped DEF OpenSession
    <2>3. ClicksOK' /\ screen' \in Screens
      BY <1>a, <1>c, <1>d, <1>e, <1>g, ClickWaits DEF OpenSession, UiOK
    <2> QED
      BY <2>2, <2>3
  <1>h. ASSUME FinishCancel(c, t, x, inventory)
        PROVE  /\ inventory' \in InventoryRecords
               /\ txs' \in [Transactions -> TransactionRecords]
               /\ ClicksOK' /\ UiOK'
    <2>1. inventory' \in InventoryRecords
      BY <1>b, <1>h, InventoryOperations DEF FinishCancel
    <2>2. txs' \in [Transactions -> TransactionRecords]
      BY <1>f, <1>h, RecordTyped DEF FinishCancel
    <2>3. ClicksOK'
      BY <1>a, <1>c, <1>d, <1>e, <1>h, ClickWaits DEF FinishCancel
    <2>4. UiOK'
      BY <1>c, <1>e, <1>h DEF FinishCancel, UiOK
    <2> QED
      BY <2>1, <2>2, <2>3, <2>4
  <1>i. ASSUME NEW pieces \in Counts, NEW inv \in InventoryRecords, NEW answer,
               RefundAnswered(c, t, pieces, inv, answer)
        PROVE  /\ inventory' \in InventoryRecords
               /\ txs' \in [Transactions -> TransactionRecords]
               /\ ClicksOK' /\ screen' \in Screens
    <2>1. inventory' \in InventoryRecords
      BY <1>i, InventoryOperations DEF RefundAnswered
    <2>2. txs' \in [Transactions -> TransactionRecords]
      BY <1>f, <1>i, RecordTyped DEF RefundAnswered, RefundRaises, LedgerOK
    <2>3. ClicksOK' /\ screen' \in Screens
      BY <1>a, <1>c, <1>d, <1>e, <1>i, ClickWaits DEF RefundAnswered, UiOK
    <2> QED
      BY <2>1, <2>2, <2>3
  <1>1. CASE StartCashSession(c)
    <2> DEFINE supported == SaleSupported(inventory)
               st == SetExactChangeOnly(status, ~supported)
    <2>1. ASSUME NEW p \in ChangePlans(inventory, WorstCaseChange)
          PROVE  /\ Reserve(inventory, p) \in InventoryRecords
                 /\ AttachChangeReserve(x, p) \in TransactionRecords
      <3>1. p \in Counts
        BY <1>b, PlansTyped
      <3> QED
        BY <1>b, <3>1, InventoryOperations, TransactionOperations
    <2> HIDE DEF supported, st
    <2>2. \/ ClickRejected(c) /\ UNCHANGED <<txs, inventory>>
          \/ OpenSession(c, t, x, st) /\ UNCHANGED inventory
          \/ /\ \E p \in ChangePlans(inventory, WorstCaseChange) :
                  /\ inventory' = Reserve(inventory, p)
                  /\ Record(t, AttachChangeReserve(x, p))
             /\ Suspend(c, "reserve_created", t, NoPieces)
             /\ UNCHANGED screen
      BY <1>1 DEF StartCashSession, supported, st
    <2>3. /\ inventory' \in InventoryRecords /\ txs' \in [Transactions -> TransactionRecords]
          /\ ClicksOK' /\ screen' \in Screens
      <3>1. CASE ClickRejected(c) /\ UNCHANGED <<txs, inventory>>
        BY <1>b, <1>e, <3>1 DEF LedgerOK
      <3>2. CASE OpenSession(c, t, x, st) /\ UNCHANGED inventory
        BY <1>b, <1>g, <3>2
      <3>3. ASSUME NEW p \in ChangePlans(inventory, WorstCaseChange),
                   inventory' = Reserve(inventory, p),
                   Record(t, AttachChangeReserve(x, p)),
                   Suspend(c, "reserve_created", t, NoPieces), UNCHANGED screen
            PROVE  /\ inventory' \in InventoryRecords
                   /\ txs' \in [Transactions -> TransactionRecords]
                   /\ ClicksOK' /\ screen' \in Screens
        BY <1>a, <1>c, <1>d, <2>1, <3>3, RecordTyped, ClickWaits DEF UiOK
      <3> QED
        BY <2>2, <3>1, <3>2, <3>3
    <2>4. UNCHANGED <<known, active, session, bills, money, goods, answered, loop, timers,
                      failures>>
      BY <1>1 DEF StartCashSession
    <2> QED
      BY <2>3, <2>4
      DEF LedgerOK, CashOK, GoodsOK, DevicesOK, UiOK, LoopOK, TimersOK, bills, money, goods
  <1>2. CASE ReserveCreated(c)
    <2>1. OpenSession(c, t, x, status)
      BY <1>2 DEF ReserveCreated
    <2>2. txs' \in [Transactions -> TransactionRecords] /\ ClicksOK' /\ screen' \in Screens
      BY <1>b, <1>g, <2>1
    <2> QED
      BY <1>2, <2>2
      DEF ReserveCreated, LedgerOK, CashOK, GoodsOK, DevicesOK, UiOK, LoopOK, TimersOK,
          bills, money, goods
  <1>3. CASE AcceptanceEnabled(c)
    <2>1. DevicesOK'
      BY <1>3, FailureTyped DEF AcceptanceEnabled, DevicesOK
    <2>2. ClicksOK' /\ UiOK'
      BY <1>3, <1>a, <1>c, ClickEnds DEF AcceptanceEnabled, UiOK
    <2> QED
      BY <1>3, <2>1, <2>2
      DEF AcceptanceEnabled, LedgerOK, CashOK, GoodsOK, LoopOK, TimersOK, ledger, money, goods
  <1>4. CASE EnableFails(c)
    <2>1. txs' \in [Transactions -> TransactionRecords]
      BY <1>4, <1>f, RecordTyped DEF EnableFails
    <2>2. ClicksOK' /\ screen' \in Screens
      BY <1>4, <1>e DEF EnableFails
    <2>3. /\ failures' \in Nat
          /\ validator' \in [accepting : BOOLEAN, events : Seq(ValidatorEvents)]
      BY <1>4, FailureTyped DEF EnableFails, DevicesOK
    <2>4. UNCHANGED <<known, active, session, stacked, money, goods, inventory, answered,
                      loop, timers>>
      BY <1>4 DEF EnableFails
    <2> QED
      BY <2>1, <2>2, <2>3, <2>4
      DEF LedgerOK, CashOK, GoodsOK, DevicesOK, UiOK, LoopOK, TimersOK, money, goods
  <1>5. CASE CancelDisabled(c)
    <2>1. /\ inventory' \in InventoryRecords /\ txs' \in [Transactions -> TransactionRecords]
          /\ ClicksOK' /\ UiOK'
      <3>1. CASE FinishCancel(c, t, x, inventory)
        BY <1>h, <3>1
      <3>2. CASE /\ inventory' = Release(inventory, x.change_reserve)
                 /\ Record(t, DropReserve(x))
                 /\ Suspend(c, "refund_requested", t, NoPieces)
                 /\ UNCHANGED ui
        <4>1. inventory' \in InventoryRecords
          BY <1>b, <3>2, InventoryOperations
        <4>2. txs' \in [Transactions -> TransactionRecords]
          BY <1>f, <3>2, RecordTyped
        <4>3. ClicksOK' /\ UiOK'
          BY <1>a, <1>c, <1>d, <3>2, ClickWaits DEF UiOK, ui
        <4> QED
          BY <4>1, <4>2, <4>3
      <3> QED
        BY <1>5, <3>1, <3>2 DEF CancelDisabled
    <2>2. validator' \in [accepting : BOOLEAN, events : Seq(ValidatorEvents)]
      BY <1>5, FailureTyped DEF CancelDisabled
    <2>3. UNCHANGED <<known, active, stacked, money, goods, answered, loop, timers, failures>>
      BY <1>5 DEF CancelDisabled
    <2> QED
      BY <2>1, <2>2, <2>3
      DEF LedgerOK, CashOK, GoodsOK, DevicesOK, LoopOK, TimersOK, money, goods
  <1>6. CASE CancelDisableFails(c)
    <2>1. txs' \in [Transactions -> TransactionRecords]
      BY <1>6, <1>f, RecordTyped DEF CancelDisableFails
    <2>2. ClicksOK'
      BY <1>6, ClickEnds DEF CancelDisableFails
    <2>3. /\ failures' \in Nat
          /\ validator' \in [accepting : BOOLEAN, events : Seq(ValidatorEvents)]
      BY <1>6, FailureTyped DEF CancelDisableFails, DevicesOK
    <2>4. UNCHANGED <<known, active, ui, stacked, money, goods, inventory, answered, loop,
                      timers>>
      BY <1>6 DEF CancelDisableFails
    <2> QED
      BY <2>1, <2>2, <2>3, <2>4
      DEF LedgerOK, CashOK, GoodsOK, DevicesOK, UiOK, LoopOK, TimersOK, ui, money, goods
  <1>7. CASE RequestRefund(c)
    <2>1. /\ inventory' \in InventoryRecords /\ txs' \in [Transactions -> TransactionRecords]
          /\ ClicksOK' /\ screen' \in Screens
      <3>1. CASE RefundRaises(t) /\ ClickRejected(c) /\ UNCHANGED inventory
        BY <1>b, <1>e, <1>f, <3>1, RecordTyped DEF RefundRaises
      <3>2. ASSUME NEW p \in ChangePlans(inventory, x.accepted_amount),
                   \/ /\ inventory' = Reserve(inventory, p)
                      /\ Suspend(c, "refunding", t, p)
                      /\ UNCHANGED <<machine, txs, screen>>
                   \/ RefundAnswered(c, t, p, Reserve(inventory, p), answered[t].refund)
            PROVE  /\ inventory' \in InventoryRecords
                   /\ txs' \in [Transactions -> TransactionRecords]
                   /\ ClicksOK' /\ screen' \in Screens
        <4>1. p \in Counts /\ Reserve(inventory, p) \in InventoryRecords
          BY <1>b, PlansTyped, InventoryOperations
        <4>2. CASE /\ inventory' = Reserve(inventory, p)
                   /\ Suspend(c, "refunding", t, p)
                   /\ UNCHANGED <<machine, txs, screen>>
          BY <1>a, <1>c, <4>1, <4>2, ClickWaits DEF LedgerOK, UiOK
        <4>3. CASE RefundAnswered(c, t, p, Reserve(inventory, p), answered[t].refund)
          BY <1>i, <4>1, <4>3
        <4> QED
          BY <3>2, <4>2, <4>3
      <3> QED
        BY <1>7, <3>1, <3>2 DEF RequestRefund
    <2>2. UNCHANGED <<known, active, session, bills, money, goods, answered, loop, timers,
                      failures>>
      BY <1>7 DEF RequestRefund
    <2> QED
      BY <2>1, <2>2
      DEF LedgerOK, CashOK, GoodsOK, DevicesOK, UiOK, LoopOK, TimersOK, bills, money, goods
  <1>8. CASE RefundDispensed(c)
    <2>1. /\ inventory' \in InventoryRecords /\ txs' \in [Transactions -> TransactionRecords]
          /\ ClicksOK' /\ screen' \in Screens
      BY <1>8, <1>a, <1>b, <1>i DEF RefundDispensed
    <2>2. coins' \in [Denominations -> Int] /\ paidOut' \in [Transactions -> Counts]
      BY <1>8, <1>a, PayOutTyped DEF RefundDispensed, CanDispense
    <2>3. answered' \in [Transactions -> Answers]
      BY <1>8 DEF RefundDispensed, DevicesOK, Answers, RefundAnswers
    <2>4. UNCHANGED <<known, active, session, bills, goods, loop, timers, failures>>
      BY <1>8 DEF RefundDispensed
    <2> QED
      BY <2>1, <2>2, <2>3, <2>4
      DEF LedgerOK, CashOK, GoodsOK, DevicesOK, UiOK, LoopOK, TimersOK, bills, goods
  <1>9. CASE RefundNotDispensed(c)
    <2>1. PICK answer \in {"partial", "failed"} :
            /\ \/ Fails /\ \E part \in PartsOf(plan) : PayOut(t, part)
               \/ UNCHANGED <<money, failures>>
            /\ answered' = [answered EXCEPT ![t].refund = answer]
            /\ RefundAnswered(c, t, plan, inventory, answer)
      BY <1>9 DEF RefundNotDispensed
    <2>2. /\ inventory' \in InventoryRecords /\ txs' \in [Transactions -> TransactionRecords]
          /\ ClicksOK' /\ screen' \in Screens
      BY <1>a, <1>b, <1>i, <2>1
    <2>3. coins' \in [Denominations -> Int] /\ paidOut' \in [Transactions -> Counts]
      BY <1>a, <2>1, PartsTyped, PayOutTyped DEF money, CashOK
    <2>4. answered' \in [Transactions -> Answers]
      BY <2>1 DEF DevicesOK, Answers, RefundAnswers
    <2>5. failures' \in Nat
      BY <2>1, FailureTyped DEF DevicesOK
    <2>6. UNCHANGED <<known, active, session, bills, goods, loop, timers>>
      BY <1>9 DEF RefundNotDispensed
    <2> QED
      BY <2>2, <2>3, <2>4, <2>5, <2>6
      DEF LedgerOK, CashOK, GoodsOK, DevicesOK, UiOK, LoopOK, TimersOK, bills, goods
  <1>10. CASE RefundCommandRaises(c)
    <2>1. txs' \in [Transactions -> TransactionRecords]
      BY <1>10, <1>f, RecordTyped DEF RefundCommandRaises, RefundRaises
    <2>2. coins' \in [Denominations -> Int] /\ paidOut' \in [Transactions -> Counts]
      BY <1>10, <1>a, PartsTyped, PayOutTyped DEF RefundCommandRaises
    <2>3. ClicksOK'
      BY <1>10, ClickEnds DEF RefundCommandRaises
    <2>4. failures' \in Nat
      BY <1>10, FailureTyped DEF RefundCommandRaises
    <2>5. UNCHANGED <<known, active, ui, bills, goods, inventory, answered, loop, timers>>
      BY <1>10 DEF RefundCommandRaises
    <2> QED
      BY <2>1, <2>2, <2>3, <2>4, <2>5
      DEF LedgerOK, CashOK, GoodsOK, DevicesOK, UiOK, LoopOK, TimersOK, ui, bills, goods
  <1>11. CASE RefundPublished(c)
    <2>1. /\ inventory' \in InventoryRecords /\ txs' \in [Transactions -> TransactionRecords]
          /\ ClicksOK' /\ UiOK'
      BY <1>11, <1>h DEF RefundPublished
    <2> QED
      BY <1>11, <2>1
      DEF RefundPublished, LedgerOK, CashOK, GoodsOK, DevicesOK, LoopOK, TimersOK,
          bills, money, goods
  <1>12. CASE CancelPublished(c)
    <2>1. active' \in Transactions \cup {NoTx}
      BY <1>12 DEF CancelPublished, ClearActive, LedgerOK
    <2>2. ClicksOK' /\ UiOK'
      BY <1>12, <1>c, ClickEnds DEF CancelPublished, UiOK
    <2> QED
      BY <1>12, <2>1, <2>2
      DEF CancelPublished, LedgerOK, CashOK, GoodsOK, DevicesOK, LoopOK, TimersOK,
          bills, money, goods
  <1> QED
    BY <1>1, <1>2, <1>3, <1>4, <1>5, <1>6, <1>7, <1>8, <1>9, <1>10, <1>11, <1>12
    DEF PaymentClickStep

(* The steps of a checkout or a pickup click, and of a recovery.           *)
LEMMA VendClickStepTyped ==
  ASSUME DataOK, NEW c \in Clicks, VendClickStep(c) \/ RecoverAsCancelled(c)
  PROVE  DataOK'
  <1> DEFINE t == clicks[c].tx
             x == txs[t]
  <1> USE DEF DataOK
  <1>a. clicks[c].label \notin {"idle", "sensing"} =>
          /\ t \in Transactions
          /\ MarkWindowClosed(x) \in TransactionRecords
          /\ MarkFaulted(x) \in TransactionRecords
          /\ Cancel(x) \in TransactionRecords
          /\ ConfirmPickup(x) \in TransactionRecords
    BY TransactionOperations, NoPiecesCount DEF ClicksOK, LedgerOK
  <1>b. /\ {"purchase_started", "closing_window", "completed"} \subseteq ClickLabels
        /\ {"home", "notice"} \subseteq Screens
    BY DEF ClickLabels, Screens
  <1>c. NoPieces \in Counts
    BY NoPiecesCount
  <1>d. ASSUME ClickRejected(c)
        PROVE  ClicksOK' /\ screen' \in Screens
    BY <1>b, <1>d, ClickEnds DEF ClickRejected
  <1>1. CASE SensorMismatch(c) \/ AlreadyActive(c)
    <2>1. ClicksOK' /\ screen' \in Screens
      BY <1>1, <1>d DEF SensorMismatch, AlreadyActive
    <2>2. failures' \in Nat
      BY <1>1, FailureTyped DEF SensorMismatch, AlreadyActive, DevicesOK
    <2>3. UNCHANGED <<ledger, session, bills, money, goods, inventory, answered, loop, timers>>
      BY <1>1 DEF SensorMismatch, AlreadyActive
    <2> QED
      BY <2>1, <2>2, <2>3
      DEF LedgerOK, CashOK, GoodsOK, DevicesOK, UiOK, LoopOK, TimersOK,
          ledger, bills, money, goods
  <1>2. ASSUME NEW n \in Transactions, CreateTransaction(c, n)
        PROVE  DataOK'
    <2>1. LedgerOK'
      <3>1. txs' \in [Transactions -> TransactionRecords]
        BY <1>2, NewTransactionTyped, RecordTyped DEF CreateTransaction
      <3> QED
        BY <1>2, <3>1 DEF CreateTransaction, LedgerOK
    <2>2. ClicksOK' /\ screen' \in Screens
      BY <1>2, <1>b, <1>c, <1>d, ClickWaits DEF CreateTransaction, UiOK
    <2> QED
      BY <1>2, <2>1, <2>2
      DEF CreateTransaction, CashOK, GoodsOK, DevicesOK, UiOK, LoopOK, TimersOK,
          bills, money, goods
  <1>3. CASE PickupWindowClosed(c)
    <2>1. txs' \in [Transactions -> TransactionRecords]
      BY <1>3, <1>a, RecordTyped DEF PickupWindowClosed
    <2>2. ClicksOK' /\ UiOK'
      BY <1>3, <1>a, <1>b, <1>c, <1>d, ClickWaits DEF PickupWindowClosed, UiOK
    <2> QED
      BY <1>3, <2>1, <2>2
      DEF PickupWindowClosed, LedgerOK, CashOK, GoodsOK, DevicesOK, LoopOK, TimersOK,
          bills, money
  <1>4. CASE PickupCloseFails(c)
    <2>1. txs' \in [Transactions -> TransactionRecords]
      BY <1>4, <1>a, RecordTyped DEF PickupCloseFails
    <2>2. ClicksOK' /\ failures' \in Nat
      BY <1>4, ClickEnds, FailureTyped DEF PickupCloseFails
    <2>3. window' \in {"open", "closed"}
      BY <1>4 DEF PickupCloseFails, GoodsOK
    <2>4. UNCHANGED <<known, active, ui, bills, money, stock, vends, inventory, answered,
                      loop, timers>>
      BY <1>4 DEF PickupCloseFails
    <2> QED
      BY <2>1, <2>2, <2>3, <2>4
      DEF LedgerOK, CashOK, GoodsOK, DevicesOK, UiOK, LoopOK, TimersOK, ui, bills, money
  <1>5. CASE SaleCompleted(c)
    <2>1. active' \in Transactions \cup {NoTx}
      BY <1>5 DEF SaleCompleted, ClearActive, LedgerOK
    <2>2. ClicksOK' /\ UiOK'
      BY <1>5, <1>b, <1>d, ClickEnds DEF SaleCompleted, UiOK
    <2> QED
      BY <1>5, <2>1, <2>2
      DEF SaleCompleted, LedgerOK, CashOK, GoodsOK, DevicesOK, LoopOK, TimersOK,
          bills, money, goods
  <1>6. CASE RecoverAsCancelled(c)
    <2>1. LedgerOK'
      <3>1. txs' \in [Transactions -> TransactionRecords]
        BY <1>6, <1>a, RecordTyped DEF RecoverAsCancelled
      <3> QED
        BY <1>6, <3>1 DEF RecoverAsCancelled, LedgerOK
    <2>2. ClicksOK' /\ UiOK'
      BY <1>6, <1>b, ClickEnds DEF RecoverAsCancelled, UiOK
    <2> QED
      BY <1>6, <2>1, <2>2
      DEF RecoverAsCancelled, CashOK, GoodsOK, DevicesOK, LoopOK, TimersOK, bills, money, goods
  <1>7. CASE PickupClick(c)
    <2>1. txs' \in [Transactions -> TransactionRecords]
      BY <1>7, <1>a, RecordTyped DEF PickupClick, LedgerOK
    <2>2. ClicksOK' /\ screen' \in Screens
      BY <1>7, <1>a, <1>b, <1>c, <1>d, ClickEnds, ClickWaits DEF PickupClick, UiOK
    <2> QED
      BY <1>7, <2>1, <2>2
      DEF PickupClick, LedgerOK, CashOK, GoodsOK, DevicesOK, UiOK, LoopOK, TimersOK,
          bills, money, goods
  <1> QED
    BY <1>1, <1>2, <1>3, <1>4, <1>5, <1>6, <1>7 DEF VendClickStep

(* The steps of a pickup timeout.                                          *)
LEMMA DeadlineStepTyped ==
  ASSUME DataOK, NEW x \in Transactions, DeadlineStep(x)
  PROVE  DataOK'
  <1> USE DEF DataOK
  <1>a. /\ MarkPickupTimedOutWindowClosed(txs[x]) \in TransactionRecords
        /\ MarkFaulted(txs[x]) \in TransactionRecords
    BY TransactionOperations, NoPiecesCount DEF LedgerOK
  <1>b. /\ timers' \in [Transactions -> TimerLabels]
        /\ screen' \in Screens
        /\ window' \in {"open", "closed"}
    BY DEF DeadlineStep, TimerStep, DeadlinePasses, CloseOnTimeout, TimeoutWindowClosed,
           TimeoutCloseFails, TimerGoesTo, TimersOK, TimerLabels, Screens, UiOK, GoodsOK,
           ui, goods
  <1>c. txs' \in [Transactions -> TransactionRecords]
    BY <1>a, RecordTyped
    DEF DeadlineStep, TimerStep, DeadlinePasses, CloseOnTimeout, TimeoutWindowClosed,
        TimeoutCloseFails, LedgerOK, ledger
  <1>d. failures' \in Nat
    BY FailureTyped
    DEF DeadlineStep, TimerStep, DeadlinePasses, CloseOnTimeout, TimeoutWindowClosed,
        TimeoutCloseFails, DevicesOK
  <1>e. UNCHANGED <<known, active, session, bills, money, stock, vends, inventory, answered,
                    loop, clicks>>
    BY DEF DeadlineStep, TimerStep, DeadlinePasses, CloseOnTimeout, TimeoutWindowClosed,
           TimeoutCloseFails, ledger, ui, goods
  <1> QED
    BY <1>b, <1>c, <1>d, <1>e
    DEF LedgerOK, CashOK, GoodsOK, DevicesOK, UiOK, LoopOK, ClicksOK, TimersOK, bills, money

(* The steps of a customer.                                                *)
LEMMA CustomerStepTyped ==
  ASSUME DataOK, CustomerStep
  PROVE  DataOK'
  <1> USE DEF DataOK
  <1>a. /\ {"sensing", "cancel_disabling", "pressed"} \subseteq ClickLabels
        /\ "notice" \in Screens
    BY DEF ClickLabels, Screens
  <1>b. NoPieces \in Counts
    BY NoPiecesCount
  <1>c. ASSUME NEW c \in Clicks, ClickRejected(c)
        PROVE  ClicksOK' /\ screen' \in Screens
    BY <1>a, <1>c, ClickEnds DEF ClickRejected
  <1>1. ASSUME NEW b \in BillValues, InsertBill(b)
        PROVE  DataOK'
    <2>1. b \in ValidatorEvents /\ b \in Nat
      BY ChangeAssumption DEF ValidatorEvents
    <2>2. DevicesOK'
      <3>1. stacked' \in Nat
        <4>1. stacked' = stacked + b
          BY <1>1, Zenon DEF InsertBill
        <4>2. stacked \in Nat
          BY DEF DevicesOK
        <4> QED
          BY <2>1, <4>1, <4>2
      <3>2. Append(validator.events, b) \in Seq(ValidatorEvents)
        BY <2>1 DEF DevicesOK
      <3>3. validator' \in [accepting : BOOLEAN, events : Seq(ValidatorEvents)]
        BY <1>1, <3>2 DEF InsertBill, DevicesOK
      <3> QED
        BY <1>1, <3>1, <3>3 DEF InsertBill, DevicesOK
    <2> QED
      BY <1>1, <2>2
      DEF InsertBill, LedgerOK, CashOK, GoodsOK, UiOK, LoopOK, ClicksOK, TimersOK,
          ledger, ui, money, goods
  <1>2. CASE JamBill
    <2>1. FaultEvent \in ValidatorEvents
      BY DEF ValidatorEvents
    <2>2. DevicesOK'
      BY <1>2, <2>1, FailureTyped DEF JamBill, DevicesOK
    <2> QED
      BY <1>2, <2>2
      DEF JamBill, LedgerOK, CashOK, GoodsOK, UiOK, LoopOK, ClicksOK, TimersOK,
          ledger, ui, money, goods
  <1>3. ASSUME NEW c \in Clicks, CheckoutClick(c)
        PROVE  DataOK'
    <2>1. ClicksOK' /\ screen' \in Screens
      BY <1>3, <1>a, <1>b, <1>c, ClickWaits DEF CheckoutClick, UiOK
    <2> QED
      BY <1>3, <2>1
      DEF CheckoutClick, LedgerOK, CashOK, GoodsOK, DevicesOK, UiOK, LoopOK, TimersOK,
          ledger, bills, money, goods
  <1>4. ASSUME NEW c \in Clicks, CancelClick(c)
        PROVE  DataOK'
    <2>1. ClicksOK'
      BY <1>4, <1>a, <1>b, ClickWaits DEF CancelClick, UiOK
    <2> QED
      BY <1>4, <2>1
      DEF CancelClick, LedgerOK, CashOK, GoodsOK, DevicesOK, UiOK, LoopOK, TimersOK,
          ledger, ui, bills, money, goods
  <1>5. ASSUME NEW c \in Clicks, PickupPress(c)
        PROVE  DataOK'
    <2>1. session \in Transactions
      BY <1>5 DEF PickupPress, UiOK
    <2>2. ClicksOK'
      BY <1>5, <1>a, <1>b, <2>1, ClickWaits DEF PickupPress
    <2> QED
      BY <1>5, <2>2
      DEF PickupPress, LedgerOK, CashOK, GoodsOK, DevicesOK, UiOK, LoopOK, TimersOK,
          ledger, ui, bills, money, goods
  <1> QED
    BY <1>1, <1>2, <1>3, <1>4, <1>5 DEF CustomerStep

(* The steps of the operator.                                              *)
LEMMA OperatorStepTyped ==
  ASSUME DataOK, OperatorStep
  PROVE  DataOK'
  <1> USE DEF DataOK
  <1>1. ASSUME NEW c \in Clicks, RecoverClick(c)
        PROVE  ClicksOK'
    <2>1. PICK x \in known : Suspend(c, "recovering", x, NoPieces) \/ UNCHANGED clicks
      BY <1>1 DEF RecoverClick
    <2>2. x \in Transactions /\ "recovering" \in ClickLabels
      BY DEF LedgerOK, ClickLabels
    <2> QED
      BY <2>1, <2>2, NoPiecesCount, ClickWaits DEF ClicksOK
  <1>2. ClicksOK'
    BY <1>1
    DEF OperatorStep, EnterServiceMode, ExitServiceMode, HealthPoll, LeaveNotice, ClicksOK
  <1>3. UiOK'
    BY DEF OperatorStep, EnterServiceMode, ExitServiceMode, RecoverClick, HealthPoll,
           LeaveNotice, UiOK, Screens
  <1>4. UNCHANGED <<ledger, bills, money, goods, inventory, answered, loop, timers, failures>>
    BY DEF OperatorStep, EnterServiceMode, ExitServiceMode, RecoverClick, HealthPoll, LeaveNotice
  <1> QED
    BY <1>2, <1>3, <1>4
    DEF LedgerOK, CashOK, GoodsOK, DevicesOK, LoopOK, TimersOK, ledger, bills, money, goods

-----------------------------------------------------------------------------

LEMMA DataOKAtFirst ==
  ASSUME KioskInit
  PROVE  DataOK
  <1> USE DEF KioskInit, Init
  <1>1. LedgerOK
    BY NewTransactionTyped DEF LedgerOK
  <1>2. inventory \in InventoryRecords
    <2>1. InitialChange \in [Denominations -> Int] /\ InitialChange \in Counts
      BY KioskAssumption DEF Counts
    <2> QED
      BY <2>1, NoPiecesCount DEF InventoryRecords
  <1>3. CashOK /\ GoodsOK
    BY <1>2, KioskAssumption, NoPiecesCount DEF CashOK, GoodsOK, Counts
  <1>4. DevicesOK /\ UiOK
    BY DEF DevicesOK, UiOK, Answers, RefundAnswers, Screens
  <1>5. LoopOK /\ ClicksOK /\ TimersOK
    <2>1. LoopOK
      BY NoPiecesCount DEF LoopOK, LoopRecords, ReadingLoop, LoopLabels, ValidatorEvents
    <2>2. ClicksOK
      BY NoPiecesCount DEF ClicksOK, ClickRecords, IdleClick, ClickLabels
    <2> QED
      BY <2>1, <2>2 DEF TimersOK, TimerLabels
  <1> QED
    BY <1>1, <1>3, <1>4, <1>5 DEF DataOK

LEMMA DataStaysOK ==
  ASSUME DataOK, Next
  PROVE  DataOK'
  BY PaymentLoopStepTyped, VendLoopStepTyped, PaymentClickStepTyped, VendClickStepTyped,
     DeadlineStepTyped, CustomerStepTyped, OperatorStepTyped
  DEF Next, LoopStep, ClickStep

(* The part of it that speaks of the data.                                 *)
LEMMA DataAlwaysOK == Spec => []DataOK
  <1>1. DataOK /\ [Next]_kioskVars => DataOK'
    <2>1. DataOK /\ UNCHANGED kioskVars => DataOK'
      BY DEF DataOK, LedgerOK, CashOK, GoodsOK, DevicesOK, UiOK, LoopOK, ClicksOK, TimersOK,
             kioskVars, vars, ledger, ui, bills, money, goods
    <2> QED
      BY <2>1, DataStaysOK
  <1> QED
    BY <1>1, DataOKAtFirst, PTL DEF Spec

(* The dispenser pays no piece it does not hold.                           *)
LEMMA DispenserHolds ==
  ASSUME DataOK, coins \in Counts, Next
  PROVE  coins' \in Counts
  <1> DEFINE Takes(p) == CanDispense(p) /\ coins' = MinusCounts(coins, p)
  <1>1. ASSUME NEW p \in Counts, Takes(p)
        PROVE  coins' \in Counts
    BY <1>1, CountsClosed DEF CanDispense
  <1>2. ASSUME NEW plan \in Counts, NEW p \in PartsOf(plan), NEW x, PayOut(x, p)
        PROVE  \E q \in Counts : Takes(q)
    BY <1>2, PartsTyped DEF PartsOf, PayOut, DataOK
  <1>3. ASSUME LoopStep
        PROVE  coins' = coins \/ \E p \in Counts : Takes(p)
    <2>1. loop.plan \in Counts
      BY DEF DataOK, LoopOK, LoopRecords
    <2>2. CASE ChangeDispensed
      BY <2>1, <2>2 DEF ChangeDispensed, PayOut
    <2>3. CASE ChangeNotDispensed \/ ChangeCommandRaises
      BY <1>2, <2>1, <2>3 DEF ChangeNotDispensed, ChangeCommandRaises, money
    <2>4. CASE VendLoopStep
      BY <2>4 DEF VendLoopStep, VendAuthorized, ProductVended, VendFails, OpenWindow, WindowOpened,
                  OpenFails, money
    <2> QED
      BY <1>3, <2>2, <2>3, <2>4
      DEF LoopStep, PaymentLoopStep, ReadEvent, ValidatorFault, CreditBill, AwaitMoreCash,
          CompletePayment, AcceptanceDisabled, FinalizeReserve, RequestChange, DisableFails, money
  <1>4. ASSUME NEW c \in Clicks, ClickStep(c)
        PROVE  coins' = coins \/ \E p \in Counts : Takes(p)
    <2>1. clicks[c].plan \in Counts
      BY DEF DataOK, ClicksOK, ClickRecords
    <2>2. CASE RefundDispensed(c)
      BY <2>1, <2>2 DEF RefundDispensed, PayOut
    <2>3. CASE RefundNotDispensed(c) \/ RefundCommandRaises(c)
      BY <1>2, <2>1, <2>3 DEF RefundNotDispensed, RefundCommandRaises, money
    <2>4. CASE VendClickStep(c) \/ RecoverAsCancelled(c)
      BY <2>4 DEF VendClickStep, SensorMismatch, AlreadyActive, CreateTransaction,
                  PickupClick, PickupWindowClosed, PickupCloseFails, SaleCompleted, RecoverAsCancelled, money
    <2> QED
      BY <1>4, <2>2, <2>3, <2>4
      DEF ClickStep, PaymentClickStep, StartCashSession, ReserveCreated, AcceptanceEnabled,
          EnableFails, CancelDisabled, CancelDisableFails, RequestRefund, RefundPublished,
          CancelPublished, money
  <1>5. CASE (\E x \in Transactions : DeadlineStep(x)) \/ CustomerStep \/ OperatorStep
    BY <1>5
    DEF DeadlineStep, TimerStep, DeadlinePasses, CloseOnTimeout, TimeoutWindowClosed,
        TimeoutCloseFails, CustomerStep, InsertBill, JamBill, CheckoutClick, CancelClick,
        PickupPress, OperatorStep, EnterServiceMode, ExitServiceMode, LeaveNotice, RecoverClick,
        HealthPoll, money
  <1> HIDE DEF Takes
  <1> QED
    BY <1>1, <1>3, <1>4, <1>5 DEF Next

LEMMA DispenserAlwaysHolds == Spec => [](coins \in Counts)
  <1>1. KioskInit => coins \in Counts
    BY KioskAssumption DEF KioskInit, Init
  <1>2. DataOK /\ coins \in Counts /\ [Next]_kioskVars => (coins \in Counts)'
    BY DispenserHolds DEF kioskVars, vars, money
  <1> QED
    BY <1>1, <1>2, DataAlwaysOK, PTL DEF Spec

(* The type invariant holds in every reachable state, for any number of    *)
(* transactions, clicks, bills and failures and any dispenser: no counter  *)
(* underflows, and no task works on a record it does not have.             *)
THEOREM TypeAlwaysOK == Spec => []TypeOK
  BY DataAlwaysOK, DispenserAlwaysHolds, StatusAlwaysFollows, TypeInvariantImpliesTypeOK, PTL
  DEF TypeInvariant

-----------------------------------------------------------------------------
(***************************************************************************)
(* A transaction's motor runs at most once, however the customer's clicks, *)
(* the payment loop, deadlines, the operator and failures interleave.      *)
(*                                                                         *)
(* The argument is about who is in front of whom in the event loop's queue *)
(* of resumable tasks.  A bill that reaches the loop after its sale was    *)
(* completed would be settled, and the motor run again, if the machine     *)
(* were accepting cash for the next purchase by then.  It is not: the loop *)
(* resumes before any click that is opening the next session gets to       *)
(* ACCEPTING_CASH (LateBills), because a click waits behind whoever was    *)
(* there first.  OpeningClicks says the same of two clicks that are both   *)
(* opening a session: they work on different transactions, and the one     *)
(* whose transaction is active resumes last.                               *)
(*                                                                         *)
(* WorstCaseChange > 0 is needed.  Where no bill can call for change,      *)
(* start_cash_session skips the step that reserves it, the next session    *)
(* opens before the late bill has passed, and TLC finds two motor runs.    *)
(***************************************************************************)

-----------------------------------------------------------------------------
(* Who is in a queue, and in front of whom.                                *)
In(q, t) == \E i \in 1 .. Len(q) : q[i] = t
InOrder(q, a, b) == \E i, j \in 1 .. Len(q) : i < j /\ q[i] = a /\ q[j] = b
OnceEach(q) == \A i, j \in 1 .. Len(q) : q[i] = q[j] => i = j

(* The queue holds the tasks inside a publish, each of them once.          *)
QueueOK ==
  /\ ready \in Seq(Tasks)
  /\ OnceEach(ready)
  /\ \A t \in Tasks : Enqueued(t) <=> In(ready, t)

Before(a, b) == InOrder(ready, a, b)

(* Removing an element that occurs once leaves the others as they are.     *)
LEMMA RemovedOnce ==
  ASSUME NEW S, NEW s \in Seq(S), NEW k \in 1 .. Len(s), OnceEach(s)
  PROVE  /\ RemoveFirst(s, s[k]) \in Seq(S)
         /\ Len(RemoveFirst(s, s[k])) = Len(s) - 1
         /\ \A i \in 1 .. Len(s) - 1 :
              RemoveFirst(s, s[k])[i] = IF i < k THEN s[i] ELSE s[i + 1]
  <1> DEFINE I == {i \in 1 .. Len(s) : s[i] = s[k]}
             front == SubSeq(s, 1, k - 1)
             back == SubSeq(s, k + 1, Len(s))
  <1>0. Len(s) \in Nat
    OBVIOUS
  <1>1. I = {k}
    BY DEF OnceEach
  <1>2. Min(I) = k
    BY <1>1 DEF Min
  <1>3. SelectInSeq(s, LAMBDA v : v = s[k]) = k
    BY <1>1, <1>2 DEF SelectInSeq
  <1>4. RemoveFirst(s, s[k]) = front \o back
    BY <1>3 DEF RemoveFirst, RemoveAt
  <1>5. /\ front \in Seq(S) /\ Len(front) = k - 1
        /\ \A i \in 1 .. k - 1 : front[i] = s[i]
    BY <1>0, SubSeqProperties
  <1>6. /\ back \in Seq(S) /\ Len(back) = Len(s) - k
        /\ \A i \in 1 .. Len(s) - k : back[i] = s[k + i]
    BY <1>0, SubSeqProperties
  <1> HIDE DEF front, back
  <1>7. /\ front \o back \in Seq(S) /\ Len(front \o back) = Len(s) - 1
        /\ \A i \in 1 .. Len(s) - 1 :
             (front \o back)[i] = IF i <= k - 1 THEN front[i] ELSE back[i - (k - 1)]
    <2>1. Len(front) + Len(back) = Len(s) - 1
      BY <1>0, <1>5, <1>6
    <2>2. /\ front \o back \in Seq(S) /\ Len(front \o back) = Len(front) + Len(back)
          /\ \A i \in 1 .. Len(front) + Len(back) :
               (front \o back)[i] = IF i <= Len(front) THEN front[i] ELSE back[i - Len(front)]
      BY <1>5, <1>6, ConcatProperties
    <2> QED
      BY <1>5, <2>1, <2>2
  <1>8. ASSUME NEW i \in 1 .. Len(s) - 1
        PROVE  (front \o back)[i] = IF i < k THEN s[i] ELSE s[i + 1]
    <2>1. CASE i < k
      BY <1>0, <1>5, <1>7, <2>1
    <2>2. CASE ~(i < k)
      <3>1. i - (k - 1) \in 1 .. Len(s) - k /\ k + (i - (k - 1)) = i + 1
        BY <1>0, <2>2
      <3>2. back[i - (k - 1)] = s[i + 1]
        BY <1>6, <3>1
      <3> QED
        BY <1>0, <1>7, <2>2, <3>2
    <2> QED
      BY <2>1, <2>2
  <1> QED
    BY <1>4, <1>7, <1>8

(* What is left of a queue when t leaves it, in the same order.            *)
LEMMA QueueWithout ==
  ASSUME NEW S, NEW q \in Seq(S), OnceEach(q), NEW t, In(q, t)
  PROVE  LET rest == RemoveFirst(q, t)
         IN  /\ rest \in Seq(S) /\ OnceEach(rest)
             /\ \A u : In(rest, u) <=> In(q, u) /\ u # t
             /\ \A a, b : InOrder(q, a, b) /\ a # t /\ b # t => InOrder(rest, a, b)
  <1> DEFINE rest == RemoveFirst(q, t)
  <1>1. PICK k \in 1 .. Len(q) : q[k] = t
    BY DEF In
  <1>2. /\ rest \in Seq(S) /\ Len(rest) = Len(q) - 1
        /\ \A i \in 1 .. Len(q) - 1 : rest[i] = IF i < k THEN q[i] ELSE q[i + 1]
    BY <1>1, RemovedOnce
  <1> HIDE DEF rest
  <1>3. Len(q) \in Nat
    OBVIOUS
  <1>4. ASSUME NEW i \in 1 .. Len(q), i # k
        PROVE  LET to == IF i < k THEN i ELSE i - 1
               IN  to \in 1 .. Len(rest) /\ rest[to] = q[i]
    <2>1. CASE i < k
      BY <1>2, <1>3, <2>1
    <2>2. CASE i > k
      BY <1>2, <1>3, <2>2
    <2> QED
      BY <1>3, <1>4, <2>1, <2>2
  <1>5. ASSUME NEW i \in 1 .. Len(rest)
        PROVE  LET from == IF i < k THEN i ELSE i + 1
               IN  from \in 1 .. Len(q) /\ from # k /\ rest[i] = q[from]
    BY <1>2, <1>3
  <1>6. OnceEach(rest)
    BY <1>2, <1>3, <1>5 DEF OnceEach
  <1>7. ASSUME NEW u
        PROVE  In(rest, u) <=> In(q, u) /\ u # t
    <2>1. ASSUME In(q, u), u # t
          PROVE  In(rest, u)
      <3>1. PICK i \in 1 .. Len(q) : q[i] = u
        BY <2>1 DEF In
      <3>2. i # k
        BY <1>1, <2>1, <3>1
      <3> QED
        BY <1>4, <3>1, <3>2 DEF In
    <2>2. ASSUME In(rest, u)
          PROVE  In(q, u) /\ u # t
      <3>1. PICK i \in 1 .. Len(rest) : rest[i] = u
        BY <2>2 DEF In
      <3> QED
        BY <1>1, <1>5, <3>1 DEF In, OnceEach
    <2> QED
      BY <2>1, <2>2
  <1>8. ASSUME NEW a, NEW b, InOrder(q, a, b), a # t, b # t
        PROVE  InOrder(rest, a, b)
    <2>1. PICK i, j \in 1 .. Len(q) : i < j /\ q[i] = a /\ q[j] = b
      BY <1>8 DEF InOrder
    <2>2. i # k /\ j # k
      BY <1>1, <1>8, <2>1
    <2> DEFINE i1 == IF i < k THEN i ELSE i - 1
               j1 == IF j < k THEN j ELSE j - 1
    <2>3. i1 \in 1 .. Len(rest) /\ j1 \in 1 .. Len(rest) /\ rest[i1] = a /\ rest[j1] = b
      BY <1>4, <2>1, <2>2
    <2>4. i1 < j1
      BY <1>3, <2>1, <2>2
    <2> QED
      BY <2>3, <2>4 DEF InOrder
  <1> QED
    BY <1>2, <1>6, <1>7, <1>8 DEF rest

(* A newcomer joins behind everybody.                                      *)
LEMMA QueueJoined ==
  ASSUME NEW S, NEW q \in Seq(S), OnceEach(q), NEW t \in S, ~In(q, t)
  PROVE  LET more == Append(q, t)
         IN  /\ more \in Seq(S) /\ OnceEach(more)
             /\ \A u : In(more, u) <=> In(q, u) \/ u = t
             /\ \A a, b : InOrder(q, a, b) => InOrder(more, a, b)
             /\ \A a : In(q, a) => InOrder(more, a, t)
  <1> DEFINE more == Append(q, t)
  <1>1. Len(q) \in Nat
    OBVIOUS
  <1>2. /\ more \in Seq(S) /\ Len(more) = Len(q) + 1
        /\ \A i \in 1 .. Len(q) : more[i] = q[i]
        /\ more[Len(q) + 1] = t
    BY AppendProperties
  <1> HIDE DEF more
  <1>3. OnceEach(more)
    BY <1>1, <1>2 DEF OnceEach, In
  <1>4. \A u : In(more, u) <=> In(q, u) \/ u = t
    BY <1>1, <1>2 DEF In
  <1>5. \A a, b : InOrder(q, a, b) => InOrder(more, a, b)
    BY <1>1, <1>2 DEF InOrder
  <1>6. \A a : In(q, a) => InOrder(more, a, t)
    BY <1>1, <1>2 DEF InOrder, In
  <1> QED
    BY <1>2, <1>3, <1>4, <1>5, <1>6 DEF more

(* What a step does to the queue: the order of those who stay is kept, a   *)
(* newcomer is behind all of them, and nobody but the vend handler and a   *)
(* press goes on from behind another; one task goes on at a time.          *)
LEMMA Turns ==
  ASSUME QueueOK, Scheduled
  PROVE  /\ QueueOK'
         /\ \A a, b \in Tasks : Moves(a) /\ Moves(b) => a = b
         /\ \A a, b \in Tasks :
              Before(a, b) /\ ~Moves(a) /\ ~Moves(b) => Before(a, b)'
         /\ \A a, b \in Tasks :
              Enqueued(a) /\ ~Moves(a) /\ Moves(b) /\ Enqueued(b)' => Before(a, b)'
         /\ \A a, b \in Tasks :
              Before(a, b) /\ Moves(b) => OneRound(b)
  <1>1. ASSUME \A t \in Tasks : ~Moves(t), ready' = ready
        PROVE  /\ QueueOK'
               /\ \A a, b \in Tasks : Before(a, b) => Before(a, b)'
    BY <1>1 DEF QueueOK, Moves, Enqueued, Before
  <1>2. ASSUME NEW t \in Tasks, Moves(t), \A u \in Tasks \ {t} : ~Moves(u),
               Enqueued(t) => MayGoOn(t), ready' = Rescheduled(t)
        PROVE  /\ QueueOK'
               /\ \A a, b \in Tasks : Before(a, b) /\ a # t /\ b # t => Before(a, b)'
               /\ \A a \in Tasks : Enqueued(a) /\ a # t /\ Enqueued(t)' => Before(a, t)'
               /\ \A a \in Tasks : Before(a, t) => OneRound(t)
    <2> DEFINE rest == IF Enqueued(t) THEN RemoveFirst(ready, t) ELSE ready
    <2>1. /\ rest \in Seq(Tasks) /\ OnceEach(rest)
          /\ \A u \in Tasks : In(rest, u) <=> Enqueued(u) /\ u # t
          /\ \A a, b : InOrder(ready, a, b) /\ a # t /\ b # t => InOrder(rest, a, b)
      <3>1. CASE Enqueued(t)
        <4>1. In(ready, t)
          BY <3>1 DEF QueueOK
        <4> QED
          BY <3>1, <4>1, QueueWithout DEF QueueOK
      <3>2. CASE ~Enqueued(t)
        BY <3>2 DEF QueueOK
      <3> QED
        BY <3>1, <3>2
    <2>2. ready' = IF Enqueued(t)' THEN Append(rest, t) ELSE rest
      BY <1>2 DEF Rescheduled
    <2> HIDE DEF rest
    <2>3. \A u \in Tasks : u # t => (Enqueued(u)' <=> Enqueued(u))
      BY <1>2 DEF Moves, Enqueued
    <2>4. ~In(rest, t)
      BY <2>1
    <2>5. /\ ready' \in Seq(Tasks) /\ OnceEach(ready')
          /\ \A u \in Tasks : In(ready', u) <=> (In(rest, u) \/ (u = t /\ Enqueued(t)'))
          /\ \A a, b : InOrder(rest, a, b) => InOrder(ready', a, b)
          /\ \A a : In(rest, a) /\ Enqueued(t)' => InOrder(ready', a, t)
      <3>1. CASE Enqueued(t)'
        BY <2>1, <2>2, <2>4, <3>1, QueueJoined
      <3>2. CASE ~Enqueued(t)'
        BY <2>1, <2>2, <3>2
      <3> QED
        BY <3>1, <3>2
    <2>6. QueueOK'
      <3>1. \A u \in Tasks : Enqueued(u)' <=> In(ready', u)
        BY <2>1, <2>3, <2>5
      <3> QED
        BY <2>5, <3>1 DEF QueueOK, In, OnceEach
    <2>7. ASSUME NEW a \in Tasks, Before(a, t)
          PROVE  OneRound(t)
      <3>1. PICK i, j \in 1 .. Len(ready) : i < j /\ ready[i] = a /\ ready[j] = t
        BY <2>7 DEF Before, InOrder
      <3>2. Enqueued(t)
        BY <3>1 DEF QueueOK, In
      <3>3. Head(ready) # t
        BY <3>1 DEF QueueOK, OnceEach
      <3> QED
        BY <1>2, <3>2, <3>3 DEF MayGoOn
    <2> QED
      BY <2>1, <2>5, <2>6, <2>7 DEF Before, InOrder
  <1>3. CASE /\ \A t \in Tasks : ~Moves(t)
             /\ ready' = ready
    BY <1>1, <1>3
  <1>4. CASE \E t \in Tasks :
               /\ Moves(t) /\ \A u \in Tasks \ {t} : ~Moves(u)
               /\ Enqueued(t) => MayGoOn(t)
               /\ ready' = Rescheduled(t)
    BY <1>2, <1>4
  <1> QED
    BY <1>3, <1>4 DEF Scheduled

-----------------------------------------------------------------------------
(* From the payment to the motor.                                          *)
ToMotor ==
  {"payment_confirmed", "change_requested", "dispensing_change", "vend_authorized", "vending"}

(* A click that is opening a cash session.                                 *)
Started(c) == clicks[c].label = "purchase_started"
Reserved(c) == clicks[c].label = "reserve_created"
Opening(c) == Started(c) \/ Reserved(c)
Sessioned(x) == txs[x].session # "none"

(* Tasks work for transactions that exist.                                 *)
TasksKnown ==
  /\ active \in known \cup {NoTx}
  /\ loop.label \notin {"read", "dead"} => loop.tx \in known
  /\ \A c \in Clicks : Opening(c) => clicks[c].tx \in known

(* What has been vended was known, had a session, and its disable command  *)
(* has been answered; so it is for what is about to be.                    *)
VendedOnce ==
  /\ \A x \in known :
       vends[x] > 0 => vends[x] = 1 /\ Sessioned(x) /\ answered[x].disable
  /\ loop.label \in ToMotor => answered[loop.tx].disable
  /\ loop.label \in ToMotor \cup {"disabling"} => vends[loop.tx] = 0
  /\ loop.label \in ToMotor \cup {"amount_updated", "disabling"} => Sessioned(loop.tx)

PaymentStates ==
  /\ fsm = "PAYMENT_ACCEPTED" => loop.label \in {"payment_confirmed", "vend_authorized", "dead"}
  /\ fsm \in {"WAITING_FOR_PAYMENT", "ACCEPTING_CASH"} =>
       /\ active # NoTx => vends[active] = 0
       /\ loop.label \in ToMotor => loop.tx # active

OpeningClicks ==
  /\ active # NoTx /\ Sessioned(active) => \A c \in Clicks : ~Opening(c)
  /\ \A c, d \in Clicks :
       Opening(c) /\ Opening(d) /\ c # d =>
         /\ clicks[c].tx # clicks[d].tx
         /\ clicks[c].tx = active =>
              /\ Started(d) => Started(c)
              /\ (Started(c) <=> Started(d)) => Before(d, c)

(* A late bill for a product already vended passes before the next session *)
(* opens.                                                                  *)
LateBills ==
  /\ loop.label = "device_event" /\ vends[loop.tx] > 0 =>
       /\ fsm # "ACCEPTING_CASH"
       /\ \A c \in Clicks : ~Reserved(c) /\ (Started(c) => Before("loop", c))
  /\ loop.label = "amount_updated" /\ vends[loop.tx] > 0 =>
       /\ fsm # "ACCEPTING_CASH"
       /\ \A c \in Clicks : Reserved(c) => Before("loop", c)

(* The invariant of one run of the program, and what a program that never  *)
(* stops adds to it.                                                       *)
LifeInv == QueueOK /\ TasksKnown /\ VendedOnce /\ PaymentStates /\ OpeningClicks /\ LateBills
VendedKnown == \A x \in Transactions : vends[x] > 0 => x \in known
VendInv == LifeInv /\ VendedKnown

-----------------------------------------------------------------------------
(* The steps, as far as the motor is concerned.                            *)

CashStates == {"WAITING_FOR_PAYMENT", "ACCEPTING_CASH", "PAYMENT_ACCEPTED"}
FsmLeaves == fsm' = fsm \/ fsm' \notin CashStates
LoopAt(where) == loop'.label = where /\ loop'.tx = loop.tx
LoopStays == loop'.label = loop.label /\ loop'.tx = loop.tx
SessionsStay == \A x \in known : Sessioned(x)' = Sessioned(x)
DisabledStays == \A x \in Transactions : answered'[x].disable = answered[x].disable
Others(c) == \A d \in Clicks \ {c} : clicks'[d] = clicks[d]
NobodyOpens ==
  \A c \in Clicks :
    clicks'[c].label \in {"purchase_started", "reserve_created"} =>
      clicks'[c].label = clicks[c].label /\ clicks'[c].tx = clicks[c].tx

(* Nothing that leads to the motor.                                        *)
Elsewhere ==
  /\ LoopStays /\ vends' = vends /\ known' = known /\ active' \in {active, NoTx}
  /\ DisabledStays /\ SessionsStay /\ NobodyOpens /\ FsmLeaves

Creates(c, x) ==
  /\ clicks[c].label = "sensing" /\ active = NoTx /\ x \notin known
  /\ known' = known \cup {x} /\ active' = x
  /\ SessionsStay /\ ~Sessioned(x)'
  /\ LoopStays /\ vends' = vends /\ DisabledStays /\ Others(c)
  /\ \/ /\ fsm' = "WAITING_FOR_PAYMENT" /\ fsm # "PAYMENT_ACCEPTED"
        /\ clicks'[c].label = "purchase_started" /\ clicks'[c].tx = x
     \/ fsm' = fsm /\ clicks'[c].label = "idle"

Reserves(c) ==
  /\ Started(c) /\ clicks'[c].label = "reserve_created" /\ clicks'[c].tx = clicks[c].tx
  /\ Others(c)
  /\ LoopStays /\ vends' = vends /\ known' = known /\ active' = active /\ fsm' = fsm
  /\ DisabledStays /\ SessionsStay

Opens(c) ==
  /\ Reserved(c) /\ clicks'[c].label \in {"enabling", "idle"} /\ Others(c)
  /\ LoopStays /\ vends' = vends /\ known' = known /\ active' = active
  /\ DisabledStays
  /\ \A x \in known : Sessioned(x)' <=> Sessioned(x) \/ x = clicks[c].tx
  /\ \/ fsm' = fsm
     \/ fsm \in {"WAITING_FOR_PAYMENT", "ACCEPTING_CASH"} /\ fsm' = "ACCEPTING_CASH"

(* The validator loop: nothing else changes.                               *)
LoopOnly ==
  known' = known /\ active' = active /\ clicks' = clicks /\ SessionsStay

Reads ==
  /\ loop.label = "read" /\ active # NoTx
  /\ loop'.label = "device_event" /\ loop'.tx = active
  /\ fsm' = fsm /\ vends' = vends /\ DisabledStays

Credits ==
  /\ loop.label = "device_event" /\ LoopAt("amount_updated") /\ Sessioned(loop.tx)
  /\ fsm' = fsm /\ vends' = vends /\ DisabledStays

Disables ==
  /\ loop.label = "amount_updated" /\ LoopAt("disabling") /\ ~answered[loop.tx].disable
  /\ fsm' = fsm /\ vends' = vends /\ DisabledStays

Accepts ==
  /\ \/ loop.label = "amount_updated" /\ answered[loop.tx].disable
     \/ loop.label = "disabling"
  /\ LoopAt("payment_confirmed")
  /\ fsm \in {"ACCEPTING_CASH", "PAYMENT_ACCEPTED"} /\ fsm' = "PAYMENT_ACCEPTED"
  /\ vends' = vends
  /\ \A x \in Transactions : answered'[x].disable <=> answered[x].disable \/ x = loop.tx

Advances ==
  /\ loop.label \in ToMotor /\ loop'.label \in ToMotor \ {"payment_confirmed"}
  /\ loop'.tx = loop.tx /\ vends' = vends /\ DisabledStays
  /\ \/ fsm' = fsm /\ (loop'.label = "vend_authorized" \/ loop.label = "change_requested")
     \/ fsm' \notin CashStates

(* The loop leaves the way to the motor, having run it or not.             *)
MovesOn ==
  /\ loop.label \notin {"read", "dead"}
  /\ \/ loop'.label \in {"read", "dead"}
     \/ loop'.label \in {"product_dispensed", "opening_window"} /\ loop'.tx = loop.tx
  /\ loop.label \in {"payment_confirmed", "vend_authorized"} => loop'.label = "dead"
  /\ FsmLeaves
  /\ \/ vends' = vends
     \/ loop.label = "vending" /\ vends' = [vends EXCEPT ![loop.tx] = @ + 1]
  /\ \A x \in Transactions : answered[x].disable => answered'[x].disable

LoopForms ==
  LoopOnly /\ (Reads \/ Credits \/ Disables \/ Accepts \/ Advances \/ MovesOn)

Forms ==
  \/ Elsewhere
  \/ \E c \in Clicks : Reserves(c) \/ Opens(c) \/ \E x \in Transactions : Creates(c, x)
  \/ LoopForms

(* The methods of a transaction other than attach_payment_session neither  *)
(* give it a session nor take it away.                                     *)
SameSession(r, s) == r.session = "none" <=> s.session = "none"

LEMMA MethodsKeepSession ==
  ASSUME NEW x \in TransactionRecords, NEW plan, NEW bill
  PROVE  /\ SameSession(AttachChangeReserve(x, plan), x)
         /\ SameSession(DropReserve(x), x)
         /\ SameSession(RecordStackedCash(x, bill), x)
         /\ SameSession(ConfirmPayment(x), x)
         /\ SameSession(MarkChangePending(x), x)
         /\ SameSession(MarkChangePending(AttachChangeReserve(x, plan)), x)
         /\ SameSession(MarkChangeDispensed(x), x)
         /\ SameSession(MarkChangePartial(x), x)
         /\ SameSession(AuthorizeVend(x), x)
         /\ SameSession(MarkProductDispensed(x), x)
         /\ SameSession(MarkWindowOpened(x), x)
         /\ SameSession(ConfirmPickup(x), x)
         /\ SameSession(MarkWindowClosed(x), x)
         /\ SameSession(MarkPickupTimedOutWindowClosed(x), x)
         /\ SameSession(Cancel(x), x)
         /\ SameSession(Cancel(DropReserve(x)), x)
         /\ SameSession(MarkFaulted(x), x)
         /\ SameSession(MarkAmbiguous(x), x)
  BY DEF TransactionRecords, SameSession, AttachChangeReserve, DropReserve, RecordStackedCash,
         ConfirmPayment, MarkChangePending, MarkChangeDispensed, MarkChangePartial,
         AuthorizeVend, MarkProductDispensed, MarkWindowOpened, ConfirmPickup,
         MarkWindowClosed, MarkPickupTimedOutWindowClosed, Cancel, MarkFaulted, MarkAmbiguous

LEMMA RecordKeepsSessions ==
  ASSUME LedgerOK, NEW x \in Transactions, NEW r, Record(x, r), SameSession(r, txs[x])
  PROVE  SessionsStay
  BY DEF LedgerOK, Record, SameSession, SessionsStay, Sessioned

(* A task of the loop with its transaction.                                *)
LEMMA LoopHasRecord ==
  ASSUME DataOK, loop.label \notin {"read", "dead"}
  PROVE  loop.tx \in Transactions /\ txs[loop.tx] \in TransactionRecords
  BY DEF DataOK, LoopOK, LedgerOK

LEMMA LoopRecordsKeepSessions ==
  ASSUME DataOK, loop.label \notin {"read", "dead"},
         \/ UNCHANGED txs
         \/ \E r : Record(loop.tx, r) /\ SameSession(r, txs[loop.tx])
  PROVE  SessionsStay
  BY LoopHasRecord, RecordKeepsSessions DEF DataOK, SessionsStay, Sessioned

(* Loop steps that end it, one way or another.                             *)
LEMMA LoopDiesTo ==
  ASSUME DataOK, LoopDies \/ loop' = ReadingLoop
  PROVE  loop'.label \in {"read", "dead"} /\ (LoopDies => loop'.label = "dead")
  BY DEF LoopDies, DeadLoop, ReadingLoop

LEMMA LoopGoes ==
  ASSUME DataOK, NEW where, LoopGoesTo(where)
  PROVE  LoopAt(where)
  BY DEF DataOK, LoopOK, LoopRecords, LoopGoesTo, LoopAt

LEMMA LoopProceedsOrDies ==
  ASSUME DataOK, NEW s, NEW where, NEW shown, LoopProceeds(s, where, shown)
  PROVE  \/ TransitionReturns(fsm, s) /\ fsm' = s /\ LoopAt(where)
         \/ loop'.label = "dead" /\ fsm' = fsm
  BY LoopGoes, LoopDiesTo DEF LoopProceeds, Project, machine

LEMMA PayoutRaisesLeaves ==
  ASSUME DataOK, PayoutRaises
  PROVE  loop'.label = "dead" /\ FsmLeaves
  BY LoopDiesTo DEF PayoutRaises, ProjectIfLegal, Project, FsmLeaves, CashStates

LEMMA PaymentLoopForms ==
  ASSUME DataOK, PaymentLoopStep
  PROVE  Forms
  <1> DEFINE x == txs[loop.tx]
  <1>a. SameSession(x, x)
    BY DEF SameSession
  <1>1. CASE ReadEvent
    <2>1. LoopOnly /\ fsm' = fsm /\ vends' = vends /\ DisabledStays /\ FsmLeaves
      BY <1>1 DEF ReadEvent, LoopOnly, machine, ledger, goods, SessionsStay, Sessioned,
                  DisabledStays, FsmLeaves
    <2>2. CASE active = NoTx
      <3>1. Elsewhere
        BY <1>1, <2>1, <2>2 DEF ReadEvent, Elsewhere, LoopOnly, LoopStays, NobodyOpens
      <3> QED
        BY <3>1 DEF Forms
    <2>3. CASE active # NoTx
      <3>1. Reads
        BY <1>1, <2>1, <2>3 DEF ReadEvent, Reads, DataOK, LoopOK, LoopRecords
      <3> QED
        BY <2>1, <3>1 DEF Forms, LoopForms
    <2> QED
      BY <2>2, <2>3
  <1>2. CASE ValidatorFault
    <2>1. loop.tx \in Transactions /\ SameSession(MarkFaulted(x), x)
      BY <1>2, LoopHasRecord, MethodsKeepSession DEF ValidatorFault
    <2>2. SessionsStay
      BY <1>2, <2>1, LoopRecordsKeepSessions DEF ValidatorFault
    <2>3. FsmLeaves
      BY <1>2 DEF ValidatorFault, ProjectIfLegal, Project, FsmLeaves, CashStates
    <2>4. LoopOnly /\ MovesOn
      BY <1>2, <2>2, <2>3, LoopDiesTo DEF ValidatorFault, LoopOnly, MovesOn, goods
    <2> QED
      BY <2>4 DEF Forms, LoopForms
  <1>3. CASE CreditBill
    <2>1. loop.label = "device_event"
      BY <1>3 DEF CreditBill
    <2>2. SameSession(RecordStackedCash(x, loop.event), x)
      BY <2>1, LoopHasRecord, MethodsKeepSession
    <2>3. SessionsStay
      BY <1>3, <2>1, <2>2, LoopRecordsKeepSessions DEF CreditBill
    <2>4. LoopOnly /\ fsm' = fsm /\ vends' = vends /\ DisabledStays
      BY <1>3, <2>3 DEF CreditBill, LoopOnly, machine, goods, DisabledStays
    <2>5. CASE RecordStackedCashReturns(x)
      <3>1. Credits
        BY <1>3, <2>1, <2>4, <2>5, LoopGoes
        DEF CreditBill, Credits, RecordStackedCashReturns, Sessioned
      <3> QED
        BY <2>4, <3>1 DEF Forms, LoopForms
    <2>6. CASE ~RecordStackedCashReturns(x)
      <3>1. MovesOn
        BY <1>3, <2>1, <2>4, <2>6, LoopDiesTo DEF CreditBill, MovesOn, FsmLeaves, DisabledStays
      <3> QED
        BY <2>4, <3>1 DEF Forms, LoopForms
    <2> QED
      BY <2>5, <2>6
  <1>4. CASE AwaitMoreCash
    <2>1. LoopOnly /\ fsm' = fsm /\ vends' = vends /\ DisabledStays
      BY <1>4 DEF AwaitMoreCash, LoopOnly, machine, ledger, goods, DisabledStays, SessionsStay,
                  Sessioned
    <2>2. MovesOn
      BY <1>4, <2>1, LoopDiesTo DEF AwaitMoreCash, MovesOn, FsmLeaves, DisabledStays
    <2> QED
      BY <2>1, <2>2 DEF Forms, LoopForms
  <1>5. CASE CompletePayment
    <2>1. loop.label = "amount_updated" /\ loop.tx \in Transactions
      BY <1>5, LoopHasRecord DEF CompletePayment
    <2>2. SameSession(ConfirmPayment(x), x)
      BY <2>1, LoopHasRecord, MethodsKeepSession
    <2>3. LoopOnly /\ vends' = vends /\ answered' = answered
      BY <1>5, <2>1, <2>2, LoopRecordsKeepSessions DEF CompletePayment, LoopOnly, goods
    <2>4. CASE answered[loop.tx].disable
      <3>1. AcceptPayment
        BY <1>5, <2>4 DEF CompletePayment
      <3>2. CASE /\ TransitionReturns(fsm, "PAYMENT_ACCEPTED") /\ fsm' = "PAYMENT_ACCEPTED"
                 /\ LoopAt("payment_confirmed")
        <4>1. fsm \in {"ACCEPTING_CASH", "PAYMENT_ACCEPTED"}
          BY <3>2 DEF TransitionReturns, CanTransition, Predecessors
        <4>2. Accepts
          BY <2>1, <2>3, <2>4, <3>2, <4>1 DEF Accepts
        <4> QED
          BY <2>3, <4>2 DEF Forms, LoopForms
      <3>3. CASE loop'.label = "dead" /\ fsm' = fsm
        <4>1. MovesOn
          BY <2>1, <2>3, <3>3 DEF MovesOn, FsmLeaves
        <4> QED
          BY <2>3, <4>1 DEF Forms, LoopForms
      <3> QED
        BY <3>1, <3>2, <3>3, LoopProceedsOrDies DEF AcceptPayment
    <2>5. CASE ~answered[loop.tx].disable
      <3>1. Disables
        BY <1>5, <2>1, <2>3, <2>5, LoopGoes DEF CompletePayment, Disables, DisabledStays, machine
      <3> QED
        BY <2>3, <3>1 DEF Forms, LoopForms
    <2> QED
      BY <2>4, <2>5
  <1>6. CASE AcceptanceDisabled
    <2>1. loop.label = "disabling" /\ loop.tx \in Transactions
      BY <1>6, LoopHasRecord DEF AcceptanceDisabled
    <2>2. LoopOnly /\ vends' = vends
      BY <1>6 DEF AcceptanceDisabled, LoopOnly, goods, ledger, SessionsStay, Sessioned
    <2>3. \A y \in Transactions : answered'[y].disable <=> answered[y].disable \/ y = loop.tx
      BY <1>6, <2>1 DEF AcceptanceDisabled, DataOK, DevicesOK, Answers
    <2>4. CASE /\ TransitionReturns(fsm, "PAYMENT_ACCEPTED") /\ fsm' = "PAYMENT_ACCEPTED"
               /\ LoopAt("payment_confirmed")
      <3>1. fsm \in {"ACCEPTING_CASH", "PAYMENT_ACCEPTED"}
        BY <2>4 DEF TransitionReturns, CanTransition, Predecessors
      <3>2. Accepts
        BY <2>1, <2>2, <2>3, <2>4, <3>1 DEF Accepts
      <3> QED
        BY <2>2, <3>2 DEF Forms, LoopForms
    <2>5. CASE loop'.label = "dead" /\ fsm' = fsm
      <3>1. MovesOn
        BY <2>1, <2>2, <2>3, <2>5 DEF MovesOn, FsmLeaves
      <3> QED
        BY <2>2, <3>1 DEF Forms, LoopForms
    <2> QED
      BY <1>6, <2>4, <2>5, LoopProceedsOrDies DEF AcceptanceDisabled, AcceptPayment
  <1>7. CASE DisableFails
    <2>1. loop.tx \in Transactions /\ SameSession(MarkAmbiguous(x), x)
      BY <1>7, LoopHasRecord, MethodsKeepSession DEF DisableFails
    <2>2. SessionsStay
      BY <1>7, <2>1, LoopRecordsKeepSessions DEF DisableFails
    <2>3. LoopOnly /\ MovesOn
      BY <1>7, <2>2, LoopDiesTo
      DEF DisableFails, LoopOnly, MovesOn, goods, Project, FsmLeaves, CashStates
    <2> QED
      BY <2>3 DEF Forms, LoopForms
  <1>8. CASE FinalizeReserve
    <2>1. loop.label = "payment_confirmed"
      BY <1>8 DEF FinalizeReserve
    <2>2. /\ SameSession(DropReserve(x), x)
          /\ \A plan : SameSession(MarkChangePending(AttachChangeReserve(x, plan)), x)
      BY <2>1, LoopHasRecord, MethodsKeepSession
    <2>3. SessionsStay
      BY <1>8, <2>1, <2>2, LoopRecordsKeepSessions DEF FinalizeReserve
    <2>4. LoopOnly /\ vends' = vends /\ DisabledStays
      BY <1>8, <2>3 DEF FinalizeReserve, LoopOnly, goods, DisabledStays
    <2>5. \/ LoopGoesTo("vend_authorized") /\ UNCHANGED machine
          \/ PayoutRaises
          \/ LoopProceeds("DISPENSING_CHANGE", "change_requested", "dispensing")
      BY <1>8 DEF FinalizeReserve
    <2>6. CASE LoopGoesTo("vend_authorized") /\ UNCHANGED machine
      <3>1. Advances
        BY <2>1, <2>4, <2>6, LoopGoes DEF Advances, ToMotor, LoopAt, machine
      <3> QED
        BY <2>4, <3>1 DEF Forms, LoopForms
    <2>7. CASE PayoutRaises
      <3>1. MovesOn
        BY <2>1, <2>4, <2>7, PayoutRaisesLeaves DEF MovesOn, DisabledStays
      <3> QED
        BY <2>4, <3>1 DEF Forms, LoopForms
    <2>8. CASE fsm' = "DISPENSING_CHANGE" /\ LoopAt("change_requested")
      <3>1. Advances
        BY <2>1, <2>4, <2>8 DEF Advances, ToMotor, LoopAt, CashStates
      <3> QED
        BY <2>4, <3>1 DEF Forms, LoopForms
    <2>9. CASE loop'.label = "dead" /\ fsm' = fsm
      <3>1. MovesOn
        BY <2>1, <2>4, <2>9 DEF MovesOn, FsmLeaves, DisabledStays
      <3> QED
        BY <2>4, <3>1 DEF Forms, LoopForms
    <2> QED
      BY <2>5, <2>6, <2>7, <2>8, <2>9, LoopProceedsOrDies
  <1>9. CASE RequestChange
    <2>1. LoopOnly /\ vends' = vends /\ DisabledStays
      BY <1>9 DEF RequestChange, LoopOnly, ledger, goods, DisabledStays, SessionsStay, Sessioned
    <2>2. CASE PayoutRaises
      <3>1. MovesOn
        BY <1>9, <2>1, <2>2, PayoutRaisesLeaves DEF RequestChange, MovesOn, DisabledStays
      <3> QED
        BY <2>1, <3>1 DEF Forms, LoopForms
    <2>3. CASE /\ loop' = [loop EXCEPT !.label = "dispensing_change", !.plan = x.change_reserve]
               /\ UNCHANGED machine
      <3>1. Advances
        BY <1>9, <2>1, <2>3
        DEF RequestChange, Advances, ToMotor, machine, DataOK, LoopOK, LoopRecords
      <3> QED
        BY <2>1, <3>1 DEF Forms, LoopForms
    <2> QED
      BY <1>9, <2>2, <2>3 DEF RequestChange
  <1>10. CASE ChangeDispensed
    <2>1. loop.label = "dispensing_change"
      BY <1>10 DEF ChangeDispensed
    <2>2. SameSession(MarkChangeDispensed(x), x)
      BY <2>1, LoopHasRecord, MethodsKeepSession
    <2>3. SessionsStay
      BY <1>10, <2>1, <2>2, LoopRecordsKeepSessions DEF ChangeDispensed
    <2>4. LoopOnly /\ vends' = vends /\ DisabledStays
      BY <1>10, <2>3 DEF ChangeDispensed, LoopOnly, goods, DisabledStays
    <2>5. CASE PayoutRaises
      <3>1. MovesOn
        BY <2>1, <2>4, <2>5, PayoutRaisesLeaves DEF MovesOn, DisabledStays
      <3> QED
        BY <2>4, <3>1 DEF Forms, LoopForms
    <2>6. CASE LoopGoesTo("vend_authorized") /\ UNCHANGED machine
      <3>1. Advances
        BY <2>1, <2>4, <2>6, LoopGoes DEF Advances, ToMotor, LoopAt, machine
      <3> QED
        BY <2>4, <3>1 DEF Forms, LoopForms
    <2> QED
      BY <1>10, <2>5, <2>6 DEF ChangeDispensed
  <1>11. CASE ChangeNotDispensed \/ ChangeCommandRaises
    <2>1. loop.label = "dispensing_change"
      BY <1>11 DEF ChangeNotDispensed, ChangeCommandRaises
    <2>2. SameSession(MarkChangePartial(x), x) /\ SameSession(MarkAmbiguous(x), x)
      BY <2>1, LoopHasRecord, MethodsKeepSession
    <2>3. SessionsStay
      BY <1>11, <2>1, <2>2, LoopRecordsKeepSessions
      DEF ChangeNotDispensed, ChangeCommandRaises, ledger
    <2>4. LoopOnly /\ MovesOn
      BY <1>11, <2>1, <2>3, PayoutRaisesLeaves
      DEF ChangeNotDispensed, ChangeCommandRaises, LoopOnly, MovesOn, goods, ledger
    <2> QED
      BY <2>4 DEF Forms, LoopForms
  <1> QED
    BY <1>1, <1>2, <1>3, <1>4, <1>5, <1>6, <1>7, <1>8, <1>9, <1>10, <1>11 DEF PaymentLoopStep

LEMMA VendLoopForms ==
  ASSUME DataOK, VendLoopStep
  PROVE  Forms
  <1> DEFINE x == txs[loop.tx]
  <1>a. loop.label \notin {"read", "dead"}
    BY DEF VendLoopStep, VendAuthorized, ProductVended, VendFails, OpenWindow, WindowOpened,
           OpenFails
  <1>b. /\ SameSession(AuthorizeVend(x), x) /\ SameSession(MarkProductDispensed(x), x)
        /\ SameSession(MarkWindowOpened(x), x) /\ SameSession(MarkFaulted(x), x)
    BY <1>a, LoopHasRecord, MethodsKeepSession
  <1>c. SessionsStay
    <2>1. UNCHANGED txs \/ \E r : Record(loop.tx, r) /\ SameSession(r, x)
      BY <1>b DEF VendLoopStep, VendAuthorized, ProductVended, VendFails, OpenWindow,
                  WindowOpened, OpenFails, ledger
    <2> QED
      BY <1>a, <2>1, LoopRecordsKeepSessions
  <1>d. LoopOnly /\ answered' = answered
    BY <1>c DEF VendLoopStep, VendAuthorized, ProductVended, VendFails, OpenWindow,
                WindowOpened, OpenFails, ledger, LoopOnly
  <1>1. CASE VendAuthorized
    <2>1. CASE loop'.label = "dead" /\ fsm' = fsm
      <3>1. MovesOn
        BY <1>1, <1>d, <2>1 DEF VendAuthorized, MovesOn, FsmLeaves, goods
      <3> QED
        BY <1>d, <3>1 DEF Forms, LoopForms
    <2>2. CASE fsm' = "DISPENSING_PRODUCT" /\ LoopAt("vending")
      <3>1. Advances
        BY <1>1, <1>d, <2>2
        DEF VendAuthorized, Advances, ToMotor, CashStates, LoopAt, goods, DisabledStays
      <3> QED
        BY <1>d, <3>1 DEF Forms, LoopForms
    <2>3. \/ LoopProceeds("DISPENSING_PRODUCT", "vending", "dispensing")
          \/ LoopDies /\ UNCHANGED machine
      BY <1>1 DEF VendAuthorized
    <2> QED
      BY <2>1, <2>2, <2>3, LoopProceedsOrDies, LoopDiesTo DEF machine
  <1>2. CASE ProductVended \/ VendFails
    <2>1. loop'.label = "dead" \/ LoopAt("product_dispensed")
      BY <1>2, LoopGoes, LoopDiesTo DEF ProductVended, VendFails
    <2>2. FsmLeaves
      BY <1>2 DEF ProductVended, VendFails, machine, ProjectIfLegal, Project, FsmLeaves, CashStates
    <2>3. MovesOn
      BY <1>2, <1>d, <2>1, <2>2 DEF ProductVended, VendFails, MovesOn, MotorRuns, LoopAt
    <2> QED
      BY <1>d, <2>3 DEF Forms, LoopForms
  <1>3. CASE OpenWindow
    <2>1. \/ loop'.label = "dead" /\ fsm' = fsm
          \/ fsm' = "OPENING_DELIVERY_WINDOW" /\ LoopAt("opening_window")
      BY <1>3, LoopProceedsOrDies DEF OpenWindow
    <2>2. MovesOn
      BY <1>3, <1>d, <2>1 DEF OpenWindow, MovesOn, FsmLeaves, CashStates, LoopAt, goods
    <2> QED
      BY <1>d, <2>2 DEF Forms, LoopForms
  <1>4. CASE WindowOpened \/ OpenFails
    <2>1. loop'.label \in {"read", "dead"}
      BY <1>4, LoopDiesTo DEF WindowOpened, OpenFails
    <2>2. FsmLeaves
      BY <1>4
      DEF WindowOpened, OpenFails, machine, ProjectIfLegal, Project, FsmLeaves, CashStates
    <2>3. MovesOn
      BY <1>4, <1>d, <2>1, <2>2 DEF WindowOpened, OpenFails, MovesOn
    <2> QED
      BY <1>d, <2>3 DEF Forms, LoopForms
  <1> QED
    BY <1>1, <1>2, <1>3, <1>4 DEF VendLoopStep

(* A click that goes to where nobody opens a session.                      *)
LEMMA ClickElsewhere ==
  ASSUME DataOK, NEW c \in Clicks,
         \/ EndClick(c) \/ UNCHANGED clicks
         \/ \E where, y, plan :
              /\ Suspend(c, where, y, plan)
              /\ where \notin {"purchase_started", "reserve_created"}
  PROVE  NobodyOpens /\ Others(c)
  <1>1. CASE EndClick(c)
    BY <1>1 DEF DataOK, ClicksOK, EndClick, IdleClick, NobodyOpens, Others
  <1>2. CASE UNCHANGED clicks
    BY <1>2 DEF NobodyOpens, Others
  <1>3. CASE \E where, y, plan :
               /\ Suspend(c, where, y, plan)
               /\ where \notin {"purchase_started", "reserve_created"}
    BY <1>3 DEF DataOK, ClicksOK, Suspend, NobodyOpens, Others
  <1> QED
    BY <1>1, <1>2, <1>3

LEMMA RecordsKeepSessions ==
  ASSUME DataOK,
         \/ UNCHANGED txs
         \/ \E y \in Transactions : \E r : Record(y, r) /\ SameSession(r, txs[y])
  PROVE  SessionsStay
  BY RecordKeepsSessions DEF DataOK, SessionsStay, Sessioned

(* What the payment clicks do, short of opening a session.                 *)
PaymentClickMisses(c) ==
  \/ AcceptanceEnabled(c) \/ EnableFails(c)
  \/ CancelDisabled(c) \/ CancelDisableFails(c) \/ RequestRefund(c)
  \/ RefundDispensed(c) \/ RefundNotDispensed(c) \/ RefundCommandRaises(c)
  \/ RefundPublished(c) \/ CancelPublished(c)

LEMMA PaymentClickElsewhere ==
  ASSUME DataOK, NEW c \in Clicks, PaymentClickMisses(c)
  PROVE  Elsewhere
  <1> DEFINE y == clicks[c].tx
             x == txs[y]
  <1> USE DEF PaymentClickMisses
  <1>1. loop' = loop /\ vends' = vends /\ known' = known
    BY DEF AcceptanceEnabled, EnableFails, CancelDisabled, CancelDisableFails, RequestRefund,
           RefundDispensed, RefundNotDispensed, RefundCommandRaises, RefundPublished,
           CancelPublished, ledger, goods
  <1>2. active' \in {active, NoTx}
    BY DEF AcceptanceEnabled, EnableFails, CancelDisabled, CancelDisableFails, RequestRefund,
           RefundDispensed, RefundNotDispensed, RefundCommandRaises, RefundPublished,
           CancelPublished, ledger, ClearActive
  <1>3. DisabledStays
    BY DEF AcceptanceEnabled, EnableFails, CancelDisabled, CancelDisableFails, RequestRefund,
           RefundDispensed, RefundNotDispensed, RefundCommandRaises, RefundPublished,
           CancelPublished, DisabledStays, DataOK, DevicesOK, Answers
  <1>4. FsmLeaves
    BY DEF AcceptanceEnabled, EnableFails, CancelDisabled, CancelDisableFails, RequestRefund,
           RefundDispensed, RefundNotDispensed, RefundCommandRaises, RefundPublished,
           CancelPublished, FinishCancel, RefundAnswered, RefundRaises, Project,
           ProjectIfLegal, machine, FsmLeaves, CashStates
  <1>5. NobodyOpens
    <2>1. \/ EndClick(c) \/ UNCHANGED clicks
          \/ \E where, z, plan :
               /\ Suspend(c, where, z, plan)
               /\ where \notin {"purchase_started", "reserve_created"}
      <3>1. CASE AcceptanceEnabled(c) \/ EnableFails(c) \/ CancelDisableFails(c)
                   \/ RefundCommandRaises(c) \/ CancelPublished(c)
        BY <3>1 DEF AcceptanceEnabled, EnableFails, CancelDisableFails, RefundCommandRaises,
                    CancelPublished, ClickRejected
      <3>2. CASE CancelDisabled(c) \/ RefundPublished(c)
        BY <3>2 DEF CancelDisabled, RefundPublished, FinishCancel, ClickRejected
      <3>3. CASE RequestRefund(c) \/ RefundDispensed(c) \/ RefundNotDispensed(c)
        BY <3>3 DEF RequestRefund, RefundDispensed, RefundNotDispensed, RefundAnswered,
                    ClickRejected
      <3> QED
        BY <3>1, <3>2, <3>3
    <2> QED
      BY <2>1, ClickElsewhere
  <1>6. SessionsStay
    <2>1. CASE AcceptanceEnabled(c) \/ CancelPublished(c)
      BY <2>1, RecordsKeepSessions DEF AcceptanceEnabled, CancelPublished, ledger
    <2>2. CASE ~(AcceptanceEnabled(c) \/ CancelPublished(c))
      <3>1. clicks[c].label \notin {"idle", "sensing"}
        BY <2>2 DEF EnableFails, CancelDisabled, CancelDisableFails, RequestRefund,
           RefundDispensed, RefundNotDispensed, RefundCommandRaises, RefundPublished
      <3>2. y \in Transactions /\ x \in TransactionRecords
        BY <3>1 DEF DataOK, ClicksOK, LedgerOK
      <3>3. /\ SameSession(MarkFaulted(x), x) /\ SameSession(MarkAmbiguous(x), x)
            /\ SameSession(DropReserve(x), x) /\ SameSession(Cancel(DropReserve(x)), x)
        BY <3>2, MethodsKeepSession
      <3>4. UNCHANGED txs \/ \E r : Record(y, r) /\ SameSession(r, x)
        BY <2>2, <3>3
        DEF EnableFails, CancelDisabled, CancelDisableFails, RequestRefund, RefundDispensed,
            RefundNotDispensed, RefundCommandRaises, RefundPublished, FinishCancel,
            RefundAnswered, RefundRaises
      <3> QED
        BY <3>2, <3>4, RecordsKeepSessions
    <2> QED
      BY <2>1, <2>2
  <1> QED
    BY <1>1, <1>2, <1>3, <1>4, <1>5, <1>6 DEF Elsewhere, LoopStays

(* Opening a session with the reserve made, or with none to make.          *)
LEMMA SessionOpens ==
  ASSUME DataOK, NEW c \in Clicks, ReserveCreated(c)
  PROVE  Opens(c)
  <1> DEFINE y == clicks[c].tx
             x == txs[y]
  <1>1. y \in Transactions /\ x \in TransactionRecords
    BY DEF ReserveCreated, DataOK, ClicksOK, LedgerOK
  <1>2. LoopStays /\ vends' = vends /\ known' = known /\ active' = active /\ DisabledStays
    BY DEF ReserveCreated, LoopStays, DisabledStays, goods
  <1>3. OpenSession(c, y, x, status)
    BY DEF ReserveCreated
  <1>4. \A z \in known : Sessioned(z)' <=> Sessioned(z) \/ z = y
    <2>1. AttachPaymentSession(x).session # "none"
      BY <1>1 DEF AttachPaymentSession, TransactionRecords
    <2> QED
      BY <1>1, <1>3, <2>1 DEF OpenSession, Record, Sessioned, DataOK, LedgerOK
  <1>5. clicks'[c].label \in {"enabling", "idle"} /\ Others(c)
    BY <1>3 DEF OpenSession, Suspend, ClickRejected, EndClick, IdleClick, Others, DataOK, ClicksOK
  <1>6. \/ fsm' = fsm
        \/ fsm \in {"WAITING_FOR_PAYMENT", "ACCEPTING_CASH"} /\ fsm' = "ACCEPTING_CASH"
    BY <1>3 DEF OpenSession, TransitionReturns, CanTransition, Predecessors, Project
  <1> QED
    BY <1>2, <1>4, <1>5, <1>6 DEF ReserveCreated, Reserved, Opens

(* start_cash_session: refused, reserving the change, or opening.          *)
LEMMA OpeningClickForms ==
  ASSUME DataOK, WorstCaseChange > 0, NEW c \in Clicks, StartCashSession(c) \/ ReserveCreated(c)
  PROVE  Forms
  <1> DEFINE y == clicks[c].tx
             x == txs[y]
  <1>a. y \in Transactions /\ x \in TransactionRecords
    BY DEF StartCashSession, ReserveCreated, DataOK, ClicksOK, LedgerOK
  <1>b. /\ LoopStays /\ vends' = vends /\ known' = known /\ active' = active /\ DisabledStays
    BY DEF StartCashSession, ReserveCreated, LoopStays, DisabledStays, goods
  <1>1. CASE StartCashSession(c)
    <2>1. \/ ClickRejected(c) /\ UNCHANGED <<fsm, txs>>
          \/ \E plan : /\ Record(y, AttachChangeReserve(x, plan))
                       /\ Suspend(c, "reserve_created", y, NoPieces)
                       /\ UNCHANGED fsm
      BY <1>1 DEF StartCashSession, machine
    <2>2. CASE ClickRejected(c) /\ UNCHANGED <<fsm, txs>>
      <3>1. Elsewhere
        BY <1>b, <2>2, ClickElsewhere, RecordsKeepSessions DEF ClickRejected, Elsewhere, FsmLeaves
      <3> QED
        BY <3>1 DEF Forms
    <2>3. CASE \E plan : /\ Record(y, AttachChangeReserve(x, plan))
                         /\ Suspend(c, "reserve_created", y, NoPieces)
                         /\ UNCHANGED fsm
      <3>1. SessionsStay
        BY <1>a, <2>3, RecordsKeepSessions, MethodsKeepSession
      <3>2. Reserves(c)
        BY <1>1, <1>b, <2>3, <3>1
        DEF StartCashSession, Suspend, Reserves, Started, Others, DataOK, ClicksOK
      <3> QED
        BY <3>2 DEF Forms
    <2> QED
      BY <2>1, <2>2, <2>3
  <1>2. CASE ReserveCreated(c)
    BY <1>2, SessionOpens DEF Forms
  <1> QED
    BY <1>1, <1>2

(* create_transaction opens the way for one click.                         *)
LEMMA CreationForms ==
  ASSUME DataOK, NEW c \in Clicks, NEW x \in Transactions, CreateTransaction(c, x)
  PROVE  Creates(c, x)
  <1>1. /\ clicks[c].label = "sensing" /\ active = NoTx /\ x \notin known
        /\ known' = known \cup {x} /\ active' = x
        /\ LoopStays /\ vends' = vends /\ DisabledStays
    BY DEF CreateTransaction, LoopStays, DisabledStays, goods
  <1>2. SessionsStay /\ ~Sessioned(x)'
    BY <1>1 DEF CreateTransaction, Record, NewTransaction, SessionsStay, Sessioned, DataOK, LedgerOK
  <1>3. Others(c)
    BY DEF CreateTransaction, Suspend, ClickRejected, EndClick, Others, DataOK, ClicksOK
  <1>4. \/ /\ fsm' = "WAITING_FOR_PAYMENT" /\ fsm # "PAYMENT_ACCEPTED"
           /\ clicks'[c].label = "purchase_started" /\ clicks'[c].tx = x
        \/ fsm' = fsm /\ clicks'[c].label = "idle"
    <2>1. CASE CanTransition(fsm, "PRODUCT_SELECTED")
      BY <2>1 DEF CreateTransaction, Suspend, Project, CanTransition, Predecessors, DataOK, ClicksOK
    <2>2. CASE ~CanTransition(fsm, "PRODUCT_SELECTED")
      BY <2>2 DEF CreateTransaction, ClickRejected, EndClick, IdleClick, machine, DataOK, ClicksOK
    <2> QED
      BY <2>1, <2>2
  <1> QED
    BY <1>1, <1>2, <1>3, <1>4 DEF Creates

LEMMA VendClickElsewhere ==
  ASSUME DataOK, NEW c \in Clicks,
         \/ SensorMismatch(c) \/ AlreadyActive(c) \/ PickupClick(c) \/ PickupWindowClosed(c)
         \/ PickupCloseFails(c) \/ SaleCompleted(c) \/ RecoverAsCancelled(c)
  PROVE  Elsewhere
  <1> DEFINE y == clicks[c].tx
             x == txs[y]
  <1>1. LoopStays /\ vends' = vends /\ known' = known /\ DisabledStays
    BY DEF SensorMismatch, AlreadyActive, PickupClick, PickupWindowClosed, PickupCloseFails, SaleCompleted,
           RecoverAsCancelled, ledger, goods, LoopStays, DisabledStays
  <1>2. active' \in {active, NoTx}
    BY DEF SensorMismatch, AlreadyActive, PickupClick, PickupWindowClosed, PickupCloseFails, SaleCompleted,
           RecoverAsCancelled, ledger, ClearActive
  <1>3. FsmLeaves
    BY DEF SensorMismatch, AlreadyActive, PickupClick, PickupWindowClosed, PickupCloseFails, SaleCompleted,
           RecoverAsCancelled, Project, ProjectIfLegal, machine, FsmLeaves, CashStates
  <1>4. NobodyOpens
    <2>1. EndClick(c) \/ Suspend(c, "completed", y, NoPieces)
                      \/ Suspend(c, "closing_window", y, NoPieces)
      BY DEF SensorMismatch, AlreadyActive, PickupClick, PickupWindowClosed, PickupCloseFails, SaleCompleted,
             RecoverAsCancelled, ClickRejected
    <2> QED
      BY <2>1, ClickElsewhere
  <1>5. SessionsStay
    <2>1. CASE SensorMismatch(c) \/ AlreadyActive(c) \/ SaleCompleted(c)
      BY <2>1, RecordsKeepSessions DEF SensorMismatch, AlreadyActive, SaleCompleted, ledger
    <2>2. CASE PickupClick(c) \/ PickupWindowClosed(c) \/ PickupCloseFails(c) \/ RecoverAsCancelled(c)
      <3>1. y \in Transactions /\ x \in TransactionRecords
        BY <2>2 DEF PickupClick, PickupWindowClosed, PickupCloseFails, RecoverAsCancelled, DataOK, ClicksOK,
                    LedgerOK
      <3>2. /\ SameSession(MarkWindowClosed(x), x) /\ SameSession(MarkFaulted(x), x)
            /\ SameSession(Cancel(x), x) /\ SameSession(ConfirmPickup(x), x)
        BY <3>1, MethodsKeepSession
      <3>3. UNCHANGED txs \/ \E r : Record(y, r) /\ SameSession(r, x)
        BY <2>2, <3>2 DEF PickupClick, PickupWindowClosed, PickupCloseFails, RecoverAsCancelled
      <3> QED
        BY <3>1, <3>3, RecordsKeepSessions
    <2> QED
      BY <2>1, <2>2
  <1> QED
    BY <1>1, <1>2, <1>3, <1>4, <1>5 DEF Elsewhere

LEMMA DeadlineElsewhere ==
  ASSUME DataOK, NEW x \in Transactions, DeadlineStep(x)
  PROVE  Elsewhere
  <1>1. /\ LoopStays /\ vends' = vends /\ known' = known /\ DisabledStays /\ active' = active
        /\ clicks' = clicks
    BY DEF DeadlineStep, TimerStep, DeadlinePasses, CloseOnTimeout, TimeoutWindowClosed,
           TimeoutCloseFails, ledger, goods, LoopStays, DisabledStays
  <1>2. FsmLeaves
    BY DEF DeadlineStep, TimerStep, DeadlinePasses, CloseOnTimeout, TimeoutWindowClosed,
           TimeoutCloseFails, Project, machine, FsmLeaves, CashStates
  <1>3. SessionsStay
    <2>1. txs[x] \in TransactionRecords
      BY DEF DataOK, LedgerOK
    <2>2. /\ SameSession(MarkPickupTimedOutWindowClosed(txs[x]), txs[x])
          /\ SameSession(MarkFaulted(txs[x]), txs[x])
      BY <2>1, MethodsKeepSession
    <2>3. UNCHANGED txs \/ \E r : Record(x, r) /\ SameSession(r, txs[x])
      BY <2>2
      DEF DeadlineStep, TimerStep, DeadlinePasses, CloseOnTimeout, TimeoutWindowClosed,
          TimeoutCloseFails, ledger
    <2> QED
      BY <2>3, RecordsKeepSessions
  <1> QED
    BY <1>1, <1>2, <1>3 DEF Elsewhere, NobodyOpens

LEMMA CustomerElsewhere ==
  ASSUME DataOK, CustomerStep
  PROVE  Elsewhere
  <1>1. LoopStays /\ vends' = vends /\ known' = known /\ DisabledStays /\ active' = active
    BY DEF CustomerStep, InsertBill, JamBill, CheckoutClick, CancelClick, PickupPress,
           ledger, goods, LoopStays, DisabledStays
  <1>2. FsmLeaves
    BY DEF CustomerStep, InsertBill, JamBill, CheckoutClick, CancelClick, PickupPress,
           Project, machine, FsmLeaves, CashStates
  <1>3. NobodyOpens
    <2>1. UNCHANGED clicks \/ \E c \in Clicks :
                                 CheckoutClick(c) \/ CancelClick(c) \/ PickupPress(c)
      BY DEF CustomerStep, InsertBill, JamBill
    <2>2. ASSUME NEW c \in Clicks, CheckoutClick(c) \/ CancelClick(c) \/ PickupPress(c)
          PROVE  \/ EndClick(c)
                 \/ \E where, y, plan :
                      /\ Suspend(c, where, y, plan)
                      /\ where \notin {"purchase_started", "reserve_created"}
      BY <2>2 DEF CheckoutClick, CancelClick, PickupPress, ClickRejected
    <2>3. ASSUME NEW c \in Clicks, CheckoutClick(c) \/ CancelClick(c) \/ PickupPress(c)
          PROVE  NobodyOpens
      BY <2>2, <2>3, ClickElsewhere
    <2> QED
      BY <2>1, <2>3 DEF NobodyOpens
  <1>4. SessionsStay
    <2>1. UNCHANGED txs
      BY DEF CustomerStep, InsertBill, JamBill, CheckoutClick, CancelClick, PickupPress, ledger
    <2> QED
      BY <2>1, RecordsKeepSessions
  <1> QED
    BY <1>1, <1>2, <1>3, <1>4 DEF Elsewhere

LEMMA OperatorElsewhere ==
  ASSUME DataOK, OperatorStep
  PROVE  Elsewhere
  <1>1. /\ LoopStays /\ vends' = vends /\ known' = known /\ DisabledStays /\ active' = active
        /\ UNCHANGED txs
    BY DEF OperatorStep, EnterServiceMode, ExitServiceMode, RecoverClick, HealthPoll, LeaveNotice,
           ledger, goods, LoopStays, DisabledStays
  <1>2. FsmLeaves
    BY DEF OperatorStep, EnterServiceMode, ExitServiceMode, RecoverClick, HealthPoll, LeaveNotice,
           Project, machine, FsmLeaves, CashStates
  <1>3. NobodyOpens
    <2>1. ASSUME NEW c \in Clicks, RecoverClick(c)
          PROVE  NobodyOpens
      <3>1. UNCHANGED clicks \/ \E x \in known : Suspend(c, "recovering", x, NoPieces)
        BY <2>1 DEF RecoverClick
      <3> QED
        BY <3>1, ClickElsewhere
    <2> QED
      BY <2>1
      DEF OperatorStep, EnterServiceMode, ExitServiceMode, HealthPoll, LeaveNotice, NobodyOpens
  <1> QED
    BY <1>1, <1>2, <1>3, RecordsKeepSessions DEF Elsewhere

(* Every step of the kiosk is one of them.                                 *)
LEMMA NextForms ==
  ASSUME DataOK, WorstCaseChange > 0, Next
  PROVE  Forms
  <1>1. CASE LoopStep
    BY <1>1, PaymentLoopForms, VendLoopForms DEF LoopStep
  <1>2. ASSUME NEW c \in Clicks, ClickStep(c)
        PROVE  Forms
    <2>1. CASE PaymentClickStep(c)
      <3>1. (StartCashSession(c) \/ ReserveCreated(c)) \/ PaymentClickMisses(c)
        BY <2>1 DEF PaymentClickStep, PaymentClickMisses
      <3> QED
        BY <3>1, OpeningClickForms, PaymentClickElsewhere DEF Forms
    <2>2. CASE VendClickStep(c) \/ RecoverAsCancelled(c)
      BY <2>2, CreationForms, VendClickElsewhere DEF VendClickStep, Forms
    <2> QED
      BY <1>2, <2>1, <2>2 DEF ClickStep
  <1>3. CASE (\E x \in Transactions : DeadlineStep(x)) \/ CustomerStep \/ OperatorStep
    BY <1>3, DeadlineElsewhere, CustomerElsewhere, OperatorElsewhere DEF Forms
  <1> QED
    BY <1>1, <1>2, <1>3 DEF Next

-----------------------------------------------------------------------------
(* Turns, in terms of the labels.                                          *)
Same(c) == clicks'[c].label = clicks[c].label
Joins(c) == ~Same(c) /\ clicks'[c].label \in {"purchase_started", "reserve_created"}

LEMMA Labels ==
  /\ Label("loop") = loop.label /\ Label("loop")' = loop'.label
  /\ \A c \in Clicks : Label(c) = clicks[c].label /\ Label(c)' = clicks'[c].label
  BY TasksAssumption DEF Label

LEMMA Order ==
  ASSUME DataOK, QueueOK, Scheduled
  PROVE  /\ QueueOK'
         /\ \A c, d \in Clicks : Before(c, d) /\ Same(c) /\ Same(d) => Before(c, d)'
         /\ \A c \in Clicks :
              Before("loop", c) /\ Same(c) /\ loop'.label = loop.label => Before("loop", c)'
         /\ \A c, d \in Clicks : Opening(d) /\ Same(d) /\ Joins(c) => Before(d, c)'
         /\ \A c \in Clicks :
              /\ loop.label \in {"device_event", "amount_updated"} /\ loop'.label = loop.label
              /\ Joins(c)
              => Before("loop", c)'
         /\ \A c \in Clicks : Opening(c) /\ ~Same(c) => \A t \in Tasks : ~Before(t, c)
  <1>1. "loop" \in Tasks /\ Clicks \subseteq Tasks
    BY DEF Tasks
  <1>2. /\ Moves("loop") <=> loop'.label # loop.label
        /\ \A c \in Clicks : Moves(c) <=> ~Same(c)
    BY Labels DEF Moves, Same
  <1>3. \A c \in Clicks : /\ Opening(c) => Enqueued(c)
                          /\ Joins(c) => Enqueued(c)'
    BY Labels DEF Opening, Started, Reserved, Joins, Enqueued, PublishLabels
  <1>4. loop.label \in {"device_event", "amount_updated"} => Enqueued("loop")
    BY Labels DEF Enqueued, PublishLabels
  <1>5. \A c \in Clicks : Opening(c) => ~OneRound(c)
    BY Labels DEF Opening, Started, Reserved, OneRound
  <1> QED
    BY <1>1, <1>2, <1>3, <1>4, <1>5, Turns DEF Joins

(* What each form keeps of the invariant.                                  *)
LEMMA ElsewhereKeeps ==
  ASSUME DataOK, LifeInv, Scheduled, Elsewhere
  PROVE  LifeInv'
  <1> USE DEF LifeInv, Elsewhere
  <1>1. QueueOK'
    BY Order
  <1>2. \A c \in Clicks : Opening(c)' => Opening(c) /\ Same(c) /\ clicks'[c].tx = clicks[c].tx
    BY DEF NobodyOpens, Opening, Started, Reserved, Same
  <1>3. TasksKnown'
    BY <1>2 DEF TasksKnown, LoopStays
  <1>4. VendedOnce'
    BY DEF VendedOnce, LoopStays, DisabledStays, SessionsStay, TasksKnown, DataOK, LedgerOK,
           ToMotor
  <1>5. PaymentStates'
    <2>1. fsm' \in CashStates => fsm' = fsm
      BY DEF FsmLeaves
    <2>2. loop'.label = loop.label /\ loop'.tx = loop.tx /\ vends' = vends
      BY DEF LoopStays
    <2>3. CASE active' = active
      BY <2>1, <2>2, <2>3 DEF PaymentStates, CashStates
    <2>4. CASE active' = NoTx
      <3>1. loop'.label \in ToMotor => loop'.tx # NoTx
        BY <2>2, KioskAssumption DEF TasksKnown, ToMotor, DataOK, LedgerOK
      <3> QED
        BY <2>1, <2>2, <2>4, <3>1 DEF PaymentStates, CashStates
    <2> QED
      BY <2>3, <2>4
  <1>6. OpeningClicks'
    <2>1. ASSUME active' # NoTx, Sessioned(active)', NEW c \in Clicks
          PROVE  ~Opening(c)'
      <3>1. active' = active /\ Sessioned(active)
        BY <2>1 DEF SessionsStay, TasksKnown
      <3> QED
        BY <1>2, <2>1, <3>1 DEF OpeningClicks
    <2>2. ASSUME NEW c \in Clicks, NEW d \in Clicks, Opening(c)', Opening(d)', c # d
          PROVE  /\ clicks'[c].tx # clicks'[d].tx
                 /\ clicks'[c].tx = active' =>
                      /\ Started(d)' => Started(c)'
                      /\ (Started(c)' <=> Started(d)') => Before(d, c)'
      <3>1. /\ Opening(c) /\ Same(c) /\ clicks'[c].tx = clicks[c].tx
            /\ Opening(d) /\ Same(d) /\ clicks'[d].tx = clicks[d].tx
        BY <1>2, <2>2
      <3>2. clicks[c].tx # NoTx
        BY <3>1, KioskAssumption DEF TasksKnown, DataOK, LedgerOK
      <3>3. (Started(c)' <=> Started(c)) /\ (Started(d)' <=> Started(d))
        BY <3>1 DEF Started, Same
      <3> QED
        BY <2>2, <3>1, <3>2, <3>3, Order DEF OpeningClicks
    <2> QED
      BY <2>1, <2>2 DEF OpeningClicks
  <1>7. LateBills'
    <2>1. \A c \in Clicks : /\ Started(c)' => Started(c) /\ Same(c)
                            /\ Reserved(c)' => Reserved(c) /\ Same(c)
      BY <1>2 DEF Started, Reserved, Opening, Same
    <2>2. fsm' = "ACCEPTING_CASH" => fsm = "ACCEPTING_CASH"
      BY DEF FsmLeaves, CashStates
    <2> QED
      BY <2>1, <2>2, Order DEF LateBills, LoopStays
  <1> QED
    BY <1>1, <1>3, <1>4, <1>5, <1>6, <1>7

LEMMA CreatesKeeps ==
  ASSUME DataOK, LifeInv, Scheduled, NEW c \in Clicks, NEW x \in Transactions, Creates(c, x),
         vends[x] = 0
  PROVE  LifeInv'
  <1> USE DEF LifeInv
  <1>1. QueueOK'
    BY Order
  <1>2. \A d \in Clicks : d # c => clicks'[d] = clicks[d]
    BY DEF Creates, Others
  <1>3. Opening(c)' => Started(c)' /\ clicks'[c].tx = x /\ Joins(c)
    BY DEF Creates, Opening, Started, Reserved, Joins, Same
  <1>4. x \notin known /\ known' = known \cup {x} /\ active' = x /\ ~Sessioned(x)' /\ x # NoTx
    BY KioskAssumption DEF Creates
  <1>5. TasksKnown'
    BY <1>2, <1>3, <1>4 DEF TasksKnown, Creates, LoopStays, Opening, Started, Reserved
  <1>6. VendedOnce'
    BY DEF VendedOnce, Creates, LoopStays, DisabledStays, SessionsStay, TasksKnown, DataOK,
           LedgerOK, ToMotor
  <1>7. PaymentStates'
    <2>1. vends'[x] = 0
      BY DEF Creates
    <2>2. loop'.label \in ToMotor => loop'.tx # x
      BY <1>4 DEF TasksKnown, Creates, LoopStays, ToMotor
    <2>3. fsm' = "PAYMENT_ACCEPTED" => fsm = "PAYMENT_ACCEPTED" /\ loop'.label = loop.label
      BY DEF Creates, LoopStays
    <2> QED
      BY <1>4, <2>1, <2>2, <2>3 DEF PaymentStates
  <1>8. OpeningClicks'
    <2>1. ~(active' # NoTx /\ Sessioned(active)')
      BY <1>4 DEF Sessioned
    <2>2. ASSUME NEW e \in Clicks, NEW d \in Clicks, Opening(e)', Opening(d)', e # d
          PROVE  /\ clicks'[e].tx # clicks'[d].tx
                 /\ clicks'[e].tx = active' =>
                      /\ Started(d)' => Started(e)'
                      /\ (Started(e)' <=> Started(d)') => Before(d, e)'
      <3>1. \A f \in Clicks \ {c} :
              Opening(f)' => Opening(f) /\ Same(f) /\ clicks'[f].tx = clicks[f].tx /\ clicks[f].tx \in known
        BY <1>2 DEF Opening, Started, Reserved, Same, TasksKnown
      <3>2. CASE e # c /\ d # c
        BY <1>4, <2>2, <3>1, <3>2 DEF OpeningClicks
      <3>3. CASE e # c /\ d = c
        BY <1>3, <1>4, <2>2, <3>1, <3>3
      <3>4. CASE e = c
        <4>1. Started(c)' /\ clicks'[c].tx = x /\ Joins(c)
          BY <1>3, <2>2, <3>4
        <4>2. Opening(d) /\ Same(d) /\ clicks'[d].tx \in known
          BY <2>2, <3>1, <3>4
        <4>3. Before(d, c)'
          BY <4>1, <4>2, Order
        <4> QED
          BY <1>4, <3>4, <4>1, <4>2, <4>3
      <3> QED
        BY <3>2, <3>3, <3>4
    <2> QED
      BY <2>1, <2>2 DEF OpeningClicks
  <1>9. LateBills'
    <2>1. fsm' = "ACCEPTING_CASH" => fsm = "ACCEPTING_CASH"
      BY DEF Creates
    <2>2. \A d \in Clicks : Reserved(d)' => Reserved(d) /\ Same(d)
      BY <1>2, <1>3 DEF Reserved, Opening, Started, Same
    <2>3. \A d \in Clicks : Started(d)' => (Started(d) /\ Same(d)) \/ Joins(d)
      BY <1>2, <1>3 DEF Opening, Started, Same
    <2> QED
      BY <2>1, <2>2, <2>3, Order DEF LateBills, Creates, LoopStays
  <1> QED
    BY <1>1, <1>5, <1>6, <1>7, <1>8, <1>9

LEMMA ReservesKeeps ==
  ASSUME DataOK, LifeInv, Scheduled, NEW c \in Clicks, Reserves(c)
  PROVE  LifeInv'
  <1> USE DEF LifeInv
  <1>1. QueueOK'
    BY Order
  <1>2. \A d \in Clicks : d # c => clicks'[d] = clicks[d]
    BY DEF Reserves, Others
  <1>3. Started(c) /\ Reserved(c)' /\ ~Started(c)' /\ clicks'[c].tx = clicks[c].tx /\ Joins(c)
    BY DEF Reserves, Started, Reserved, Joins, Same
  <1>4. \A t \in Tasks : ~Before(t, c)
    BY <1>3, Order DEF Joins, Opening
  <1>5. \A d \in Clicks : (Opening(d)' <=> Opening(d)) /\ clicks'[d].tx = clicks[d].tx
    BY <1>2, <1>3 DEF Opening, Started, Reserved
  <1>6. TasksKnown'
    BY <1>5 DEF TasksKnown, Reserves, LoopStays
  <1>7. VendedOnce' /\ PaymentStates'
    BY DEF VendedOnce, PaymentStates, Reserves, LoopStays, DisabledStays, SessionsStay, TasksKnown,
           DataOK, LedgerOK, ToMotor
  <1>8. OpeningClicks'
    <2>1. active' # NoTx /\ Sessioned(active)' => \A d \in Clicks : ~Opening(d)'
      BY <1>5 DEF OpeningClicks, Reserves, SessionsStay, TasksKnown
    <2>2. ASSUME NEW e \in Clicks, NEW d \in Clicks, Opening(e)', Opening(d)', e # d
          PROVE  /\ clicks'[e].tx # clicks'[d].tx
                 /\ clicks'[e].tx = active' =>
                      /\ Started(d)' => Started(e)'
                      /\ (Started(e)' <=> Started(d)') => Before(d, e)'
      <3>1. clicks[e].tx # clicks[d].tx /\ clicks'[e].tx # clicks'[d].tx /\ active' = active
        BY <1>5, <2>2 DEF OpeningClicks, Reserves
      <3>2. ASSUME clicks[e].tx = active
            PROVE  /\ Started(d)' => Started(e)'
                   /\ (Started(e)' <=> Started(d)') => Before(d, e)'
        <4>1. /\ Started(d) => Started(e)
              /\ (Started(e) <=> Started(d)) => Before(d, e)
          BY <1>5, <2>2, <3>2 DEF OpeningClicks
        <4>2. CASE e # c /\ d # c
          BY <1>2, <4>1, <4>2, Order DEF Started, Same
        <4>3. CASE e = c
          <5>1. ~Before(d, c)
            BY <1>4 DEF Tasks
          <5>2. ~Started(d) /\ Opening(d) /\ Same(d)
            BY <1>2, <1>3, <1>5, <2>2, <4>1, <4>3, <5>1 DEF Same
          <5> QED
            BY <1>2, <1>3, <2>2, <4>3, <5>2, Order DEF Started
        <4>4. CASE d = c
          BY <1>2, <1>3, <2>2, <4>1, <4>4 DEF Started
        <4> QED
          BY <4>2, <4>3, <4>4
      <3> QED
        BY <1>5, <3>1, <3>2
    <2> QED
      BY <2>1, <2>2 DEF OpeningClicks
  <1>9. LateBills'
    <2>1. \A d \in Clicks : Started(d)' => Started(d) /\ Same(d)
      BY <1>2, <1>3 DEF Started, Same
    <2>2. \A d \in Clicks : Reserved(d)' => (Reserved(d) /\ Same(d)) \/ d = c
      BY <1>2 DEF Reserved, Same
    <2>3. ~Before("loop", c)
      BY <1>4 DEF Tasks
    <2> QED
      BY <1>3, <2>1, <2>2, <2>3, Order DEF LateBills, Reserves, LoopStays
  <1> QED
    BY <1>1, <1>6, <1>7, <1>8, <1>9

LEMMA OpensKeeps ==
  ASSUME DataOK, LifeInv, Scheduled, NEW c \in Clicks, Opens(c)
  PROVE  LifeInv'
  <1> USE DEF LifeInv
  <1>1. QueueOK'
    BY Order
  <1>2. \A d \in Clicks : d # c => clicks'[d] = clicks[d]
    BY DEF Opens, Others
  <1>3. Reserved(c) /\ ~Opening(c)' /\ ~Same(c)
    BY DEF Opens, Started, Reserved, Opening, Same
  <1>4. \A t \in Tasks : ~Before(t, c)
    BY <1>3, Order DEF Opening
  <1>5. \A d \in Clicks : Opening(d)' => d # c /\ Opening(d) /\ Same(d) /\ clicks'[d].tx = clicks[d].tx
    BY <1>2, <1>3 DEF Opening, Started, Reserved, Same
  <1>6. TasksKnown'
    BY <1>5 DEF TasksKnown, Opens, LoopStays
  <1>7. VendedOnce'
    BY DEF VendedOnce, Opens, LoopStays, DisabledStays, TasksKnown, DataOK, LedgerOK, ToMotor
  <1>8. PaymentStates'
    BY DEF PaymentStates, Opens, LoopStays, ToMotor
  <1>9. OpeningClicks'
    <2>1. ASSUME active' # NoTx, Sessioned(active)', NEW d \in Clicks, Opening(d)'
          PROVE  FALSE
      <3>1. active' = active /\ d # c /\ Opening(d)
        BY <1>5, <2>1 DEF Opens
      <3>2. CASE Sessioned(active)
        BY <2>1, <3>1, <3>2 DEF OpeningClicks
      <3>3. CASE clicks[c].tx = active
        <4>1. Opening(c) /\ ~Started(c)
          BY <1>3 DEF Opening, Reserved, Started
        <4>2. Before(d, c)
          BY <3>1, <3>3, <4>1 DEF OpeningClicks
        <4> QED
          BY <1>4, <4>2 DEF Tasks
      <3> QED
        BY <2>1, <3>1, <3>2, <3>3 DEF Opens, TasksKnown
    <2>2. ASSUME NEW e \in Clicks, NEW d \in Clicks, Opening(e)', Opening(d)', e # d
          PROVE  /\ clicks'[e].tx # clicks'[d].tx
                 /\ clicks'[e].tx = active' =>
                      /\ Started(d)' => Started(e)'
                      /\ (Started(e)' <=> Started(d)') => Before(d, e)'
      <3>1. (Started(e)' <=> Started(e)) /\ (Started(d)' <=> Started(d))
        BY <1>5, <2>2 DEF Started, Same
      <3> QED
        BY <1>5, <2>2, <3>1, Order DEF OpeningClicks, Opens
    <2> QED
      BY <2>1, <2>2 DEF OpeningClicks
  <1>10. LateBills'
    <2>1. \A d \in Clicks : /\ Started(d)' => Started(d) /\ Same(d)
                            /\ Reserved(d)' => Reserved(d) /\ Same(d)
      BY <1>5 DEF Started, Reserved, Opening, Same
    <2>2. ~Before("loop", c)
      BY <1>4 DEF Tasks
    <2>3. loop.label \in {"device_event", "amount_updated"} => ~(vends[loop.tx] > 0)
      BY <1>3, <2>2 DEF LateBills
    <2> QED
      BY <1>3, <2>1, <2>2, <2>3 DEF LateBills, Opens, LoopStays
  <1> QED
    BY <1>1, <1>6, <1>7, <1>8, <1>9, <1>10

LEMMA LoopFormsKeep ==
  ASSUME DataOK, LifeInv, Scheduled, LoopForms
  PROVE  LifeInv'
  <1> USE DEF LifeInv
  <1>a. LoopOnly
    BY DEF LoopForms
  <1>1. QueueOK'
    BY Order
  <1>2. OpeningClicks'
    <2>1. \A d \in Clicks : Same(d) /\ (Opening(d)' <=> Opening(d)) /\ (Started(d)' <=> Started(d))
                            /\ clicks'[d].tx = clicks[d].tx
      BY <1>a DEF LoopOnly, Same, Opening, Started, Reserved
    <2>2. active' = active /\ (active # NoTx => (Sessioned(active)' <=> Sessioned(active)))
      BY <1>a DEF LoopOnly, SessionsStay, TasksKnown
    <2> QED
      BY <2>1, <2>2, Order DEF OpeningClicks
  <1>b. \A x \in known : Sessioned(x)' = Sessioned(x)
    BY <1>a DEF LoopOnly, SessionsStay
  <1>c. /\ known' = known /\ active' = active /\ clicks' = clicks
        /\ \A c \in Clicks : Opening(c)' = Opening(c) /\ Started(c)' = Started(c) /\ Reserved(c)' = Reserved(c)
    BY <1>a DEF LoopOnly, Opening, Started, Reserved
  <1>d. known \subseteq Transactions /\ vends \in [Transactions -> Nat]
    BY DEF DataOK, LedgerOK, GoodsOK
  <1>3. CASE Reads
    <2>1. TasksKnown'
      BY <1>3, <1>c DEF Reads, TasksKnown
    <2>2. VendedOnce' /\ PaymentStates'
      BY <1>3, <1>b, <1>c, <1>d DEF Reads, VendedOnce, PaymentStates, DisabledStays, ToMotor
    <2>3. LateBills'
      <3>1. active \in known /\ active \in Transactions
        BY <1>3, <1>d DEF Reads, TasksKnown
      <3>2. vends[active] > 0 => /\ fsm # "ACCEPTING_CASH"
                                 /\ Sessioned(active)
        BY <1>3, <3>1 DEF Reads, PaymentStates, VendedOnce
      <3>3. vends[active] > 0 => \A c \in Clicks : ~Started(c) /\ ~Reserved(c)
        BY <1>3, <3>2 DEF Reads, OpeningClicks, Opening
      <3> QED
        BY <1>3, <1>c, <3>2, <3>3 DEF Reads, LateBills
    <2> QED
      BY <1>1, <1>2, <2>1, <2>2, <2>3
  <1>4. CASE Credits
    <2>1. TasksKnown'
      BY <1>4, <1>c DEF Credits, LoopAt, TasksKnown
    <2>2. VendedOnce' /\ PaymentStates'
      BY <1>4, <1>b, <1>c, <1>d
      DEF Credits, LoopAt, VendedOnce, PaymentStates, DisabledStays, ToMotor, TasksKnown
    <2>3. LateBills'
      BY <1>4, <1>c DEF Credits, LoopAt, LateBills
    <2> QED
      BY <1>1, <1>2, <2>1, <2>2, <2>3
  <1>5. CASE Disables
    <2>1. TasksKnown'
      BY <1>5, <1>c DEF Disables, LoopAt, TasksKnown
    <2>2. VendedOnce' /\ PaymentStates'
      BY <1>5, <1>b, <1>c, <1>d
      DEF Disables, LoopAt, VendedOnce, PaymentStates, DisabledStays, ToMotor, TasksKnown
    <2>3. LateBills'
      BY <1>5 DEF Disables, LoopAt, LateBills
    <2> QED
      BY <1>1, <1>2, <2>1, <2>2, <2>3
  <1>6. CASE Accepts
    <2>1. loop.tx \in known /\ Sessioned(loop.tx)
      BY <1>6 DEF Accepts, TasksKnown, VendedOnce
    <2>2. vends[loop.tx] = 0
      BY <1>6, <1>d, <2>1 DEF Accepts, VendedOnce, LateBills, PaymentStates
    <2>3. TasksKnown'
      BY <1>6, <1>c DEF Accepts, LoopAt, TasksKnown
    <2>4. VendedOnce'
      BY <1>6, <1>b, <1>c, <1>d, <2>1, <2>2 DEF Accepts, LoopAt, VendedOnce, ToMotor
    <2>5. PaymentStates' /\ LateBills'
      BY <1>6 DEF Accepts, LoopAt, PaymentStates, LateBills
    <2> QED
      BY <1>1, <1>2, <2>3, <2>4, <2>5
  <1>7. CASE Advances
    <2>1. TasksKnown'
      BY <1>7, <1>c DEF Advances, ToMotor, TasksKnown
    <2>2. VendedOnce'
      BY <1>7, <1>b, <1>c, <1>d DEF Advances, VendedOnce, ToMotor, DisabledStays, TasksKnown
    <2>3. PaymentStates' /\ LateBills'
      BY <1>7, <1>c DEF Advances, PaymentStates, LateBills, ToMotor, CashStates
    <2> QED
      BY <1>1, <1>2, <2>1, <2>2, <2>3
  <1>8. CASE MovesOn
    <2>1. loop.tx \in known
      BY <1>8 DEF MovesOn, TasksKnown
    <2>2. TasksKnown'
      BY <1>8, <1>c DEF MovesOn, TasksKnown
    <2>3. VendedOnce'
      <3>1. \/ vends' = vends
            \/ /\ vends[loop.tx] = 0 /\ Sessioned(loop.tx) /\ answered[loop.tx].disable
               /\ vends' = [vends EXCEPT ![loop.tx] = 1]
        BY <1>8 DEF MovesOn, VendedOnce, ToMotor
      <3>2. \A x \in known :
              vends'[x] > 0 => vends'[x] = 1 /\ Sessioned(x) /\ answered[x].disable
        BY <1>d, <2>1, <3>1 DEF VendedOnce
      <3>3. loop'.label \notin ToMotor \cup {"amount_updated", "disabling"}
        BY <1>8 DEF MovesOn, ToMotor
      <3> QED
        BY <1>8, <1>b, <1>c, <2>1, <3>2, <3>3 DEF MovesOn, VendedOnce, DataOK, LedgerOK
    <2>4. PaymentStates'
      <3>1. fsm' = "PAYMENT_ACCEPTED" => loop'.label = "dead"
        BY <1>8 DEF MovesOn, FsmLeaves, CashStates, PaymentStates
      <3>2. ASSUME fsm' \in {"WAITING_FOR_PAYMENT", "ACCEPTING_CASH"}
            PROVE  active # NoTx => vends'[active] = 0
        <4>1. fsm' = fsm
          BY <1>8, <3>2 DEF MovesOn, FsmLeaves, CashStates
        <4>2. vends' = vends \/ (loop.label \in ToMotor /\ vends' = [vends EXCEPT ![loop.tx] = @ + 1])
          BY <1>8 DEF MovesOn, ToMotor
        <4> QED
          BY <1>d, <3>2, <4>1, <4>2 DEF PaymentStates, TasksKnown
      <3> QED
        BY <1>8, <1>c, <3>1, <3>2 DEF MovesOn, PaymentStates, ToMotor
    <2>5. LateBills'
      BY <1>8 DEF MovesOn, LateBills
    <2> QED
      BY <1>1, <1>2, <2>2, <2>3, <2>4, <2>5
  <1> QED
    BY <1>3, <1>4, <1>5, <1>6, <1>7, <1>8 DEF LoopForms

(* Only the product of a known transaction is vended.                      *)
LEMMA VendedKnownKept ==
  ASSUME DataOK, VendInv, Forms
  PROVE  VendedKnown'
  <1>1. known \subseteq known' /\ vends \in [Transactions -> Nat]
    BY DEF Forms, Elsewhere, Reserves, Opens, Creates, LoopForms, LoopOnly, DataOK, GoodsOK
  <1>2. vends' = vends \/ (loop.tx \in known /\ vends' = [vends EXCEPT ![loop.tx] = @ + 1])
    BY DEF Forms, Elsewhere, Reserves, Opens, Creates, LoopForms, Reads, Credits, Disables,
           Accepts, Advances, MovesOn, VendInv, LifeInv, TasksKnown
  <1> QED
    BY <1>1, <1>2 DEF VendInv, VendedKnown

(* The order of events is what keeps the motor from running twice.         *)
LEMMA VendInvariant == ASSUME WorstCaseChange > 0 PROVE Spec => []VendInv
  <1>1. KioskInit => VendInv
    <2> SUFFICES ASSUME KioskInit
                 PROVE  VendInv
      OBVIOUS
    <2> USE DEF KioskInit, Init
    <2>1. QueueOK
      <3>1. \A t \in Tasks : ~Enqueued(t)
        BY TasksAssumption
        DEF Tasks, Enqueued, PublishLabels, Label, ReadingLoop, IdleClick
      <3> QED
        BY <3>1 DEF QueueOK, OnceEach, In
    <2>2. \A c \in Clicks : ~Opening(c) /\ ~Started(c) /\ ~Reserved(c)
      BY DEF Opening, Started, Reserved, IdleClick
    <2> QED
      BY <2>1, <2>2
      DEF VendInv, LifeInv, VendedKnown, TasksKnown, VendedOnce, PaymentStates, OpeningClicks,
          LateBills, ReadingLoop, ToMotor
  <1>2. ASSUME DataOK, VendInv, [Next]_kioskVars
        PROVE  VendInv'
    <2>1. CASE UNCHANGED kioskVars
      <3>1. \A t \in Tasks : Enqueued(t)' = Enqueued(t)
        BY <2>1 DEF kioskVars, vars, Enqueued, Label
      <3>2. QueueOK' = QueueOK
        BY <2>1, <3>1 DEF kioskVars, vars, QueueOK
      <3> QED
        BY <1>2, <2>1, <3>2
        DEF kioskVars, vars, machine, ledger, goods, VendInv, LifeInv, VendedKnown, TasksKnown,
            VendedOnce, PaymentStates, OpeningClicks, LateBills, Opening, Started, Reserved, Sessioned, Before
    <2>2. CASE Next
      <3>1. Forms /\ Scheduled
        BY <1>2, <2>2, NextForms DEF Next
      <3>2. VendInv'
        <4>1. LifeInv'
          <5>1. ASSUME NEW c \in Clicks, NEW x \in Transactions, Creates(c, x)
                PROVE  vends[x] = 0
            BY <1>2, <5>1 DEF Creates, VendInv, VendedKnown, DataOK, GoodsOK
          <5> QED
            BY <1>2, <3>1, <5>1, ElsewhereKeeps, CreatesKeeps, ReservesKeeps, OpensKeeps,
               LoopFormsKeep
            DEF Forms, VendInv
        <4> QED
          BY <1>2, <3>1, <4>1, VendedKnownKept DEF VendInv
      <3> QED
        BY <3>2
    <2> QED
      BY <1>2, <2>1, <2>2
  <1> QED
    BY <1>1, <1>2, DataAlwaysOK, PTL DEF Spec

(* The motor runs at most once for a transaction, for any number of        *)
(* transactions, clicks, bills and failures and whatever the operator does *)
(* in between.                                                             *)
THEOREM MotorRunsOnce == ASSUME WorstCaseChange > 0 PROVE Spec => []AtMostOneVend
  <1>1. DataOK /\ VendInv => AtMostOneVend
    BY DEF AtMostOneVend, VendInv, LifeInv, VendedKnown, VendedOnce, DataOK, GoodsOK
  <1> QED
    BY <1>1, VendInvariant, DataAlwaysOK, PTL

-----------------------------------------------------------------------------
(***************************************************************************)
(* Where the money is.  No customer gets more than the bills credited to   *)
(* the purchase; what the change inventory has promised is, piece by       *)
(* piece, what the open transactions hold; and it never promises a piece   *)
(* the accounting does not have.                                           *)
(*                                                                         *)
(* None of the three is inductive.  MoneyInv adds how far a payout has     *)
(* got: a transaction that has pieces paid out was vended, or the loop is  *)
(* about to vend it, or the loop is dead; a payment that has been          *)
(* confirmed took the price and the change due, holds a reserve of exactly *)
(* that value while the change is on its way, and has paid no more than    *)
(* that when the motor is reached; and a click that opens a session works  *)
(* on a transaction that has not been promised anything yet.               *)
(*                                                                         *)
(* The proofs leave the cancel button out: two clicks on it refund the     *)
(* same bills twice.                                                       *)
(*                                                                         *)
(* The later parts also leave the service mode out, which takes the state  *)
(* machine to IDLE from wherever it is, and then say more.  StageInv: one  *)
(* sale at a time is on its way, the state machine tells how far it is,    *)
(* and a sale that is being completed is through before the next one has a *)
(* session.  MismatchStops: a disagreement of the books and the dispenser  *)
(* that is not flagged has stopped the machine.  ExactInv, where customers *)
(* insert no more bills than the price asks for: the bills on their way    *)
(* to the loop fit the price, so a sale that completes kept exactly that.  *)
(***************************************************************************)

-----------------------------------------------------------------------------
(* The value of counted pieces is such a sum.                              *)
LEMMA ValueIsSum ==
  ASSUME NEW counts
  PROVE  Value(counts) = Total([d \in Denominations |-> d * counts[d]], Denominations)
  <1> DEFINE F == [d \in Denominations |-> d * counts[d]]
             P(g) == g = [s \in SUBSET Denominations |->
                            IF s = {} THEN 0 ELSE (Pick(s) * counts[Pick(s)]) + g[s \ {Pick(s)}]]
             Q(g) == IsTotal(g, F, Denominations)
  <1>1. Value(counts) = (CHOOSE g : P(g))[Denominations]
    BY DEF Value, MapThenSumSet, MapThenFoldSet, Pick
  <1>2. ASSUME NEW g
        PROVE  P(g) <=> Q(g)
    <2>1. \A s \in SUBSET Denominations : s # {} => F[Pick(s)] = Pick(s) * counts[Pick(s)]
      BY Picked
    <2> HIDE DEF F
    <2>2. [s \in SUBSET Denominations |->
                            IF s = {} THEN 0 ELSE (Pick(s) * counts[Pick(s)]) + g[s \ {Pick(s)}]]
          = [s \in SUBSET Denominations |-> IF s = {} THEN 0 ELSE F[Pick(s)] + g[s \ {Pick(s)}]]
      BY <2>1
    <2> QED
      BY <2>2 DEF IsTotal
  <1> HIDE DEF P, Q
  <1>3. (CHOOSE g : P(g)) = (CHOOSE g : Q(g))
    BY <1>2
  <1> QED
    BY <1>1, <1>3 DEF Q, Total

LEMMA ValueTyped == ASSUME NEW p \in Counts PROVE Value(p) \in Nat
  <1> DEFINE F == [d \in Denominations |-> d * p[d]]
  <1>1. \A d \in Denominations : F[d] \in Nat
    <2>1. \A d \in Denominations : d \in Nat /\ p[d] \in Nat
      BY ChangeAssumption DEF Counts
    <2> QED
      BY <2>1
  <1> HIDE DEF F
  <1>2. Total(F, Denominations) \in Nat
    BY <1>1, ChangeAssumption, SumTyped
  <1> QED
    BY <1>2, ValueIsSum DEF F

LEMMA ValueMonotone ==
  ASSUME NEW p \in Counts, NEW q \in Counts, \A d \in Denominations : p[d] <= q[d]
  PROVE  Value(p) <= Value(q)
  <1> DEFINE F == [d \in Denominations |-> d * p[d]]
             G == [d \in Denominations |-> d * q[d]]
  <1>1. ASSUME NEW d \in Denominations
        PROVE  F[d] \in Nat /\ G[d] \in Nat /\ F[d] <= G[d]
    <2>1. d \in Nat /\ p[d] \in Nat /\ q[d] \in Nat /\ p[d] <= q[d]
      BY ChangeAssumption DEF Counts
    <2>2. d * p[d] <= d * q[d] /\ d * p[d] \in Nat /\ d * q[d] \in Nat
      BY <2>1
    <2> QED
      BY <2>2
  <1> HIDE DEF F, G
  <1>2. Total(F, Denominations) <= Total(G, Denominations)
    BY <1>1, ChangeAssumption, SumMonotone
  <1> QED
    BY <1>2, ValueIsSum DEF F, G

LEMMA ValueOfNothing == Value(NoPieces) = 0
  <1> DEFINE F == [d \in Denominations |-> d * NoPieces[d]]
             Bad == {s \in SUBSET Denominations : Total(F, s) # 0}
  <1>0. \A d \in Denominations : F[d] = 0
    BY ChangeAssumption DEF NoPieces
  <1>1. SUFFICES ASSUME Bad # {} PROVE FALSE
    <2>1. Denominations \notin Bad => Total(F, Denominations) = 0
      OBVIOUS
    <2> HIDE DEF Bad
    <2> QED
      BY <2>1, ValueIsSum
  <1>2. Bad \in SUBSET (SUBSET Denominations)
    OBVIOUS
  <1>a. IsFiniteSet(Denominations)
    BY ChangeAssumption
  <1> HIDE DEF Bad, F
  <1>3. PICK s \in Bad : \A t \in Bad : t \subseteq s => t = s
    BY <1>1, <1>2, <1>a, Smallest
  <1>4. IsFiniteSet(s) /\ s \subseteq Denominations
    BY <1>2, <1>3, FS_Subset, ChangeAssumption
  <1>5. Total(F, s) = IF s = {} THEN 0 ELSE F[Pick(s)] + Total(F, s \ {Pick(s)})
    BY <1>4, SumUnfolds
  <1> USE DEF Bad
  <1>6. s # {}
    BY <1>3, <1>5
  <1>7. Pick(s) \in s
    BY <1>6, Picked
  <1>8. Total(F, s \ {Pick(s)}) = 0 /\ F[Pick(s)] = 0
    BY <1>0, <1>3, <1>4, <1>7
  <1> QED
    BY <1>3, <1>5, <1>6, <1>8

-----------------------------------------------------------------------------
(* Without cancelled purchases, nobody is in the middle of one.            *)
CancelLabels ==
  {"cancel_disabling", "refund_requested", "refunding", "refund_dispensed", "purchase_cancelled"}
NobodyCancels == \A c \in Clicks : clicks[c].label \notin CancelLabels

(* A click that is opening a session finds none on its transaction.        *)
Unsessioned == \A c \in Clicks : Opening(c) => ~Sessioned(clicks[c].tx)

StartsEmpty ==
  \A c \in Clicks : Started(c) => txs[clicks[c].tx].change_reserve = NoPieces

OnItsWay(x) == loop.label \in {"vend_authorized", "vending"} /\ loop.tx = x
PaidOutBefore ==
  \A x \in Transactions :
    paidOut[x] # NoPieces \/ (x \in known /\ txs[x].payout_status = "dispensed") =>
      x \in known /\ (vends[x] > 0 \/ loop.label = "dead" \/ OnItsWay(x))
OverpaidStays ==
  \A x \in known : txs[x].payout_status = "dispensed" => txs[x].accepted_amount > Price

(* A payment that has been confirmed, from its first step to the motor.    *)
Payment ==
  /\ loop.label \in ToMotor \cup {"disabling"} =>
       txs[loop.tx].accepted_amount = Price + txs[loop.tx].change_due
  /\ loop.label \in {"change_requested", "dispensing_change"} =>
       /\ Value(txs[loop.tx].change_reserve) = txs[loop.tx].change_due
       /\ txs[loop.tx].change_due > 0
  /\ loop.label = "dispensing_change" => loop.plan = txs[loop.tx].change_reserve
  /\ loop.label \in {"vend_authorized", "vending"} =>
       Value(paidOut[loop.tx]) <= txs[loop.tx].change_due

KnownGiveAtMost ==
  \A x \in known : Paid(x) + vends[x] * Price <= txs[x].accepted_amount

Holding(d) == [x \in Transactions |-> HeldPieces(x)[d]]
ReservesAdd ==
  IsFiniteSet(known) /\ \A d \in Denominations : inventory.reserved[d] = Total(Holding(d), known)

MoneyInv ==
  /\ StartsEmpty /\ PaidOutBefore /\ OverpaidStays /\ Payment /\ KnownGiveAtMost
  /\ ReservesAdd /\ ReservedIsCovered

(* What the induction may use of the earlier ones, before and after a step.*)
Ground == DataOK /\ VendInv /\ Unsessioned

-----------------------------------------------------------------------------
LEMMA HeldIsTotal ==
  ASSUME NEW d, known \subseteq Transactions
  PROVE  MapThenSumSet(LAMBDA x : HeldPieces(x)[d], known) = Total(Holding(d), known)
  <1> DEFINE F == [x \in Transactions |-> HeldPieces(x)[d]]
             P(g) == g = [s \in SUBSET known |->
                            IF s = {} THEN 0 ELSE HeldPieces(Pick(s))[d] + g[s \ {Pick(s)}]]
             Q(g) == IsTotal(g, F, known)
  <1>1. MapThenSumSet(LAMBDA x : HeldPieces(x)[d], known) = (CHOOSE g : P(g))[known]
    BY DEF MapThenSumSet, MapThenFoldSet, Pick
  <1>2. ASSUME NEW g
        PROVE  P(g) <=> Q(g)
    <2>1. \A s \in SUBSET known : s # {} => F[Pick(s)] = HeldPieces(Pick(s))[d]
      BY Picked
    <2> HIDE DEF F
    <2>2. [s \in SUBSET known |->
                            IF s = {} THEN 0 ELSE HeldPieces(Pick(s))[d] + g[s \ {Pick(s)}]]
          = [s \in SUBSET known |-> IF s = {} THEN 0 ELSE F[Pick(s)] + g[s \ {Pick(s)}]]
      BY <2>1
    <2> QED
      BY <2>2 DEF IsTotal
  <1> HIDE DEF P, Q
  <1>3. (CHOOSE g : P(g)) = (CHOOSE g : Q(g))
    BY <1>2
  <1> QED
    BY <1>1, <1>3 DEF Q, Total, Holding

(* A click at the start of a session was there, or is there for a          *)
(* transaction just created.                                               *)
LEMMA StartedBefore ==
  ASSUME Forms
  PROVE  \A c \in Clicks :
           Started(c)' => \/ Started(c) /\ clicks'[c].tx = clicks[c].tx
                          \/ clicks'[c].tx \notin known
  <1>1. CASE Elsewhere
    BY <1>1 DEF Elsewhere, NobodyOpens, Started
  <1>2. CASE LoopForms
    BY <1>2 DEF LoopForms, LoopOnly, Started
  <1>3. ASSUME NEW e \in Clicks, Reserves(e) \/ Opens(e)
        PROVE  \A c \in Clicks : Started(c)' => Started(c) /\ clicks'[c].tx = clicks[c].tx
    BY <1>3 DEF Reserves, Opens, Others, Started
  <1>4. ASSUME NEW e \in Clicks, NEW x \in Transactions, Creates(e, x)
        PROVE  \A c \in Clicks : Started(c)' => \/ Started(c) /\ clicks'[c].tx = clicks[c].tx
                                                \/ clicks'[c].tx \notin known
    BY <1>4 DEF Creates, Others, Started
  <1> QED
    BY <1>1, <1>2, <1>3, <1>4 DEF Forms

LEMMA UnsessionedKept ==
  ASSUME DataOK, VendInv, Unsessioned, Forms
  PROVE  Unsessioned'
  <1> USE DEF Unsessioned, VendInv, LifeInv, VendedKnown
  <1>1. CASE Elsewhere
    BY <1>1 DEF Elsewhere, NobodyOpens, SessionsStay, TasksKnown, Opening, Started, Reserved
  <1>2. CASE LoopForms
    BY <1>2 DEF LoopForms, LoopOnly, SessionsStay, TasksKnown, Opening, Started, Reserved
  <1>3. ASSUME NEW e \in Clicks, Reserves(e)
        PROVE  Unsessioned'
    <2>1. \A c \in Clicks : (Opening(c)' => Opening(c)) /\ clicks'[c].tx = clicks[c].tx
      BY <1>3 DEF Reserves, Others, Opening, Started, Reserved
    <2> QED
      BY <1>3, <2>1 DEF Reserves, SessionsStay, TasksKnown
  <1>4. ASSUME NEW e \in Clicks, Opens(e)
        PROVE  Unsessioned'
    <2>1. \A c \in Clicks : Opening(c)' => c # e /\ Opening(c) /\ clicks'[c].tx = clicks[c].tx
      BY <1>4 DEF Opens, Others, Opening, Started, Reserved
    <2>2. Opening(e)
      BY <1>4 DEF Opens, Opening
    <2> QED
      BY <1>4, <2>1, <2>2 DEF Opens, OpeningClicks, TasksKnown
  <1>5. ASSUME NEW e \in Clicks, NEW x \in Transactions, Creates(e, x)
        PROVE  Unsessioned'
    <2>1. \A c \in Clicks : Opening(c)' => \/ Opening(c) /\ clicks'[c].tx = clicks[c].tx
                                           \/ clicks'[c].tx = x
      BY <1>5 DEF Creates, Others, Opening, Started, Reserved
    <2> QED
      BY <1>5, <2>1 DEF Creates, SessionsStay, TasksKnown
  <1> QED
    BY <1>1, <1>2, <1>3, <1>4, <1>5 DEF Forms

LEMMA UnsessionedAlways == ASSUME WorstCaseChange > 0 PROVE Spec => []Unsessioned
  <1>1. KioskInit => Unsessioned
    BY DEF KioskInit, Init, Unsessioned, Opening, Started, Reserved, IdleClick
  <1>2. ASSUME DataOK, VendInv, Unsessioned, [Next]_kioskVars
        PROVE  Unsessioned'
    <2>1. CASE UNCHANGED kioskVars
      BY <1>2, <2>1
      DEF kioskVars, vars, ledger, Unsessioned, Opening, Started, Reserved, Sessioned
    <2>2. CASE Next
      BY <1>2, <2>2, NextForms, UnsessionedKept
    <2> QED
      BY <1>2, <2>1, <2>2
  <1> QED
    BY <1>1, <1>2, DataAlwaysOK, VendInvariant, PTL DEF Spec

-----------------------------------------------------------------------------
(* The steps, as far as the money is concerned.                            *)
SamePurse(r, s) ==
  /\ r.accepted_amount = s.accepted_amount /\ r.change_due = s.change_due
  /\ r.payout_status = s.payout_status /\ r.change_reserve = s.change_reserve

PursesStay == \A x \in known : SamePurse(txs'[x], txs[x])
StoresStay ==
  /\ inventory'.reserved = inventory.reserved /\ inventory'.accounting = inventory.accounting
MoneyStays == PursesStay /\ StoresStay /\ paidOut' = paidOut /\ known' = known

(* Where the loop goes while the money stays.                              *)
Travels ==
  \/ loop' = loop /\ vends' = vends
  \/ /\ loop.label # "dead" /\ loop'.label \notin ToMotor \cup {"disabling"}
     /\ \/ vends' = vends
        \/ loop.label = "vending" /\ vends' = [vends EXCEPT ![loop.tx] = @ + 1]
     /\ loop.label \in {"vend_authorized", "vending"} =>
          loop'.label = "dead" \/ vends'[loop.tx] > 0
  \/ /\ loop'.tx = loop.tx /\ vends' = vends
     /\ \/ loop.label = "disabling" /\ loop'.label = "payment_confirmed"
        \/ /\ loop.label = "change_requested" /\ loop'.label = "dispensing_change"
           /\ loop'.plan = txs[loop.tx].change_reserve /\ loop'.plan # NoPieces
        \/ loop.label = "vend_authorized" /\ loop'.label = "vending"

Idles == MoneyStays /\ Travels

Attaches(c, plan) ==
  /\ Started(c) /\ Record(clicks[c].tx, AttachChangeReserve(txs[clicks[c].tx], plan))
  /\ inventory' = Reserve(inventory, plan)
  /\ paidOut' = paidOut /\ known' = known /\ loop' = loop /\ vends' = vends
  /\ ~Started(c)'

Adds(x) ==
  /\ x \notin known /\ known' = known \cup {x} /\ Record(x, NewTransaction)
  /\ StoresStay /\ paidOut' = paidOut /\ loop' = loop /\ vends' = vends

LEMMA MethodsKeepPurse ==
  ASSUME NEW x \in TransactionRecords
  PROVE  /\ SamePurse(x, x)
         /\ SamePurse(AttachPaymentSession(x), x)
         /\ SamePurse(AuthorizeVend(x), x)
         /\ SamePurse(MarkProductDispensed(x), x)
         /\ SamePurse(MarkWindowOpened(x), x)
         /\ SamePurse(ConfirmPickup(x), x)
         /\ SamePurse(MarkWindowClosed(x), x)
         /\ SamePurse(MarkPickupTimedOutWindowClosed(x), x)
         /\ SamePurse(Cancel(x), x)
         /\ SamePurse(MarkFaulted(x), x)
         /\ SamePurse(MarkAmbiguous(x), x)
  BY DEF TransactionRecords, SamePurse, AttachPaymentSession, AuthorizeVend,
         MarkProductDispensed, MarkWindowOpened, ConfirmPickup, MarkWindowClosed,
         MarkPickupTimedOutWindowClosed, Cancel, MarkFaulted, MarkAmbiguous

LEMMA RecordsKeepPurses ==
  ASSUME DataOK,
         \/ UNCHANGED txs
         \/ \E x \in Transactions : \E r : Record(x, r) /\ SamePurse(r, txs[x])
  PROVE  PursesStay
  BY DEF DataOK, LedgerOK, Record, SamePurse, PursesStay

LEMMA PaymentLoopMoney ==
  ASSUME DataOK, PaymentLoopStep,
         ~CreditBill, ~CompletePayment, ~FinalizeReserve, ~ChangeDispensed, ~ChangeNotDispensed,
         ~ChangeCommandRaises
  PROVE  Idles
  <1> DEFINE x == txs[loop.tx]
  <1> USE LoopDiesTo DEF Idles, MoneyStays, StoresStay, Travels
  <1>1. CASE ReadEvent
    <2>1. /\ PursesStay
          /\ inventory' = inventory /\ paidOut' = paidOut /\ known' = known /\ vends' = vends
      BY <1>1, RecordsKeepPurses DEF ReadEvent, ledger, money, goods
    <2>2. loop' = loop \/ (loop.label = "read" /\ loop'.label = "device_event")
      BY <1>1 DEF ReadEvent, DataOK, LoopOK, LoopRecords
    <2> QED
      BY <2>1, <2>2 DEF ToMotor
  <1>2. CASE ValidatorFault \/ DisableFails
    <2>1. loop.tx \in Transactions /\ SamePurse(MarkFaulted(x), x) /\ SamePurse(MarkAmbiguous(x), x)
      BY <1>2, LoopHasRecord, MethodsKeepPurse DEF ValidatorFault, DisableFails
    <2>2. PursesStay
      BY <1>2, <2>1, RecordsKeepPurses DEF ValidatorFault, DisableFails
    <2> QED
      BY <1>2, <2>2 DEF ValidatorFault, DisableFails, money, goods, ToMotor
  <1>3. CASE AwaitMoreCash
    <2>1. PursesStay
      BY <1>3, RecordsKeepPurses DEF AwaitMoreCash, ledger
    <2> QED
      BY <1>3, <2>1 DEF AwaitMoreCash, ledger, money, goods, ToMotor
  <1>4. CASE AcceptanceDisabled
    <2>1. PursesStay
      BY <1>4, RecordsKeepPurses DEF AcceptanceDisabled, ledger
    <2>2. LoopAt("payment_confirmed") \/ loop'.label = "dead"
      BY <1>4, LoopProceedsOrDies DEF AcceptanceDisabled, AcceptPayment
    <2> QED
      BY <1>4, <2>1, <2>2 DEF AcceptanceDisabled, ledger, money, goods, ToMotor, LoopAt
  <1>5. CASE RequestChange
    <2>1. PursesStay
      BY <1>5, RecordsKeepPurses DEF RequestChange, ledger
    <2>2. /\ loop.label = "change_requested"
          /\ inventory' = inventory /\ paidOut' = paidOut /\ known' = known /\ vends' = vends
      BY <1>5 DEF RequestChange, ledger, money, goods
    <2>3. CASE PayoutRaises
      BY <2>1, <2>2, <2>3, PayoutRaisesLeaves DEF ToMotor
    <2>4. CASE /\ x.change_reserve # NoPieces
               /\ loop' = [loop EXCEPT !.label = "dispensing_change", !.plan = x.change_reserve]
      <3>1. /\ loop'.label = "dispensing_change" /\ loop'.plan = x.change_reserve
            /\ loop'.plan # NoPieces /\ loop'.tx = loop.tx
        BY <2>4 DEF DataOK, LoopOK, LoopRecords
      <3> QED
        BY <2>1, <2>2, <3>1
    <2> QED
      BY <1>5, <2>3, <2>4 DEF RequestChange
  <1> QED
    BY <1>1, <1>2, <1>3, <1>4, <1>5 DEF PaymentLoopStep

LEMMA VendLoopMoney ==
  ASSUME DataOK, VendLoopStep
  PROVE  Idles
  <1> DEFINE x == txs[loop.tx]
  <1> USE DEF Idles, MoneyStays, StoresStay, Travels
  <1>a. loop.label \notin {"read", "dead"}
    BY DEF VendLoopStep, VendAuthorized, ProductVended, VendFails, OpenWindow, WindowOpened, OpenFails
  <1>b. loop.tx \in Transactions /\ x \in TransactionRecords
    BY <1>a, LoopHasRecord
  <1>c. /\ SamePurse(AuthorizeVend(x), x) /\ SamePurse(MarkProductDispensed(x), x)
        /\ SamePurse(MarkWindowOpened(x), x) /\ SamePurse(MarkFaulted(x), x)
    BY <1>b, MethodsKeepPurse
  <1>d. PursesStay
    <2>1. UNCHANGED txs \/ \E r : Record(loop.tx, r) /\ SamePurse(r, x)
      BY <1>c DEF VendLoopStep, VendAuthorized, ProductVended, VendFails, OpenWindow, WindowOpened,
                  OpenFails, ledger
    <2> QED
      BY <1>b, <2>1, RecordsKeepPurses
  <1>e. inventory' = inventory /\ paidOut' = paidOut /\ known' = known
    BY DEF VendLoopStep, VendAuthorized, ProductVended, VendFails, OpenWindow, WindowOpened,
           OpenFails, ledger, money
  <1>1. CASE VendAuthorized
    <2>1. LoopAt("vending") \/ loop'.label = "dead"
      BY <1>1, LoopProceedsOrDies, LoopDiesTo DEF VendAuthorized
    <2> QED
      BY <1>1, <1>d, <1>e, <2>1 DEF VendAuthorized, goods, LoopAt, ToMotor
  <1>2. CASE ProductVended
    <2>1. loop'.label \in {"product_dispensed", "dead"}
      BY <1>2, LoopGoes, LoopDiesTo DEF ProductVended, LoopAt
    <2>2. vends' = [vends EXCEPT ![loop.tx] = @ + 1] /\ vends'[loop.tx] > 0
      BY <1>2, <1>b DEF ProductVended, MotorRuns, DataOK, GoodsOK
    <2> QED
      BY <1>2, <1>d, <1>e, <2>1, <2>2 DEF ProductVended, ToMotor
  <1>3. CASE VendFails
    <2>1. vends' = [vends EXCEPT ![loop.tx] = @ + 1] \/ vends' = vends
      BY <1>3 DEF VendFails, MotorRuns
    <2> QED
      BY <1>3, <1>d, <1>e, <2>1, LoopDiesTo DEF VendFails, ToMotor
  <1>4. CASE OpenWindow
    <2>1. LoopAt("opening_window") \/ loop'.label = "dead"
      BY <1>4, LoopProceedsOrDies DEF OpenWindow
    <2> QED
      BY <1>4, <1>d, <1>e, <2>1 DEF OpenWindow, goods, LoopAt, ToMotor
  <1>5. CASE WindowOpened \/ OpenFails
    <2>1. loop'.label \in {"read", "dead"}
      BY <1>5, LoopDiesTo DEF WindowOpened, OpenFails
    <2> QED
      BY <1>5, <1>d, <1>e, <2>1 DEF WindowOpened, OpenFails, ToMotor
  <1> QED
    BY <1>1, <1>2, <1>3, <1>4, <1>5 DEF VendLoopStep

(* A cash session is refused, opened without a word about the reserve, or  *)
(* its change is reserved.                                                 *)
LEMMA OpeningMoney ==
  ASSUME DataOK, WorstCaseChange > 0, NEW c \in Clicks, StartCashSession(c) \/ ReserveCreated(c)
  PROVE  Idles \/ \E plan \in ChangePlans(inventory, WorstCaseChange) : Attaches(c, plan)
  <1> DEFINE y == clicks[c].tx
             x == txs[y]
  <1>a. y \in Transactions /\ x \in TransactionRecords
    BY DEF StartCashSession, ReserveCreated, DataOK, ClicksOK, LedgerOK
  <1>b. known' = known /\ paidOut' = paidOut /\ loop' = loop /\ vends' = vends
    BY DEF StartCashSession, ReserveCreated, money, goods
  <1>1. CASE inventory' = inventory /\ (UNCHANGED txs \/ \E r : Record(y, r) /\ SamePurse(r, x))
    <2>1. PursesStay
      BY <1>1, <1>a, RecordsKeepPurses
    <2> QED
      BY <1>1, <1>b, <2>1 DEF Idles, MoneyStays, StoresStay, Travels
  <1>2. CASE ReserveCreated(c)
    <2>1. inventory' = inventory /\ Record(y, AttachPaymentSession(x))
      BY <1>2 DEF ReserveCreated, OpenSession
    <2>2. SamePurse(AttachPaymentSession(x), x)
      BY <1>a, MethodsKeepPurse
    <2> QED
      BY <1>1, <2>1, <2>2
  <1>3. CASE StartCashSession(c)
    <2>1. CASE inventory' = inventory /\ UNCHANGED txs
      BY <1>1, <2>1
    <2>2. CASE \E plan \in ChangePlans(inventory, WorstCaseChange) :
                 /\ inventory' = Reserve(inventory, plan)
                 /\ Record(y, AttachChangeReserve(x, plan))
                 /\ Suspend(c, "reserve_created", y, NoPieces)
      <3>1. ~Started(c)'
        BY <2>2 DEF Suspend, Started, DataOK, ClicksOK
      <3>2. Started(c)
        BY <1>3 DEF StartCashSession, Started
      <3> QED
        BY <1>b, <2>2, <3>1, <3>2 DEF Attaches
    <2>3. ~(WorstCaseChange = 0)
      OBVIOUS
    <2> QED
      BY <1>3, <2>1, <2>2, <2>3 DEF StartCashSession
  <1> QED
    BY <1>2, <1>3

LEMMA OtherClicksMoney ==
  ASSUME DataOK, NobodyCancels, NEW c \in Clicks,
         PaymentClickStep(c) \/ VendClickStep(c) \/ RecoverAsCancelled(c),
         ~StartCashSession(c), ~ReserveCreated(c)
  PROVE  Idles \/ \E x \in Transactions : Adds(x)
  <1> DEFINE y == clicks[c].tx
             x == txs[y]
  <1>1. clicks[c].label \notin CancelLabels
    BY DEF NobodyCancels
  <1>2. CASE AcceptanceEnabled(c) \/ EnableFails(c)
    <2>1. y \in Transactions /\ x \in TransactionRecords
      BY <1>2 DEF AcceptanceEnabled, EnableFails, DataOK, ClicksOK, LedgerOK
    <2>2. SamePurse(MarkFaulted(x), x)
      BY <2>1, MethodsKeepPurse
    <2>3. PursesStay
      BY <1>2, <2>1, <2>2, RecordsKeepPurses DEF AcceptanceEnabled, EnableFails, ledger
    <2> QED
      BY <1>2, <2>3
      DEF AcceptanceEnabled, EnableFails, ledger, money, goods, Idles, MoneyStays, StoresStay, Travels
  <1>3. CASE SensorMismatch(c) \/ AlreadyActive(c) \/ SaleCompleted(c)
    <2>1. PursesStay
      BY <1>3, RecordsKeepPurses DEF SensorMismatch, AlreadyActive, SaleCompleted, ledger
    <2> QED
      BY <1>3, <2>1
      DEF SensorMismatch, AlreadyActive, SaleCompleted, ledger, money, goods, Idles, MoneyStays,
          StoresStay, Travels
  <1>4. CASE PickupClick(c) \/ PickupWindowClosed(c) \/ PickupCloseFails(c) \/ RecoverAsCancelled(c)
    <2>1. y \in Transactions /\ x \in TransactionRecords
      BY <1>4 DEF PickupClick, PickupWindowClosed, PickupCloseFails, RecoverAsCancelled, DataOK,
                  ClicksOK, LedgerOK
    <2>2. /\ SamePurse(MarkFaulted(x), x) /\ SamePurse(MarkWindowClosed(x), x)
          /\ SamePurse(Cancel(x), x) /\ SamePurse(ConfirmPickup(x), x)
      BY <2>1, MethodsKeepPurse
    <2>3. UNCHANGED txs \/ \E r : Record(y, r) /\ SamePurse(r, x)
      BY <1>4, <2>2 DEF PickupClick, PickupWindowClosed, PickupCloseFails, RecoverAsCancelled
    <2>4. PursesStay
      BY <2>1, <2>3, RecordsKeepPurses
    <2> QED
      BY <1>4, <2>4
      DEF PickupClick, PickupWindowClosed, PickupCloseFails, RecoverAsCancelled, money, goods, Idles,
          MoneyStays, StoresStay, Travels
  <1>5. ASSUME NEW z \in Transactions, CreateTransaction(c, z)
        PROVE  Adds(z)
    BY <1>5 DEF CreateTransaction, Adds, StoresStay, money, goods
  <1>6. ~(\/ CancelDisabled(c) \/ CancelDisableFails(c) \/ RequestRefund(c) \/ RefundDispensed(c)
          \/ RefundNotDispensed(c) \/ RefundCommandRaises(c) \/ RefundPublished(c)
          \/ CancelPublished(c))
    BY <1>1 DEF CancelLabels, CancelDisabled, CancelDisableFails, RequestRefund, RefundDispensed,
                RefundNotDispensed, RefundCommandRaises, RefundPublished, CancelPublished
  <1> QED
    BY <1>2, <1>3, <1>4, <1>5, <1>6 DEF PaymentClickStep, VendClickStep

LEMMA OutsideMoney ==
  ASSUME DataOK, (\E x \in Transactions : DeadlineStep(x)) \/ CustomerStep \/ OperatorStep
  PROVE  Idles
  <1>1. /\ loop' = loop /\ vends' = vends /\ known' = known /\ inventory' = inventory
        /\ paidOut' = paidOut
    BY DEF DeadlineStep, TimerStep, DeadlinePasses, CloseOnTimeout, TimeoutWindowClosed,
           TimeoutCloseFails, CustomerStep, InsertBill, JamBill, CheckoutClick, CancelClick,
           PickupPress, OperatorStep, EnterServiceMode, ExitServiceMode, RecoverClick, HealthPoll,
           LeaveNotice, ledger, goods, money
  <1>2. PursesStay
    <2>1. ASSUME NEW x \in Transactions, DeadlineStep(x)
          PROVE  PursesStay
      <3>1. /\ SamePurse(MarkPickupTimedOutWindowClosed(txs[x]), txs[x])
            /\ SamePurse(MarkFaulted(txs[x]), txs[x])
        BY MethodsKeepPurse DEF DataOK, LedgerOK
      <3>2. UNCHANGED txs \/ \E r : Record(x, r) /\ SamePurse(r, txs[x])
        BY <2>1, <3>1
        DEF DeadlineStep, TimerStep, DeadlinePasses, CloseOnTimeout, TimeoutWindowClosed,
            TimeoutCloseFails, ledger
      <3> QED
        BY <3>2, RecordsKeepPurses
    <2>2. CASE CustomerStep
      <3>1. UNCHANGED txs
        BY <2>2 DEF CustomerStep, InsertBill, JamBill, CheckoutClick, CancelClick, PickupPress, ledger
      <3> QED
        BY <3>1, RecordsKeepPurses
    <2>3. CASE OperatorStep
      BY <2>3, RecordsKeepPurses
      DEF OperatorStep, EnterServiceMode, ExitServiceMode, RecoverClick, HealthPoll, LeaveNotice, ledger
    <2> QED
      BY <2>1, <2>2, <2>3
  <1> QED
    BY <1>1, <1>2 DEF Idles, MoneyStays, StoresStay, Travels

-----------------------------------------------------------------------------
(* Where a click can go while nobody cancels.                              *)
ClickGoes ==
  \/ UNCHANGED clicks
  \/ \E c \in Clicks :
       \/ EndClick(c)
       \/ \E where, x, plan :
            /\ Suspend(c, where, x, plan)
            /\ \/ where \in {"sensing", "purchase_started", "reserve_created", "enabling",
                             "pressed", "closing_window", "completed"}
               \/ where = "cancel_disabling" /\ "cancel" \in Operations
               \/ where = "recovering" /\ screen = "service"

LEMMA ClickStepGoes ==
  ASSUME NobodyCancels, NEW c \in Clicks, ClickStep(c)
  PROVE  ClickGoes
  <1>1. clicks[c].label \notin CancelLabels
    BY DEF NobodyCancels
  <1>2. CASE StartCashSession(c) \/ ReserveCreated(c) \/ AcceptanceEnabled(c) \/ EnableFails(c)
    <2>1. \/ EndClick(c)
          \/ \E where, x, plan :
               Suspend(c, where, x, plan) /\ where \in {"enabling", "reserve_created"}
      BY <1>2 DEF StartCashSession, ReserveCreated, AcceptanceEnabled, EnableFails, OpenSession,
                  ClickRejected
    <2> QED
      BY <2>1 DEF ClickGoes
  <1>3. CASE VendClickStep(c) \/ RecoverAsCancelled(c)
    <2>1. \/ EndClick(c)
          \/ \E where, x, plan :
               /\ Suspend(c, where, x, plan)
               /\ where \in {"purchase_started", "closing_window", "completed"}
      BY <1>3 DEF VendClickStep, SensorMismatch, AlreadyActive, CreateTransaction,
                  PickupClick, PickupWindowClosed, PickupCloseFails, SaleCompleted, RecoverAsCancelled,
                  ClickRejected
    <2> QED
      BY <2>1 DEF ClickGoes
  <1> QED
    BY <1>1, <1>2, <1>3
    DEF ClickStep, PaymentClickStep, CancelLabels, CancelDisabled, CancelDisableFails,
        RequestRefund, RefundDispensed, RefundNotDispensed, RefundCommandRaises,
        RefundPublished, CancelPublished

LEMMA NextClickGoes ==
  ASSUME NobodyCancels, Next
  PROVE  ClickGoes
  <1>1. CASE LoopStep
    <2>1. UNCHANGED clicks
      BY <1>1 DEF LoopStep, PaymentLoopStep, ReadEvent, ValidatorFault, CreditBill, AwaitMoreCash,
                  CompletePayment, AcceptanceDisabled, FinalizeReserve, RequestChange,
                  ChangeDispensed, DisableFails, ChangeNotDispensed, ChangeCommandRaises,
                  VendLoopStep, VendAuthorized, ProductVended, VendFails, OpenWindow, WindowOpened,
                  OpenFails
    <2> QED
      BY <2>1 DEF ClickGoes
  <1>2. CASE \E x \in Transactions : DeadlineStep(x)
    <2>1. UNCHANGED clicks
      BY <1>2 DEF DeadlineStep, TimerStep, DeadlinePasses, CloseOnTimeout, TimeoutWindowClosed,
                  TimeoutCloseFails
    <2> QED
      BY <2>1 DEF ClickGoes
  <1>3. CASE CustomerStep
    <2>1. \/ UNCHANGED clicks
          \/ \E c \in Clicks : CheckoutClick(c) \/ CancelClick(c) \/ PickupPress(c)
      BY <1>3 DEF CustomerStep, InsertBill, JamBill
    <2>2. ASSUME NEW c \in Clicks, CheckoutClick(c) \/ PickupPress(c) \/ CancelClick(c)
          PROVE  \/ EndClick(c)
                 \/ \E where, x, plan :
                      /\ Suspend(c, where, x, plan)
                      /\ \/ where \in {"sensing", "pressed"}
                         \/ where = "cancel_disabling" /\ "cancel" \in Operations
      BY <2>2 DEF CheckoutClick, PickupPress, CancelClick, ClickRejected
    <2>3. ASSUME NEW c \in Clicks, CheckoutClick(c) \/ PickupPress(c) \/ CancelClick(c)
          PROVE  ClickGoes
      BY <2>2, <2>3 DEF ClickGoes
    <2> QED
      BY <2>1, <2>3 DEF ClickGoes
  <1>4. CASE OperatorStep
    <2>1. UNCHANGED clicks \/ \E c \in Clicks : RecoverClick(c)
      BY <1>4 DEF OperatorStep, EnterServiceMode, ExitServiceMode, HealthPoll, LeaveNotice
    <2>2. ASSUME NEW c \in Clicks, RecoverClick(c)
          PROVE  ClickGoes
      <3>1. \/ UNCHANGED clicks
            \/ screen = "service" /\ \E x \in known : Suspend(c, "recovering", x, NoPieces)
        BY <2>2 DEF RecoverClick
      <3> QED
        BY <3>1 DEF ClickGoes
    <2> QED
      BY <2>1, <2>2 DEF ClickGoes
  <1> QED
    BY <1>1, <1>2, <1>3, <1>4, ClickStepGoes DEF Next

(* A click enters a cancellation only by the cancel button.                *)
LEMMA NobodyCancelsKept ==
  ASSUME DataOK, "cancel" \notin Operations, NobodyCancels, Next
  PROVE  NobodyCancels'
  <1>1. ASSUME NEW c \in Clicks,
               \/ EndClick(c)
               \/ \E where, x, plan : Suspend(c, where, x, plan) /\ where \notin CancelLabels
        PROVE  NobodyCancels'
    BY <1>1 DEF NobodyCancels, EndClick, Suspend, IdleClick, CancelLabels, DataOK, ClicksOK
  <1>2. UNCHANGED clicks => NobodyCancels'
    BY DEF NobodyCancels
  <1>3. \/ UNCHANGED clicks
        \/ \E c \in Clicks :
             \/ EndClick(c)
             \/ \E where, x, plan : Suspend(c, where, x, plan) /\ where \notin CancelLabels
    BY NextClickGoes DEF ClickGoes, CancelLabels
  <1> QED
    BY <1>1, <1>2, <1>3

LEMMA NobodyEverCancels == ASSUME "cancel" \notin Operations PROVE Spec => []NobodyCancels
  <1>1. KioskInit => NobodyCancels
    BY DEF KioskInit, Init, NobodyCancels, CancelLabels, IdleClick
  <1>2. ASSUME DataOK, NobodyCancels, [Next]_kioskVars
        PROVE  NobodyCancels'
    <2>1. CASE UNCHANGED kioskVars
      BY <1>2, <2>1 DEF kioskVars, vars, NobodyCancels
    <2>2. CASE Next
      BY <1>2, <2>2, NobodyCancelsKept
    <2> QED
      BY <1>2, <2>1, <2>2
  <1> QED
    BY <1>1, <1>2, DataAlwaysOK, PTL DEF Spec

-----------------------------------------------------------------------------
(* What is paid out is worth something or nothing, never less.             *)
LEMMA Amounts ==
  ASSUME DataOK
  PROVE  /\ Price \in Nat /\ Price > 0
         /\ \A x \in known : /\ x \in Transactions
                            /\ Paid(x) \in Nat /\ vends[x] \in Nat
                            /\ txs[x].accepted_amount \in Nat /\ txs[x].change_due \in Nat
                            /\ txs[x].change_reserve \in Counts
                            /\ HeldPieces(x) \in Counts
         /\ \A x \in Transactions : paidOut[x] \in Counts
         /\ \A d \in Denominations : /\ inventory.reserved[d] \in Nat
                                     /\ inventory.accounting[d] \in Int
  <1>1. Price \in Nat /\ Price > 0
    BY ChangeAssumption
  <1>2. ASSUME NEW x \in known
        PROVE  /\ x \in Transactions
               /\ Paid(x) \in Nat /\ vends[x] \in Nat
               /\ txs[x].accepted_amount \in Nat /\ txs[x].change_due \in Nat
               /\ txs[x].change_reserve \in Counts
               /\ HeldPieces(x) \in Counts
    <2>1. x \in Transactions /\ txs[x] \in TransactionRecords
      BY DEF DataOK, LedgerOK
    <2>2. paidOut[x] \in Counts /\ vends[x] \in Nat
      BY <2>1 DEF DataOK, CashOK, GoodsOK
    <2>3. txs[x].accepted_amount \in Nat /\ txs[x].change_due \in Nat
          /\ txs[x].change_reserve \in Counts
      BY <2>1 DEF TransactionRecords
    <2> QED
      BY <2>1, <2>2, <2>3, ValueTyped, NoPiecesCount DEF Paid, HeldPieces
  <1>3. /\ \A x \in Transactions : paidOut[x] \in Counts
        /\ \A d \in Denominations : /\ inventory.reserved[d] \in Nat
                                    /\ inventory.accounting[d] \in Int
    BY DEF DataOK, CashOK, InventoryRecords, Counts
  <1> QED
    BY <1>1, <1>2, <1>3

LEMMA StillEmpty ==
  ASSUME Ground', TasksKnown', StartsEmpty, Forms, known' = known,
         \A c \in Clicks : Started(c) /\ Started(c)' /\ clicks'[c].tx = clicks[c].tx =>
           txs'[clicks[c].tx].change_reserve = txs[clicks[c].tx].change_reserve
  PROVE  StartsEmpty'
  BY StartedBefore DEF StartsEmpty, TasksKnown, Opening

LEMMA IdlesKeeps ==
  ASSUME Ground, Ground', MoneyInv, Forms, Idles
  PROVE  MoneyInv'
  <1> USE DEF MoneyInv
  <1>0. /\ DataOK /\ VendInv /\ TasksKnown /\ TasksKnown' /\ VendedOnce
        /\ known' = known /\ paidOut' = paidOut /\ Travels
    BY DEF Ground, VendInv, LifeInv, VendedKnown, Idles, MoneyStays
  <1>1. ASSUME NEW x \in known
        PROVE  /\ txs'[x].accepted_amount = txs[x].accepted_amount
               /\ txs'[x].change_due = txs[x].change_due
               /\ txs'[x].payout_status = txs[x].payout_status
               /\ txs'[x].change_reserve = txs[x].change_reserve
    BY DEF Idles, MoneyStays, PursesStay, SamePurse
  <1>2. StartsEmpty'
    BY <1>0, <1>1, StillEmpty DEF TasksKnown, Opening
  <1>3. \A x \in Transactions : vends'[x] >= vends[x]
    BY <1>0 DEF Travels, DataOK, GoodsOK
  <1>4. PaidOutBefore'
    <2> SUFFICES ASSUME NEW x \in Transactions,
                        paidOut[x] # NoPieces \/ (x \in known /\ txs'[x].payout_status = "dispensed")
                 PROVE  x \in known /\ (vends'[x] > 0 \/ loop'.label = "dead" \/ OnItsWay(x)')
      BY <1>0 DEF PaidOutBefore
    <2>1. x \in known /\ (vends[x] > 0 \/ loop.label = "dead" \/ OnItsWay(x))
      BY <1>1 DEF PaidOutBefore
    <2>2. CASE vends[x] > 0
      BY <1>0, <1>3, <2>1, <2>2 DEF DataOK, GoodsOK, Ground
    <2>3. CASE loop.label = "dead"
      BY <1>0, <2>1, <2>3 DEF Travels
    <2>4. CASE OnItsWay(x)
      BY <1>0, <2>1, <2>4 DEF Travels, OnItsWay
    <2> QED
      BY <2>1, <2>2, <2>3, <2>4
  <1>5. OverpaidStays'
    BY <1>0, <1>1 DEF OverpaidStays
  <1>6. Payment'
    BY <1>0, <1>1 DEF Payment, Travels, TasksKnown, ToMotor
  <1>7. KnownGiveAtMost'
    <2> SUFFICES ASSUME NEW x \in known
                 PROVE  Value(paidOut[x]) + vends'[x] * Price <= txs[x].accepted_amount
      BY <1>0, <1>1 DEF KnownGiveAtMost, Paid
    <2>1. Value(paidOut[x]) + vends[x] * Price <= txs[x].accepted_amount
      BY DEF KnownGiveAtMost, Paid
    <2>2. CASE vends' = vends
      BY <2>1, <2>2
    <2>3. CASE loop.label = "vending" /\ vends' = [vends EXCEPT ![loop.tx] = @ + 1]
      <3>1. CASE x = loop.tx
        <4>1. vends[x] = 0 /\ vends'[x] = 1
          BY <1>0, <2>3, <3>1, Amounts DEF VendedOnce, ToMotor, DataOK, GoodsOK
        <4>2. Value(paidOut[x]) <= txs[x].change_due
              /\ txs[x].accepted_amount = Price + txs[x].change_due
          BY <2>3, <3>1 DEF Payment, ToMotor
        <4>3. Value(paidOut[x]) \in Nat /\ txs[x].change_due \in Nat /\ Price \in Nat
          BY <1>0, Amounts DEF Paid
        <4>4. vends'[x] * Price = Price
          BY <4>1, <4>3
        <4> QED
          BY <4>2, <4>3, <4>4
      <3>2. CASE x # loop.tx
        BY <1>0, <2>1, <2>3, <3>2, Amounts DEF DataOK, GoodsOK
      <3> QED
        BY <3>1, <3>2
    <2> QED
      BY <1>0, <2>2, <2>3 DEF Travels
  <1>8. ReservesAdd'
    <2> SUFFICES ASSUME NEW d \in Denominations
                 PROVE  inventory'.reserved[d] = Total(Holding(d)', known)
      BY <1>0 DEF ReservesAdd
    <2>1. \A x \in known : Holding(d)'[x] = Holding(d)[x]
      BY <1>0, <1>1, Amounts DEF Holding, HeldPieces
    <2>2. Total(Holding(d)', known) = Total(Holding(d), known)
      <3>1. IsFiniteSet(known)
        BY DEF ReservesAdd
      <3> QED
        BY <2>1, <3>1, SumSame
    <2> QED
      BY <2>2 DEF ReservesAdd, Idles, MoneyStays, StoresStay
  <1>9. ReservedIsCovered'
    BY DEF ReservedIsCovered, Idles, MoneyStays, StoresStay
  <1> QED
    BY <1>2, <1>4, <1>5, <1>6, <1>7, <1>8, <1>9

LEMMA AddsKeeps ==
  ASSUME Ground, Ground', MoneyInv, Forms, NEW x \in Transactions, Adds(x)
  PROVE  MoneyInv'
  <1> USE DEF MoneyInv
  <1>0. /\ DataOK /\ DataOK' /\ TasksKnown /\ TasksKnown' /\ VendedOnce
        /\ known' = known \cup {x} /\ x \notin known /\ paidOut' = paidOut /\ loop' = loop
        /\ vends' = vends /\ VendedKnown
    BY DEF Ground, VendInv, LifeInv, Adds
  <1>1. txs'[x] = NewTransaction /\ \A y \in known : txs'[y] = txs[y]
    BY <1>0 DEF Adds, Record, DataOK, LedgerOK
  <1>2. /\ NewTransaction.accepted_amount = 0 /\ NewTransaction.payout_status = "not_required"
        /\ NewTransaction.change_reserve = NoPieces
    BY DEF NewTransaction
  <1>3. paidOut[x] = NoPieces /\ vends[x] = 0
    BY <1>0 DEF PaidOutBefore, VendedKnown, DataOK, GoodsOK
  <1>4. StartsEmpty'
    <2> SUFFICES ASSUME NEW c \in Clicks, Started(c)'
                 PROVE  txs'[clicks'[c].tx].change_reserve = NoPieces
      BY DEF StartsEmpty
    <2>1. clicks'[c].tx \in known \cup {x}
      BY <1>0 DEF TasksKnown, Opening
    <2>2. (Started(c) /\ clicks'[c].tx = clicks[c].tx) \/ clicks'[c].tx \notin known
      BY StartedBefore
    <2>3. Started(c) => clicks[c].tx \in known
      BY <1>0 DEF TasksKnown, Opening
    <2> QED
      BY <1>1, <1>2, <2>1, <2>2, <2>3 DEF StartsEmpty
  <1>5. PaidOutBefore'
    BY <1>0, <1>1, <1>2 DEF PaidOutBefore, OnItsWay
  <1>6. OverpaidStays'
    BY <1>0, <1>1, <1>2 DEF OverpaidStays
  <1>7. Payment'
    BY <1>0, <1>1 DEF Payment, TasksKnown, ToMotor
  <1>8. KnownGiveAtMost'
    <2> SUFFICES ASSUME NEW y \in known \cup {x}
                 PROVE  Value(paidOut[y]) + vends[y] * Price <= txs'[y].accepted_amount
      BY <1>0 DEF KnownGiveAtMost, Paid
    <2>1. CASE y \in known
      BY <1>1, <2>1 DEF KnownGiveAtMost, Paid
    <2>2. CASE y = x
      <3>1. vends[y] * Price = 0
        BY <1>0, <1>3, <2>2, Amounts
      <3> QED
        BY <1>1, <1>2, <1>3, <2>2, <3>1, ValueOfNothing
    <2> QED
      BY <2>1, <2>2
  <1>9. ReservesAdd'
    <2>1. IsFiniteSet(known')
      BY <1>0, FS_AddElement DEF ReservesAdd
    <2>2. ASSUME NEW d \in Denominations
          PROVE  inventory'.reserved[d] = Total(Holding(d)', known \cup {x})
      <3>1. \A y \in known : Holding(d)[y] \in Nat /\ Holding(d)[y] = Holding(d)'[y]
        BY <1>0, <1>1, Amounts DEF Holding, HeldPieces, Counts
      <3>2. Holding(d)'[x] = 0
        BY <1>1, <1>2 DEF Holding, HeldPieces, NoPieces
      <3>3. IsFiniteSet(known)
        BY DEF ReservesAdd
      <3>5. x \notin known /\ 0 \in Nat
        BY <1>0
      <3>4. /\ Total(Holding(d)', known \cup {x}) = 0 + Total(Holding(d), known)
            /\ Total(Holding(d), known) \in Nat
        <4>1. PICK F : F = Holding(d)
          OBVIOUS
        <4>2. PICK G : G = Holding(d)'
          OBVIOUS
        <4>3. \A y \in known : F[y] \in Nat
          BY <3>1, <4>1
        <4>4. \A y \in known : F[y] = G[y]
          BY <3>1, <4>1, <4>2
        <4>5. /\ Total(F, known) \in Nat
              /\ \A a : a \notin known /\ G[a] \in Nat
                   => Total(G, known \cup {a}) = G[a] + Total(F, known)
          BY <3>3, <4>3, <4>4, TotalGrown
        <4>6. G[x] = 0 /\ G[x] \in Nat
          BY <3>2, <4>2
        <4>7. Total(G, known \cup {x}) = G[x] + Total(F, known)
          BY <3>5, <4>5, <4>6
        <4> QED
          BY <4>1, <4>2, <4>5, <4>6, <4>7
      <3> QED
        BY <3>4 DEF ReservesAdd, Adds, StoresStay
    <2> QED
      BY <1>0, <2>1, <2>2 DEF ReservesAdd
  <1>10. ReservedIsCovered'
    BY DEF ReservedIsCovered, Adds, StoresStay
  <1> QED
    BY <1>4, <1>5, <1>6, <1>7, <1>8, <1>9, <1>10

(* A change plan is worth what was asked and fits into what is not yet     *)
(* promised.                                                               *)
LEMMA PlanFits ==
  ASSUME NEW inv \in InventoryRecords, NEW target, NEW p \in ChangePlans(inv, target)
  PROVE  /\ p \in Counts /\ Value(p) = target
         /\ \A d \in Denominations : p[d] <= Available(inv)[d]
  <1>1. p \in Counts
    BY PlansTyped
  <1>2. p \in ExactPlans(inv, target)
    BY DEF ChangePlans
  <1>3. Value(p) = target /\ p \in SubPlans(Available(inv))
    BY <1>2 DEF ExactPlans
  <1> QED
    BY <1>1, <1>3 DEF SubPlans

(* One transaction's pieces change: so does the sum.                       *)
LEMMA HoldingChanged ==
  ASSUME DataOK, DataOK', ReservesAdd, NEW x \in known, known' = known,
         \A y \in known : y # x => HeldPieces(y)' = HeldPieces(y),
         NEW d \in Denominations
  PROVE  /\ HeldPieces(x)[d] \in Nat /\ HeldPieces(x)'[d] \in Nat
         /\ HeldPieces(x)[d] <= inventory.reserved[d]
         /\ Total(Holding(d)', known') \in Nat
         /\ Total(Holding(d)', known') + HeldPieces(x)[d]
              = inventory.reserved[d] + HeldPieces(x)'[d]
  <1>1. /\ \A y \in known : HeldPieces(y)[d] \in Nat
        /\ \A y \in known : y \in Transactions
    BY Amounts DEF Counts
  <1>2. \A y \in known : HeldPieces(y)'[d] \in Nat
    <2>1. \A y \in known : txs'[y].change_reserve \in Counts
      BY <1>1 DEF DataOK, LedgerOK, TransactionRecords
    <2> QED
      BY <2>1, NoPiecesCount DEF HeldPieces, Counts
  <1> DEFINE F == Holding(d)
             G == Holding(d)'
  <1>3. \A y \in known : F[y] = HeldPieces(y)[d] /\ G[y] = HeldPieces(y)'[d]
    BY <1>1 DEF Holding
  <1> HIDE DEF F, G
  <1>4. IsFiniteSet(known)
    BY DEF ReservesAdd
  <1>5. \A y \in known : F[y] \in Nat /\ G[y] \in Nat
    BY <1>1, <1>2, <1>3
  <1>6. \A y \in known : y # x => F[y] = G[y]
    BY <1>3
  <1>7. F[x] <= Total(F, known) /\ Total(G, known) \in Nat /\ Total(G, known) + F[x] = Total(F, known) + G[x]
    BY <1>4, <1>5, <1>6, TotalChanged
  <1>8. inventory.reserved[d] = Total(F, known)
    BY DEF ReservesAdd, F
  <1> QED
    BY <1>1, <1>2, <1>3, <1>7, <1>8 DEF G

LEMMA AttachesKeeps ==
  ASSUME Ground, Ground', MoneyInv, Forms, NEW c \in Clicks,
         NEW target, NEW plan \in ChangePlans(inventory, target), Attaches(c, plan)
  PROVE  MoneyInv'
  <1> USE DEF MoneyInv
  <1>y. PICK y : y = clicks[c].tx
    OBVIOUS
  <1>0. /\ DataOK /\ DataOK' /\ TasksKnown /\ TasksKnown' /\ VendedOnce /\ OpeningClicks
        /\ known' = known /\ paidOut' = paidOut /\ loop' = loop /\ vends' = vends
    BY DEF Ground, VendInv, LifeInv, VendedKnown, Attaches
  <1>1. /\ y \in known /\ y \in Transactions /\ ~Sessioned(y)
        /\ txs[y].change_reserve = NoPieces
    BY <1>0, <1>y DEF Attaches, TasksKnown, Opening, Ground, Unsessioned, StartsEmpty, DataOK, LedgerOK
  <1>2. /\ \A x \in known : x # y => txs'[x] = txs[x]
        /\ txs'[y].accepted_amount = txs[y].accepted_amount
        /\ txs'[y].payout_status = "reserved" /\ txs'[y].change_reserve = plan
    <2>1. txs[y] \in TransactionRecords
      BY <1>0, <1>1 DEF DataOK, LedgerOK
    <2>2. txs' = [txs EXCEPT ![y] = AttachChangeReserve(txs[y], plan)]
      BY <1>y DEF Attaches, Record
    <2>3. txs'[y] = AttachChangeReserve(txs[y], plan) /\ \A x \in known : x # y => txs'[x] = txs[x]
      BY <1>0, <1>1, <2>2 DEF DataOK, LedgerOK
    <2> QED
      BY <2>1, <2>3 DEF AttachChangeReserve, TransactionRecords
  <1>3. loop.label \in ToMotor \cup {"disabling"} => loop.tx \in known /\ loop.tx # y
    BY <1>0, <1>1 DEF VendedOnce, TasksKnown, ToMotor
  <1>4. StartsEmpty'
    <2>1. \A e \in Clicks : Started(e) /\ Started(e)' => e # c /\ clicks[e].tx # y
      BY <1>0, <1>y DEF Attaches, OpeningClicks, Opening
    <2>2. \A e \in Clicks : Started(e) => clicks[e].tx \in known
      BY <1>0 DEF TasksKnown, Opening
    <2> QED
      BY <1>0, <1>2, <2>1, <2>2, StillEmpty
  <1>5. PaidOutBefore'
    BY <1>0, <1>2 DEF PaidOutBefore, OnItsWay
  <1>6. OverpaidStays'
    BY <1>0, <1>2 DEF OverpaidStays
  <1>7. Payment'
    BY <1>0, <1>2, <1>3 DEF Payment, ToMotor
  <1>8. KnownGiveAtMost'
    BY <1>0, <1>2 DEF KnownGiveAtMost, Paid
  <1>9. plan \in Counts /\ \A d \in Denominations : plan[d] <= Available(inventory)[d]
    BY <1>0, PlanFits DEF DataOK, CashOK
  <1>10. \A d \in Denominations : /\ inventory'.reserved[d] = inventory.reserved[d] + plan[d]
                                 /\ inventory'.accounting = inventory.accounting
    BY <1>0 DEF Attaches, Reserve, PlusCounts, DataOK, CashOK, InventoryRecords
  <1>11. ReservesAdd'
    <2> SUFFICES ASSUME NEW d \in Denominations
                 PROVE  inventory'.reserved[d] = Total(Holding(d)', known')
      BY <1>0 DEF ReservesAdd
    <2>1. \A x \in known : x # y => HeldPieces(x)' = HeldPieces(x)
      BY <1>2 DEF HeldPieces
    <2>2. HeldPieces(y)[d] = 0 /\ HeldPieces(y)'[d] = plan[d]
      BY <1>1, <1>2 DEF HeldPieces, NoPieces
    <2>3. /\ Total(Holding(d)', known') \in Nat
          /\ Total(Holding(d)', known') + 0 = inventory.reserved[d] + plan[d]
      BY <1>0, <1>1, <2>1, <2>2, HoldingChanged
    <2>4. inventory.reserved[d] \in Nat /\ plan[d] \in Nat
      BY <1>0, <1>9, Amounts DEF Counts
    <2> QED
      BY <1>10, <2>3, <2>4
  <1>12. ReservedIsCovered'
    <2> SUFFICES ASSUME NEW d \in Denominations
                 PROVE  inventory.reserved[d] + plan[d] <= inventory.accounting[d]
      BY <1>10 DEF ReservedIsCovered
    <2>1. inventory.reserved[d] <= inventory.accounting[d]
      BY DEF ReservedIsCovered
    <2>2. plan[d] <= IF inventory.accounting[d] > inventory.reserved[d]
                     THEN inventory.accounting[d] - inventory.reserved[d] ELSE 0
      BY <1>9 DEF Available, FloorMinus
    <2>3. inventory.reserved[d] \in Nat /\ plan[d] \in Nat /\ inventory.accounting[d] \in Int
      BY <1>0, <1>9, Amounts DEF Counts
    <2> QED
      BY <2>1, <2>2, <2>3
  <1> QED
    BY <1>4, <1>5, <1>6, <1>7, <1>8, <1>11, <1>12

-----------------------------------------------------------------------------
(* A step of the loop on its own transaction, with the clicks untouched.   *)
LEMMA LoopLeavesEmpty ==
  ASSUME Ground, Ground', MoneyInv, Forms, known' = known, NEW y, Sessioned(y),
         \A x \in known : x # y => txs'[x] = txs[x]
  PROVE  StartsEmpty'
  <1>1. TasksKnown /\ TasksKnown'
    BY DEF Ground, VendInv, LifeInv, VendedKnown
  <1>2. \A c \in Clicks : Started(c) => clicks[c].tx \in known /\ clicks[c].tx # y
    BY <1>1 DEF TasksKnown, Opening, Ground, Unsessioned
  <1> QED
    BY <1>1, <1>2, StillEmpty DEF MoneyInv

LEMMA CreditKeeps ==
  ASSUME Ground, Ground', MoneyInv, Forms, CreditBill
  PROVE  MoneyInv'
  <1>0. /\ DataOK /\ DataOK' /\ TasksKnown /\ loop.label = "device_event"
        /\ known' = known /\ paidOut' = paidOut /\ inventory' = inventory /\ vends' = vends
    BY DEF Ground, VendInv, LifeInv, VendedKnown, CreditBill, money, goods
  <1>y. PICK y : y = loop.tx
    OBVIOUS
  <1>a. /\ y \in Transactions /\ y \in known /\ txs[y] \in TransactionRecords
        /\ loop.event \in Nat
    BY <1>0, <1>y, LoopHasRecord, ChangeAssumption DEF TasksKnown, CreditBill
  <1>1. CASE ~RecordStackedCashReturns(txs[y])
    <2>1. UNCHANGED txs /\ loop'.label = "dead"
      BY <1>0, <1>1, <1>y, LoopDiesTo DEF CreditBill
    <2>2. PursesStay
      BY <1>0, <2>1, RecordsKeepPurses
    <2>3. Idles
      BY <1>0, <2>1, <2>2 DEF Idles, MoneyStays, StoresStay, Travels, ToMotor
    <2> QED
      BY <2>3, IdlesKeeps
  <1>2. CASE RecordStackedCashReturns(txs[y])
    <2> USE DEF MoneyInv
    <2>1. /\ txs' = [txs EXCEPT ![y] = RecordStackedCash(txs[y], loop.event)]
          /\ LoopAt("amount_updated")
      BY <1>0, <1>2, <1>y, LoopGoes DEF CreditBill, Record
    <2>2. txs'[y] = RecordStackedCash(txs[y], loop.event)
          /\ \A x \in known : x # y => txs'[x] = txs[x]
      BY <1>0, <1>a, <2>1 DEF DataOK, LedgerOK
    <2>3. /\ txs'[y].accepted_amount = txs[y].accepted_amount + loop.event
          /\ txs'[y].payout_status = txs[y].payout_status
          /\ txs'[y].change_reserve = txs[y].change_reserve
      BY <1>a, <2>2 DEF RecordStackedCash, TransactionRecords
    <2>4. StartsEmpty'
      <3>1. Sessioned(y)
        BY <1>2 DEF RecordStackedCashReturns, Sessioned
      <3> QED
        BY <1>0, <2>2, <3>1, LoopLeavesEmpty
    <2>5. PaidOutBefore'
      BY <1>0, <2>2, <2>3 DEF PaidOutBefore, OnItsWay
    <2>6. OverpaidStays'
      <3>1. txs[y].accepted_amount > Price =>
               txs[y].accepted_amount + loop.event > Price
        BY <1>0, <1>a, Amounts
      <3> QED
        BY <1>0, <1>a, <2>2, <2>3, <3>1 DEF OverpaidStays
    <2>7. Payment'
      BY <2>1 DEF Payment, LoopAt, ToMotor
    <2>8. KnownGiveAtMost'
      <3> SUFFICES ASSUME NEW x \in known
                   PROVE  Paid(x) + vends[x] * Price <= txs'[x].accepted_amount
        BY <1>0 DEF KnownGiveAtMost, Paid
      <3>1. Paid(x) + vends[x] * Price <= txs[x].accepted_amount
        BY DEF KnownGiveAtMost
      <3> DEFINE given == Paid(x) + vends[x] * Price
      <3>2. given \in Nat /\ txs[x].accepted_amount \in Nat
        BY <1>0, Amounts
      <3> HIDE DEF given
      <3>3. txs'[x].accepted_amount = txs[x].accepted_amount
              \/ txs'[x].accepted_amount = txs[x].accepted_amount + loop.event
        BY <2>2, <2>3
      <3> QED
        BY <1>a, <3>1, <3>2, <3>3 DEF given
    <2>9. ReservesAdd'
      <3>1. \A x \in known : HeldPieces(x)' = HeldPieces(x)
        BY <2>2, <2>3 DEF HeldPieces
      <3> SUFFICES ASSUME NEW d \in Denominations
                   PROVE  inventory'.reserved[d] = Total(Holding(d)', known')
        BY <1>0 DEF ReservesAdd
      <3>2. /\ HeldPieces(y)[d] \in Nat /\ HeldPieces(y)'[d] = HeldPieces(y)[d]
            /\ Total(Holding(d)', known') \in Nat
            /\ Total(Holding(d)', known') + HeldPieces(y)[d]
                  = inventory.reserved[d] + HeldPieces(y)'[d]
        BY <1>0, <1>a, <3>1, HoldingChanged
      <3> QED
        BY <1>0, <3>2, Amounts
    <2>10. ReservedIsCovered'
      BY <1>0 DEF ReservedIsCovered
    <2> QED
      BY <2>4, <2>5, <2>6, <2>7, <2>8, <2>9, <2>10
  <1> QED
    BY <1>1, <1>2

(* The reserves after one transaction exchanged what it held.              *)
LEMMA HoldingExchanged ==
  ASSUME DataOK, DataOK', ReservesAdd, NEW x \in known, known' = known,
         \A y \in known : y # x => HeldPieces(y)' = HeldPieces(y),
         \A d \in Denominations :
           HeldPieces(x)[d] <= inventory.reserved[d] =>
             inventory'.reserved[d] + HeldPieces(x)[d]
               = inventory.reserved[d] + HeldPieces(x)'[d]
  PROVE  ReservesAdd'
  <1> SUFFICES ASSUME NEW d \in Denominations
               PROVE  inventory'.reserved[d] = Total(Holding(d)', known')
    BY DEF ReservesAdd
  <1>1. /\ HeldPieces(x)[d] \in Nat /\ HeldPieces(x)'[d] \in Nat
        /\ HeldPieces(x)[d] <= inventory.reserved[d]
        /\ Total(Holding(d)', known') \in Nat
        /\ Total(Holding(d)', known') + HeldPieces(x)[d]
              = inventory.reserved[d] + HeldPieces(x)'[d]
    BY HoldingChanged
  <1>2. inventory.reserved[d] \in Nat /\ inventory'.reserved[d] \in Nat
    BY DEF DataOK, CashOK, InventoryRecords, Counts
  <1>3. inventory'.reserved[d] + HeldPieces(x)[d] = inventory.reserved[d] + HeldPieces(x)'[d]
    BY <1>1
  <1> DEFINE a == inventory.reserved[d]
             b == inventory'.reserved[d]
             h == HeldPieces(x)[d]
             k == HeldPieces(x)'[d]
             t == Total(Holding(d)', known')
  <1>4. /\ a \in Nat /\ b \in Nat /\ h \in Nat /\ k \in Nat /\ t \in Nat
        /\ t + h = a + k /\ b + h = a + k
    BY <1>1, <1>2, <1>3
  <1> HIDE DEF a, b, h, k, t
  <1>5. b = t
    BY <1>4
  <1> QED
    BY <1>5 DEF b, t

LEMMA CompletesKeeps ==
  ASSUME Ground, Ground', MoneyInv, Forms, CompletePayment
  PROVE  MoneyInv'
  <1> USE DEF MoneyInv
  <1>0. /\ DataOK /\ DataOK' /\ TasksKnown /\ VendedOnce /\ loop.label = "amount_updated"
        /\ known' = known /\ paidOut' = paidOut /\ inventory' = inventory /\ vends' = vends
    BY DEF Ground, VendInv, LifeInv, VendedKnown, CompletePayment, money, goods
  <1>y. PICK y : y = loop.tx
    OBVIOUS
  <1>a. /\ y \in Transactions /\ y \in known /\ txs[y] \in TransactionRecords
        /\ Sessioned(y)
    BY <1>0, <1>y, LoopHasRecord DEF TasksKnown, VendedOnce
  <1>1. /\ txs' = [txs EXCEPT ![y] = ConfirmPayment(txs[y])]
        /\ Covered(txs[y])
        /\ LoopAt("disabling") \/ LoopAt("payment_confirmed") \/ loop'.label = "dead"
    BY <1>0, <1>y, LoopGoes, LoopProceedsOrDies DEF CompletePayment, Record, AcceptPayment
  <1>2. txs'[y] = ConfirmPayment(txs[y]) /\ \A x \in known : x # y => txs'[x] = txs[x]
    BY <1>0, <1>a, <1>1 DEF DataOK, LedgerOK
  <1>3. /\ txs'[y].accepted_amount = txs[y].accepted_amount
        /\ txs'[y].change_due = txs[y].accepted_amount - Price
        /\ txs'[y].payout_status = IF txs[y].accepted_amount - Price = 0 THEN "not_required"
                                   ELSE txs[y].payout_status
        /\ txs'[y].change_reserve = txs[y].change_reserve
    BY <1>a, <1>2 DEF ConfirmPayment, TransactionRecords
  <1>4. txs[y].accepted_amount \in Nat /\ Price \in Nat /\ txs[y].accepted_amount >= Price
    BY <1>0, <1>1, <1>a, Amounts DEF Covered
  <1>5. txs'[y].payout_status = "dispensed" <=> txs[y].payout_status = "dispensed"
    <2>1. txs[y].payout_status = "dispensed" => txs[y].accepted_amount - Price # 0
      BY <1>4, <1>a DEF OverpaidStays
    <2> QED
      BY <1>3, <2>1
  <1>6. StartsEmpty'
    BY <1>0, <1>2, <1>a, LoopLeavesEmpty
  <1>7. PaidOutBefore'
    BY <1>0, <1>2, <1>5 DEF PaidOutBefore, OnItsWay
  <1>8. OverpaidStays'
    BY <1>0, <1>2, <1>3, <1>5 DEF OverpaidStays
  <1>9. Payment'
    <2>1. txs'[y].accepted_amount = Price + txs'[y].change_due
      BY <1>3, <1>4
    <2> QED
      BY <1>1, <1>y, <2>1 DEF Payment, LoopAt, ToMotor
  <1>10. KnownGiveAtMost'
    BY <1>0, <1>2, <1>3 DEF KnownGiveAtMost, Paid
  <1>11. ReservesAdd'
    <2>1. \A x \in known : HeldPieces(x)' = HeldPieces(x)
      BY <1>2, <1>3, <1>5 DEF HeldPieces
    <2> QED
      BY <1>0, <1>a, <2>1, HoldingExchanged
  <1>12. ReservedIsCovered'
    BY <1>0 DEF ReservedIsCovered
  <1> QED
    BY <1>6, <1>7, <1>8, <1>9, <1>10, <1>11, <1>12

(* A transaction on its way to its change has been paid nothing yet.       *)
LEMMA NothingPaidYet ==
  ASSUME Ground, MoneyInv, loop.label \in {"payment_confirmed", "dispensing_change"}
  PROVE  /\ loop.tx \in Transactions /\ loop.tx \in known
         /\ txs[loop.tx] \in TransactionRecords /\ Sessioned(loop.tx)
         /\ vends[loop.tx] = 0 /\ paidOut[loop.tx] = NoPieces
         /\ txs[loop.tx].payout_status # "dispensed"
         /\ txs[loop.tx].accepted_amount = Price + txs[loop.tx].change_due
  <1>1. DataOK /\ TasksKnown /\ VendedOnce /\ PaidOutBefore /\ Payment
    BY DEF Ground, VendInv, LifeInv, VendedKnown, MoneyInv
  <1>2. /\ loop.tx \in Transactions /\ loop.tx \in known
        /\ txs[loop.tx] \in TransactionRecords
    BY <1>1, LoopHasRecord DEF TasksKnown
  <1>3. Sessioned(loop.tx) /\ vends[loop.tx] = 0
    BY <1>1 DEF VendedOnce, ToMotor
  <1>4. paidOut[loop.tx] = NoPieces /\ txs[loop.tx].payout_status # "dispensed"
    BY <1>1, <1>2, <1>3 DEF PaidOutBefore, OnItsWay
  <1> QED
    BY <1>1, <1>2, <1>3, <1>4 DEF Payment, ToMotor

LEMMA FinalizesKeeps ==
  ASSUME Ground, Ground', MoneyInv, Forms, FinalizeReserve
  PROVE  MoneyInv'
  <1> USE DEF MoneyInv
  <1>0. /\ DataOK /\ DataOK' /\ loop.label = "payment_confirmed"
        /\ known' = known /\ paidOut' = paidOut /\ vends' = vends
    BY DEF Ground, FinalizeReserve, money, goods
  <1>y. PICK y : y = loop.tx
    OBVIOUS
  <1>a. /\ y \in Transactions /\ y \in known /\ txs[y] \in TransactionRecords
        /\ Sessioned(y) /\ vends[y] = 0 /\ paidOut[y] = NoPieces
        /\ txs[y].payout_status # "dispensed"
        /\ txs[y].accepted_amount = Price + txs[y].change_due
    BY <1>0, <1>y, NothingPaidYet
  <1>b. PICK held : held = txs[y].change_reserve
    OBVIOUS
  <1>c. PICK freed : freed = Release(inventory, held)
    OBVIOUS
  <1>d. held \in Counts /\ freed \in InventoryRecords
    BY <1>0, <1>a, <1>b, <1>c, Amounts, InventoryOperations DEF DataOK, CashOK
  <1>e. /\ freed.accounting = inventory.accounting
        /\ \A d \in Denominations :
             freed.reserved[d] = IF inventory.reserved[d] > held[d]
                                 THEN inventory.reserved[d] - held[d] ELSE 0
    BY <1>0, <1>c DEF Release, FloorMinus, DataOK, CashOK, InventoryRecords
  <1>f. \A d \in Denominations :
          /\ inventory.reserved[d] \in Nat /\ held[d] \in Nat /\ inventory.accounting[d] \in Int
          /\ inventory.reserved[d] <= inventory.accounting[d]
    BY <1>0, <1>d, Amounts DEF Counts, ReservedIsCovered
  <1>g. HeldPieces(y) = held
    BY <1>a, <1>b DEF HeldPieces
  <1>1. ASSUME txs' = [txs EXCEPT ![y] = DropReserve(txs[y])], inventory' = freed,
               \/ loop'.label = "dead"
               \/ LoopAt("vend_authorized")
        PROVE  MoneyInv'
    <2>1. txs'[y] = DropReserve(txs[y]) /\ \A x \in known : x # y => txs'[x] = txs[x]
      BY <1>0, <1>a, <1>1 DEF DataOK, LedgerOK
    <2>2. /\ txs'[y].accepted_amount = txs[y].accepted_amount
          /\ txs'[y].change_due = txs[y].change_due
          /\ txs'[y].payout_status = txs[y].payout_status
          /\ txs'[y].change_reserve = NoPieces
      BY <1>a, <2>1 DEF DropReserve, TransactionRecords
    <2>3. StartsEmpty'
      BY <1>0, <1>a, <2>1, LoopLeavesEmpty
    <2>4. PaidOutBefore'
      BY <1>0, <2>1, <2>2 DEF PaidOutBefore, OnItsWay
    <2>5. OverpaidStays'
      BY <1>0, <2>1, <2>2 DEF OverpaidStays
    <2>6. Payment'
      <3>1. CASE loop'.label = "dead"
        BY <3>1 DEF Payment, ToMotor
      <3>2. CASE LoopAt("vend_authorized")
        <4>1. Value(paidOut'[y]) <= txs'[y].change_due
          BY <1>0, <1>a, <2>2, ValueOfNothing, Amounts
        <4> QED
          BY <1>a, <1>y, <2>2, <3>2, <4>1 DEF Payment, LoopAt
      <3> QED
        BY <1>1, <3>1, <3>2
    <2>7. KnownGiveAtMost'
      BY <1>0, <2>1, <2>2 DEF KnownGiveAtMost, Paid
    <2>8. ReservesAdd'
      <3>1. \A x \in known : x # y => HeldPieces(x)' = HeldPieces(x)
        BY <2>1 DEF HeldPieces
      <3>2. ASSUME NEW d \in Denominations, HeldPieces(y)[d] <= inventory.reserved[d]
            PROVE  inventory'.reserved[d] + HeldPieces(y)[d]
                     = inventory.reserved[d] + HeldPieces(y)'[d]
        <4>1. HeldPieces(y)'[d] = 0
          BY <2>2 DEF HeldPieces, NoPieces
        <4> QED
          BY <1>1, <1>e, <1>f, <1>g, <3>2, <4>1
      <3> QED
        BY <1>0, <1>a, <3>1, <3>2, HoldingExchanged
    <2>9. ReservedIsCovered'
      BY <1>1, <1>e, <1>f DEF ReservedIsCovered
    <2> QED
      BY <2>3, <2>4, <2>5, <2>6, <2>7, <2>8, <2>9
  <1>2. ASSUME NEW plan \in ChangePlans(freed, txs[y].change_due), txs[y].change_due > 0,
               txs' = [txs EXCEPT ![y] = MarkChangePending(AttachChangeReserve(txs[y], plan))],
               inventory' = Reserve(freed, plan),
               loop'.label = "dead" \/ LoopAt("change_requested")
        PROVE  MoneyInv'
    <2>1. txs'[y] = MarkChangePending(AttachChangeReserve(txs[y], plan))
          /\ \A x \in known : x # y => txs'[x] = txs[x]
      BY <1>0, <1>a, <1>2 DEF DataOK, LedgerOK
    <2>2. /\ txs'[y].accepted_amount = txs[y].accepted_amount
          /\ txs'[y].change_due = txs[y].change_due
          /\ txs'[y].payout_status = "pending"
          /\ txs'[y].change_reserve = plan
      BY <1>a, <2>1 DEF MarkChangePending, AttachChangeReserve, TransactionRecords
    <2>3. StartsEmpty'
      BY <1>0, <1>a, <2>1, LoopLeavesEmpty
    <2>4. PaidOutBefore'
      BY <1>0, <2>1, <2>2 DEF PaidOutBefore, OnItsWay
    <2>5. OverpaidStays'
      BY <1>0, <2>1, <2>2 DEF OverpaidStays
    <2>a. /\ plan \in Counts /\ Value(plan) = txs[y].change_due
          /\ \A d \in Denominations : plan[d] <= Available(freed)[d]
      BY <1>d, PlanFits
    <2>6. Payment'
      BY <1>2, <1>a, <1>y, <2>2, <2>a DEF Payment, LoopAt, ToMotor
    <2>7. KnownGiveAtMost'
      BY <1>0, <2>1, <2>2 DEF KnownGiveAtMost, Paid
    <2>b. \A d \in Denominations : /\ inventory'.reserved[d] = freed.reserved[d] + plan[d]
                                  /\ inventory'.accounting[d] = inventory.accounting[d]
                                  /\ plan[d] \in Nat
      BY <1>2, <1>d, <1>e, <2>a DEF Reserve, PlusCounts, InventoryRecords, Counts
    <2>8. ReservesAdd'
      <3>1. \A x \in known : x # y => HeldPieces(x)' = HeldPieces(x)
        BY <2>1 DEF HeldPieces
      <3>2. ASSUME NEW d \in Denominations, HeldPieces(y)[d] <= inventory.reserved[d]
            PROVE  inventory'.reserved[d] + HeldPieces(y)[d]
                     = inventory.reserved[d] + HeldPieces(y)'[d]
        <4>1. HeldPieces(y)'[d] = plan[d]
          BY <2>2 DEF HeldPieces
        <4> QED
          BY <1>e, <1>f, <1>g, <2>b, <3>2, <4>1
      <3> QED
        BY <1>0, <1>a, <3>1, <3>2, HoldingExchanged
    <2>9. ReservedIsCovered'
      <3> SUFFICES ASSUME NEW d \in Denominations
                   PROVE  inventory'.reserved[d] <= inventory'.accounting[d]
        BY DEF ReservedIsCovered
      <3>1. plan[d] <= IF freed.accounting[d] > freed.reserved[d]
                       THEN freed.accounting[d] - freed.reserved[d] ELSE 0
        BY <2>a DEF Available, FloorMinus
      <3> QED
        BY <1>e, <1>f, <2>b, <3>1
    <2> QED
      BY <2>3, <2>4, <2>5, <2>6, <2>7, <2>8, <2>9
  <1>3. \/ /\ inventory' = freed /\ txs' = [txs EXCEPT ![y] = DropReserve(txs[y])]
           /\ LoopGoesTo("vend_authorized") \/ PayoutRaises
        \/ /\ txs[y].change_due > 0
           /\ \E plan \in ChangePlans(freed, txs[y].change_due) :
                 /\ inventory' = Reserve(freed, plan)
                 /\ txs' = [txs EXCEPT ![y] = MarkChangePending(AttachChangeReserve(txs[y], plan))]
           /\ LoopProceeds("DISPENSING_CHANGE", "change_requested", "dispensing") \/ PayoutRaises
    BY <1>b, <1>c, <1>y DEF FinalizeReserve, Record
  <1>4. /\ LoopGoesTo("vend_authorized") => LoopAt("vend_authorized")
        /\ PayoutRaises => loop'.label = "dead"
        /\ LoopProceeds("DISPENSING_CHANGE", "change_requested", "dispensing") =>
             loop'.label = "dead" \/ LoopAt("change_requested")
    BY <1>0, LoopGoes, PayoutRaisesLeaves, LoopProceedsOrDies
  <1> QED
    BY <1>1, <1>2, <1>3, <1>4

LEMMA PaysKeeps ==
  ASSUME Ground, Ground', MoneyInv, Forms, ChangeDispensed
  PROVE  MoneyInv'
  <1> USE DEF MoneyInv
  <1>0. /\ DataOK /\ DataOK' /\ loop.label = "dispensing_change"
        /\ known' = known /\ vends' = vends
    BY DEF Ground, ChangeDispensed, goods
  <1>y. PICK y : y = loop.tx
    OBVIOUS
  <1>a. /\ y \in Transactions /\ y \in known /\ txs[y] \in TransactionRecords
        /\ Sessioned(y) /\ vends[y] = 0 /\ paidOut[y] = NoPieces
        /\ txs[y].payout_status # "dispensed"
        /\ txs[y].accepted_amount = Price + txs[y].change_due
    BY <1>0, <1>y, NothingPaidYet
  <1>b. PICK held : held = txs[y].change_reserve
    OBVIOUS
  <1>c. /\ held \in Counts /\ loop.plan = held
        /\ Value(held) = txs[y].change_due /\ txs[y].change_due > 0
        /\ txs[y].change_due \in Nat /\ Price \in Nat
    BY <1>0, <1>a, <1>b, <1>y, Amounts DEF Payment
  <1>d. /\ paidOut'[y] = held
        /\ \A x \in Transactions : x # y => paidOut'[x] = paidOut[x]
    <2>1. paidOut' = [paidOut EXCEPT ![y] = PlusCounts(paidOut[y], held)]
      BY <1>c, <1>y DEF ChangeDispensed, PayOut
    <2>2. PlusCounts(NoPieces, held) = held
      BY <1>c DEF PlusCounts, NoPieces, Counts
    <2> QED
      BY <1>0, <1>a, <2>1, <2>2 DEF DataOK, CashOK
  <1>f. \A d \in Denominations :
          /\ inventory.reserved[d] \in Nat /\ held[d] \in Nat /\ inventory.accounting[d] \in Int
          /\ inventory.reserved[d] <= inventory.accounting[d]
    BY <1>0, <1>c, Amounts DEF Counts, ReservedIsCovered
  <1>g. HeldPieces(y) = held
    BY <1>a, <1>b DEF HeldPieces
  <1>h. held # NoPieces
    BY <1>c, ValueOfNothing
  <1>1. /\ txs' = [txs EXCEPT ![y] = MarkChangeDispensed(txs[y])]
        /\ inventory' = Consume(inventory, held)
        /\ LoopAt("vend_authorized")
    BY <1>0, <1>b, <1>h, <1>y, LoopGoes DEF ChangeDispensed, Record
  <1>2. txs'[y] = MarkChangeDispensed(txs[y]) /\ \A x \in known : x # y => txs'[x] = txs[x]
    BY <1>0, <1>a, <1>1 DEF DataOK, LedgerOK
  <1>3. /\ txs'[y].accepted_amount = txs[y].accepted_amount
        /\ txs'[y].change_due = txs[y].change_due
        /\ txs'[y].payout_status = "dispensed"
    BY <1>a, <1>2 DEF MarkChangeDispensed, TransactionRecords
  <1>4. \A d \in Denominations :
          /\ inventory'.reserved[d] = IF inventory.reserved[d] > held[d]
                                      THEN inventory.reserved[d] - held[d] ELSE 0
          /\ inventory'.accounting[d] = inventory.accounting[d] - held[d]
    BY <1>0, <1>1 DEF Consume, FloorMinus, MinusCounts, DataOK, CashOK, InventoryRecords
  <1>5. StartsEmpty'
    BY <1>0, <1>2, <1>a, LoopLeavesEmpty
  <1>6. PaidOutBefore'
    <2>1. OnItsWay(y)'
      BY <1>1, <1>y DEF OnItsWay, LoopAt
    <2>2. ASSUME NEW x \in Transactions, x # y,
                 paidOut'[x] # NoPieces \/ (x \in known /\ txs'[x].payout_status = "dispensed")
          PROVE  x \in known /\ vends[x] > 0
      BY <1>0, <1>2, <1>d, <2>2 DEF PaidOutBefore, OnItsWay
    <2> QED
      BY <1>0, <1>a, <2>1, <2>2 DEF PaidOutBefore
  <1>7. OverpaidStays'
    <2>1. txs'[y].accepted_amount > Price
      BY <1>3, <1>a, <1>c
    <2> QED
      BY <1>0, <1>2, <2>1 DEF OverpaidStays
  <1>8. Payment'
    <2>1. Value(paidOut'[y]) <= txs'[y].change_due
      BY <1>3, <1>c, <1>d
    <2> QED
      BY <1>1, <1>3, <1>a, <1>y, <2>1 DEF Payment, LoopAt
  <1>9. KnownGiveAtMost'
    <2> SUFFICES ASSUME NEW x \in known
                 PROVE  Value(paidOut'[x]) + vends[x] * Price <= txs'[x].accepted_amount
      BY <1>0 DEF KnownGiveAtMost, Paid
    <2>1. CASE x = y
      <3>1. vends[x] * Price = 0
        BY <1>a, <1>c, <2>1
      <3> QED
        BY <1>3, <1>a, <1>c, <1>d, <2>1, <3>1
    <2>2. CASE x # y
      BY <1>0, <1>2, <1>d, <2>2, Amounts DEF KnownGiveAtMost, Paid
    <2> QED
      BY <2>1, <2>2
  <1>10. ReservesAdd'
    <2>1. \A x \in known : x # y => HeldPieces(x)' = HeldPieces(x)
      BY <1>2 DEF HeldPieces
    <2>2. ASSUME NEW d \in Denominations, HeldPieces(y)[d] <= inventory.reserved[d]
          PROVE  inventory'.reserved[d] + HeldPieces(y)[d]
                   = inventory.reserved[d] + HeldPieces(y)'[d]
      <3>1. HeldPieces(y)'[d] = 0
        BY <1>3 DEF HeldPieces, NoPieces
      <3> QED
        BY <1>4, <1>f, <1>g, <2>2, <3>1
    <2> QED
      BY <1>0, <1>a, <2>1, <2>2, HoldingExchanged
  <1>11. ReservedIsCovered'
    <2> SUFFICES ASSUME NEW d \in Denominations
                 PROVE  inventory'.reserved[d] <= inventory'.accounting[d]
      BY DEF ReservedIsCovered
    <2>1. held[d] <= inventory.reserved[d]
      <3>1. \A x \in known : x # y => HeldPieces(x)' = HeldPieces(x)
        BY <1>2 DEF HeldPieces
      <3> QED
        BY <1>0, <1>a, <1>g, <3>1, HoldingChanged
    <2> QED
      BY <1>4, <1>f, <2>1
  <1> QED
    BY <1>5, <1>6, <1>7, <1>8, <1>9, <1>10, <1>11

LEMMA FailsToPayKeeps ==
  ASSUME Ground, Ground', MoneyInv, Forms, ChangeNotDispensed \/ ChangeCommandRaises
  PROVE  MoneyInv'
  <1> USE DEF MoneyInv
  <1>0. /\ DataOK /\ DataOK' /\ loop.label = "dispensing_change"
        /\ known' = known /\ vends' = vends /\ loop'.label = "dead"
        /\ inventory'.reserved = inventory.reserved
        /\ inventory'.accounting = inventory.accounting
    <2>1. DataOK /\ DataOK'
      BY DEF Ground
    <2>2. inventory' = MarkDrift(inventory) \/ inventory' = inventory
      BY DEF ChangeNotDispensed, ChangeCommandRaises
    <2> QED
      BY <2>1, <2>2, PayoutRaisesLeaves
      DEF ChangeNotDispensed, ChangeCommandRaises, goods, ledger, MarkDrift, DataOK, CashOK,
          InventoryRecords
  <1>y. PICK y : y = loop.tx
    OBVIOUS
  <1>a. /\ y \in Transactions /\ y \in known /\ txs[y] \in TransactionRecords
        /\ Sessioned(y) /\ vends[y] = 0 /\ paidOut[y] = NoPieces
        /\ txs[y].payout_status # "dispensed"
        /\ txs[y].accepted_amount = Price + txs[y].change_due
    BY <1>0, <1>y, NothingPaidYet
  <1>b. PICK held : held = txs[y].change_reserve
    OBVIOUS
  <1>c. /\ held \in Counts /\ loop.plan = held /\ Value(held) = txs[y].change_due
        /\ txs[y].change_due \in Nat /\ Price \in Nat
    BY <1>0, <1>a, <1>b, <1>y, Amounts DEF Payment
  <1>d. /\ Value(paidOut'[y]) <= txs[y].change_due
        /\ \A x \in Transactions : x # y => paidOut'[x] = paidOut[x]
    <2>1. paidOut' = paidOut \/ \E part \in PartsOf(held) : PayOut(y, part)
      BY <1>c, <1>y DEF ChangeNotDispensed, ChangeCommandRaises, money
    <2>2. CASE paidOut' = paidOut
      BY <1>a, <1>c, <2>2, ValueOfNothing
    <2>3. ASSUME NEW part \in PartsOf(held), PayOut(y, part)
          PROVE  /\ Value(paidOut'[y]) <= txs[y].change_due
                 /\ \A x \in Transactions : x # y => paidOut'[x] = paidOut[x]
      <3>1. part \in Counts /\ \A d \in Denominations : part[d] <= held[d]
        BY <1>0, <1>c, PartsTyped DEF PartsOf, SubPlans, DataOK
      <3>2. Value(part) <= Value(held)
        BY <1>c, <3>1, ValueMonotone
      <3>3. paidOut' = [paidOut EXCEPT ![y] = PlusCounts(paidOut[y], part)]
        BY <2>3 DEF PayOut
      <3>4. PlusCounts(NoPieces, part) = part
        BY <3>1 DEF PlusCounts, NoPieces, Counts
      <3>5. paidOut'[y] = part /\ \A x \in Transactions : x # y => paidOut'[x] = paidOut[x]
        BY <1>0, <1>a, <3>3, <3>4 DEF DataOK, CashOK
      <3> QED
        BY <1>c, <3>2, <3>5
    <2> QED
      BY <2>1, <2>2, <2>3
  <1>1. /\ \A x \in known : x # y => txs'[x] = txs[x]
        /\ txs'[y].accepted_amount = txs[y].accepted_amount
        /\ txs'[y].payout_status # "dispensed" /\ txs'[y].change_reserve = held
    <2>1. \/ txs' = txs
          \/ txs' = [txs EXCEPT ![y] = MarkChangePartial(txs[y])]
          \/ txs' = [txs EXCEPT ![y] = MarkAmbiguous(txs[y])]
      BY <1>y DEF ChangeNotDispensed, ChangeCommandRaises, Record, ledger
    <2>2. /\ \A x \in known : x # y => txs'[x] = txs[x]
          /\ txs'[y] \in {txs[y], MarkChangePartial(txs[y]), MarkAmbiguous(txs[y])}
      BY <1>0, <1>a, <2>1 DEF DataOK, LedgerOK
    <2> QED
      BY <1>a, <1>b, <2>2 DEF MarkChangePartial, MarkAmbiguous, TransactionRecords
  <1>2. StartsEmpty'
    BY <1>0, <1>1, <1>a, LoopLeavesEmpty
  <1>3. PaidOutBefore'
    <2>1. ASSUME NEW x \in Transactions, x # y,
                 paidOut'[x] # NoPieces \/ (x \in known /\ txs'[x].payout_status = "dispensed")
          PROVE  x \in known
      BY <1>0, <1>1, <1>d, <2>1 DEF PaidOutBefore
    <2> QED
      BY <1>0, <1>a, <2>1 DEF PaidOutBefore
  <1>4. OverpaidStays'
    BY <1>0, <1>1 DEF OverpaidStays
  <1>5. Payment'
    BY <1>0 DEF Payment, ToMotor
  <1>6. KnownGiveAtMost'
    <2> SUFFICES ASSUME NEW x \in known
                 PROVE  Value(paidOut'[x]) + vends[x] * Price <= txs'[x].accepted_amount
      BY <1>0 DEF KnownGiveAtMost, Paid
    <2>1. CASE x = y
      <3>1. vends[x] * Price = 0 /\ Value(paidOut'[x]) \in Nat
        BY <1>0, <1>a, <1>c, <2>1, ValueTyped DEF DataOK, CashOK
      <3> QED
        BY <1>1, <1>a, <1>c, <1>d, <2>1, <3>1
    <2>2. CASE x # y
      BY <1>0, <1>1, <1>d, <2>2, Amounts DEF KnownGiveAtMost, Paid
    <2> QED
      BY <2>1, <2>2
  <1>7. ReservesAdd'
    <2>1. \A x \in known : HeldPieces(x)' = HeldPieces(x)
      BY <1>1, <1>a, <1>b DEF HeldPieces
    <2> QED
      BY <1>0, <1>a, <2>1, HoldingExchanged
  <1>8. ReservedIsCovered'
    BY <1>0 DEF ReservedIsCovered
  <1> QED
    BY <1>2, <1>3, <1>4, <1>5, <1>6, <1>7, <1>8

(* While nobody cancels, every step is one of these for the money.         *)
MoneyForms ==
  \/ Idles
  \/ \E x \in Transactions : Adds(x)
  \/ \E c \in Clicks : \E plan \in ChangePlans(inventory, WorstCaseChange) : Attaches(c, plan)
  \/ CreditBill \/ CompletePayment \/ FinalizeReserve
  \/ ChangeDispensed \/ ChangeNotDispensed \/ ChangeCommandRaises

(* Every step is, as far as the money is concerned, of one of the forms.   *)
LEMMA NextMoney ==
  ASSUME DataOK, NobodyCancels, WorstCaseChange > 0, Next
  PROVE  MoneyForms
  <1>1. CASE LoopStep
    BY <1>1, VendLoopMoney, PaymentLoopMoney DEF LoopStep, MoneyForms
  <1>2. ASSUME NEW c \in Clicks, ClickStep(c)
        PROVE  MoneyForms
    <2>1. CASE StartCashSession(c) \/ ReserveCreated(c)
      BY <2>1, OpeningMoney DEF MoneyForms
    <2>2. CASE ~(StartCashSession(c) \/ ReserveCreated(c))
      BY <1>2, <2>2, OtherClicksMoney DEF ClickStep, MoneyForms
    <2> QED
      BY <2>1, <2>2
  <1>3. CASE (\E x \in Transactions : DeadlineStep(x)) \/ CustomerStep \/ OperatorStep
    BY <1>3, OutsideMoney DEF MoneyForms
  <1> QED
    BY <1>1, <1>2, <1>3 DEF Next

(* The inductive invariant about the money.                                *)
LEMMA MoneyInvariant ==
  ASSUME WorstCaseChange > 0, "cancel" \notin Operations
  PROVE  Spec => []MoneyInv
  <1>1. KioskInit => MoneyInv
    <2> SUFFICES ASSUME KioskInit
                 PROVE  MoneyInv
      OBVIOUS
    <2> USE DEF KioskInit, Init
    <2>1. StartsEmpty /\ PaidOutBefore /\ OverpaidStays /\ Payment /\ KnownGiveAtMost
      BY DEF StartsEmpty, Started, IdleClick, PaidOutBefore, OverpaidStays, Payment, ReadingLoop,
             ToMotor, KnownGiveAtMost
    <2>2. ReservesAdd
      <3>1. IsFiniteSet({})
        BY FS_EmptySet
      <3>2. \A d \in Denominations : Total(Holding(d), {}) = 0
        BY <3>1, SumUnfolds
      <3> QED
        BY <3>1, <3>2 DEF ReservesAdd, NoPieces
    <2>3. ReservedIsCovered
      BY KioskAssumption DEF ReservedIsCovered, NoPieces, Counts
    <2> QED
      BY <2>1, <2>2, <2>3 DEF MoneyInv
  <1>2. ASSUME Ground, Ground', NobodyCancels, MoneyInv, [Next]_kioskVars
        PROVE  MoneyInv'
    <2>0. DataOK
      BY <1>2 DEF Ground
    <2>1. CASE UNCHANGED kioskVars
      <3>1. UNCHANGED <<txs, known, clicks, loop, vends, paidOut, inventory>>
        BY <2>1 DEF kioskVars, vars, ledger, goods, money
      <3>2. \A d : Holding(d)' = Holding(d)
        BY <3>1 DEF Holding, HeldPieces
      <3>3. ReservesAdd' = ReservesAdd
        BY <3>1, <3>2 DEF ReservesAdd
      <3> QED
        BY <1>2, <3>1, <3>3
        DEF MoneyInv, StartsEmpty, Started, PaidOutBefore, OnItsWay, OverpaidStays, Payment,
            KnownGiveAtMost, Paid, ReservedIsCovered
    <2>2. CASE Next
      <3>1. Forms /\ MoneyForms
        BY <1>2, <2>0, <2>2, NextForms, NextMoney
      <3> QED
        BY <1>2, <3>1, IdlesKeeps, AddsKeeps, AttachesKeeps, CreditKeeps, CompletesKeeps,
           FinalizesKeeps, PaysKeeps, FailsToPayKeeps
        DEF MoneyForms
    <2> QED
      BY <1>2, <2>1, <2>2
  <1>3. Spec => []Ground
    <2>1. DataOK /\ VendInv /\ Unsessioned => Ground
      BY DEF Ground
    <2> QED
      BY <2>1, DataAlwaysOK, VendInvariant, UnsessionedAlways, PTL
  <1> QED
    BY <1>1, <1>2, <1>3, NobodyEverCancels, PTL DEF Spec

(* No customer gets more than the bills credited: change and product       *)
(* together, for any number of transactions, clicks, failures, late bills, *)
(* service visits and recoveries.                                          *)
THEOREM NobodyGetsMore ==
  ASSUME WorstCaseChange > 0, "cancel" \notin Operations
  PROVE  Spec => []GivesAtMostWhatItTook
  <1>1. DataOK /\ VendInv /\ MoneyInv => GivesAtMostWhatItTook
    <2> SUFFICES ASSUME DataOK, VendInv, MoneyInv, NEW x \in Transactions
                 PROVE  Paid(x) + vends[x] * Price <= txs[x].accepted_amount
      BY DEF GivesAtMostWhatItTook
    <2>1. CASE x \in known
      BY <2>1 DEF MoneyInv, KnownGiveAtMost
    <2>2. CASE x \notin known
      <3>1. vends[x] = 0 /\ paidOut[x] = NoPieces
        BY <2>2 DEF VendInv, LifeInv, VendedKnown, VendedOnce, MoneyInv, PaidOutBefore, DataOK, GoodsOK
      <3>2. txs[x].accepted_amount \in Nat
        BY DEF DataOK, LedgerOK, TransactionRecords
      <3>3. vends[x] * Price = 0
        BY <3>1, Amounts
      <3> QED
        BY <3>1, <3>2, <3>3, ValueOfNothing DEF Paid
    <2> QED
      BY <2>1, <2>2
  <1> QED
    BY <1>1, DataAlwaysOK, VendInvariant, MoneyInvariant, PTL

(* What the inventory has promised is what the transactions hold: no piece *)
(* stays reserved for nobody, and none is promised to two.                 *)
THEOREM ReservesAlwaysHeld ==
  ASSUME WorstCaseChange > 0, "cancel" \notin Operations
  PROVE  Spec => []ReservesAreHeld
  <1>1. DataOK /\ MoneyInv => ReservesAreHeld
    BY HeldIsTotal DEF DataOK, LedgerOK, MoneyInv, ReservesAdd, ReservesAreHeld
  <1> QED
    BY <1>1, DataAlwaysOK, MoneyInvariant, PTL

(* No promise of change exceeds what the accounting says is there.         *)
THEOREM ReservesAlwaysCovered ==
  ASSUME WorstCaseChange > 0, "cancel" \notin Operations
  PROVE  Spec => []ReservedIsCovered
  <1>1. MoneyInv => ReservedIsCovered
    BY DEF MoneyInv
  <1> QED
    BY <1>1, MoneyInvariant, PTL

-----------------------------------------------------------------------------
(* The stages of a sale.  While nobody cancels and no operator intervenes, *)
(* one sale at a time is on its way, and the state machine says how far it *)
(* has got unless it has stopped for the operator.                         *)

FulfilmentLabels == ToMotor \cup {"product_dispensed", "opening_window"}
Stopped == {"RECOVERY_PENDING", "FAULT"}
AwaitsPickup == {"WAITING_FOR_CUSTOMER_PICKUP", "CLOSING_DELIVERY_WINDOW"}
InStage(label, s) ==
  \/ s \in Stopped
  \/ label = "payment_confirmed" /\ s = "PAYMENT_ACCEPTED"
  \/ label \in {"change_requested", "dispensing_change"} /\ s = "DISPENSING_CHANGE"
  \/ label = "vend_authorized" /\ s \in {"PAYMENT_ACCEPTED", "DISPENSING_CHANGE"}
  \/ label \in {"vending", "product_dispensed"} /\ s = "DISPENSING_PRODUCT"
  \/ label = "opening_window" /\ s = "OPENING_DELIVERY_WINDOW"

Vended(x) == vends[x] > 0
Delivered(r) ==
  r.status = "waiting_for_customer_pickup" \/ r.delivery_status = "window_closed"
Finishing(c, x) ==
  clicks[c].label \in {"closing_window", "completed"} /\ clicks[c].tx = x

(* Somebody has opened, is closing or has closed the window for x.         *)
Served(x) ==
  \/ Delivered(txs[x]) \/ timers[x] # "idle"
  \/ \E c \in Clicks : Finishing(c, x)

NoOperator ==
  /\ NobodyCancels
  /\ screen # "service" /\ \A c \in Clicks : clicks[c].label # "recovering"

OneSale ==
  /\ \A x \in known : x = active \/ Vended(x)
  /\ loop.label \in FulfilmentLabels => loop.tx = active /\ InStage(loop.label, fsm)
  /\ loop.label \in {"product_dispensed", "opening_window"} => Vended(loop.tx)
  /\ fsm \in AwaitsPickup => active # NoTx /\ Vended(active)

OpeningStage ==
  \A c \in Clicks : Opening(c) =>
    clicks[c].tx = active /\ fsm \in {"IDLE", "WAITING_FOR_PAYMENT"} \cup Stopped

SessionsKnown ==
  /\ session \in known \cup {NoTx}
  /\ \A c \in Clicks : clicks[c].label \in {"enabling", "pressed"} => clicks[c].tx \in known

ServedAreVended == \A x \in Transactions : Served(x) => Vended(x)

WindowStage == window = "open" => fsm \in AwaitsPickup \cup Stopped

(* A sale that is being completed leaves the kiosk to the next one only    *)
(* when it is through.                                                     *)
CompletingFirst ==
  \A c \in Clicks : clicks[c].label = "completed" =>
    /\ window = "closed" /\ loop.label \notin FulfilmentLabels
    /\ fsm \in {"COMPLETED", "IDLE", "WAITING_FOR_PAYMENT"} \cup Stopped
    /\ \A d \in Clicks : ~Reserved(d) /\ (Started(d) => Before(c, d))

StageInv ==
  /\ OneSale /\ OpeningStage /\ SessionsKnown /\ ServedAreVended /\ WindowStage
  /\ CompletingFirst

-----------------------------------------------------------------------------
(* The steps, as far as the stages are concerned.                          *)
SaleStays == known' = known /\ active' = active
ServedStay == \A x \in Transactions : Served(x)' => Served(x)
StoppedStays == fsm \in Stopped => fsm' \in Stopped

ClicksRest ==
  \A c \in Clicks :
    /\ Opening(c)' => Opening(c) /\ clicks'[c].tx = clicks[c].tx
    /\ clicks'[c].label = "enabling" =>
         clicks[c].label = "enabling" /\ clicks'[c].tx = clicks[c].tx
    /\ clicks'[c].label = "pressed" =>
         \/ clicks[c].label = "pressed" /\ clicks'[c].tx = clicks[c].tx
         \/ session # NoTx /\ clicks'[c].tx = session
    /\ clicks'[c].label = "completed" => clicks[c].label = "completed"

SessionRests ==
  \/ session' \in {session, NoTx}
  \/ \E c \in Clicks : clicks[c].label = "enabling" /\ session' = clicks[c].tx

Rests ==
  /\ SaleStays /\ SessionRests /\ ServedStay /\ ClicksRest
  /\ \/ fsm' = fsm \/ fsm' \in Stopped
     \/ fsm = "WAITING_FOR_CUSTOMER_PICKUP" /\ fsm' = "CLOSING_DELIVERY_WINDOW"
  /\ window' \in {window, "closed"}
  /\ loop'.label \notin FulfilmentLabels \/ LoopStays

Proceeds ==
  /\ SaleStays /\ session' = session /\ clicks' = clicks /\ window' = window /\ ServedStay
  /\ loop.label \in FulfilmentLabels \/ fsm = "ACCEPTING_CASH"
  /\ loop'.label \in FulfilmentLabels /\ loop'.tx = active /\ InStage(loop'.label, fsm')
  /\ loop'.label \in {"product_dispensed", "opening_window"} => Vended(active)'
  /\ StoppedStays

OpensWindow ==
  /\ SaleStays /\ session' = session /\ clicks' = clicks
  /\ loop.label = "opening_window" /\ loop'.label \notin FulfilmentLabels
  /\ fsm' \in {"WAITING_FOR_CUSTOMER_PICKUP"} \cup Stopped /\ StoppedStays
  /\ \A x \in Transactions : Served(x)' => Served(x) \/ x = loop.tx

Begins(c, x) ==
  /\ Creates(c, x) /\ session' = session /\ window' = window /\ ServedStay
  /\ fsm' = fsm \/ fsm = "IDLE"

OpensSession(c) ==
  /\ Opens(c) /\ session' = session /\ window' = window /\ ServedStay
  /\ clicks'[c].label = "enabling" => clicks'[c].tx = clicks[c].tx

PicksUp(c) ==
  /\ SaleStays /\ session' = session /\ window' = window /\ LoopStays /\ Others(c)
  /\ clicks[c].label = "pressed"
  /\ fsm \in AwaitsPickup /\ fsm' = "CLOSING_DELIVERY_WINDOW"
  /\ clicks'[c].label = "closing_window" /\ clicks'[c].tx = clicks[c].tx
  /\ \A x \in Transactions : Served(x)' => Served(x) \/ x = clicks[c].tx

Completes(c) ==
  /\ SaleStays /\ session' = NoTx /\ window' = "closed" /\ LoopStays /\ Others(c) /\ ServedStay
  /\ clicks'[c].label = "completed"
  /\ fsm \in {"CLOSING_DELIVERY_WINDOW", "COMPLETED"} /\ fsm' = "COMPLETED"

Finishes(c) ==
  /\ clicks[c].label = "completed" /\ clicks'[c].label = "idle" /\ Others(c)
  /\ known' = known /\ active' = IF active = clicks[c].tx THEN NoTx ELSE active
  /\ session' \in {session, NoTx} /\ window' = window /\ LoopStays /\ ServedStay
  /\ fsm' \in {fsm, "IDLE"}

StageForms ==
  \/ Rests \/ Proceeds \/ OpensWindow
  \/ \E c \in Clicks :
       \/ OpensSession(c) \/ PicksUp(c) \/ Completes(c) \/ Finishes(c)
       \/ \E x \in Transactions : Begins(c, x)

-----------------------------------------------------------------------------
(* A vended product stays vended.                                          *)
LEMMA VendedStays ==
  ASSUME DataOK, Forms
  PROVE  \A x \in Transactions : Vended(x) => Vended(x)'
  <1>1. vends' = vends \/ (loop.tx \in Transactions /\ vends' = [vends EXCEPT ![loop.tx] = @ + 1])
    BY LoopHasRecord
    DEF Forms, Elsewhere, Reserves, Opens, Creates, LoopForms, Reads, Credits, Disables, Accepts,
        Advances, MovesOn
  <1>2. vends \in [Transactions -> Nat]
    BY DEF DataOK, GoodsOK
  <1> QED
    BY <1>1, <1>2 DEF Vended

(* A click that starts a purchase waits behind those that complete one.    *)
LEMMA CompletedOrder ==
  ASSUME DataOK, QueueOK, Scheduled
  PROVE  \A c, d \in Clicks :
           clicks[c].label = "completed" /\ Same(c) /\ Joins(d) => Before(c, d)'
  <1>1. \A a, b \in Tasks :
          Enqueued(a) /\ ~Moves(a) /\ Moves(b) /\ Enqueued(b)' => Before(a, b)'
    BY Turns
  <1> QED
    BY <1>1, Labels DEF Enqueued, PublishLabels, Moves, Same, Joins, Tasks

(* While a click opens a session, the loop fulfils nothing.                *)
LEMMA OpeningAlone ==
  ASSUME VendInv, Unsessioned, OneSale, OpeningStage, NEW c \in Clicks, Opening(c), DataOK
  PROVE  /\ loop.label \notin FulfilmentLabels /\ fsm # "ACCEPTING_CASH"
         /\ ~Vended(active) /\ active = clicks[c].tx
         /\ \A d \in Clicks : Opening(d) => d = c
  <1>1. active = clicks[c].tx /\ fsm # "ACCEPTING_CASH"
    BY DEF OpeningStage, Stopped
  <1>2. active \in Transactions /\ ~Sessioned(active)
    BY <1>1 DEF Unsessioned, VendInv, LifeInv, VendedKnown, TasksKnown, DataOK, LedgerOK
  <1>3. ~Vended(active)
    BY <1>2 DEF Vended, VendInv, LifeInv, VendedKnown, VendedOnce
  <1>4. loop.label \notin FulfilmentLabels
    BY <1>2, <1>3 DEF OneSale, VendInv, LifeInv, VendedKnown, VendedOnce, FulfilmentLabels
  <1>5. \A d \in Clicks : Opening(d) => d = c
    BY <1>1 DEF OpeningStage, VendInv, LifeInv, VendedKnown, OpeningClicks
  <1> QED
    BY <1>1, <1>3, <1>4, <1>5

(* Each way a step treats the stages keeps the invariant.                  *)
LEMMA RestsKeeps ==
  ASSUME DataOK, DataOK', VendInv, VendInv', Unsessioned, Scheduled, Forms, StageInv, Rests
  PROVE  StageInv'
  <1>1. \A x \in Transactions : Vended(x) => Vended(x)'
    BY VendedStays
  <1>2. known \subseteq Transactions /\ active \in Transactions \cup {NoTx}
    BY DEF DataOK, LedgerOK
  <1>3. LoopStays => loop'.label = loop.label /\ loop'.tx = loop.tx
    BY DEF LoopStays
  <1>4. OneSale'
    <2>1. \A x \in known' : x = active' \/ Vended(x)'
      BY <1>1, <1>2 DEF Rests, SaleStays, StageInv, OneSale
    <2>2. loop'.label \in FulfilmentLabels => loop'.tx = active' /\ InStage(loop'.label, fsm')
      BY <1>3 DEF Rests, SaleStays, StageInv, OneSale, InStage, Stopped
    <2>3. loop'.label \in {"product_dispensed", "opening_window"} => Vended(loop.tx)'
      BY <1>1, <1>3, LoopHasRecord DEF Rests, StageInv, OneSale, FulfilmentLabels, Vended
    <2>4. fsm' \in AwaitsPickup => active' # NoTx /\ Vended(active)'
      BY <1>1, <1>2 DEF Rests, SaleStays, StageInv, OneSale, AwaitsPickup, Stopped
    <2> QED
      BY <2>1, <2>2, <2>3, <2>4 DEF OneSale, Vended
  <1>5. OpeningStage'
    BY DEF Rests, SaleStays, ClicksRest, StageInv, OpeningStage, Stopped, Opening, Started, Reserved
  <1>6. SessionsKnown'
    BY DEF Rests, SaleStays, ClicksRest, SessionRests, StageInv, SessionsKnown
  <1>7. ServedAreVended'
    BY <1>1 DEF Rests, ServedStay, StageInv, ServedAreVended
  <1>8. WindowStage'
    BY DEF Rests, StageInv, WindowStage, AwaitsPickup, Stopped
  <1>9. CompletingFirst'
    <2> SUFFICES ASSUME NEW c \in Clicks, clicks'[c].label = "completed"
                 PROVE  /\ window' = "closed" /\ loop'.label \notin FulfilmentLabels
                        /\ fsm' \in {"COMPLETED", "IDLE", "WAITING_FOR_PAYMENT"} \cup Stopped
                        /\ \A d \in Clicks : ~Reserved(d)' /\ (Started(d)' => Before(c, d)')
      BY DEF CompletingFirst
    <2>1. clicks[c].label = "completed"
      BY DEF Rests, ClicksRest
    <2>2. /\ window = "closed" /\ loop.label \notin FulfilmentLabels
          /\ fsm \in {"COMPLETED", "IDLE", "WAITING_FOR_PAYMENT"} \cup Stopped
          /\ \A d \in Clicks : ~Reserved(d) /\ (Started(d) => Before(c, d))
      BY <2>1 DEF StageInv, CompletingFirst
    <2>3. ASSUME NEW d \in Clicks, Opening(d)'
          PROVE  Started(d)' /\ Before(c, d)'
      <3>1. Started(d) /\ Before(c, d)
        BY <2>2, <2>3 DEF Rests, ClicksRest, Opening
      <3>2. Same(d) /\ Same(c)
        BY <2>1, <3>1, Order DEF VendInv, LifeInv, VendedKnown, Tasks, Same, Opening
      <3> QED
        BY <3>1, <3>2, Order DEF VendInv, LifeInv, VendedKnown, Same, Started
    <2> QED
      BY <1>3, <2>2, <2>3 DEF Rests, Opening, Started, Reserved, Stopped
  <1> QED
    BY <1>4, <1>5, <1>6, <1>7, <1>8, <1>9 DEF StageInv

LEMMA ProceedsKeeps ==
  ASSUME DataOK, DataOK', VendInv, VendInv', Unsessioned, Scheduled, Forms, StageInv, Proceeds
  PROVE  StageInv'
  <1>1. \A x \in Transactions : Vended(x) => Vended(x)'
    BY VendedStays
  <1>2. known \subseteq Transactions /\ active \in Transactions \cup {NoTx}
    BY DEF DataOK, LedgerOK
  <1>3. \A c \in Clicks : ~Opening(c)
    BY OpeningAlone DEF Proceeds, StageInv
  <1>4. \A c \in Clicks : clicks[c].label # "completed"
    BY DEF Proceeds, StageInv, CompletingFirst, Stopped
  <1>5. OneSale'
    <2>1. fsm' \notin AwaitsPickup
      BY DEF Proceeds, InStage, AwaitsPickup, Stopped
    <2> QED
      BY <1>1, <1>2, <2>1 DEF Proceeds, SaleStays, StageInv, OneSale, Vended
  <1>6. OpeningStage'
    BY <1>3 DEF Proceeds, OpeningStage, Opening, Started, Reserved
  <1>7. SessionsKnown'
    BY DEF Proceeds, SaleStays, StageInv, SessionsKnown
  <1>8. ServedAreVended'
    BY <1>1 DEF Proceeds, ServedStay, StageInv, ServedAreVended
  <1>9. WindowStage'
    <2>1. window = "open" => fsm \in Stopped
      BY DEF Proceeds, StageInv, WindowStage, OneSale, InStage, AwaitsPickup, Stopped
    <2> QED
      BY <2>1 DEF Proceeds, StoppedStays, WindowStage
  <1>10. CompletingFirst'
    BY <1>4 DEF Proceeds, CompletingFirst
  <1> QED
    BY <1>5, <1>6, <1>7, <1>8, <1>9, <1>10 DEF StageInv

LEMMA OpensWindowKeeps ==
  ASSUME DataOK, DataOK', VendInv, VendInv', Unsessioned, Scheduled, Forms, StageInv, OpensWindow
  PROVE  StageInv'
  <1>1. \A x \in Transactions : Vended(x) => Vended(x)'
    BY VendedStays
  <1>2. known \subseteq Transactions /\ active \in Transactions \cup {NoTx}
    BY DEF DataOK, LedgerOK
  <1>3. /\ loop.tx = active /\ loop.tx \in Transactions /\ Vended(loop.tx)
        /\ loop.label \in FulfilmentLabels
    BY LoopHasRecord DEF OpensWindow, FulfilmentLabels, StageInv, OneSale
  <1>4. \A c \in Clicks : ~Opening(c)
    BY <1>3, OpeningAlone DEF StageInv
  <1>5. \A c \in Clicks : clicks[c].label # "completed"
    BY <1>3 DEF StageInv, CompletingFirst
  <1>6. active # NoTx
    BY <1>3, KioskAssumption
  <1>7. OneSale'
    BY <1>1, <1>2, <1>3, <1>6
    DEF OpensWindow, SaleStays, StageInv, OneSale, Vended, FulfilmentLabels
  <1>8. OpeningStage'
    BY <1>4 DEF OpensWindow, OpeningStage, Opening, Started, Reserved
  <1>9. SessionsKnown'
    BY DEF OpensWindow, SaleStays, StageInv, SessionsKnown
  <1>10. ServedAreVended'
    BY <1>1, <1>3 DEF OpensWindow, StageInv, ServedAreVended
  <1>11. WindowStage'
    BY DEF OpensWindow, WindowStage, AwaitsPickup
  <1>12. CompletingFirst'
    BY <1>5 DEF OpensWindow, CompletingFirst
  <1> QED
    BY <1>7, <1>8, <1>9, <1>10, <1>11, <1>12 DEF StageInv

LEMMA BeginsKeeps ==
  ASSUME DataOK, DataOK', VendInv, VendInv', Unsessioned, Scheduled, Forms, StageInv,
         NEW c \in Clicks, NEW x \in Transactions, Begins(c, x)
  PROVE  StageInv'
  <1>1. \A y \in Transactions : Vended(y) => Vended(y)'
    BY VendedStays
  <1>2. /\ known \subseteq Transactions /\ active = NoTx /\ NoTx \notin Transactions
        /\ known' = known \cup {x} /\ active' = x
    BY KioskAssumption DEF DataOK, LedgerOK, Begins, Creates
  <1>3. \A d \in Clicks : ~Opening(d)
    BY <1>2 DEF StageInv, OpeningStage, VendInv, LifeInv, VendedKnown, TasksKnown
  <1>4. loop.label \notin FulfilmentLabels /\ fsm \notin AwaitsPickup
    <2>1. loop.label \in FulfilmentLabels => loop.label \notin {"read", "dead"}
      BY DEF FulfilmentLabels, ToMotor
    <2> QED
      BY <1>2, <2>1, LoopHasRecord DEF StageInv, OneSale
  <1>5. /\ \A y \in known : Vended(y)
        /\ loop'.label = loop.label /\ Others(c)
        /\ fsm' = fsm \/ (fsm = "IDLE" /\ fsm' = "WAITING_FOR_PAYMENT")
    BY <1>2 DEF StageInv, OneSale, Begins, Creates, LoopStays
  <1>6. OneSale'
    BY <1>1, <1>2, <1>4, <1>5 DEF OneSale, Vended, FulfilmentLabels, AwaitsPickup
  <1>7. OpeningStage'
    <2>1. \A d \in Clicks : Opening(d)' => d = c
      BY <1>3, <1>5 DEF Others, Opening, Started, Reserved
    <2>2. Opening(c)' => clicks'[c].tx = active' /\ fsm' = "WAITING_FOR_PAYMENT"
      BY <1>2 DEF Begins, Creates, Opening, Started, Reserved
    <2> QED
      BY <2>1, <2>2 DEF OpeningStage
  <1>8. SessionsKnown'
    BY <1>2, <1>5 DEF StageInv, SessionsKnown, Begins, Creates, Others
  <1>9. ServedAreVended'
    BY <1>1 DEF Begins, ServedStay, StageInv, ServedAreVended
  <1>10. WindowStage'
    BY <1>4, <1>5 DEF Begins, StageInv, WindowStage, Stopped
  <1>11. CompletingFirst'
    <2> SUFFICES ASSUME NEW d \in Clicks, clicks'[d].label = "completed"
                 PROVE  /\ window' = "closed" /\ loop'.label \notin FulfilmentLabels
                        /\ fsm' \in {"COMPLETED", "IDLE", "WAITING_FOR_PAYMENT"} \cup Stopped
                        /\ \A e \in Clicks : ~Reserved(e)' /\ (Started(e)' => Before(d, e)')
      BY DEF CompletingFirst
    <2>1. d # c /\ clicks'[d] = clicks[d]
      BY <1>5 DEF Begins, Creates, Others
    <2>2. /\ window = "closed"
          /\ fsm \in {"COMPLETED", "IDLE", "WAITING_FOR_PAYMENT"} \cup Stopped
      BY <2>1 DEF StageInv, CompletingFirst
    <2>3. \A e \in Clicks : Opening(e)' => e = c /\ Started(e)'
      BY <1>3, <1>5 DEF Others, Opening, Started, Reserved, Begins, Creates
    <2>4. Started(c)' => Before(d, c)'
      BY <2>1, CompletedOrder DEF VendInv, LifeInv, VendedKnown, Same, Joins, Started, Begins, Creates
    <2> QED
      BY <1>4, <1>5, <2>2, <2>3, <2>4 DEF Begins, Opening, Started, Reserved
  <1> QED
    BY <1>6, <1>7, <1>8, <1>9, <1>10, <1>11 DEF StageInv

LEMMA OpensSessionKeeps ==
  ASSUME DataOK, DataOK', VendInv, VendInv', Unsessioned, Scheduled, Forms, StageInv,
         NEW c \in Clicks, OpensSession(c)
  PROVE  StageInv'
  <1>1. \A y \in Transactions : Vended(y) => Vended(y)'
    BY VendedStays
  <1>2. known \subseteq Transactions /\ active \in Transactions \cup {NoTx}
    BY DEF DataOK, LedgerOK
  <1>3. Opening(c) /\ Reserved(c)
    BY DEF OpensSession, Opens, Opening
  <1>4. /\ loop.label \notin FulfilmentLabels /\ \A d \in Clicks : Opening(d) => d = c
        /\ clicks[c].tx \in known
    BY <1>3, OpeningAlone DEF StageInv, VendInv, LifeInv, VendedKnown, TasksKnown
  <1>5. \A d \in Clicks : clicks[d].label # "completed"
    BY <1>3 DEF StageInv, CompletingFirst
  <1>6. /\ known' = known /\ active' = active /\ loop'.label = loop.label /\ Others(c)
        /\ clicks'[c].label \in {"enabling", "idle"}
        /\ fsm' = fsm
           \/ (fsm \in {"WAITING_FOR_PAYMENT", "ACCEPTING_CASH"} /\ fsm' = "ACCEPTING_CASH")
    BY DEF OpensSession, Opens, LoopStays
  <1>7. OneSale'
    BY <1>1, <1>2, <1>4, <1>6 DEF StageInv, OneSale, Vended, FulfilmentLabels, AwaitsPickup
  <1>8. OpeningStage'
    <2>1. \A d \in Clicks : ~Opening(d)'
      BY <1>4, <1>6 DEF Others, Opening, Started, Reserved
    <2> QED
      BY <2>1 DEF OpeningStage
  <1>9. SessionsKnown'
    BY <1>4, <1>6 DEF OpensSession, StageInv, SessionsKnown, Others
  <1>10. ServedAreVended'
    BY <1>1 DEF OpensSession, ServedStay, StageInv, ServedAreVended
  <1>11. WindowStage'
    BY <1>6 DEF OpensSession, StageInv, WindowStage, AwaitsPickup, Stopped
  <1>12. CompletingFirst'
    BY <1>5, <1>6 DEF CompletingFirst, Others
  <1> QED
    BY <1>7, <1>8, <1>9, <1>10, <1>11, <1>12 DEF StageInv

LEMMA PicksUpKeeps ==
  ASSUME DataOK, DataOK', VendInv, VendInv', Unsessioned, Scheduled, Forms, StageInv,
         NEW c \in Clicks, PicksUp(c)
  PROVE  StageInv'
  <1>1. \A y \in Transactions : Vended(y) => Vended(y)'
    BY VendedStays
  <1>2. known \subseteq Transactions /\ active \in Transactions \cup {NoTx}
    BY DEF DataOK, LedgerOK
  <1>3. clicks[c].tx \in Transactions /\ Vended(clicks[c].tx) /\ Vended(active) /\ active # NoTx
    BY <1>2 DEF PicksUp, StageInv, SessionsKnown, OneSale
  <1>4. loop.label \notin FulfilmentLabels
    BY DEF PicksUp, StageInv, OneSale, InStage, AwaitsPickup, Stopped
  <1>5. \A d \in Clicks : ~Opening(d)
    BY DEF PicksUp, StageInv, OpeningStage, AwaitsPickup, Stopped
  <1>6. \A d \in Clicks : clicks[d].label # "completed"
    BY DEF PicksUp, StageInv, CompletingFirst, AwaitsPickup, Stopped
  <1>7. OneSale'
    BY <1>1, <1>2, <1>3, <1>4
    DEF PicksUp, SaleStays, LoopStays, StageInv, OneSale, Vended, FulfilmentLabels
  <1>8. OpeningStage'
    BY <1>5 DEF PicksUp, Others, OpeningStage, Opening, Started, Reserved
  <1>9. SessionsKnown'
    BY DEF PicksUp, SaleStays, Others, StageInv, SessionsKnown
  <1>10. ServedAreVended'
    BY <1>1, <1>3 DEF PicksUp, StageInv, ServedAreVended
  <1>11. WindowStage'
    BY DEF PicksUp, WindowStage, AwaitsPickup
  <1>12. CompletingFirst'
    BY <1>6 DEF PicksUp, Others, CompletingFirst
  <1> QED
    BY <1>7, <1>8, <1>9, <1>10, <1>11, <1>12 DEF StageInv

LEMMA CompletingKeeps ==
  ASSUME DataOK, DataOK', VendInv, VendInv', Unsessioned, Scheduled, Forms, StageInv,
         NEW c \in Clicks, Completes(c)
  PROVE  StageInv'
  <1>1. \A y \in Transactions : Vended(y) => Vended(y)'
    BY VendedStays
  <1>2. known \subseteq Transactions /\ active \in Transactions \cup {NoTx}
    BY DEF DataOK, LedgerOK
  <1>3. loop.label \notin FulfilmentLabels
    BY DEF Completes, StageInv, OneSale, InStage, Stopped
  <1>4. \A d \in Clicks : ~Opening(d)
    BY DEF Completes, StageInv, OpeningStage, Stopped
  <1>5. \A d \in Clicks : ~Opening(d)'
    BY <1>4 DEF Completes, Others, Opening, Started, Reserved
  <1>6. OneSale'
    BY <1>1, <1>2, <1>3
    DEF Completes, SaleStays, LoopStays, StageInv, OneSale, Vended, FulfilmentLabels, AwaitsPickup
  <1>7. OpeningStage'
    BY <1>5 DEF OpeningStage
  <1>8. SessionsKnown'
    BY DEF Completes, SaleStays, Others, StageInv, SessionsKnown
  <1>9. ServedAreVended'
    BY <1>1 DEF Completes, ServedStay, StageInv, ServedAreVended
  <1>10. WindowStage'
    BY DEF Completes, WindowStage
  <1>11. CompletingFirst'
    BY <1>3, <1>5 DEF Completes, LoopStays, CompletingFirst, Opening
  <1> QED
    BY <1>6, <1>7, <1>8, <1>9, <1>10, <1>11 DEF StageInv

LEMMA FinishesKeeps ==
  ASSUME DataOK, DataOK', VendInv, VendInv', Unsessioned, Scheduled, Forms, StageInv,
         NEW c \in Clicks, Finishes(c)
  PROVE  StageInv'
  <1> DEFINE x == clicks[c].tx
  <1>1. \A y \in Transactions : Vended(y) => Vended(y)'
    BY VendedStays
  <1>2. known \subseteq Transactions /\ active \in Transactions \cup {NoTx}
    BY DEF DataOK, LedgerOK
  <1>3. x \in Transactions /\ Vended(x)
    <2>1. x \in Transactions
      BY DEF Finishes, DataOK, ClicksOK
    <2> QED
      BY <2>1 DEF Finishes, StageInv, ServedAreVended, Served, Finishing
  <1>4. /\ window = "closed" /\ loop.label \notin FulfilmentLabels
        /\ fsm \in {"COMPLETED", "IDLE", "WAITING_FOR_PAYMENT"} \cup Stopped
    BY DEF Finishes, StageInv, CompletingFirst
  <1>5. \A d \in Clicks : Opening(d) => active # x
    <2> SUFFICES ASSUME NEW d \in Clicks, Opening(d)
                 PROVE  active # x
      OBVIOUS
    <2>1. ~Vended(active)
      BY OpeningAlone DEF StageInv
    <2> QED
      BY <1>3, <2>1
  <1>6. OneSale'
    <2>1. \A y \in known : y = active' \/ Vended(y)
      BY <1>2, <1>3 DEF Finishes, StageInv, OneSale
    <2>2. fsm' \notin AwaitsPickup
      BY <1>4 DEF Finishes, AwaitsPickup, Stopped
    <2> QED
      BY <1>1, <1>2, <1>4, <2>1, <2>2 DEF Finishes, LoopStays, OneSale, Vended, FulfilmentLabels
  <1>7. OpeningStage'
    BY <1>5 DEF Finishes, Others, StageInv, OpeningStage, Opening, Started, Reserved
  <1>8. SessionsKnown'
    BY DEF Finishes, Others, StageInv, SessionsKnown
  <1>9. ServedAreVended'
    BY <1>1 DEF Finishes, ServedStay, StageInv, ServedAreVended
  <1>10. WindowStage'
    BY <1>4 DEF Finishes, WindowStage
  <1>11. CompletingFirst'
    <2> SUFFICES ASSUME NEW d \in Clicks, clicks'[d].label = "completed"
                 PROVE  /\ window' = "closed" /\ loop'.label \notin FulfilmentLabels
                        /\ fsm' \in {"COMPLETED", "IDLE", "WAITING_FOR_PAYMENT"} \cup Stopped
                        /\ \A e \in Clicks : ~Reserved(e)' /\ (Started(e)' => Before(d, e)')
      BY DEF CompletingFirst
    <2>1. d # c /\ clicks'[d] = clicks[d]
      BY DEF Finishes, Others
    <2>2. \A e \in Clicks : ~Reserved(e) /\ (Started(e) => Before(d, e))
      BY <2>1 DEF StageInv, CompletingFirst
    <2>3. \A e \in Clicks : Opening(e)' => e # c /\ clicks'[e] = clicks[e]
      BY DEF Finishes, Others, Opening, Started, Reserved
    <2>4. \A e \in Clicks : Started(e)' => Before(d, e)'
      BY <2>1, <2>2, <2>3, Order DEF VendInv, LifeInv, VendedKnown, Same, Started, Opening
    <2> QED
      BY <1>4, <2>2, <2>3, <2>4 DEF Finishes, LoopStays, Opening, Started, Reserved
  <1> QED
    BY <1>6, <1>7, <1>8, <1>9, <1>10, <1>11 DEF StageInv

-----------------------------------------------------------------------------
(* Which transactions a step serves.                                       *)
LEMMA MethodsKeepDelivery ==
  ASSUME NEW x \in TransactionRecords
  PROVE  /\ ~Delivered(NewTransaction)
         /\ Delivered(AttachPaymentSession(x)) => Delivered(x)
         /\ \A plan : Delivered(AttachChangeReserve(x, plan)) => Delivered(x)
         /\ Delivered(DropReserve(x)) => Delivered(x)
         /\ \A bill : Delivered(RecordStackedCash(x, bill)) => Delivered(x)
         /\ Delivered(ConfirmPayment(x)) => Delivered(x)
         /\ \A plan : Delivered(MarkChangePending(AttachChangeReserve(x, plan))) => Delivered(x)
         /\ Delivered(MarkChangeDispensed(x)) => Delivered(x)
         /\ Delivered(MarkChangePartial(x)) => Delivered(x)
         /\ Delivered(AuthorizeVend(x)) => Delivered(x)
         /\ Delivered(MarkProductDispensed(x)) => Delivered(x)
         /\ Delivered(ConfirmPickup(x)) => Delivered(x)
         /\ Delivered(MarkFaulted(x)) => Delivered(x)
         /\ Delivered(MarkAmbiguous(x)) => Delivered(x)
  BY DEF Delivered, TransactionRecords, NewTransaction, AttachPaymentSession,
         AttachChangeReserve, DropReserve, RecordStackedCash, ConfirmPayment, MarkChangePending,
         MarkChangeDispensed, MarkChangePartial, AuthorizeVend, MarkProductDispensed,
         ConfirmPickup, MarkFaulted, MarkAmbiguous

LEMMA ServedFrom ==
  ASSUME DataOK, NEW W,
         \/ UNCHANGED txs
         \/ \E x \in Transactions : \E r : Record(x, r) /\ (Delivered(r) => Served(x) \/ x \in W),
         \A x \in Transactions : timers'[x] # "idle" => Served(x) \/ x \in W,
         \A c \in Clicks : \A x \in Transactions : Finishing(c, x)' => Served(x) \/ x \in W
  PROVE  \A x \in Transactions : Served(x)' => Served(x) \/ x \in W
  <1> SUFFICES ASSUME NEW x \in Transactions, Served(x)'
               PROVE  Served(x) \/ x \in W
    OBVIOUS
  <1>1. CASE timers'[x] # "idle" \/ \E c \in Clicks : Finishing(c, x)'
    BY <1>1
  <1>2. CASE Delivered(txs'[x])
    <2>1. UNCHANGED txs => Delivered(txs[x])
      BY <1>2
    <2>2. ASSUME NEW y \in Transactions, NEW r, Record(y, r),
                 Delivered(r) => Served(y) \/ y \in W
          PROVE  Served(x) \/ x \in W
      <3>1. txs'[x] = IF x = y THEN r ELSE txs[x]
        BY <2>2 DEF Record, DataOK, LedgerOK
      <3>2. CASE x = y
        BY <1>2, <2>2, <3>1, <3>2
      <3>3. CASE x # y
        BY <1>2, <3>1, <3>3 DEF Served
      <3> QED
        BY <3>2, <3>3
    <2> QED
      BY <2>1, <2>2 DEF Served
  <1> QED
    BY <1>1, <1>2 DEF Served

LEMMA LoopServes ==
  ASSUME DataOK, UNCHANGED <<timers, clicks>>,
         \/ UNCHANGED txs
         \/ /\ loop.label \notin {"read", "dead"}
            /\ \E r : Record(loop.tx, r) /\ (Delivered(r) => Delivered(txs[loop.tx]))
  PROVE  ServedStay
  <1> PICK W : W = {}
    OBVIOUS
  <1>1. \/ UNCHANGED txs
        \/ \E x \in Transactions : \E r : Record(x, r) /\ (Delivered(r) => Served(x) \/ x \in W)
    BY LoopHasRecord DEF Served
  <1>2. /\ \A x \in Transactions : timers'[x] # "idle" => Served(x) \/ x \in W
        /\ \A c \in Clicks : \A x \in Transactions : Finishing(c, x)' => Served(x) \/ x \in W
    BY DEF Served, Finishing
  <1>3. \A x \in Transactions : Served(x)' => Served(x) \/ x \in W
    BY <1>1, <1>2, ServedFrom
  <1> QED
    BY <1>3 DEF ServedStay

(* The payment loop.                                                       *)
OnlyLoopMoves ==
  SaleStays /\ session' = session /\ clicks' = clicks /\ window' = window /\ ServedStay

LEMMA PaymentLoopRests ==
  ASSUME DataOK, PaymentLoopStep
  PROVE  OnlyLoopMoves
  <1> DEFINE x == txs[loop.tx]
  <1>1. UNCHANGED <<known, active, session, clicks, window, timers>>
    BY DEF PaymentLoopStep, ReadEvent, ValidatorFault, CreditBill, AwaitMoreCash, CompletePayment,
           AcceptanceDisabled, FinalizeReserve, RequestChange, ChangeDispensed, DisableFails,
           ChangeNotDispensed, ChangeCommandRaises, ledger, ui, goods
  <1>2. \/ UNCHANGED txs
        \/ /\ loop.label \notin {"read", "dead"}
           /\ \E r : Record(loop.tx, r) /\ (Delivered(r) => Delivered(txs[loop.tx]))
    <2>1. CASE ReadEvent \/ AwaitMoreCash \/ AcceptanceDisabled \/ RequestChange \/ ChangeCommandRaises
      BY <2>1 DEF ReadEvent, AwaitMoreCash, AcceptanceDisabled, RequestChange, ChangeCommandRaises,
                  ledger
    <2>2. CASE ValidatorFault \/ CreditBill \/ CompletePayment \/ DisableFails
      <3>1. loop.label \notin {"read", "dead"}
        BY <2>2 DEF ValidatorFault, CreditBill, CompletePayment, DisableFails
      <3> QED
        BY <2>2, <3>1, LoopHasRecord, MethodsKeepDelivery
        DEF ValidatorFault, CreditBill, CompletePayment, DisableFails
    <2>3. CASE FinalizeReserve \/ ChangeDispensed \/ ChangeNotDispensed
      <3>1. loop.label \notin {"read", "dead"}
        BY <2>3 DEF FinalizeReserve, ChangeDispensed, ChangeNotDispensed
      <3> QED
        BY <2>3, <3>1, LoopHasRecord, MethodsKeepDelivery
        DEF FinalizeReserve, ChangeDispensed, ChangeNotDispensed
    <2> QED
      BY <2>1, <2>2, <2>3 DEF PaymentLoopStep
  <1> QED
    BY <1>1, <1>2, LoopServes DEF OnlyLoopMoves, SaleStays

LEMMA LoopRestsEnough ==
  ASSUME OnlyLoopMoves, fsm' = fsm \/ fsm' \in Stopped,
         loop'.label \notin FulfilmentLabels \/ LoopStays
  PROVE  StageForms
  BY DEF OnlyLoopMoves, StageForms, Rests, SessionRests, ClicksRest, Opening, Started, Reserved

LEMMA PayoutRaisesRests ==
  ASSUME DataOK, OnlyLoopMoves, PayoutRaises
  PROVE  StageForms
  <1>1. loop'.label \notin FulfilmentLabels
    BY PayoutRaisesLeaves DEF FulfilmentLabels, ToMotor
  <1>2. fsm' = fsm \/ fsm' \in Stopped
    BY DEF PayoutRaises, ProjectIfLegal, Project, Stopped
  <1> QED
    BY <1>1, <1>2, LoopRestsEnough

LEMMA AcceptPaymentStages ==
  ASSUME DataOK, VendInv, StageInv, OnlyLoopMoves, AcceptPayment,
         loop.label \in {"amount_updated", "disabling"}
  PROVE  StageForms
  <1>1. CASE loop'.label = "dead" /\ fsm' = fsm
    BY <1>1, LoopRestsEnough DEF FulfilmentLabels, ToMotor
  <1>2. CASE /\ TransitionReturns(fsm, "PAYMENT_ACCEPTED") /\ fsm' = "PAYMENT_ACCEPTED"
             /\ LoopAt("payment_confirmed")
    <2>1. fsm \in {"ACCEPTING_CASH", "PAYMENT_ACCEPTED"}
      BY <1>2 DEF TransitionReturns, CanTransition, Predecessors
    <2>2. fsm = "ACCEPTING_CASH"
      BY <2>1 DEF VendInv, LifeInv, VendedKnown, PaymentStates
    <2>3. loop.tx \in known /\ ~Vended(loop.tx)
      <3>1. vends[loop.tx] \in Nat
        BY LoopHasRecord DEF DataOK, GoodsOK
      <3> QED
        BY <2>2, <3>1 DEF VendInv, LifeInv, VendedKnown, TasksKnown, VendedOnce, LateBills, Vended
    <2>4. loop.tx = active
      BY <2>3 DEF StageInv, OneSale
    <2>5. Proceeds
      BY <1>2, <2>2, <2>4
      DEF OnlyLoopMoves, Proceeds, LoopAt, FulfilmentLabels, ToMotor, InStage, StoppedStays, Stopped
    <2> QED
      BY <2>5 DEF StageForms
  <1> QED
    BY <1>1, <1>2, LoopProceedsOrDies DEF AcceptPayment

(* A step of the loop takes its sale to the stage its new label stands for.*)
LEMMA LoopStages ==
  ASSUME DataOK, StageInv, OnlyLoopMoves, loop.label \in FulfilmentLabels, NEW where, LoopAt(where),
         where \in FulfilmentLabels, InStage(where, fsm'), StoppedStays,
         where \in {"product_dispensed", "opening_window"} => Vended(active)'
  PROVE  StageForms
  <1>1. Proceeds
    BY DEF OnlyLoopMoves, LoopAt, Proceeds, StageInv, OneSale
  <1> QED
    BY <1>1 DEF StageForms

LEMMA PaymentLoopStages ==
  ASSUME DataOK, VendInv, StageInv, PaymentLoopStep
  PROVE  StageForms
  <1>a. OnlyLoopMoves
    BY PaymentLoopRests
  <1>1. CASE ReadEvent \/ CreditBill \/ AwaitMoreCash
    <2>1. fsm' = fsm /\ (loop' = loop \/ loop'.label \in {"read", "dead", "device_event", "amount_updated"})
      <3>1. fsm' = fsm
        BY <1>1 DEF ReadEvent, CreditBill, AwaitMoreCash, machine
      <3>2. CASE ReadEvent
        BY <3>1, <3>2 DEF ReadEvent, DataOK, LoopOK, LoopRecords
      <3>3. CASE CreditBill \/ AwaitMoreCash
        BY <3>1, <3>3, LoopGoes, LoopDiesTo DEF CreditBill, AwaitMoreCash, LoopAt
      <3> QED
        BY <1>1, <3>2, <3>3
    <2> QED
      BY <1>a, <2>1, LoopRestsEnough DEF LoopStays, FulfilmentLabels, ToMotor
  <1>2. CASE ValidatorFault \/ DisableFails
    <2>1. loop'.label = "dead" /\ (fsm' = fsm \/ fsm' \in Stopped)
      BY <1>2, LoopDiesTo DEF ValidatorFault, DisableFails, ProjectIfLegal, Project, Stopped
    <2> QED
      BY <1>a, <2>1, LoopRestsEnough DEF FulfilmentLabels, ToMotor
  <1>3. CASE CompletePayment
    <2>1. CASE AcceptPayment
      BY <1>3, <1>a, <2>1, AcceptPaymentStages DEF CompletePayment
    <2>2. CASE LoopGoesTo("disabling") /\ UNCHANGED machine
      BY <1>a, <2>2, LoopGoes, LoopRestsEnough DEF LoopAt, machine, FulfilmentLabels, ToMotor
    <2> QED
      BY <1>3, <2>1, <2>2 DEF CompletePayment
  <1>4. CASE AcceptanceDisabled
    BY <1>4, <1>a, AcceptPaymentStages DEF AcceptanceDisabled
  <1>5. CASE FinalizeReserve
    <2>1. loop.label = "payment_confirmed" /\ InStage("payment_confirmed", fsm)
      BY <1>5 DEF FinalizeReserve, StageInv, OneSale, FulfilmentLabels, ToMotor
    <2>2. \/ LoopGoesTo("vend_authorized") /\ UNCHANGED machine
          \/ PayoutRaises
          \/ LoopProceeds("DISPENSING_CHANGE", "change_requested", "dispensing")
      BY <1>5 DEF FinalizeReserve
    <2>3. CASE LoopGoesTo("vend_authorized") /\ UNCHANGED machine
      <3>1. LoopAt("vend_authorized") /\ fsm' = fsm
        BY <2>3, LoopGoes DEF machine
      <3>2. InStage("vend_authorized", fsm') /\ StoppedStays
        BY <2>1, <3>1 DEF InStage, StoppedStays
      <3> QED
        BY <1>a, <2>1, <3>1, <3>2, LoopStages DEF FulfilmentLabels, ToMotor
    <2>4. CASE PayoutRaises
      BY <1>a, <2>4, PayoutRaisesRests
    <2>5. CASE LoopProceeds("DISPENSING_CHANGE", "change_requested", "dispensing")
      <3>1. CASE loop'.label = "dead" /\ fsm' = fsm
        BY <1>a, <3>1, LoopRestsEnough DEF FulfilmentLabels, ToMotor
      <3>2. CASE /\ TransitionReturns(fsm, "DISPENSING_CHANGE") /\ fsm' = "DISPENSING_CHANGE"
                 /\ LoopAt("change_requested")
        <4>1. InStage("change_requested", fsm') /\ StoppedStays
          BY <3>2
          DEF InStage, StoppedStays, Stopped, TransitionReturns, CanTransition, Predecessors
        <4> QED
          BY <1>a, <2>1, <3>2, <4>1, LoopStages DEF FulfilmentLabels, ToMotor
      <3> QED
        BY <2>5, <3>1, <3>2, LoopProceedsOrDies
    <2> QED
      BY <2>2, <2>3, <2>4, <2>5
  <1>6. CASE RequestChange
    <2>1. loop.label = "change_requested" /\ InStage("change_requested", fsm)
      BY <1>6 DEF RequestChange, StageInv, OneSale, FulfilmentLabels, ToMotor
    <2>2. CASE PayoutRaises
      BY <1>a, <2>2, PayoutRaisesRests
    <2>3. CASE \E reserve : /\ loop' = [loop EXCEPT !.label = "dispensing_change", !.plan = reserve]
                            /\ UNCHANGED machine
      <3>1. LoopAt("dispensing_change") /\ fsm' = fsm
        BY <2>3 DEF LoopAt, machine, DataOK, LoopOK, LoopRecords
      <3>2. InStage("dispensing_change", fsm') /\ StoppedStays
        BY <2>1, <3>1 DEF InStage, StoppedStays
      <3> QED
        BY <1>a, <2>1, <3>1, <3>2, LoopStages DEF FulfilmentLabels, ToMotor
    <2> QED
      BY <1>6, <2>2, <2>3 DEF RequestChange
  <1>7. CASE ChangeDispensed
    <2>1. loop.label = "dispensing_change" /\ InStage("dispensing_change", fsm)
      BY <1>7 DEF ChangeDispensed, StageInv, OneSale, FulfilmentLabels, ToMotor
    <2>2. CASE PayoutRaises
      BY <1>a, <2>2, PayoutRaisesRests
    <2>3. CASE LoopGoesTo("vend_authorized") /\ UNCHANGED machine
      <3>1. LoopAt("vend_authorized") /\ fsm' = fsm
        BY <2>3, LoopGoes DEF machine
      <3>2. InStage("vend_authorized", fsm') /\ StoppedStays
        BY <2>1, <3>1 DEF InStage, StoppedStays
      <3> QED
        BY <1>a, <2>1, <3>1, <3>2, LoopStages DEF FulfilmentLabels, ToMotor
    <2> QED
      BY <1>7, <2>2, <2>3 DEF ChangeDispensed
  <1>8. CASE ChangeNotDispensed \/ ChangeCommandRaises
    BY <1>8, <1>a, PayoutRaisesRests DEF ChangeNotDispensed, ChangeCommandRaises
  <1> QED
    BY <1>1, <1>2, <1>3, <1>4, <1>5, <1>6, <1>7, <1>8 DEF PaymentLoopStep

(* The vend.                                                               *)
LEMMA VendLoopRests ==
  ASSUME DataOK, VendLoopStep, ~WindowOpened, ~OpenFails
  PROVE  OnlyLoopMoves
  <1>1. UNCHANGED <<known, active, session, clicks, window, timers>>
    BY DEF VendLoopStep, VendAuthorized, ProductVended, VendFails, OpenWindow, ledger, ui, goods
  <1>2. loop.label \notin {"read", "dead"}
    BY DEF VendLoopStep, VendAuthorized, ProductVended, VendFails, OpenWindow
  <1>3. \/ UNCHANGED txs
        \/ \E r : Record(loop.tx, r) /\ (Delivered(r) => Delivered(txs[loop.tx]))
    BY <1>2, LoopHasRecord, MethodsKeepDelivery
    DEF VendLoopStep, VendAuthorized, ProductVended, VendFails, OpenWindow, ledger
  <1> QED
    BY <1>1, <1>2, <1>3, LoopServes DEF OnlyLoopMoves, SaleStays

LEMMA WindowStages ==
  ASSUME DataOK, StageInv, WindowOpened \/ OpenFails
  PROVE  StageForms
  <1>1. /\ loop.label = "opening_window" /\ fsm \in {"OPENING_DELIVERY_WINDOW"} \cup Stopped
        /\ loop.tx \in Transactions
    <2>1. loop.label = "opening_window"
      BY DEF WindowOpened, OpenFails
    <2> QED
      BY <2>1, LoopHasRecord DEF StageInv, OneSale, InStage, FulfilmentLabels, ToMotor
  <1>2. UNCHANGED <<known, active, session, clicks, timers>>
    BY DEF WindowOpened, OpenFails, ui
  <1>3. loop'.label \in {"read", "dead"}
    BY LoopDiesTo DEF WindowOpened, OpenFails
  <1>4. fsm' \in {"WAITING_FOR_CUSTOMER_PICKUP"} \cup Stopped /\ StoppedStays
    <2>1. CASE WindowOpened
      BY <1>1, <2>1
      DEF WindowOpened, Project, machine, TransitionReturns, CanTransition, Predecessors, Stopped,
          StoppedStays
    <2>2. CASE OpenFails
      <3>1. fsm' \in Stopped
        BY <1>1, <2>2
        DEF OpenFails, ProjectIfLegal, Project, TransitionReturns, CanTransition, Predecessors,
            Stopped, FulfilmentStates
      <3> QED
        BY <3>1 DEF StoppedStays
    <2> QED
      BY <2>1, <2>2
  <1>5. \A x \in Transactions : Served(x)' => Served(x) \/ x = loop.tx
    <2> PICK W : W = {loop.tx}
      OBVIOUS
    <2>1. \E x \in Transactions : \E r : Record(x, r) /\ (Delivered(r) => Served(x) \/ x \in W)
      BY <1>1 DEF WindowOpened, OpenFails
    <2>2. /\ \A x \in Transactions : timers'[x] # "idle" => Served(x) \/ x \in W
          /\ \A c \in Clicks : \A x \in Transactions : Finishing(c, x)' => Served(x) \/ x \in W
      BY <1>2 DEF Served, Finishing
    <2>3. \A x \in Transactions : Served(x)' => Served(x) \/ x \in W
      BY <2>1, <2>2, ServedFrom
    <2> QED
      BY <2>3
  <1>6. OpensWindow
    BY <1>1, <1>2, <1>3, <1>4, <1>5 DEF OpensWindow, SaleStays, FulfilmentLabels, ToMotor
  <1> QED
    BY <1>6 DEF StageForms

LEMMA VendLoopStages ==
  ASSUME DataOK, StageInv, VendLoopStep
  PROVE  StageForms
  <1>1. CASE WindowOpened \/ OpenFails
    BY <1>1, WindowStages
  <1> SUFFICES ASSUME ~WindowOpened, ~OpenFails
               PROVE  StageForms
    BY <1>1
  <1>a. OnlyLoopMoves
    BY VendLoopRests
  <1>b. loop'.label = "dead" /\ (fsm' = fsm \/ fsm' \in Stopped) => StageForms
    BY <1>a, LoopRestsEnough DEF FulfilmentLabels, ToMotor
  <1>2. CASE VendAuthorized
    <2>1. loop.label = "vend_authorized"
      BY <1>2 DEF VendAuthorized
    <2>2. CASE LoopDies /\ UNCHANGED machine
      BY <1>b, <2>2, LoopDiesTo DEF machine
    <2>3. CASE LoopProceeds("DISPENSING_PRODUCT", "vending", "dispensing")
      <3>1. CASE /\ TransitionReturns(fsm, "DISPENSING_PRODUCT") /\ fsm' = "DISPENSING_PRODUCT"
                 /\ LoopAt("vending")
        <4>1. InStage("vending", fsm') /\ StoppedStays
          BY <3>1
          DEF InStage, StoppedStays, Stopped, TransitionReturns, CanTransition, Predecessors
        <4> QED
          BY <1>a, <2>1, <3>1, <4>1, LoopStages DEF FulfilmentLabels, ToMotor
      <3> QED
        BY <1>b, <2>3, <3>1, LoopProceedsOrDies
    <2> QED
      BY <1>2, <2>2, <2>3 DEF VendAuthorized
  <1>3. CASE ProductVended
    <2>1. loop.label = "vending" /\ InStage("vending", fsm) /\ loop.tx = active /\ fsm' = fsm
      BY <1>3 DEF ProductVended, StageInv, OneSale, FulfilmentLabels, ToMotor, machine
    <2>2. CASE LoopDies
      BY <1>b, <2>1, <2>2, LoopDiesTo
    <2>3. CASE LoopGoesTo("product_dispensed")
      <3>1. LoopAt("product_dispensed")
        BY <2>3, LoopGoes
      <3>2. InStage("product_dispensed", fsm') /\ StoppedStays
        BY <2>1 DEF InStage, StoppedStays
      <3>3. Vended(active)'
        <4>1. loop.tx \in Transactions /\ vends[loop.tx] \in Nat /\ active' = active
          BY <1>a, <2>1, LoopHasRecord DEF DataOK, GoodsOK, OnlyLoopMoves, SaleStays
        <4>2. vends'[loop.tx] = vends[loop.tx] + 1
          BY <1>3, <4>1 DEF ProductVended, MotorRuns, DataOK, GoodsOK
        <4> QED
          BY <2>1, <4>1, <4>2 DEF Vended
      <3> QED
        BY <1>a, <2>1, <3>1, <3>2, <3>3, LoopStages DEF FulfilmentLabels, ToMotor
    <2> QED
      BY <1>3, <2>2, <2>3 DEF ProductVended
  <1>4. CASE VendFails
    <2>1. loop'.label = "dead" /\ (fsm' = fsm \/ fsm' \in Stopped)
      BY <1>4, LoopDiesTo DEF VendFails, ProjectIfLegal, Project, Stopped
    <2> QED
      BY <1>b, <2>1
  <1>5. CASE OpenWindow
    <2>1. loop.label = "product_dispensed" /\ loop.tx = active /\ Vended(loop.tx)
      BY <1>5 DEF OpenWindow, StageInv, OneSale, FulfilmentLabels
    <2>2. LoopProceeds("OPENING_DELIVERY_WINDOW", "opening_window", screen)
      BY <1>5 DEF OpenWindow
    <2>3. CASE /\ TransitionReturns(fsm, "OPENING_DELIVERY_WINDOW")
               /\ fsm' = "OPENING_DELIVERY_WINDOW" /\ LoopAt("opening_window")
      <3>1. InStage("opening_window", fsm') /\ StoppedStays
        BY <2>3
        DEF InStage, StoppedStays, Stopped, TransitionReturns, CanTransition, Predecessors
      <3>2. Vended(active)'
        BY <1>5, <1>a, <2>1 DEF OpenWindow, goods, Vended, OnlyLoopMoves, SaleStays
      <3> QED
        BY <1>a, <2>1, <2>3, <3>1, <3>2, LoopStages DEF FulfilmentLabels
    <2> QED
      BY <1>b, <2>2, <2>3, LoopProceedsOrDies
  <1> QED
    BY <1>2, <1>3, <1>4, <1>5 DEF VendLoopStep

(* The clicks.                                                             *)
LEMMA ClickServes ==
  ASSUME DataOK, UNCHANGED timers,
         \/ UNCHANGED txs
         \/ \E x \in Transactions : \E r : Record(x, r) /\ (Delivered(r) => Served(x)),
         \A c \in Clicks : \A x \in Transactions : Finishing(c, x)' => Served(x)
  PROVE  ServedStay
  <1> PICK W : W = {}
    OBVIOUS
  <1>1. \A x \in Transactions : timers'[x] # "idle" => Served(x) \/ x \in W
    BY DEF Served
  <1>2. \A x \in Transactions : Served(x)' => Served(x) \/ x \in W
    BY <1>1, ServedFrom
  <1> QED
    BY <1>2 DEF ServedStay

(* A click that ends, or waits where no sale is finished.                  *)
LEMMA ClickTurns ==
  ASSUME DataOK, NEW c \in Clicks,
         \/ EndClick(c)
         \/ \E where, y, plan :
              Suspend(c, where, y, plan) /\ where \notin {"closing_window", "completed"}
  PROVE  /\ Others(c) /\ clicks'[c].label \notin {"closing_window", "completed"}
         /\ EndClick(c) => clicks'[c].label = "idle"
         /\ \A where, y, plan :
              Suspend(c, where, y, plan) => clicks'[c].label = where /\ clicks'[c].tx = y
         /\ \A d \in Clicks : \A x \in Transactions : Finishing(d, x)' => Served(x)
  <1>1. Others(c)
    BY DEF EndClick, Suspend, Others, DataOK, ClicksOK
  <1>2. clicks'[c].label \notin {"closing_window", "completed"}
    BY DEF EndClick, Suspend, IdleClick, DataOK, ClicksOK
  <1>3. EndClick(c) => clicks'[c].label = "idle"
    BY DEF EndClick, IdleClick, DataOK, ClicksOK
  <1>4. \A where, y, plan :
          Suspend(c, where, y, plan) => clicks'[c].label = where /\ clicks'[c].tx = y
    BY DEF Suspend, DataOK, ClicksOK
  <1>5. \A d \in Clicks : \A x \in Transactions : Finishing(d, x)' => Served(x)
    BY <1>1, <1>2 DEF Others, Finishing, Served
  <1> QED
    BY <1>1, <1>2, <1>3, <1>4, <1>5

(* A click that has neither created a sale nor opened, served or completed *)
(* one.                                                                    *)
LEMMA ClickRests ==
  ASSUME DataOK, NEW c \in Clicks,
         SaleStays, ServedStay, LoopStays, Others(c),
         session' \in {session, NoTx} \/ (clicks[c].label = "enabling" /\ session' = clicks[c].tx),
         \/ clicks'[c].label \in {"idle", "sensing"}
         \/ clicks'[c].label = "pressed" /\ session # NoTx /\ clicks'[c].tx = session
         \/ Opening(c) /\ Opening(c)' /\ clicks'[c].tx = clicks[c].tx,
         fsm' = fsm \/ fsm' \in Stopped,
         window' \in {window, "closed"}
  PROVE  StageForms
  <1>1. ClicksRest
    BY DEF ClicksRest, Others, Opening, Started, Reserved
  <1>2. SessionRests
    BY DEF SessionRests
  <1>3. Rests
    BY <1>1, <1>2 DEF Rests
  <1> QED
    BY <1>3 DEF StageForms

LEMMA SessionClickStages ==
  ASSUME DataOK, WorstCaseChange > 0, NEW c \in Clicks,
         \/ StartCashSession(c) \/ ReserveCreated(c)
         \/ AcceptanceEnabled(c) \/ EnableFails(c)
  PROVE  StageForms
  <1> DEFINE y == clicks[c].tx
             x == txs[y]
  <1>1. /\ SaleStays /\ LoopStays /\ UNCHANGED <<window, timers>>
        /\ session' = session \/ AcceptanceEnabled(c)
    BY DEF StartCashSession, ReserveCreated, AcceptanceEnabled, EnableFails, ledger, goods,
           SaleStays, LoopStays
  <1>2. /\ y \in Transactions /\ x \in TransactionRecords
    BY DEF StartCashSession, ReserveCreated, AcceptanceEnabled, EnableFails, DataOK, ClicksOK,
           LedgerOK
  <1>3. \/ EndClick(c)
        \/ StartCashSession(c) /\ Suspend(c, "reserve_created", y, NoPieces)
        \/ ReserveCreated(c) /\ Suspend(c, "enabling", y, NoPieces)
    BY DEF StartCashSession, ReserveCreated, AcceptanceEnabled, EnableFails, OpenSession,
           ClickRejected
  <1>4. /\ Others(c) /\ \A d \in Clicks : \A z \in Transactions : Finishing(d, z)' => Served(z)
        /\ EndClick(c) => clicks'[c].label = "idle"
        /\ \A where : Suspend(c, where, y, NoPieces) =>
                      clicks'[c].label = where /\ clicks'[c].tx = y
    <2>1. \/ EndClick(c)
          \/ \E where, z, plan :
               Suspend(c, where, z, plan) /\ where \notin {"closing_window", "completed"}
      BY <1>3
    <2> QED
      BY <2>1, ClickTurns
  <1>5. ServedStay
    <2>1. \/ UNCHANGED txs
          \/ \E z \in Transactions : \E r : Record(z, r) /\ (Delivered(r) => Served(z))
      <3>1. UNCHANGED txs \/ \E r : Record(y, r) /\ (Delivered(r) => Delivered(x))
        BY <1>2, MethodsKeepDelivery
        DEF StartCashSession, ReserveCreated, AcceptanceEnabled, EnableFails, OpenSession, ledger
      <3> QED
        BY <1>2, <3>1 DEF Served
    <2> QED
      BY <1>1, <1>4, <2>1, ClickServes
  <1>6. CASE StartCashSession(c)
    <2>1. fsm' = fsm /\ session' = session
      BY <1>6 DEF StartCashSession, machine
    <2>2. \/ clicks'[c].label = "idle"
          \/ Opening(c) /\ Opening(c)' /\ clicks'[c].tx = clicks[c].tx
      <3>1. Opening(c)
        BY <1>6 DEF StartCashSession, Opening, Started
      <3>2. clicks'[c].label \in {"idle", "reserve_created"}
            /\ (clicks'[c].label = "reserve_created" => clicks'[c].tx = y)
        BY <1>3, <1>4, <1>6 DEF StartCashSession, ReserveCreated
      <3> QED
        BY <3>1, <3>2 DEF Opening, Reserved
    <2> QED
      BY <1>1, <1>4, <1>5, <2>1, <2>2, ClickRests
  <1>7. CASE ReserveCreated(c)
    <2>1. Opens(c) /\ session' = session /\ window' = window
      BY <1>1, <1>7, SessionOpens DEF ReserveCreated
    <2>2. clicks'[c].label = "enabling" => clicks'[c].tx = clicks[c].tx
      BY <1>3, <1>4, <1>7 DEF ReserveCreated, StartCashSession
    <2>3. OpensSession(c)
      BY <1>5, <2>1, <2>2 DEF OpensSession
    <2> QED
      BY <2>3 DEF StageForms
  <1>8. CASE AcceptanceEnabled(c) \/ EnableFails(c)
    <2>1. clicks'[c].label = "idle"
      BY <1>4, <1>8 DEF AcceptanceEnabled, EnableFails, ClickRejected
    <2>2. fsm' = fsm \/ fsm' \in Stopped
      BY <1>8 DEF AcceptanceEnabled, EnableFails, ProjectIfLegal, Project, machine, Stopped
    <2>3. session' = session \/ (clicks[c].label = "enabling" /\ session' = clicks[c].tx)
      BY <1>8 DEF AcceptanceEnabled, EnableFails
    <2> QED
      BY <1>1, <1>4, <1>5, <2>1, <2>2, <2>3, ClickRests
  <1> QED
    BY <1>6, <1>7, <1>8

LEMMA RefusedClickStages ==
  ASSUME DataOK, NEW c \in Clicks, SensorMismatch(c) \/ AlreadyActive(c) \/ CheckoutClick(c)
  PROVE  StageForms
  <1>1. /\ SaleStays /\ LoopStays /\ session' = session /\ fsm' = fsm
        /\ UNCHANGED <<window, timers, txs>>
    BY DEF SensorMismatch, AlreadyActive, CheckoutClick, ledger, goods, machine, SaleStays,
           LoopStays
  <1>2. EndClick(c) \/ Suspend(c, "sensing", NoTx, NoPieces)
    BY DEF SensorMismatch, AlreadyActive, CheckoutClick, ClickRejected
  <1>3. \/ EndClick(c)
        \/ \E where, y, plan :
             Suspend(c, where, y, plan) /\ where \notin {"closing_window", "completed"}
    BY <1>2
  <1>4. /\ Others(c) /\ clicks'[c].label \in {"idle", "sensing"}
        /\ \A d \in Clicks : \A x \in Transactions : Finishing(d, x)' => Served(x)
    BY <1>2, <1>3, ClickTurns
  <1>5. ServedStay
    BY <1>1, <1>4, ClickServes
  <1> QED
    BY <1>1, <1>4, <1>5, ClickRests

LEMMA CreationStages ==
  ASSUME DataOK, NEW c \in Clicks, NEW x \in Transactions, CreateTransaction(c, x)
  PROVE  StageForms
  <1>1. Creates(c, x)
    BY CreationForms
  <1>2. session' = session /\ UNCHANGED <<window, timers>>
    BY DEF CreateTransaction, goods
  <1>3. fsm' = fsm \/ fsm = "IDLE"
    BY DEF CreateTransaction, machine, CanTransition, Predecessors
  <1>4. \A d \in Clicks : \A y \in Transactions : Finishing(d, y)' => Served(y)
    <2>1. \/ EndClick(c)
          \/ \E where, y, plan :
               Suspend(c, where, y, plan) /\ where \notin {"closing_window", "completed"}
      BY DEF CreateTransaction, ClickRejected
    <2> QED
      BY <2>1, ClickTurns
  <1>5. \E r : Record(x, r) /\ ~Delivered(r)
    BY DEF CreateTransaction, Delivered, NewTransaction
  <1>6. ServedStay
    BY <1>2, <1>4, <1>5, ClickServes
  <1>7. Begins(c, x)
    BY <1>1, <1>2, <1>3, <1>6 DEF Begins
  <1> QED
    BY <1>7 DEF StageForms

LEMMA PressStages ==
  ASSUME DataOK, NEW c \in Clicks, PickupPress(c)
  PROVE  StageForms
  <1>1. /\ SaleStays /\ LoopStays /\ session' = session /\ session # NoTx
        /\ UNCHANGED <<fsm, txs, window, timers>>
    BY DEF PickupPress, machine, ledger, ui, goods, SaleStays, LoopStays
  <1>2. Suspend(c, "pressed", session, NoPieces)
    BY DEF PickupPress
  <1>3. /\ Others(c) /\ clicks'[c].label = "pressed" /\ clicks'[c].tx = session
        /\ \A d \in Clicks : \A x \in Transactions : Finishing(d, x)' => Served(x)
    BY <1>2, ClickTurns
  <1>4. ServedStay
    BY <1>1, <1>3, ClickServes
  <1> QED
    BY <1>1, <1>3, <1>4, ClickRests

LEMMA PickupStages ==
  ASSUME DataOK, NEW c \in Clicks, PickupClick(c)
  PROVE  StageForms
  <1> DEFINE y == clicks[c].tx
  <1>1. /\ SaleStays /\ LoopStays /\ session' = session /\ y \in Transactions
        /\ clicks[c].label = "pressed" /\ UNCHANGED <<window, timers>>
    BY DEF PickupClick, goods, SaleStays, LoopStays, DataOK, ClicksOK
  <1>2. \/ UNCHANGED txs
        \/ \E x \in Transactions : \E r : Record(x, r) /\ (Delivered(r) => Served(x))
    BY <1>1, MethodsKeepDelivery DEF PickupClick, DataOK, LedgerOK, Served
  <1>3. CASE /\ TransitionReturns(fsm, "CLOSING_DELIVERY_WINDOW")
             /\ Project("CLOSING_DELIVERY_WINDOW", status)
             /\ Suspend(c, "closing_window", y, NoPieces)
    <2>1. fsm' = "CLOSING_DELIVERY_WINDOW" /\ fsm \in AwaitsPickup
      BY <1>3 DEF Project, TransitionReturns, CanTransition, Predecessors, AwaitsPickup
    <2>2. Others(c) /\ clicks'[c].label = "closing_window" /\ clicks'[c].tx = y
      BY <1>3 DEF Suspend, Others, DataOK, ClicksOK
    <2>3. \A x \in Transactions : Served(x)' => Served(x) \/ x = y
      <3> PICK W : W = {y}
        OBVIOUS
      <3>1. \A x \in Transactions : timers'[x] # "idle" => Served(x) \/ x \in W
        BY <1>1 DEF Served
      <3>2. \A d \in Clicks : \A x \in Transactions : Finishing(d, x)' => Served(x) \/ x \in W
        BY <2>2 DEF Others, Finishing, Served
      <3>3. \A x \in Transactions : Served(x)' => Served(x) \/ x \in W
        BY <1>2, <3>1, <3>2, ServedFrom
      <3> QED
        BY <3>3
    <2>4. PicksUp(c)
      BY <1>1, <2>1, <2>2, <2>3 DEF PicksUp
    <2> QED
      BY <2>4 DEF StageForms
  <1>4. CASE EndClick(c) /\ fsm' = fsm
    <2>1. /\ Others(c) /\ clicks'[c].label = "idle"
          /\ \A d \in Clicks : \A x \in Transactions : Finishing(d, x)' => Served(x)
      BY <1>4, ClickTurns
    <2>2. ServedStay
      BY <1>1, <1>2, <2>1, ClickServes
    <2> QED
      BY <1>1, <1>4, <2>1, <2>2, ClickRests
  <1> QED
    BY <1>3, <1>4 DEF PickupClick, ClickRejected, machine

LEMMA ClosingClickStages ==
  ASSUME DataOK, NEW c \in Clicks,
         PickupWindowClosed(c) \/ PickupCloseFails(c) \/ SaleCompleted(c)
  PROVE  StageForms
  <1> DEFINE y == clicks[c].tx
  <1>1. /\ LoopStays /\ known' = known /\ window' \in {window, "closed"} /\ UNCHANGED timers
        /\ session' \in {session, NoTx}
    BY DEF PickupWindowClosed, PickupCloseFails, SaleCompleted, goods, ui, LoopStays
  <1>2. y \in Transactions /\ Served(y) /\ txs[y] \in TransactionRecords
    BY DEF PickupWindowClosed, PickupCloseFails, SaleCompleted, DataOK, ClicksOK, LedgerOK,
           Served, Finishing
  <1>3. \/ UNCHANGED txs
        \/ \E x \in Transactions : \E r : Record(x, r) /\ (Delivered(r) => Served(x))
    BY <1>2 DEF PickupWindowClosed, PickupCloseFails, SaleCompleted
  <1>4. ASSUME EndClick(c)
        PROVE  /\ Others(c) /\ clicks'[c].label = "idle" /\ ServedStay
    BY <1>1, <1>3, <1>4, ClickTurns, ClickServes
  <1>5. CASE PickupWindowClosed(c)
    <2>1. SaleStays /\ window' = "closed" /\ clicks[c].label = "closing_window"
      BY <1>5 DEF PickupWindowClosed, SaleStays
    <2>2. CASE TransitionReturns(fsm, "COMPLETED")
      <3>1. /\ Suspend(c, "completed", y, NoPieces) /\ fsm' = "COMPLETED" /\ session' = NoTx
            /\ fsm \in {"CLOSING_DELIVERY_WINDOW", "COMPLETED"}
        BY <1>5, <2>2
        DEF PickupWindowClosed, TransitionReturns, CanTransition, Predecessors
      <3>2. Others(c) /\ clicks'[c].label = "completed" /\ clicks'[c].tx = y
        BY <3>1 DEF Suspend, Others, DataOK, ClicksOK
      <3>3. \A d \in Clicks : \A x \in Transactions : Finishing(d, x)' => Served(x)
        BY <1>2, <3>2 DEF Others, Finishing, Served
      <3>4. ServedStay
        BY <1>1, <1>3, <3>3, ClickServes
      <3>5. Completes(c)
        BY <1>1, <2>1, <3>1, <3>2, <3>4 DEF Completes
      <3> QED
        BY <3>5 DEF StageForms
    <2>3. CASE ~TransitionReturns(fsm, "COMPLETED")
      <3>1. EndClick(c) /\ fsm' = fsm
        BY <1>5, <2>3 DEF PickupWindowClosed, ClickRejected
      <3> QED
        BY <1>1, <1>4, <2>1, <3>1, ClickRests
    <2> QED
      BY <2>2, <2>3
  <1>6. CASE PickupCloseFails(c)
    <2>1. SaleStays /\ EndClick(c) /\ fsm' = fsm
      BY <1>6 DEF PickupCloseFails, SaleStays, machine
    <2> QED
      BY <1>1, <1>4, <2>1, ClickRests
  <1>7. CASE SaleCompleted(c)
    <2>1. /\ EndClick(c) /\ clicks[c].label = "completed" /\ fsm' \in {fsm, "IDLE"}
          /\ active' = (IF active = clicks[c].tx THEN NoTx ELSE active) /\ window' = window
      BY <1>7 DEF SaleCompleted, ClickRejected, Project, machine, ClearActive, goods
    <2>2. Finishes(c)
      BY <1>1, <1>4, <2>1 DEF Finishes
    <2> QED
      BY <2>2 DEF StageForms
  <1> QED
    BY <1>5, <1>6, <1>7

(* The pickup timeouts and the operator.                                   *)
LEMMA DeadlineStages ==
  ASSUME DataOK, NEW x \in Transactions, DeadlineStep(x)
  PROVE  StageForms
  <1>1. /\ SaleStays /\ LoopStays /\ session' = session /\ clicks' = clicks
        /\ window' \in {window, "closed"}
    BY DEF DeadlineStep, TimerStep, DeadlinePasses, CloseOnTimeout, TimeoutWindowClosed,
           TimeoutCloseFails, ledger, ui, goods, SaleStays, LoopStays
  <1>2. /\ Served(x)
        /\ \E where : TimerGoesTo(x, where)
        /\ UNCHANGED txs \/ \E r : Record(x, r)
    BY DEF DeadlineStep, TimerStep, DeadlinePasses, CloseOnTimeout, TimeoutWindowClosed,
           TimeoutCloseFails, ledger, Served, Delivered
  <1>3. /\ \A y \in Transactions : timers'[y] # "idle" => Served(y)
        /\ \A c \in Clicks : \A y \in Transactions : Finishing(c, y)' => Served(y)
    <2>1. timers \in [Transactions -> TimerLabels]
      BY DEF DataOK, TimersOK
    <2> QED
      BY <1>1, <1>2, <2>1 DEF TimerGoesTo, Served, Finishing
  <1>4. ServedStay
    <2> PICK W : W = {}
      OBVIOUS
    <2>1. \A y \in Transactions : Served(y)' => Served(y) \/ y \in W
      BY <1>2, <1>3, ServedFrom
    <2> QED
      BY <2>1 DEF ServedStay
  <1>5. \/ fsm' = fsm \/ fsm' \in Stopped
        \/ fsm = "WAITING_FOR_CUSTOMER_PICKUP" /\ fsm' = "CLOSING_DELIVERY_WINDOW"
    BY DEF DeadlineStep, TimerStep, DeadlinePasses, CloseOnTimeout, TimeoutWindowClosed,
           TimeoutCloseFails, Project, machine, Stopped
  <1>6. Rests
    BY <1>1, <1>4, <1>5 DEF Rests, SessionRests, ClicksRest, Opening, Started, Reserved
  <1> QED
    BY <1>6 DEF StageForms

LEMMA QuietStages ==
  ASSUME DataOK, UNCHANGED <<fsm, txs, known, active, timers, clicks, window, loop>>,
         session' \in {session, NoTx}
  PROVE  StageForms
  <1>1. ServedStay
    BY ClickServes DEF Finishing, Served
  <1>2. Rests
    BY <1>1 DEF Rests, SaleStays, LoopStays, SessionRests, ClicksRest, Opening, Started, Reserved
  <1> QED
    BY <1>2 DEF StageForms

(* Every step is, as far as the stages are concerned, of one of the forms. *)
LEMMA NextStages ==
  ASSUME DataOK, VendInv, StageInv, NoOperator, WorstCaseChange > 0,
         Operations \cap {"cancel", "service"} = {}, Next
  PROVE  StageForms
  <1>1. CASE LoopStep
    BY <1>1, PaymentLoopStages, VendLoopStages DEF LoopStep
  <1>2. ASSUME NEW c \in Clicks, ClickStep(c)
        PROVE  StageForms
    <2>1. clicks[c].label \notin CancelLabels \cup {"recovering"}
      BY DEF NoOperator, NobodyCancels
    <2>2. \/ StartCashSession(c) \/ ReserveCreated(c) \/ AcceptanceEnabled(c) \/ EnableFails(c)
          \/ VendClickStep(c)
      BY <1>2, <2>1
      DEF ClickStep, PaymentClickStep, CancelLabels, CancelDisabled, CancelDisableFails,
          RequestRefund, RefundDispensed, RefundNotDispensed, RefundCommandRaises,
          RefundPublished, CancelPublished, RecoverAsCancelled
    <2>3. CASE VendClickStep(c)
      BY <2>3, RefusedClickStages, CreationStages, PickupStages, ClosingClickStages DEF VendClickStep
    <2> QED
      BY <2>2, <2>3, SessionClickStages
  <1>3. CASE \E x \in Transactions : DeadlineStep(x)
    BY <1>3, DeadlineStages
  <1>4. CASE CustomerStep
    <2>1. CASE (\E b \in BillValues : InsertBill(b)) \/ JamBill
      <3>1. UNCHANGED <<fsm, txs, known, active, timers, clicks, window, loop, session>>
        BY <2>1 DEF InsertBill, JamBill, machine, ledger, goods, ui
      <3> QED
        BY <3>1, QuietStages
    <2>2. ASSUME NEW c \in Clicks, CheckoutClick(c) \/ CancelClick(c) \/ PickupPress(c)
          PROVE  StageForms
      BY <2>2, RefusedClickStages, PressStages DEF CancelClick
    <2> QED
      BY <1>4, <2>1, <2>2 DEF CustomerStep
  <1>5. CASE OperatorStep
    <2>1. LeaveNotice \/ \E reason \in HealthBlockers : HealthPoll(reason)
      BY <1>5 DEF OperatorStep, NoOperator, EnterServiceMode, ExitServiceMode, RecoverClick
    <2>2. /\ UNCHANGED <<fsm, txs, known, active, timers, clicks, window, loop>>
          /\ session' \in {session, NoTx}
      BY <2>1 DEF LeaveNotice, HealthPoll, machine, ledger, goods
    <2> QED
      BY <2>2, QuietStages
  <1> QED
    BY <1>1, <1>2, <1>3, <1>4, <1>5 DEF Next

-----------------------------------------------------------------------------
(* Without a cancel button and a service mode nobody cancels, and nobody   *)
(* recovers a sale, which only the service screen offers.                  *)
LEMMA NoOperatorKept ==
  ASSUME DataOK, Operations \cap {"cancel", "service"} = {}, NoOperator, Next
  PROVE  NoOperator'
  <1>1. NobodyCancels'
    BY NobodyCancelsKept DEF NoOperator
  <1>2. \A c \in Clicks : clicks'[c].label # "recovering"
    <2>1. \/ UNCHANGED clicks
          \/ \E c \in Clicks :
               \/ EndClick(c)
               \/ \E where, x, plan : Suspend(c, where, x, plan) /\ where # "recovering"
      BY NextClickGoes DEF ClickGoes, NoOperator
    <2> QED
      BY <2>1 DEF NoOperator, EndClick, Suspend, IdleClick, DataOK, ClicksOK
  <1>3. screen' # "service"
    <2>a. screen # "service"
      BY DEF NoOperator
    <2> DEFINE Shown ==
          screen' = screen \/ screen' \in {"home", "payment", "dispensing", "pickup", "notice"}
    <2>1. CASE LoopStep
      <3>1. ASSUME NEW s, NEW where, NEW shown, LoopProceeds(s, where, shown)
            PROVE  screen' \in {screen, shown}
        BY <3>1 DEF LoopProceeds
      <3>2. CASE PaymentLoopStep
        BY <2>a, <3>1, <3>2
        DEF PaymentLoopStep, ReadEvent, ValidatorFault, CreditBill, AwaitMoreCash,
            CompletePayment, AcceptanceDisabled, FinalizeReserve, RequestChange, ChangeDispensed,
            DisableFails, ChangeNotDispensed, ChangeCommandRaises, AcceptPayment, ui
      <3>3. CASE VendLoopStep
        BY <2>a, <3>1, <3>3
        DEF VendLoopStep, VendAuthorized, ProductVended, VendFails, OpenWindow, WindowOpened,
            OpenFails, ui
      <3> QED
        BY <2>1, <3>2, <3>3 DEF LoopStep
    <2>2. ASSUME NEW c \in Clicks, ClickStep(c)
          PROVE  Shown
      <3>1. CASE PaymentClickStep(c)
        BY <3>1
        DEF PaymentClickStep, StartCashSession, ReserveCreated, AcceptanceEnabled, EnableFails,
            CancelDisabled, CancelDisableFails, RequestRefund, RefundDispensed,
            RefundNotDispensed, RefundCommandRaises, RefundPublished, CancelPublished,
            ClickRejected, OpenSession, FinishCancel, RefundAnswered, ui
      <3>2. CASE VendClickStep(c) \/ RecoverAsCancelled(c)
        BY <3>2
        DEF VendClickStep, SensorMismatch, AlreadyActive, CreateTransaction, PickupClick, PickupWindowClosed,
            PickupCloseFails, SaleCompleted, RecoverAsCancelled, ClickRejected, ui
      <3> QED
        BY <2>2, <3>1, <3>2 DEF ClickStep
    <2>3. CASE (\E x \in Transactions : DeadlineStep(x)) \/ CustomerStep
      BY <2>a, <2>3
      DEF DeadlineStep, TimerStep, DeadlinePasses, CloseOnTimeout, TimeoutWindowClosed,
          TimeoutCloseFails, CustomerStep, InsertBill, JamBill, CheckoutClick, CancelClick,
          PickupPress, ClickRejected, ui
    <2>4. CASE OperatorStep
      BY <2>a, <2>4
      DEF OperatorStep, EnterServiceMode, ExitServiceMode, RecoverClick, HealthPoll, LeaveNotice, ui
    <2> QED
      BY <2>a, <2>1, <2>2, <2>3, <2>4 DEF Next
  <1> QED
    BY <1>1, <1>2, <1>3 DEF NoOperator

LEMMA NoOperatorEver ==
  ASSUME Operations \cap {"cancel", "service"} = {}
  PROVE  Spec => []NoOperator
  <1>1. KioskInit => NoOperator
    BY DEF KioskInit, Init, NoOperator, NobodyCancels, CancelLabels, IdleClick
  <1>2. ASSUME DataOK, NoOperator, [Next]_kioskVars
        PROVE  NoOperator'
    <2>1. CASE UNCHANGED kioskVars
      BY <1>2, <2>1 DEF kioskVars, vars, NoOperator, NobodyCancels, ui
    <2>2. CASE Next
      BY <1>2, <2>2, NoOperatorKept
    <2> QED
      BY <1>2, <2>1, <2>2
  <1> QED
    BY <1>1, <1>2, DataAlwaysOK, PTL DEF Spec

(* The inductive step for the stages of a sale.                            *)
LEMMA StageStep ==
  ASSUME DataOK, DataOK', VendInv, VendInv', Unsessioned, Scheduled, Forms, StageInv, StageForms
  PROVE  StageInv'
  BY RestsKeeps, ProceedsKeeps, OpensWindowKeeps, BeginsKeeps, OpensSessionKeeps, PicksUpKeeps,
     CompletingKeeps, FinishesKeeps
  DEF StageForms

(* The stages of a sale, while nobody cancels and no operator intervenes.  *)
LEMMA StageInvariant ==
  ASSUME WorstCaseChange > 0, Operations \cap {"cancel", "service"} = {}
  PROVE  Spec => []StageInv
  <1>1. KioskInit => StageInv
    BY DEF KioskInit, Init, StageInv, OneSale, OpeningStage, SessionsKnown, ServedAreVended,
           WindowStage, CompletingFirst, FulfilmentLabels, ToMotor, AwaitsPickup, Opening,
           Started, Reserved, Served, Delivered, Finishing, IdleClick, ReadingLoop, NewTransaction
  <1>2. ASSUME DataOK, DataOK', VendInv, VendInv', Unsessioned, NoOperator, StageInv,
               [Next]_kioskVars
        PROVE  StageInv'
    <2>1. CASE UNCHANGED kioskVars
      BY <1>2, <2>1
      DEF kioskVars, vars, machine, ledger, ui, goods, StageInv, OneSale, OpeningStage,
          SessionsKnown, ServedAreVended, WindowStage, CompletingFirst, Opening, Started, Reserved,
          Served, Finishing, Vended, Before
    <2>2. CASE Next
      <3>1. StageForms /\ Forms /\ Scheduled
        BY <1>2, <2>2, NextStages, NextForms DEF Next
      <3> QED
        BY <1>2, <3>1, StageStep
    <2> QED
      BY <1>2, <2>1, <2>2
  <1>3. Spec => []VendInv
    BY VendInvariant
  <1>4. Spec => []Unsessioned
    BY UnsessionedAlways
  <1>5. Spec => []NoOperator
    BY NoOperatorEver
  <1> QED
    BY <1>1, <1>2, <1>3, <1>4, <1>5, DataAlwaysOK, PTL DEF Spec

(* A machine ready for the next customer has its window closed: presses    *)
(* that wait for their turn, the pickups they confirm and the deadlines of *)
(* the same sale close it in any order the loop allows.                    *)
THEOREM IdleWindowAlwaysClosed ==
  ASSUME WorstCaseChange > 0, Operations \cap {"cancel", "service"} = {}
  PROVE  Spec => []IdleWindowClosed
  <1>1. DataOK /\ StageInv => IdleWindowClosed
    BY DEF StageInv, WindowStage, IdleWindowClosed, AwaitsPickup, Stopped, DataOK, GoodsOK
  <1>2. Spec => []StageInv
    BY StageInvariant
  <1> QED
    BY <1>1, <1>2, DataAlwaysOK, PTL

-----------------------------------------------------------------------------
(* While nobody cancels, only the payment loop pays out.                   *)
LEMMA OnlyTheLoopPays ==
  ASSUME DataOK, NobodyCancels, WorstCaseChange > 0, Next
  PROVE  \/ paidOut' = paidOut
         \/ /\ loop.label = "dispensing_change" /\ loop.tx \in Transactions
            /\ \E pieces : PayOut(loop.tx, pieces)
  <1>1. CASE CreditBill \/ CompletePayment \/ FinalizeReserve
    BY <1>1 DEF CreditBill, CompletePayment, FinalizeReserve, money
  <1>2. CASE ChangeDispensed \/ ChangeNotDispensed \/ ChangeCommandRaises
    BY <1>2, LoopHasRecord DEF ChangeDispensed, ChangeNotDispensed, ChangeCommandRaises, money
  <1>3. CASE PaymentLoopStep /\ ~CreditBill /\ ~CompletePayment /\ ~FinalizeReserve
             /\ ~ChangeDispensed /\ ~ChangeNotDispensed /\ ~ChangeCommandRaises
    BY <1>3, PaymentLoopMoney DEF Idles, MoneyStays
  <1>4. CASE VendLoopStep
    BY <1>4, VendLoopMoney DEF Idles, MoneyStays
  <1>5. ASSUME NEW c \in Clicks, ClickStep(c)
        PROVE  paidOut' = paidOut
    BY <1>5, OpeningMoney, OtherClicksMoney
    DEF ClickStep, Idles, MoneyStays, Attaches, Adds
  <1>6. CASE (\E x \in Transactions : DeadlineStep(x)) \/ CustomerStep \/ OperatorStep
    BY <1>6, OutsideMoney DEF Idles, MoneyStays
  <1> QED
    BY <1>1, <1>2, <1>3, <1>4, <1>5, <1>6 DEF Next, LoopStep

(* Once the window has closed behind a product, the motor and the          *)
(* dispenser do nothing more for its sale.                                 *)
THEOREM DeliveredStaysFinal ==
  ASSUME WorstCaseChange > 0, Operations \cap {"cancel", "service"} = {}
  PROVE  Spec => DeliveredIsFinal
  <1> DEFINE Final ==
        \A x \in Transactions : txs[x].delivery_status = "window_closed" =>
          vends'[x] = vends[x] /\ paidOut'[x] = paidOut[x]
  <1>1. ASSUME DataOK, VendInv, StageInv, NoOperator, [Next]_kioskVars
        PROVE  [Final]_kioskVars
    <2> SUFFICES ASSUME Next, NEW x \in Transactions, txs[x].delivery_status = "window_closed"
                 PROVE  vends'[x] = vends[x] /\ paidOut'[x] = paidOut[x]
      BY <1>1
    <2>1. Vended(x)
      BY <1>1 DEF StageInv, ServedAreVended, Served, Delivered
    <2>2. loop.label \in ToMotor => loop.tx # x
      BY <1>1, <2>1 DEF VendInv, LifeInv, VendedKnown, VendedOnce, Vended
    <2>3. vends'[x] = vends[x]
      <3>1. vends' = vends \/ (loop.label = "vending" /\ vends' = [vends EXCEPT ![loop.tx] = @ + 1])
        BY <1>1, NextForms
        DEF Forms, Elsewhere, Reserves, Opens, Creates, LoopForms, Reads, Credits, Disables,
            Accepts, Advances, MovesOn
      <3> QED
        BY <1>1, <2>2, <3>1 DEF DataOK, GoodsOK, ToMotor
    <2>4. paidOut'[x] = paidOut[x]
      <3>1. \/ paidOut' = paidOut
            \/ /\ loop.label = "dispensing_change" /\ loop.tx \in Transactions
               /\ \E pieces : PayOut(loop.tx, pieces)
        BY <1>1, OnlyTheLoopPays DEF NoOperator
      <3> QED
        BY <1>1, <2>2, <3>1 DEF PayOut, DataOK, CashOK, ToMotor
    <2> QED
      BY <2>3, <2>4
  <1>2. Spec => []VendInv
    BY VendInvariant
  <1>3. Spec => []NoOperator
    BY NoOperatorEver
  <1>4. Spec => []StageInv
    BY StageInvariant
  <1>5. Spec => [][Final]_kioskVars
    <2> HIDE DEF Final
    <2> QED
      BY <1>1, <1>2, <1>3, <1>4, DataAlwaysOK, PTL DEF Spec
  <1> QED
    BY <1>5 DEF DeliveredIsFinal

-----------------------------------------------------------------------------
(* The accounting and the dispenser.                                       *)
Mismatched == inventory.accounting # coins /\ ~inventory.drift_detected
NobodyCompletes == \A c \in Clicks : clicks[c].label # "completed"
MismatchStops == Mismatched => fsm \in Stopped /\ NobodyCompletes

BooksStay ==
  /\ inventory'.accounting = inventory.accounting /\ coins' = coins
  /\ inventory.drift_detected => inventory'.drift_detected

(* A machine that has stopped leaves its state only when a sale completes. *)
LEMMA StoppedKept ==
  ASSUME StageForms, fsm \in Stopped, NobodyCompletes
  PROVE  fsm' \in Stopped /\ NobodyCompletes'
  <1>1. CASE Rests
    BY <1>1 DEF Rests, ClicksRest, Stopped, NobodyCompletes
  <1>2. CASE Proceeds \/ OpensWindow
    BY <1>2 DEF Proceeds, OpensWindow, StoppedStays, NobodyCompletes
  <1>3. ASSUME NEW c \in Clicks, OpensSession(c)
        PROVE  fsm' \in Stopped /\ NobodyCompletes'
    BY <1>3 DEF OpensSession, Opens, Others, Stopped, NobodyCompletes
  <1>4. ASSUME NEW c \in Clicks, PicksUp(c) \/ Completes(c) \/ Finishes(c)
        PROVE  FALSE
    BY <1>4 DEF PicksUp, Completes, Finishes, AwaitsPickup, Stopped, NobodyCompletes
  <1>5. ASSUME NEW c \in Clicks, NEW x \in Transactions, Begins(c, x)
        PROVE  fsm' \in Stopped /\ NobodyCompletes'
    BY <1>5 DEF Begins, Creates, Others, Stopped, NobodyCompletes
  <1> QED
    BY <1>1, <1>2, <1>3, <1>4, <1>5 DEF StageForms

(* Reserving and releasing pieces leaves the accounting and the drift      *)
(* flag alone.                                                             *)
LEMMA ReservingKeepsBooks ==
  ASSUME NEW inv \in InventoryRecords, NEW plan
  PROVE  /\ Reserve(inv, plan).accounting = inv.accounting
         /\ Release(inv, plan).accounting = inv.accounting
         /\ Reserve(inv, plan).drift_detected = inv.drift_detected
         /\ Release(inv, plan).drift_detected = inv.drift_detected
         /\ \A q : /\ Reserve(Release(inv, plan), q).accounting = inv.accounting
                   /\ Reserve(Release(inv, plan), q).drift_detected = inv.drift_detected
  BY DEF Reserve, Release, InventoryRecords

(* Only a payout of change can part the accounting from the dispenser.     *)
LEMMA BooksKept ==
  ASSUME DataOK, NobodyCancels, Next,
         ~ChangeDispensed, ~ChangeNotDispensed, ~ChangeCommandRaises
  PROVE  BooksStay
  <1>a. inventory \in InventoryRecords
    BY DEF DataOK, CashOK
  <1>b. UNCHANGED <<inventory, coins>> => BooksStay
    BY DEF BooksStay
  <1>1. CASE FinalizeReserve
    <2>1. coins' = coins
      BY <1>1 DEF FinalizeReserve, money
    <2>2. PICK plan : \/ inventory' = Release(inventory, plan)
                      \/ \E q : inventory' = Reserve(Release(inventory, plan), q)
      BY <1>1 DEF FinalizeReserve
    <2> QED
      BY <1>a, <2>1, <2>2, ReservingKeepsBooks DEF BooksStay
  <1>2. CASE PaymentLoopStep /\ ~FinalizeReserve
    BY <1>2, <1>b
    DEF PaymentLoopStep, ReadEvent, ValidatorFault, CreditBill, AwaitMoreCash, CompletePayment,
        AcceptanceDisabled, RequestChange, DisableFails, money
  <1>3. CASE VendLoopStep
    BY <1>3, <1>b
    DEF VendLoopStep, VendAuthorized, ProductVended, VendFails, OpenWindow, WindowOpened,
        OpenFails, money
  <1>4. ASSUME NEW c \in Clicks, StartCashSession(c)
        PROVE  BooksStay
    <2>1. coins' = coins
      BY <1>4 DEF StartCashSession, money
    <2>2. inventory' = inventory \/ \E plan : inventory' = Reserve(inventory, plan)
      BY <1>4 DEF StartCashSession
    <2> QED
      BY <1>a, <1>b, <2>1, <2>2, ReservingKeepsBooks DEF BooksStay
  <1>5. ASSUME NEW c \in Clicks, ClickStep(c), ~StartCashSession(c)
        PROVE  BooksStay
    <2>1. ~(\/ CancelDisabled(c) \/ CancelDisableFails(c) \/ RequestRefund(c) \/ RefundDispensed(c)
            \/ RefundNotDispensed(c) \/ RefundCommandRaises(c) \/ RefundPublished(c)
            \/ CancelPublished(c))
      BY DEF NobodyCancels, CancelLabels, CancelDisabled, CancelDisableFails, RequestRefund,
             RefundDispensed, RefundNotDispensed, RefundCommandRaises, RefundPublished,
             CancelPublished
    <2>2. CASE ReserveCreated(c) \/ AcceptanceEnabled(c) \/ EnableFails(c)
      BY <1>b, <2>2 DEF ReserveCreated, AcceptanceEnabled, EnableFails, money
    <2>3. CASE VendClickStep(c) \/ RecoverAsCancelled(c)
      BY <1>b, <2>3
      DEF VendClickStep, CreateTransaction, SensorMismatch, AlreadyActive, PickupClick, PickupWindowClosed,
          PickupCloseFails, SaleCompleted, RecoverAsCancelled, money
    <2> QED
      BY <1>5, <2>1, <2>2, <2>3 DEF ClickStep, PaymentClickStep
  <1>6. CASE (\E x \in Transactions : DeadlineStep(x)) \/ CustomerStep \/ OperatorStep
    BY <1>6, <1>b
    DEF DeadlineStep, TimerStep, DeadlinePasses, CloseOnTimeout, TimeoutWindowClosed,
        TimeoutCloseFails, CustomerStep, InsertBill, JamBill, CheckoutClick, CancelClick,
        PickupPress, OperatorStep, EnterServiceMode, ExitServiceMode, RecoverClick, HealthPoll,
        LeaveNotice, money
  <1> QED
    BY <1>1, <1>2, <1>3, <1>4, <1>5, <1>6 DEF Next, LoopStep

(* The inductive step: the payout that corrects both keeps them equal, the *)
(* one that is answered otherwise flags the drift, and the one that raises *)
(* stops the machine.                                                      *)
LEMMA MismatchStep ==
  ASSUME DataOK, DataOK', MoneyInv, StageInv, NoOperator, StageForms, MismatchStops, Next
  PROVE  MismatchStops'
  <1>i. /\ inventory \in InventoryRecords /\ inventory' \in InventoryRecords
    BY DEF DataOK, CashOK
  <1>1. CASE ~ChangeDispensed /\ ~ChangeNotDispensed /\ ~ChangeCommandRaises
    <2>1. BooksStay
      BY <1>1, BooksKept DEF NoOperator
    <2>2. Mismatched' => Mismatched
      BY <1>i, <2>1 DEF BooksStay, Mismatched, InventoryRecords
    <2> QED
      BY <2>2, StoppedKept DEF MismatchStops
  <1>2. CASE ChangeDispensed
    <2>y. PICK x : x = txs[loop.tx]
      OBVIOUS
    <2>p. PICK plan : plan = x.change_reserve
      OBVIOUS
    <2>1. /\ loop.label = "dispensing_change" /\ loop.plan = plan
          /\ Value(plan) = x.change_due /\ x.change_due > 0
      BY <1>2, <2>y, <2>p DEF ChangeDispensed, MoneyInv, Payment
    <2>2. plan \in Counts
      BY <2>1 DEF DataOK, LoopOK, LoopRecords
    <2>3. plan # NoPieces
      BY <2>1, ValueOfNothing
    <2>4. /\ inventory' = Consume(inventory, plan) /\ coins' = MinusCounts(coins, plan)
          /\ fsm' = fsm /\ clicks' = clicks
      BY <1>2, <2>y, <2>p, <2>1, <2>3 DEF ChangeDispensed, PayOut, machine
    <2>5. /\ inventory'.accounting = MinusCounts(inventory.accounting, plan)
          /\ inventory'.drift_detected = inventory.drift_detected
      BY <1>i, <2>4 DEF Consume, InventoryRecords
    <2>6. inventory.accounting = coins => inventory'.accounting = coins'
      BY <2>4, <2>5
    <2> QED
      BY <2>4, <2>5, <2>6 DEF MismatchStops, Mismatched, NobodyCompletes
  <1>3. CASE ChangeNotDispensed
    <2>1. inventory'.drift_detected
      BY <1>3, <1>i DEF ChangeNotDispensed, MarkDrift, InventoryRecords
    <2> QED
      BY <2>1 DEF MismatchStops, Mismatched
  <1>4. CASE ChangeCommandRaises
    <2>1. loop.label = "dispensing_change" /\ clicks' = clicks /\ PayoutRaises
      BY <1>4 DEF ChangeCommandRaises
    <2>2. NobodyCompletes'
      BY <2>1 DEF StageInv, CompletingFirst, FulfilmentLabels, ToMotor, NobodyCompletes
    <2>3. fsm \in {"DISPENSING_CHANGE"} \cup Stopped
      BY <2>1 DEF StageInv, OneSale, InStage, FulfilmentLabels, ToMotor
    <2>4. fsm' \in Stopped
      BY <2>1, <2>3
      DEF PayoutRaises, ProjectIfLegal, Project, TransitionReturns, CanTransition, Predecessors,
          FulfilmentStates, Stopped
    <2> QED
      BY <2>2, <2>4 DEF MismatchStops
  <1> QED
    BY <1>1, <1>2, <1>3, <1>4

(* A disagreement the machine has not flagged has stopped it.              *)
LEMMA MismatchInvariant ==
  ASSUME WorstCaseChange > 0, Operations \cap {"cancel", "service"} = {}
  PROVE  Spec => []MismatchStops
  <1>1. KioskInit => MismatchStops
    BY DEF KioskInit, Init, MismatchStops, Mismatched
  <1>2. ASSUME DataOK, DataOK', VendInv, MoneyInv, StageInv, NoOperator, MismatchStops,
               [Next]_kioskVars
        PROVE  MismatchStops'
    <2>1. CASE UNCHANGED kioskVars
      BY <1>2, <2>1
      DEF kioskVars, vars, machine, money, MismatchStops, Mismatched, NobodyCompletes
    <2>2. CASE Next
      <3>1. StageForms
        BY <1>2, <2>2, NextStages
      <3> QED
        BY <1>2, <2>2, <3>1, MismatchStep
    <2> QED
      BY <1>2, <2>1, <2>2
  <1>3. Spec => []VendInv
    BY VendInvariant
  <1>4. "cancel" \notin Operations
    OBVIOUS
  <1>5. Spec => []MoneyInv
    BY <1>4, MoneyInvariant
  <1>6. Spec => []StageInv
    BY StageInvariant
  <1>7. Spec => []NoOperator
    BY NoOperatorEver
  <1> QED
    BY <1>1, <1>2, <1>3, <1>5, <1>6, <1>7, DataAlwaysOK, PTL DEF Spec

(* Whenever the books and the dispenser disagree, the drift is flagged or  *)
(* the machine has stopped for the operator: no sale is assessed as safe.  *)
THEOREM MismatchAlwaysStops ==
  ASSUME WorstCaseChange > 0, Operations \cap {"cancel", "service"} = {}
  PROVE  Spec => []MismatchStopsSales
  <1>1. MismatchStops => MismatchStopsSales
    BY DEF MismatchStops, Mismatched, MismatchStopsSales, Stopped, UnsafeStates
  <1>2. Spec => []MismatchStops
    BY MismatchInvariant
  <1> QED
    BY <1>1, <1>2, PTL

-----------------------------------------------------------------------------
(* What a completed sale has cost.  A customer who watches the screen      *)
(* inserts a bill only while the bills on their way do not cover the       *)
(* price, so no bill is left over once a product is vended, and what the   *)
(* sale kept is the price.                                                 *)
InHand == IF loop.label = "device_event" THEN loop.event ELSE 0
Queued == SeqTotal(validator.events)
Billed == \E i \in DOMAIN validator.events : validator.events[i] # FaultEvent
LastBill(j) ==
  \A k \in DOMAIN validator.events : k > j => validator.events[k] = FaultEvent

(* Without the last bill of the queue, the price would not be covered.     *)
QueueFits ==
  Billed =>
    /\ active \in known
    /\ \E j \in DOMAIN validator.events :
         /\ LastBill(j)
         /\ txs[active].accepted_amount + InHand + (Queued - validator.events[j]) < Price
HandFits ==
  loop.label = "device_event" /\ loop.event # FaultEvent =>
    /\ loop.tx = active /\ active \in known
    /\ txs[active].accepted_amount < Price
KeepsPrice ==
  \A x \in known : Vended(x) \/ OnItsWay(x) => txs[x].accepted_amount = Price + Paid(x)
Finished(r) == r.status = "completed" => r.delivery_status = "window_closed"
CompletedAreClosed == \A x \in Transactions : Finished(txs[x])
ExactInv == QueueFits /\ HandFits /\ KeepsPrice /\ CompletedAreClosed

-----------------------------------------------------------------------------
(* The model's sum of the queued bills is the sum over the queue.          *)
LEMMA OutstandingIs ==
  Outstanding = IF active = NoTx THEN 0
                ELSE ((Price - txs[active].accepted_amount) - Queued) - InHand
  <1> DEFINE q == validator.events
             P(g) == g = [s \in SUBSET DOMAIN q |->
                            IF s = {} THEN 0 ELSE q[Pick(s)] + g[s \ {Pick(s)}]]
             Q(g) == IsTotal(g, q, DOMAIN q)
  <1>1. FoldSeq(LAMBDA bill, sum : bill + sum, 0, q) = (CHOOSE g : P(g))[DOMAIN q]
    BY DEF FoldSeq, FoldFunction, FoldFunctionOnSet, MapThenFoldSet, Pick
  <1>2. \A g : P(g) <=> Q(g)
    BY DEF IsTotal
  <1> HIDE DEF P, Q
  <1>3. (CHOOSE g : P(g)) = (CHOOSE g : Q(g))
    BY <1>2
  <1>4. FoldSeq(LAMBDA bill, sum : bill + sum, 0, q) = SeqTotal(q)
    BY <1>1, <1>3 DEF SeqTotal, Total, Q
  <1> QED
    BY <1>4 DEF Outstanding, Queued, InHand

(* The validator's queue is a queue of numbers.                            *)
LEMMA QueueTyped ==
  ASSUME DataOK
  PROVE  /\ validator.events \in Seq(Nat) /\ Queued \in Nat
         /\ \A i \in DOMAIN validator.events : validator.events[i] <= Queued
         /\ InHand \in Nat /\ loop.event \in Nat
         /\ Price \in Nat /\ Price > 0 /\ FaultEvent = 0
  <1>1. ValidatorEvents \subseteq Nat
    BY ChangeAssumption DEF ValidatorEvents, FaultEvent
  <1>2. PICK q : q = validator.events
    OBVIOUS
  <1>3. q \in Seq(ValidatorEvents)
    BY <1>2 DEF DataOK, DevicesOK
  <1>4. q \in Seq(Nat)
    BY <1>1, <1>3, SeqMonotonic
  <1>5. SeqTotal(q) \in Nat /\ \A i \in DOMAIN q : q[i] <= SeqTotal(q)
    BY <1>4, SeqTotalTyped
  <1>6. loop.event \in Nat
    BY <1>1 DEF DataOK, LoopOK, LoopRecords
  <1> QED
    BY <1>2, <1>4, <1>5, <1>6, ChangeAssumption DEF Queued, InHand, FaultEvent

(* What a step does to the bills on their way.                             *)
QueueRests ==
  /\ validator'.events = validator.events
  /\ loop' = loop \/ loop'.label # "device_event"

(* Only ReadEvent takes an event from the queue, and only the customer and *)
(* the validator add one.                                                  *)
LEMMA LoopLeavesEvents ==
  ASSUME DataOK, PaymentLoopStep \/ VendLoopStep, ~ReadEvent
  PROVE  QueueRests
  <1>v. /\ UNCHANGED validator => validator'.events = validator.events
        /\ \A b \in BOOLEAN :
             /\ validator' = [validator EXCEPT !.accepting = b] => validator'.events = validator.events
             /\ validator' \in {validator, [validator EXCEPT !.accepting = b]} =>
                  validator'.events = validator.events
    BY DEF DataOK, DevicesOK
  <1>1. validator'.events = validator.events
    BY <1>v DEF PaymentLoopStep, ValidatorFault, CreditBill, AwaitMoreCash,
                CompletePayment, AcceptanceDisabled, FinalizeReserve, RequestChange, ChangeDispensed,
                DisableFails, ChangeNotDispensed, ChangeCommandRaises, VendLoopStep, VendAuthorized,
                ProductVended, VendFails, OpenWindow, WindowOpened, OpenFails, bills
  <1>2. loop'.label # "device_event"
    <2>a. LoopDies => loop'.label # "device_event"
      BY LoopDiesTo
    <2>b. PayoutRaises => loop'.label # "device_event"
      BY PayoutRaisesLeaves
    <2>c. \A where : where # "device_event" /\ LoopGoesTo(where) => loop'.label # "device_event"
      BY LoopGoes DEF LoopAt
    <2>d. \A s, where, shown :
            where # "device_event" /\ LoopProceeds(s, where, shown) => loop'.label # "device_event"
      BY <2>a, <2>c DEF LoopProceeds
    <2>e. loop' = ReadingLoop => loop'.label # "device_event"
      BY DEF ReadingLoop
    <2>1. CASE ValidatorFault \/ CreditBill \/ AwaitMoreCash \/ DisableFails
      BY <2>1, <2>a, <2>c, <2>e DEF ValidatorFault, CreditBill, AwaitMoreCash, DisableFails
    <2>2. CASE CompletePayment \/ AcceptanceDisabled
      BY <2>2, <2>c, <2>d DEF CompletePayment, AcceptanceDisabled, AcceptPayment
    <2>3. CASE FinalizeReserve
      BY <2>3, <2>b, <2>c, <2>d DEF FinalizeReserve
    <2>4. CASE RequestChange
      <3>1. CASE PayoutRaises
        BY <3>1, <2>b
      <3>2. ASSUME NEW plan, loop' = [loop EXCEPT !.label = "dispensing_change", !.plan = plan]
            PROVE  loop'.label # "device_event"
        BY <3>2 DEF DataOK, LoopOK, LoopRecords
      <3> QED
        BY <2>4, <3>1, <3>2 DEF RequestChange
    <2>5. CASE ChangeDispensed \/ ChangeNotDispensed \/ ChangeCommandRaises
      BY <2>5, <2>b, <2>c DEF ChangeDispensed, ChangeNotDispensed, ChangeCommandRaises
    <2>6. CASE VendLoopStep
      BY <2>6, <2>a, <2>c, <2>d, <2>e
      DEF VendLoopStep, VendAuthorized, ProductVended, VendFails, OpenWindow, WindowOpened, OpenFails
    <2> QED
      BY <2>1, <2>2, <2>3, <2>4, <2>5, <2>6 DEF PaymentLoopStep
  <1> QED
    BY <1>1, <1>2 DEF QueueRests

LEMMA NextQueue ==
  ASSUME DataOK, NobodyCancels, Next
  PROVE  QueueRests \/ ReadEvent \/ JamBill \/ \E b \in BillValues : InsertBill(b)
  <1>1. CASE LoopStep
    BY <1>1, LoopLeavesEvents DEF LoopStep
  <1>2. ASSUME NEW c \in Clicks, ClickStep(c)
        PROVE  QueueRests
    <2>1. ~(\/ CancelDisabled(c) \/ CancelDisableFails(c) \/ RequestRefund(c) \/ RefundDispensed(c)
            \/ RefundNotDispensed(c) \/ RefundCommandRaises(c) \/ RefundPublished(c)
            \/ CancelPublished(c))
      BY DEF NobodyCancels, CancelLabels, CancelDisabled, CancelDisableFails, RequestRefund,
             RefundDispensed, RefundNotDispensed, RefundCommandRaises, RefundPublished,
             CancelPublished
    <2>2. CASE AcceptanceEnabled(c) \/ EnableFails(c)
      <3>1. validator'.events = validator.events
        BY <2>2 DEF AcceptanceEnabled, EnableFails, DataOK, DevicesOK
      <3> QED
        BY <2>2, <3>1 DEF AcceptanceEnabled, EnableFails, QueueRests
    <2>3. CASE StartCashSession(c) \/ ReserveCreated(c)
      BY <2>3 DEF StartCashSession, ReserveCreated, QueueRests, bills
    <2>4. CASE VendClickStep(c) \/ RecoverAsCancelled(c)
      BY <2>4
      DEF VendClickStep, CreateTransaction, SensorMismatch, AlreadyActive, PickupClick, PickupWindowClosed,
          PickupCloseFails, SaleCompleted, RecoverAsCancelled, QueueRests, bills
    <2> QED
      BY <1>2, <2>1, <2>2, <2>3, <2>4 DEF ClickStep, PaymentClickStep
  <1>3. CASE \E x \in Transactions : DeadlineStep(x)
    BY <1>3
    DEF DeadlineStep, TimerStep, DeadlinePasses, CloseOnTimeout, TimeoutWindowClosed,
        TimeoutCloseFails, QueueRests, bills
  <1>4. CASE CustomerStep
    BY <1>4 DEF CustomerStep, CheckoutClick, CancelClick, PickupPress, QueueRests, bills
  <1>5. CASE OperatorStep
    BY <1>5
    DEF OperatorStep, EnterServiceMode, ExitServiceMode, RecoverClick, HealthPoll, LeaveNotice,
        QueueRests, bills
  <1> QED
    BY <1>1, <1>2, <1>3, <1>4, <1>5 DEF Next

(* Only a bill that is credited changes what a transaction has taken.      *)
LEMMA AcceptedStays ==
  ASSUME DataOK, VendInv, MoneyForms, ~CreditBill, NEW x \in known
  PROVE  txs'[x].accepted_amount = txs[x].accepted_amount
  <1>k. x \in Transactions /\ txs[x] \in TransactionRecords
    BY DEF DataOK, LedgerOK
  <1>1. CASE Idles
    BY <1>1 DEF Idles, MoneyStays, PursesStay, SamePurse
  <1>2. ASSUME NEW y \in Transactions, Adds(y)
        PROVE  txs'[x].accepted_amount = txs[x].accepted_amount
    BY <1>k, <1>2 DEF Adds, Record, DataOK, LedgerOK
  <1>3. ASSUME NEW c \in Clicks, NEW plan, Attaches(c, plan)
        PROVE  txs'[x].accepted_amount = txs[x].accepted_amount
    BY <1>k, <1>3 DEF Attaches, Record, AttachChangeReserve, DataOK, LedgerOK, TransactionRecords
  <1>4. CASE CompletePayment \/ FinalizeReserve \/ ChangeDispensed \/ ChangeNotDispensed
    <2>m. \A r \in TransactionRecords : \A plan :
            /\ ConfirmPayment(r).accepted_amount = r.accepted_amount
            /\ DropReserve(r).accepted_amount = r.accepted_amount
            /\ MarkChangePending(AttachChangeReserve(r, plan)).accepted_amount = r.accepted_amount
            /\ MarkChangeDispensed(r).accepted_amount = r.accepted_amount
            /\ MarkChangePartial(r).accepted_amount = r.accepted_amount
            /\ MarkAmbiguous(r).accepted_amount = r.accepted_amount
      BY DEF ConfirmPayment, DropReserve, MarkChangePending, AttachChangeReserve,
             MarkChangeDispensed, MarkChangePartial, MarkAmbiguous, TransactionRecords
    <2>y. PICK y : y = loop.tx
      OBVIOUS
    <2>1. y \in Transactions /\ txs[y] \in TransactionRecords
      BY <1>4, <2>y, LoopHasRecord
      DEF CompletePayment, FinalizeReserve, ChangeDispensed, ChangeNotDispensed
    <2>2. UNCHANGED txs \/ \E r : Record(y, r) /\ r.accepted_amount = txs[y].accepted_amount
      BY <1>4, <2>m, <2>y, <2>1
      DEF CompletePayment, FinalizeReserve, ChangeDispensed, ChangeNotDispensed
    <2> QED
      BY <1>k, <2>1, <2>2 DEF Record, DataOK, LedgerOK
  <1>5. CASE ChangeCommandRaises
    BY <1>5 DEF ChangeCommandRaises, ledger
  <1> QED
    BY <1>1, <1>2, <1>3, <1>4, <1>5 DEF MoneyForms

-----------------------------------------------------------------------------
(* What a sale kept: the price, from the moment its change is settled.     *)
Priced(x) == txs[x].accepted_amount = Price + Paid(x)

(* What a sale keeps is settled with its payment and its payout.           *)
LEMMA KeepsPriceStep ==
  ASSUME DataOK, DataOK', VendInv, Unsessioned, MoneyInv, KeepsPrice, HandFits, MoneyForms
  PROVE  KeepsPrice'
  <1> USE DEF Vended
  <1>0. /\ known \subseteq Transactions /\ TasksKnown /\ VendedOnce /\ VendedKnown /\ Payment
        /\ txs \in [Transactions -> TransactionRecords]
        /\ \A x \in Transactions : Paid(x) \in Nat
        /\ vends \in [Transactions -> Nat]
    BY ValueTyped DEF DataOK, LedgerOK, VendInv, LifeInv, MoneyInv, Paid, CashOK, GoodsOK
  <1>a. \A x \in known : ~CreditBill => txs'[x].accepted_amount = txs[x].accepted_amount
    BY AcceptedStays
  <1>1. CASE Idles
    <2> SUFFICES ASSUME NEW x \in known, Vended(x)' \/ OnItsWay(x)'
                 PROVE  Priced(x)'
      BY <1>1 DEF KeepsPrice, Priced, Idles, MoneyStays
    <2>1. txs'[x].accepted_amount = txs[x].accepted_amount /\ Paid(x)' = Paid(x)
      BY <1>1 DEF Idles, MoneyStays, PursesStay, SamePurse, Paid
    <2>2. Vended(x) \/ OnItsWay(x)
      BY <1>0, <1>1 DEF Idles, Travels, OnItsWay, ToMotor
    <2> QED
      BY <2>1, <2>2 DEF KeepsPrice, Priced
  <1>2. ASSUME NEW y \in Transactions, Adds(y)
        PROVE  KeepsPrice'
    <2>1. /\ known' = known \cup {y} /\ y \notin known /\ loop' = loop /\ vends' = vends
          /\ \A x \in known : Paid(x)' = Paid(x) /\ txs'[x] = txs[x]
      BY <1>0, <1>2 DEF Adds, Paid, Record
    <2>2. ~(Vended(y)' \/ OnItsWay(y)')
      BY <1>0, <2>1 DEF VendedKnown, TasksKnown, OnItsWay
    <2> QED
      BY <2>1, <2>2 DEF KeepsPrice, OnItsWay
  <1>3. ASSUME NEW c \in Clicks, NEW plan, Attaches(c, plan)
        PROVE  KeepsPrice'
    <2>1. /\ known' = known /\ loop' = loop /\ vends' = vends /\ ~CreditBill
          /\ \A x \in known : Paid(x)' = Paid(x)
      <3>1. known' = known /\ loop' = loop /\ vends' = vends /\ paidOut' = paidOut
        BY <1>3 DEF Attaches
      <3>2. ~CreditBill
        BY <1>0, <3>1, LoopGoes, LoopDiesTo DEF CreditBill, LoopAt
      <3> QED
        BY <3>1, <3>2 DEF Paid
    <2> QED
      BY <1>a, <2>1 DEF KeepsPrice, OnItsWay
  <1>4. CASE CreditBill
    <2>y. PICK y : y = loop.tx
      OBVIOUS
    <2>1. /\ known' = known /\ vends' = vends /\ \A x \in known : Paid(x)' = Paid(x)
          /\ loop.event # FaultEvent /\ loop.label = "device_event"
      <3>1. loop.event # FaultEvent
        BY <1>4, ChangeAssumption DEF CreditBill, FaultEvent
      <3> QED
        BY <1>4, <3>1 DEF CreditBill, money, goods, Paid
    <2>2. \A x : ~OnItsWay(x)'
      BY <1>4, LoopGoes, LoopDiesTo DEF CreditBill, LoopAt, OnItsWay
    <2>3. y \in known /\ txs[y].accepted_amount < Price
      BY <2>1, <2>y DEF HandFits
    <2>4. ~Vended(y)
      <3>1. txs[y].accepted_amount \in Nat /\ Price \in Nat /\ Paid(y) \in Nat
        BY <1>0, <2>3, Amounts
      <3> QED
        BY <2>3, <3>1 DEF KeepsPrice
    <2>5. \A x \in known : x # y => txs'[x] = txs[x]
      BY <1>0, <1>4, <2>y DEF CreditBill, Record
    <2> QED
      BY <2>1, <2>2, <2>4, <2>5 DEF KeepsPrice
  <1>5. CASE CompletePayment
    <2>1. /\ known' = known /\ vends' = vends /\ ~CreditBill
          /\ \A x \in known : Paid(x)' = Paid(x)
      BY <1>5 DEF CompletePayment, CreditBill, money, goods, Paid
    <2>2. \A x : ~OnItsWay(x)'
      BY <1>5, LoopGoes, LoopProceedsOrDies DEF CompletePayment, AcceptPayment, LoopAt, OnItsWay
    <2> QED
      BY <1>a, <2>1, <2>2 DEF KeepsPrice
  <1>6. CASE FinalizeReserve \/ ChangeDispensed \/ ChangeNotDispensed \/ ChangeCommandRaises
    <2>y. PICK y : y = loop.tx
      OBVIOUS
    <2>g. Ground
      BY DEF Ground
    <2>1. /\ loop.label \in {"payment_confirmed", "dispensing_change"}
          /\ known' = known /\ vends' = vends /\ ~CreditBill
      BY <1>6
      DEF FinalizeReserve, ChangeDispensed, ChangeNotDispensed, ChangeCommandRaises, CreditBill,
          goods, ledger
    <2>2. /\ y \in Transactions /\ y \in known /\ vends[y] = 0 /\ paidOut[y] = NoPieces
          /\ txs[y].accepted_amount = Price + txs[y].change_due
      BY <2>g, <2>1, <2>y, NothingPaidYet
    <2>3. \A x \in known : x # y => Paid(x)' = Paid(x)
      BY <1>0, <1>6, <2>2, <2>y
      DEF FinalizeReserve, ChangeDispensed, ChangeNotDispensed, ChangeCommandRaises, money, Paid,
          PayOut, DataOK, CashOK
    <2>4. \A x : OnItsWay(x)' => x = y
      <3>1. LoopStays \/ loop'.tx = loop.tx \/ loop'.label = "dead"
        BY <1>6, LoopGoes, LoopProceedsOrDies, PayoutRaisesLeaves
        DEF FinalizeReserve, ChangeDispensed, ChangeNotDispensed, ChangeCommandRaises, LoopAt
      <3> QED
        BY <2>y, <3>1 DEF OnItsWay, LoopStays
    <2>5. OnItsWay(y)' => Paid(y)' = txs[y].change_due
      <3>1. CASE FinalizeReserve
        <4>1. OnItsWay(y)' => txs[y].change_due = 0
          BY <3>1, <2>y, LoopProceedsOrDies, PayoutRaisesLeaves DEF FinalizeReserve, LoopAt, OnItsWay
        <4>2. paidOut' = paidOut
          BY <3>1 DEF FinalizeReserve, money
        <4> QED
          BY <2>2, <4>1, <4>2, ValueOfNothing DEF Paid
      <3>2. CASE ChangeDispensed
        <4>p. PICK plan : plan = loop.plan
          OBVIOUS
        <4>1. loop.label = "dispensing_change" /\ paidOut' = [paidOut EXCEPT ![y] = PlusCounts(@, plan)]
          BY <3>2, <2>y, <4>p DEF ChangeDispensed, PayOut
        <4>2. plan \in Counts /\ Value(plan) = txs[y].change_due
          BY <1>0, <4>1, <2>y, <4>p DEF Payment, DataOK, LoopOK, LoopRecords
        <4>3. PlusCounts(NoPieces, plan) = plan
          BY <4>2 DEF PlusCounts, NoPieces, Counts
        <4>4. paidOut'[y] = plan
          BY <2>2, <4>1, <4>3 DEF DataOK, CashOK
        <4> QED
          BY <4>2, <4>4 DEF Paid
      <3>3. CASE ChangeNotDispensed \/ ChangeCommandRaises
        BY <3>3, PayoutRaisesLeaves DEF ChangeNotDispensed, ChangeCommandRaises, OnItsWay
      <3> QED
        BY <1>6, <3>1, <3>2, <3>3
    <2> SUFFICES ASSUME NEW x \in known, Vended(x)' \/ OnItsWay(x)'
                 PROVE  Priced(x)'
      BY <2>1 DEF KeepsPrice, Priced
    <2>6. CASE x = y
      BY <1>a, <2>1, <2>2, <2>5, <2>6 DEF Priced
    <2>7. CASE x # y
      <3>1. Vended(x)
        BY <2>1, <2>4, <2>7
      <3> QED
        BY <1>a, <2>1, <2>3, <2>7, <3>1 DEF KeepsPrice, Priced
    <2> QED
      BY <2>6, <2>7
  <1> QED
    BY <1>1, <1>2, <1>3, <1>4, <1>5, <1>6 DEF MoneyForms

-----------------------------------------------------------------------------
(* The bills on their way.                                                 *)

(* Nothing is left over when no sale is active, or a vended one.           *)
LEMMA NothingLeft ==
  ASSUME DataOK, QueueFits, HandFits, KeepsPrice, active = NoTx \/ Vended(active)
  PROVE  ~Billed /\ ~(loop.label = "device_event" /\ loop.event # FaultEvent)
  <1>1. ASSUME active \in known, txs[active].accepted_amount < Price
        PROVE  FALSE
    <2>1. Vended(active)
      BY <1>1, KioskAssumption DEF DataOK, LedgerOK
    <2>2. /\ txs[active].accepted_amount \in Nat /\ Price \in Nat /\ Paid(active) \in Nat
          /\ txs[active].accepted_amount = Price + Paid(active)
      BY <1>1, <2>1, Amounts DEF KeepsPrice
    <2> QED
      BY <1>1, <2>2
  <1>2. ~Billed
    <2> SUFFICES ASSUME Billed
                 PROVE  FALSE
      OBVIOUS
    <2>1. PICK j \in DOMAIN validator.events :
            txs[active].accepted_amount + InHand + (Queued - validator.events[j]) < Price
      BY DEF QueueFits
    <2>2. /\ active \in known /\ txs[active].accepted_amount \in Nat
          /\ InHand \in Nat /\ Queued \in Nat /\ Price \in Nat
          /\ validator.events[j] \in Nat /\ validator.events[j] <= Queued
      <3>1. /\ active \in known
        BY DEF QueueFits
      <3>2. PICK q : q = validator.events
        OBVIOUS
      <3>3. /\ InHand \in Nat /\ Queued \in Nat /\ Price \in Nat
            /\ q[j] <= Queued /\ q \in Seq(Nat)
        BY <3>2, QueueTyped
      <3>4. q[j] \in Nat
        BY <3>2, <3>3
      <3>5. txs[active].accepted_amount \in Nat
        BY <3>1, Amounts
      <3> QED
        BY <3>1, <3>2, <3>3, <3>4, <3>5
    <2>3. txs[active].accepted_amount < Price
      BY <2>1, <2>2
    <2> QED
      BY <1>1, <2>2, <2>3
  <1> QED
    BY <1>1, <1>2 DEF HandFits

(* The active sale makes way for another only when it has been vended.     *)
LEMMA ActiveTurns ==
  ASSUME DataOK, StageInv, StageForms
  PROVE  active' = active \/ active = NoTx \/ Vended(active)
  <1>1. CASE Rests \/ Proceeds \/ OpensWindow
    BY <1>1 DEF Rests, Proceeds, OpensWindow, SaleStays
  <1>2. ASSUME NEW c \in Clicks, OpensSession(c) \/ PicksUp(c) \/ Completes(c)
        PROVE  active' = active
    BY <1>2 DEF OpensSession, Opens, PicksUp, Completes, SaleStays
  <1>3. ASSUME NEW c \in Clicks, Finishes(c), active' # active
        PROVE  Vended(active)
    <2>1. clicks[c].label = "completed" /\ clicks[c].tx = active /\ active \in Transactions
      BY <1>3 DEF Finishes, DataOK, ClicksOK
    <2> QED
      BY <2>1 DEF StageInv, ServedAreVended, Served, Finishing
  <1>4. ASSUME NEW c \in Clicks, NEW x \in Transactions, Begins(c, x)
        PROVE  active = NoTx
    BY <1>4 DEF Begins, Creates
  <1> QED
    BY <1>1, <1>2, <1>3, <1>4 DEF StageForms

LEMMA KnownStay ==
  ASSUME Forms
  PROVE  known \subseteq known'
  BY DEF Forms, Elsewhere, Reserves, Opens, Creates, LoopForms, LoopOnly

(* A bill is credited only to a transaction that lacks it.                 *)
LEMMA CreditStep ==
  ASSUME DataOK, HandFits, CreditBill
  PROVE  /\ active' = active /\ validator'.events = validator.events
         /\ loop.tx = active /\ active \in known
         /\ loop.label = "device_event" /\ loop'.label # "device_event"
         /\ \/ txs'[active].accepted_amount = txs[active].accepted_amount + loop.event
            \/ txs'[active].accepted_amount = txs[active].accepted_amount
  <1>1. loop.label = "device_event" /\ loop.event # FaultEvent
    BY ChangeAssumption DEF CreditBill, FaultEvent
  <1>2. loop.tx = active /\ active \in known
    BY <1>1 DEF HandFits
  <1>3. active' = active /\ validator'.events = validator.events
    BY DEF CreditBill, bills
  <1>4. loop'.label # "device_event"
    BY LoopGoes, LoopDiesTo DEF CreditBill, LoopAt
  <1>5. /\ active \in Transactions /\ txs[active] \in TransactionRecords
        /\ txs \in [Transactions -> TransactionRecords]
    BY <1>2 DEF DataOK, LedgerOK
  <1>6. \/ txs' = [txs EXCEPT ![active] = RecordStackedCash(txs[active], loop.event)]
        \/ txs' = txs
    BY <1>2 DEF CreditBill, Record
  <1>7. RecordStackedCash(txs[active], loop.event).accepted_amount
          = txs[active].accepted_amount + loop.event
    BY <1>5 DEF RecordStackedCash, TransactionRecords
  <1> QED
    BY <1>1, <1>2, <1>3, <1>4, <1>5, <1>6, <1>7

(* The step leaves the queue alone.                                        *)
LEMMA RestingQueueFits ==
  ASSUME DataOK, DataOK', VendInv, KeepsPrice, QueueFits, HandFits, MoneyForms, Forms,
         active' = active \/ active = NoTx \/ Vended(active),
         QueueRests
  PROVE  QueueFits'
  <1>1. CASE active' # active
    <2>1. ~Billed
      BY <1>1, NothingLeft
    <2> QED
      BY <2>1 DEF QueueRests, QueueFits, Billed
  <1>2. CASE active' = active
    <2> SUFFICES ASSUME Billed'
                 PROVE  QueueFits'
      BY DEF QueueFits
    <2>q. PICK q : q = validator.events
      OBVIOUS
    <2>1. validator'.events = q /\ Queued' = Queued
      BY <2>q DEF QueueRests, Queued
    <2>2. Billed /\ active \in known /\ active' \in known'
      <3>1. Billed
        BY <2>1, <2>q DEF Billed
      <3> QED
        BY <1>2, <3>1, KnownStay DEF QueueFits
    <2>3. PICK j \in DOMAIN q :
            /\ \A k \in DOMAIN q : k > j => q[k] = FaultEvent
            /\ txs[active].accepted_amount + InHand + (Queued - q[j]) < Price
      BY <2>2, <2>q DEF QueueFits, LastBill
    <2>4. txs'[active].accepted_amount + InHand' <= txs[active].accepted_amount + InHand
      <3>1. /\ txs[active].accepted_amount \in Nat /\ InHand \in Nat /\ loop.event \in Nat
        BY <2>2, Amounts, QueueTyped
      <3>2. CASE CreditBill
        <4>1. InHand' = 0 /\ InHand = loop.event
          BY <3>2, CreditStep DEF InHand
        <4> QED
          BY <3>1, <3>2, <4>1, CreditStep
      <3>3. CASE ~CreditBill
        <4>1. txs'[active].accepted_amount = txs[active].accepted_amount
          BY <2>2, <3>3, AcceptedStays
        <4>2. InHand' \in {0, InHand}
          BY DEF QueueRests, InHand
        <4> QED
          BY <3>1, <4>1, <4>2
      <3> QED
        BY <3>2, <3>3
    <2>5. txs'[active].accepted_amount + InHand' + (Queued - q[j]) < Price
      <3>1. /\ txs[active].accepted_amount \in Nat /\ InHand \in Nat /\ Queued \in Nat
            /\ q[j] \in Nat /\ Price \in Nat
        BY <2>2, <2>q, Amounts, QueueTyped
      <3>2. InHand' \in Nat
        <4>1. InHand' \in {0, InHand}
          BY DEF QueueRests, InHand
        <4> QED
          BY <3>1, <4>1
      <3>3. txs'[active].accepted_amount \in Nat
        <4>1. active \in Transactions
          BY <2>2 DEF DataOK, LedgerOK
        <4> QED
          BY <1>2, <4>1 DEF DataOK, LedgerOK, TransactionRecords
      <3> QED
        BY <2>3, <2>4, <3>1, <3>2, <3>3
    <2> QED
      BY <1>2, <2>1, <2>2, <2>3, <2>5 DEF QueueFits, LastBill
  <1> QED
    BY <1>1, <1>2

(* The customer inserts a bill, or the validator jams.                     *)
LEMMA LongerQueueFits ==
  ASSUME DataOK, TasksKnown, QueueFits, NEW e \in Nat,
         validator'.events = Append(validator.events, e),
         UNCHANGED <<txs, known, active, loop>>,
         e = FaultEvent \/ Outstanding > 0
  PROVE  QueueFits'
  <1>q. PICK q : q = validator.events
    OBVIOUS
  <1>t. /\ q \in Seq(Nat) /\ Queued \in Nat /\ InHand \in Nat /\ Price \in Nat
        /\ \A i \in DOMAIN q : q[i] <= Queued
    BY <1>q, QueueTyped
  <1>r. PICK r : r = Append(q, e)
    OBVIOUS
  <1>n. PICK n \in Nat : n = Len(q)
    BY <1>t
  <1>1. /\ validator'.events = r /\ Queued' = Queued + e /\ InHand' = InHand
        /\ txs' = txs /\ active' = active /\ known' = known
    BY <1>q, <1>r, <1>t, SeqTotalAppend DEF Queued, InHand
  <1>2. /\ DOMAIN q = 1 .. n /\ DOMAIN r = 1 .. n + 1 /\ r[n + 1] = e
        /\ \A i \in 1 .. n : r[i] = q[i] /\ q[i] \in Nat
    BY <1>n, <1>r, <1>t
  <1>3. CASE e = FaultEvent
    <2>1. e = 0
      BY <1>3 DEF FaultEvent
    <2>2. Billed' => Billed
      BY <1>q, <1>1, <1>2, <1>3 DEF Billed
    <2>3. ASSUME Billed
          PROVE  /\ active \in known
                 /\ \E j \in 1 .. n + 1 :
                      /\ \A k \in 1 .. n + 1 : k > j => r[k] = FaultEvent
                      /\ txs[active].accepted_amount + InHand + (Queued - r[j]) < Price
      <3>1. active \in known
        BY <2>3 DEF QueueFits
      <3>2. PICK j \in 1 .. n :
              /\ \A k \in 1 .. n : k > j => q[k] = FaultEvent
              /\ txs[active].accepted_amount + InHand + (Queued - q[j]) < Price
        BY <2>3, <1>q, <1>2 DEF QueueFits, LastBill
      <3>3. r[j] = q[j] /\ j \in 1 .. n + 1
        BY <1>2, <3>2
      <3>4. ASSUME NEW k \in 1 .. n + 1, k > j
            PROVE  r[k] = FaultEvent
        <4>1. k = n + 1 \/ k \in 1 .. n
          OBVIOUS
        <4> QED
          BY <1>2, <1>3, <3>2, <3>4, <4>1
      <3> QED
        BY <3>1, <3>2, <3>3, <3>4
    <2>4. Queued' = Queued
      BY <1>1, <1>t, <2>1
    <2> QED
      BY <1>1, <1>2, <2>2, <2>3, <2>4 DEF QueueFits, LastBill
  <1>4. CASE Outstanding > 0
    <2>1. active # NoTx /\ ((Price - txs[active].accepted_amount) - Queued) - InHand > 0
      BY <1>4, OutstandingIs
    <2>2. active \in known
      BY <2>1 DEF TasksKnown
    <2>3. txs[active].accepted_amount \in Nat
      BY <2>2, Amounts
    <2>4. txs[active].accepted_amount + InHand + (Queued' - r[n + 1]) < Price
      <3>1. Queued' - r[n + 1] = Queued
        BY <1>t, <1>1, <1>2
      <3> QED
        BY <1>t, <2>1, <2>3, <3>1
    <2>5. n + 1 \in 1 .. n + 1 /\ \A k \in 1 .. n + 1 : ~(k > n + 1)
      OBVIOUS
    <2> QED
      BY <1>1, <1>2, <2>2, <2>4, <2>5 DEF QueueFits, LastBill
  <1> QED
    BY <1>3, <1>4

(* The loop takes the bill that is next.                                   *)
LEMMA ShorterQueueFits ==
  ASSUME DataOK, TasksKnown, QueueFits, ReadEvent
  PROVE  QueueFits' /\ HandFits'
  <1>q. PICK q : q = validator.events
    OBVIOUS
  <1>t. /\ q \in Seq(Nat) /\ Queued \in Nat /\ Price \in Nat
        /\ \A i \in DOMAIN q : q[i] <= Queued
    BY <1>q, QueueTyped
  <1>r. PICK r : r = Tail(q)
    OBVIOUS
  <1>e. q # <<>>
    BY <1>q DEF ReadEvent
  <1>n. PICK n \in Nat : n + 1 = Len(q)
    <2>1. Len(q) \in Nat /\ Len(q) # 0
      BY <1>t, <1>e
    <2>2. Len(q) - 1 \in Nat /\ (Len(q) - 1) + 1 = Len(q)
      BY <2>1
    <2> QED
      BY <2>2
  <1>1. /\ validator'.events = r /\ txs' = txs /\ active' = active /\ known' = known
        /\ loop.label = "read"
    BY <1>q, <1>r DEF ReadEvent, ledger, DataOK, DevicesOK
  <1>2. /\ DOMAIN q = 1 .. n + 1 /\ DOMAIN r = 1 .. n /\ Head(q) = q[1] /\ q[1] \in Nat
        /\ \A i \in 1 .. n : r[i] = q[i + 1]
        /\ \A i \in 1 .. n + 1 : q[i] \in Nat
    BY <1>n, <1>r, <1>t
  <1>3. Queued = q[1] + Queued' /\ Queued' \in Nat
    <2>1. Queued = Head(q) + SeqTotal(r)
      BY <1>q, <1>r, <1>t, <1>e, SeqTotalTail DEF Queued
    <2>2. r \in Seq(Nat)
      BY <1>r, <1>t, <1>e
    <2>3. SeqTotal(r) \in Nat
      BY <2>2, SeqTotalTyped
    <2> QED
      BY <1>1, <1>2, <2>1, <2>3 DEF Queued
  <1>4. ASSUME Billed
        PROVE  \E j \in 1 .. n + 1 :
                 /\ \A k \in 1 .. n + 1 : k > j => q[k] = FaultEvent
                 /\ txs[active].accepted_amount + (Queued - q[j]) < Price
                 /\ txs[active].accepted_amount \in Nat /\ active \in known
    <2>1. active \in known /\ txs[active].accepted_amount \in Nat
      BY <1>4, Amounts DEF QueueFits
    <2>2. PICK j \in 1 .. n + 1 :
            /\ \A k \in 1 .. n + 1 : k > j => q[k] = FaultEvent
            /\ txs[active].accepted_amount + InHand + (Queued - q[j]) < Price
      BY <1>4, <1>q, <1>2 DEF QueueFits, LastBill
    <2>3. InHand = 0
      BY <1>1 DEF InHand
    <2>4. q[j] \in Nat /\ Queued - q[j] \in Int
      BY <1>t, <1>2, <2>2
    <2>5. txs[active].accepted_amount + (Queued - q[j]) < Price
      BY <2>1, <2>2, <2>3, <2>4
    <2> QED
      BY <2>1, <2>2, <2>5
  <1>5. Billed' => Billed
    <2> SUFFICES ASSUME NEW i \in 1 .. n, r[i] # FaultEvent
                 PROVE  Billed
      BY <1>1, <1>2 DEF Billed
    <2>1. i + 1 \in 1 .. n + 1 /\ q[i + 1] # FaultEvent
      BY <1>2
    <2> QED
      BY <1>q, <1>2, <2>1 DEF Billed
  <1>6. CASE active = NoTx
    <2>1. ~Billed
      BY <1>4, <1>6, KioskAssumption DEF DataOK, LedgerOK
    <2>2. loop'.label = "read"
      BY <1>1, <1>6 DEF ReadEvent
    <2> QED
      BY <1>5, <2>1, <2>2 DEF QueueFits, HandFits
  <1>7. CASE active # NoTx
    <2>1. /\ loop'.label = "device_event" /\ loop'.tx = active /\ loop'.event = q[1]
          /\ active \in known
      BY <1>q, <1>2, <1>7 DEF ReadEvent, TasksKnown, DataOK, LoopOK, LoopRecords
    <2>2. InHand' = q[1]
      BY <2>1 DEF InHand
    <2>3. HandFits'
      <3> SUFFICES ASSUME q[1] # FaultEvent
                   PROVE  txs[active].accepted_amount < Price
        BY <1>1, <2>1 DEF HandFits
      <3>1. Billed
        <4>1. 1 \in 1 .. n + 1
          OBVIOUS
        <4> QED
          BY <1>q, <1>2, <4>1 DEF Billed
      <3>2. PICK j \in 1 .. n + 1 :
              /\ txs[active].accepted_amount + (Queued - q[j]) < Price
              /\ txs[active].accepted_amount \in Nat
        BY <1>4, <3>1
      <3>3. q[j] \in Nat /\ q[j] <= Queued
        BY <1>t, <1>2, <3>2
      <3> QED
        BY <1>t, <3>2, <3>3
    <2>4. QueueFits'
      <3> SUFFICES ASSUME Billed'
                   PROVE  \E j \in 1 .. n :
                            /\ \A k \in 1 .. n : k > j => r[k] = FaultEvent
                            /\ txs[active].accepted_amount + q[1] + (Queued' - r[j]) < Price
        BY <1>1, <1>2, <2>1, <2>2 DEF QueueFits, LastBill
      <3>1. PICK j \in 1 .. n + 1 :
              /\ \A k \in 1 .. n + 1 : k > j => q[k] = FaultEvent
              /\ txs[active].accepted_amount + (Queued - q[j]) < Price
              /\ txs[active].accepted_amount \in Nat
        BY <1>4, <1>5
      <3>2. PICK i \in 1 .. n : r[i] # FaultEvent
        BY <1>1, <1>2 DEF Billed
      <3>3. i + 1 \in 1 .. n + 1 /\ q[i + 1] # FaultEvent
        BY <1>2, <3>2
      <3>4. ~(i + 1 > j)
        BY <3>1, <3>3
      <3>5. j - 1 \in 1 .. n /\ (j - 1) + 1 = j
        BY <3>1, <3>2, <3>4
      <3>6. r[j - 1] = q[j] /\ q[j] \in Nat
        BY <1>2, <3>1, <3>5
      <3>7. ASSUME NEW k \in 1 .. n, k > j - 1
            PROVE  r[k] = FaultEvent
        <4>1. k + 1 \in 1 .. n + 1 /\ k + 1 > j
          BY <3>1, <3>7
        <4> QED
          BY <1>2, <3>1, <4>1
      <3>8. txs[active].accepted_amount + q[1] + (Queued' - r[j - 1]) < Price
        <4>1. q[1] + (Queued' - r[j - 1]) = Queued - q[j] /\ Queued' - r[j - 1] \in Int
          BY <1>2, <1>3, <3>6
        <4> QED
          BY <1>2, <3>1, <4>1
      <3> QED
        BY <3>5, <3>7, <3>8
    <2> QED
      BY <2>3, <2>4
  <1> QED
    BY <1>6, <1>7

(* No bill of nobody's is in hand after a step that reads none.            *)
LEMMA HandStillFits ==
  ASSUME DataOK, VendInv, QueueFits, HandFits, KeepsPrice, MoneyForms, Forms,
         active' = active \/ active = NoTx \/ Vended(active),
         loop' = loop \/ loop'.label # "device_event"
  PROVE  HandFits'
  <1> SUFFICES ASSUME loop'.label = "device_event", loop'.event # FaultEvent
               PROVE  /\ loop'.tx = active' /\ active' \in known'
                      /\ txs'[active'].accepted_amount < Price
    BY DEF HandFits
  <1>1. loop' = loop /\ loop.label = "device_event" /\ loop.event # FaultEvent
    OBVIOUS
  <1>2. active' = active
    BY <1>1, NothingLeft
  <1>3. loop.tx = active /\ active \in known /\ txs[active].accepted_amount < Price
    BY <1>1 DEF HandFits
  <1>4. ~CreditBill
    BY <1>1, CreditStep
  <1>5. txs'[active].accepted_amount = txs[active].accepted_amount
    BY <1>3, <1>4, AcceptedStays
  <1> QED
    BY <1>1, <1>2, <1>3, <1>5, KnownStay

-----------------------------------------------------------------------------
(* A transaction is completed by closing the window behind its product,    *)
(* and nothing else that happens to it leaves it completed.                *)
LEMMA MethodsKeepFinished ==
  ASSUME NEW x \in TransactionRecords, Finished(x), NEW plan, NEW bill
  PROVE  /\ Finished(NewTransaction)
         /\ Finished(AttachPaymentSession(x))
         /\ Finished(AttachChangeReserve(x, plan))
         /\ Finished(DropReserve(x))
         /\ Finished(RecordStackedCash(x, bill))
         /\ Finished(ConfirmPayment(x))
         /\ Finished(MarkChangePending(AttachChangeReserve(x, plan)))
         /\ Finished(MarkChangeDispensed(x))
         /\ Finished(MarkChangePartial(x))
         /\ Finished(AuthorizeVend(x))
         /\ Finished(MarkProductDispensed(x))
         /\ Finished(MarkWindowOpened(x))
         /\ Finished(ConfirmPickup(x))
         /\ Finished(MarkWindowClosed(x))
         /\ Finished(MarkPickupTimedOutWindowClosed(x))
         /\ Finished(Cancel(x))
         /\ Finished(MarkFaulted(x))
         /\ Finished(MarkAmbiguous(x))
  <1> USE DEF Finished, TransactionRecords
  <1>1. Finished(NewTransaction) /\ Finished(AttachPaymentSession(x))
    BY DEF NewTransaction, AttachPaymentSession
  <1>2. /\ Finished(AttachChangeReserve(x, plan)) /\ Finished(DropReserve(x))
        /\ Finished(RecordStackedCash(x, bill)) /\ Finished(MarkChangeDispensed(x))
    BY DEF AttachChangeReserve, DropReserve, RecordStackedCash, MarkChangeDispensed
  <1>3. Finished(ConfirmPayment(x)) /\ Finished(MarkChangePartial(x))
    BY DEF ConfirmPayment, MarkChangePartial
  <1>4. Finished(MarkChangePending(AttachChangeReserve(x, plan)))
    BY DEF MarkChangePending, AttachChangeReserve
  <1>5. /\ Finished(AuthorizeVend(x)) /\ Finished(MarkProductDispensed(x))
        /\ Finished(MarkWindowOpened(x)) /\ Finished(ConfirmPickup(x))
    BY DEF AuthorizeVend, MarkProductDispensed, MarkWindowOpened, ConfirmPickup
  <1>6. /\ Finished(MarkWindowClosed(x)) /\ Finished(MarkPickupTimedOutWindowClosed(x))
        /\ Finished(Cancel(x)) /\ Finished(MarkFaulted(x)) /\ Finished(MarkAmbiguous(x))
    BY DEF MarkWindowClosed, MarkPickupTimedOutWindowClosed, Cancel, MarkFaulted, MarkAmbiguous
  <1> QED
    BY <1>1, <1>2, <1>3, <1>4, <1>5, <1>6

(* No step completes a transaction but the closing of its window.          *)
LEMMA CompletedStep ==
  ASSUME DataOK, NobodyCancels, CompletedAreClosed, Next
  PROVE  CompletedAreClosed'
  <1> DEFINE Fine(x) == UNCHANGED txs \/ \E r : Record(x, r) /\ Finished(r)
  <1>f. /\ txs \in [Transactions -> TransactionRecords] /\ \A x \in Transactions : Finished(txs[x])
        /\ known \subseteq Transactions
    BY DEF DataOK, LedgerOK, CompletedAreClosed
  <1>g. ASSUME NEW x \in Transactions, Fine(x)
        PROVE  CompletedAreClosed'
    BY <1>f, <1>g DEF CompletedAreClosed, Record
  <1>u. UNCHANGED txs => CompletedAreClosed'
    BY DEF CompletedAreClosed
  <1>1. CASE LoopStep
    <2>1. CASE ReadEvent \/ AwaitMoreCash \/ AcceptanceDisabled \/ RequestChange
               \/ ChangeCommandRaises \/ OpenWindow
      BY <1>u, <2>1
      DEF ReadEvent, AwaitMoreCash, AcceptanceDisabled, RequestChange, ChangeCommandRaises,
          OpenWindow, ledger
    <2>2. CASE ~(ReadEvent \/ AwaitMoreCash \/ AcceptanceDisabled \/ RequestChange
                 \/ ChangeCommandRaises \/ OpenWindow)
      <3>1. loop.tx \in Transactions /\ txs[loop.tx] \in TransactionRecords
        BY <1>1, <2>2, LoopHasRecord
        DEF LoopStep, PaymentLoopStep, ValidatorFault, CreditBill, CompletePayment, FinalizeReserve,
            ChangeDispensed, DisableFails, ChangeNotDispensed, VendLoopStep, VendAuthorized,
            ProductVended, VendFails, WindowOpened, OpenFails
      <3>2. Finished(txs[loop.tx])
        BY <1>f, <3>1
      <3>3. Fine(loop.tx)
        <4>1. CASE ValidatorFault \/ CreditBill \/ CompletePayment \/ DisableFails
          BY <4>1, <3>1, <3>2, MethodsKeepFinished
          DEF ValidatorFault, CreditBill, CompletePayment, DisableFails
        <4>2. CASE FinalizeReserve \/ ChangeDispensed \/ ChangeNotDispensed
          BY <4>2, <3>1, <3>2, MethodsKeepFinished
          DEF FinalizeReserve, ChangeDispensed, ChangeNotDispensed
        <4>3. CASE VendAuthorized \/ ProductVended \/ VendFails \/ WindowOpened \/ OpenFails
          BY <4>3, <3>1, <3>2, MethodsKeepFinished
          DEF VendAuthorized, ProductVended, VendFails, WindowOpened, OpenFails
        <4> QED
          BY <1>1, <2>2, <4>1, <4>2, <4>3 DEF LoopStep, PaymentLoopStep, VendLoopStep
      <3> QED
        BY <1>g, <3>1, <3>3
    <2> QED
      BY <2>1, <2>2
  <1>2. ASSUME NEW c \in Clicks, ClickStep(c)
        PROVE  CompletedAreClosed'
    <2>1. ~(\/ CancelDisabled(c) \/ CancelDisableFails(c) \/ RequestRefund(c) \/ RefundDispensed(c)
            \/ RefundNotDispensed(c) \/ RefundCommandRaises(c) \/ RefundPublished(c)
            \/ CancelPublished(c))
      BY DEF NobodyCancels, CancelLabels, CancelDisabled, CancelDisableFails, RequestRefund,
             RefundDispensed, RefundNotDispensed, RefundCommandRaises, RefundPublished,
             CancelPublished
    <2>2. CASE SensorMismatch(c) \/ AlreadyActive(c) \/ SaleCompleted(c) \/ AcceptanceEnabled(c)
      BY <1>u, <2>2 DEF SensorMismatch, AlreadyActive, SaleCompleted, AcceptanceEnabled, ledger
    <2>3. ASSUME NEW x \in Transactions, CreateTransaction(c, x)
          PROVE  CompletedAreClosed'
      <3>1. Record(x, NewTransaction) /\ Finished(NewTransaction)
        BY <2>3 DEF CreateTransaction, NewTransaction, Finished
      <3> QED
        BY <1>g, <3>1
    <2>4. CASE \/ StartCashSession(c) \/ ReserveCreated(c) \/ EnableFails(c) \/ PickupClick(c)
               \/ PickupWindowClosed(c) \/ PickupCloseFails(c) \/ RecoverAsCancelled(c)
      <3>1. clicks[c].tx \in Transactions /\ txs[clicks[c].tx] \in TransactionRecords
        BY <1>f, <2>4
        DEF StartCashSession, ReserveCreated, EnableFails, PickupClick, PickupWindowClosed,
            PickupCloseFails, RecoverAsCancelled, DataOK, ClicksOK
      <3>2. Finished(txs[clicks[c].tx])
        BY <1>f, <3>1
      <3>3. Fine(clicks[c].tx)
        <4>1. CASE StartCashSession(c) \/ ReserveCreated(c)
          BY <4>1, <3>1, <3>2, MethodsKeepFinished DEF StartCashSession, ReserveCreated, OpenSession
        <4>2. CASE EnableFails(c) \/ PickupClick(c) \/ PickupWindowClosed(c) \/ PickupCloseFails(c)
                   \/ RecoverAsCancelled(c)
          BY <4>2, <3>1, <3>2, MethodsKeepFinished
          DEF EnableFails, PickupClick, PickupWindowClosed, PickupCloseFails, RecoverAsCancelled
        <4> QED
          BY <2>4, <4>1, <4>2
      <3> QED
        BY <1>g, <3>1, <3>3
    <2> QED
      BY <1>2, <2>1, <2>2, <2>3, <2>4 DEF ClickStep, PaymentClickStep, VendClickStep
  <1>3. ASSUME NEW x \in Transactions, DeadlineStep(x)
        PROVE  CompletedAreClosed'
    <2>1. Finished(txs[x]) /\ txs[x] \in TransactionRecords
      BY <1>f
    <2>2. Fine(x)
      BY <1>3, <2>1, MethodsKeepFinished
      DEF DeadlineStep, TimerStep, DeadlinePasses, CloseOnTimeout, TimeoutWindowClosed,
          TimeoutCloseFails, ledger
    <2> QED
      BY <1>g, <2>2
  <1>4. CASE CustomerStep
    BY <1>4, <1>u
    DEF CustomerStep, InsertBill, JamBill, CheckoutClick, CancelClick, PickupPress, ledger
  <1>5. CASE OperatorStep
    BY <1>5, <1>u
    DEF OperatorStep, EnterServiceMode, ExitServiceMode, RecoverClick, HealthPoll, LeaveNotice, ledger
  <1> QED
    BY <1>1, <1>2, <1>3, <1>4, <1>5 DEF Next

-----------------------------------------------------------------------------
(* A customer who inserts no late bill still owes something.               *)
LEMMA BillIsDue ==
  ASSUME "late bill" \notin Operations, NEW b \in BillValues, InsertBill(b)
  PROVE  Outstanding > 0
  <1> DEFINE Due == Outstanding > 0
  <1>1. Due
    <2> HIDE DEF Due
    <2>1. "late bill" \in Operations \/ Due
      BY Zenon DEF InsertBill, Due
    <2> QED
      BY <2>1, Zenon
  <1> QED
    BY <1>1

(* Every step keeps the bills on their way within the price.               *)
LEMMA ExactStep ==
  ASSUME DataOK, DataOK', VendInv, Unsessioned, MoneyInv, StageInv, NoOperator, ExactInv,
         WorstCaseChange > 0, Operations \cap {"cancel", "service"} = {},
         "late bill" \notin Operations, Next
  PROVE  ExactInv'
  <1>1. /\ NobodyCancels /\ TasksKnown
        /\ QueueFits /\ HandFits /\ KeepsPrice /\ CompletedAreClosed
    BY DEF NoOperator, VendInv, LifeInv, VendedKnown, ExactInv
  <1>2. Forms /\ MoneyForms /\ StageForms
    BY <1>1, NextForms, NextMoney, NextStages
  <1>3. active' = active \/ active = NoTx \/ Vended(active)
    BY <1>2, ActiveTurns
  <1>4. KeepsPrice' /\ CompletedAreClosed'
    BY <1>1, <1>2, KeepsPriceStep, CompletedStep
  <1>5. CASE QueueRests
    <2>1. QueueFits'
      BY <1>1, <1>2, <1>3, <1>5, RestingQueueFits
    <2>2. HandFits'
      BY <1>1, <1>2, <1>3, <1>5, HandStillFits DEF QueueRests
    <2> QED
      BY <1>4, <2>1, <2>2 DEF ExactInv
  <1>6. CASE ReadEvent
    BY <1>1, <1>4, <1>6, ShorterQueueFits DEF ExactInv
  <1>7. ASSUME NEW e \in Nat, validator'.events = Append(validator.events, e),
               UNCHANGED <<txs, known, active, loop>>, e = FaultEvent \/ Outstanding > 0
        PROVE  ExactInv'
    <2>1. QueueFits'
      BY <1>1, <1>7, LongerQueueFits
    <2>2. HandFits'
      BY <1>1, <1>2, <1>3, <1>7, HandStillFits
    <2> QED
      BY <1>4, <2>1, <2>2 DEF ExactInv
  <1>8. CASE JamBill
    <2>1. FaultEvent \in Nat
      BY DEF FaultEvent
    <2>2. /\ validator'.events = Append(validator.events, FaultEvent)
          /\ UNCHANGED <<txs, known, active, loop>>
      BY <1>8 DEF JamBill, ledger
    <2> QED
      BY <1>7, <2>1, <2>2
  <1>9. ASSUME NEW b \in BillValues, InsertBill(b)
        PROVE  ExactInv'
    <2>1. b \in Nat
      BY ChangeAssumption
    <2>2. /\ validator'.events = Append(validator.events, b)
          /\ UNCHANGED <<txs, known, active, loop>>
      BY <1>9, Zenon DEF InsertBill, ledger, DataOK, DevicesOK
    <2>3. Outstanding > 0
      BY <1>9, BillIsDue
    <2> QED
      BY <1>7, <2>1, <2>2, <2>3
  <1> QED
    BY <1>1, <1>5, <1>6, <1>8, <1>9, NextQueue

(* No bill is on its way when the machine starts.                          *)
LEMMA ExactAtFirst == KioskInit => ExactInv
  <1> SUFFICES ASSUME KioskInit
               PROVE  ExactInv
    OBVIOUS
  <1>1. PICK q : q = validator.events
    OBVIOUS
  <1>2. q \in Seq(Nat) /\ Len(q) = 0 /\ loop.label = "read"
    BY <1>1, EmptySeq DEF KioskInit, Init, ReadingLoop
  <1>3. DOMAIN q = 1 .. 0
    BY <1>2
  <1>4. QueueFits /\ HandFits
    BY <1>1, <1>2, <1>3 DEF QueueFits, Billed, HandFits
  <1>5. KeepsPrice /\ CompletedAreClosed
    BY DEF KioskInit, Init, KeepsPrice, CompletedAreClosed, Finished, NewTransaction
  <1> QED
    BY <1>4, <1>5 DEF ExactInv

(* Without late bills, what a sale keeps is the price.                     *)
LEMMA ExactInvariant ==
  ASSUME WorstCaseChange > 0, Operations \cap {"cancel", "service"} = {},
         "late bill" \notin Operations
  PROVE  Spec => []ExactInv
  <1>1. KioskInit => ExactInv
    BY ExactAtFirst
  <1>2. ASSUME DataOK, DataOK', VendInv, Unsessioned, MoneyInv, StageInv, NoOperator, ExactInv,
               [Next]_kioskVars
        PROVE  ExactInv'
    <2>1. CASE UNCHANGED kioskVars
      <3>1. UNCHANGED <<validator, loop, txs, known, active, vends, paidOut>>
        BY <2>1 DEF kioskVars, vars, ledger, goods, bills, money
      <3>2. /\ Queued' = Queued /\ InHand' = InHand /\ \A x : Paid(x)' = Paid(x)
            /\ \A x : Vended(x)' = Vended(x) /\ OnItsWay(x)' = OnItsWay(x)
        BY <3>1 DEF Queued, InHand, Paid, Vended, OnItsWay
      <3> QED
        BY <1>2, <3>1, <3>2
        DEF ExactInv, QueueFits, Billed, LastBill, HandFits, KeepsPrice, CompletedAreClosed
    <2>2. CASE Next
      BY <1>2, <2>2, ExactStep
    <2> QED
      BY <1>2, <2>1, <2>2
  <1>3. Spec => []VendInv
    BY VendInvariant
  <1>4. Spec => []Unsessioned
    BY UnsessionedAlways
  <1>5. "cancel" \notin Operations
    OBVIOUS
  <1>6. Spec => []MoneyInv
    BY <1>5, MoneyInvariant
  <1>7. Spec => []StageInv
    BY StageInvariant
  <1>8. Spec => []NoOperator
    BY NoOperatorEver
  <1> QED
    BY <1>1, <1>2, <1>3, <1>4, <1>6, <1>7, <1>8, DataAlwaysOK, PTL DEF Spec

(* A completed sale was served, hence vended, hence paid for exactly.      *)
LEMMA ExactEnough ==
  ASSUME DataOK, VendInv, StageInv, ExactInv
  PROVE  CompletedExactly
  <1> SUFFICES ASSUME NEW x \in known, txs[x].status = "completed"
               PROVE  vends[x] = 1 /\ txs[x].accepted_amount - Paid(x) = Price
    BY DEF CompletedExactly
  <1>1. x \in Transactions
    BY DEF DataOK, LedgerOK
  <1>2. Vended(x)
    BY <1>1 DEF ExactInv, CompletedAreClosed, Finished, StageInv, ServedAreVended, Served,
                Delivered
  <1>3. vends[x] = 1
    BY <1>1, <1>2 DEF VendInv, LifeInv, VendedKnown, VendedOnce, Vended
  <1>4. txs[x].accepted_amount = Price + Paid(x)
    BY <1>2 DEF ExactInv, KeepsPrice
  <1>5. PICK p : p = Paid(x)
    OBVIOUS
  <1>6. Price \in Nat /\ p \in Nat
    BY <1>1, <1>5, QueueTyped, ValueTyped DEF Paid, DataOK, CashOK
  <1>7. (Price + p) - p = Price
    BY <1>6
  <1> QED
    BY <1>3, <1>4, <1>5, <1>7

(* A completed sale has vended exactly one product, and of the bills it    *)
(* credited the machine kept exactly the price, for every price, every set *)
(* of denominations and every number of customers' clicks: provided no     *)
(* customer inserts more bills than the price asks for, nobody cancels and *)
(* no operator comes by.                                                   *)
THEOREM CompletedSalesAreExact ==
  ASSUME WorstCaseChange > 0, Operations \cap {"cancel", "service"} = {},
         "late bill" \notin Operations
  PROVE  Spec => []CompletedExactly
  <1>1. DataOK /\ VendInv /\ StageInv /\ ExactInv => CompletedExactly
    BY ExactEnough
  <1>2. Spec => []VendInv
    BY VendInvariant
  <1>3. Spec => []StageInv
    BY StageInvariant
  <1>4. Spec => []ExactInv
    BY ExactInvariant
  <1> QED
    BY <1>1, <1>2, <1>3, <1>4, DataAlwaysOK, PTL
=============================================================================
