---------------------------- MODULE DurableProofs ----------------------------
(***************************************************************************)
(* What a crash cannot take away.  A machine that a restart has brought an *)
(* unsettled sale back to does not sell and does not move until an         *)
(* operator has settled it; the motor runs once for a sale however often   *)
(* the program is started; no product leaves the machine for a sale whose  *)
(* payment is not on disk; the books miss the pieces that were paid; and a *)
(* sale whose command a crash cut short comes back for an operator.        *)
(*                                                                         *)
(* The five have their inductive invariants in the five parts of this      *)
(* module: Frozen, what holds of a machine with a restored sale; MotorInv, *)
(* the invariant of one life of the program (KioskProofs) and what links   *)
(* one life to the next; PaidInv, who may still take a payment back;       *)
(* BooksInv, why a start finds the sale unsettled that a payout was for    *)
(* whose books have not been written; and JournalInv, why the intent of a  *)
(* command under way is on disk and has no outcome there.                  *)
(***************************************************************************)
EXTENDS DurableKiosk, KioskProofs

(* Everything that is saved keeps its type, as everything in memory does.  *)
RowsOK ==
  /\ DOMAIN rows \subseteq Transactions
  /\ \A x \in DOMAIN rows : rows[x] \in TransactionRecords
  /\ savedInventory \in InventoryRecords
BooksOK == StatusFollows /\ DataOK /\ RowsOK

-----------------------------------------------------------------------------
(* The pieces that several tasks pay together.                             *)
PiecesOf(part, S) == [d \in Denominations |-> MapThenSumSet(LAMBDA t : part[t][d], S)]

LEMMA PiecesAreTotal ==
  ASSUME NEW part, NEW S, NEW d
  PROVE  MapThenSumSet(LAMBDA t : part[t][d], S) = Total([t \in S |-> part[t][d]], S)
  <1> DEFINE F == [t \in S |-> part[t][d]]
             P(g) == g = [s \in SUBSET S |->
                            IF s = {} THEN 0 ELSE part[Pick(s)][d] + g[s \ {Pick(s)}]]
             Q(g) == IsTotal(g, F, S)
  <1>1. MapThenSumSet(LAMBDA t : part[t][d], S) = (CHOOSE g : P(g))[S]
    BY DEF MapThenSumSet, MapThenFoldSet, Pick
  <1>2. ASSUME NEW g
        PROVE  P(g) <=> Q(g)
    <2>1. \A s \in SUBSET S : s # {} => F[Pick(s)] = part[Pick(s)][d]
      BY Picked
    <2> HIDE DEF F
    <2>2. [s \in SUBSET S |-> IF s = {} THEN 0 ELSE part[Pick(s)][d] + g[s \ {Pick(s)}]]
          = [s \in SUBSET S |-> IF s = {} THEN 0 ELSE F[Pick(s)] + g[s \ {Pick(s)}]]
      BY <2>1
    <2> QED
      BY <2>2 DEF IsTotal
  <1> HIDE DEF P, Q
  <1>3. (CHOOSE g : P(g)) = (CHOOSE g : Q(g))
    BY <1>2
  <1> QED
    BY <1>1, <1>3 DEF Q, Total

LEMMA PiecesOfIs ==
  ASSUME NEW part, NEW S
  PROVE  PiecesOf(part, S) = [d \in Denominations |-> Total([t \in S |-> part[t][d]], S)]
  <1>1. \A d \in Denominations :
          MapThenSumSet(LAMBDA t : part[t][d], S) = Total([t \in S |-> part[t][d]], S)
    BY PiecesAreTotal
  <1> QED
    BY <1>1 DEF PiecesOf

LEMMA PiecesCounted ==
  ASSUME NEW S, IsFiniteSet(S), NEW part, \A t \in S : part[t] \in Counts
  PROVE  PiecesOf(part, S) \in Counts
  <1>1. ASSUME NEW d \in Denominations
        PROVE  Total([t \in S |-> part[t][d]], S) \in Nat
    <2> DEFINE F == [t \in S |-> part[t][d]]
    <2>1. \A t \in S : F[t] \in Nat
      BY DEF Counts
    <2> HIDE DEF F
    <2>2. Total(F, S) \in Nat
      BY <2>1, SumTyped
    <2> QED
      BY <2>2 DEF F
  <1> QED
    BY <1>1, PiecesOfIs DEF Counts

-----------------------------------------------------------------------------
(* What a write leaves on disk.                                            *)
LEMMA SavingWrites ==
  ASSUME NEW written
  PROVE  /\ DOMAIN Saving(written) = written \cup DOMAIN rows
         /\ \A x \in written : Saving(written)[x] = txs[x]
         /\ \A x \in DOMAIN rows \ written : Saving(written)[x] = rows[x]
  BY DEF Saving

LEMMA SavingOK ==
  ASSUME LedgerOK, RowsOK, NEW written \in SUBSET known
  PROVE  /\ DOMAIN Saving(written) \subseteq Transactions
         /\ \A x \in DOMAIN Saving(written) : Saving(written)[x] \in TransactionRecords
  BY SavingWrites DEF LedgerOK, RowsOK

LEMMA DiskAtTheEndIs ==
  ASSUME NEW end \in DiskAtTheEnd
  PROVE  /\ \E written \in SUBSET known : end.rows = Saving(written)
         /\ end.inventory \in {savedInventory, inventory}
  <1>1. \A x : Persisted(x) \subseteq known
    BY DEF Persisted
  <1> QED
    BY <1>1 DEF DiskAtTheEnd

(* A row that is read back is marked, or left as it is.                    *)
LEMMA RememberedOK ==
  ASSUME NEW x, NEW row \in TransactionRecords, NEW j
  PROVE  /\ Remembered(x, row, j) \in TransactionRecords
         /\ Remembered(x, row, j).payment_status = row.payment_status
         /\ Unresolved(row) => Unresolved(Remembered(x, row, j))
         /\ (\E i \in UnresolvedIntents(j) : j.intents[i].tx = x)
              => Unresolved(Remembered(x, row, j))
  <1>1. \A r \in TransactionRecords : \A step :
          /\ MarkUnresolved(r, step) \in TransactionRecords
          /\ MarkUnresolved(r, step).payment_status = r.payment_status
          /\ MarkUnresolved(r, step).recovery_status # "none"
    <2> TAKE r \in TransactionRecords
    <2> TAKE step
    <2>1. MarkAmbiguous(r) \in TransactionRecords
      BY TransactionOperations, NoPiecesCount
    <2>2. [r EXCEPT !.recovery_status = "pending"] \in TransactionRecords
      BY RecoveryReplaced DEF WithRecovery
    <2>3. /\ MarkAmbiguous(r).payment_status = r.payment_status
          /\ MarkAmbiguous(r).recovery_status # "none"
      BY DEF MarkAmbiguous, TransactionRecords
    <2>4. /\ [r EXCEPT !.recovery_status = "pending"].payment_status = r.payment_status
          /\ [r EXCEPT !.recovery_status = "pending"].recovery_status # "none"
      BY DEF TransactionRecords
    <2> QED
      BY <2>1, <2>2, <2>3, <2>4 DEF MarkUnresolved
  <1> DEFINE Own == {i \in UnresolvedIntents(j) : j.intents[i].tx = x}
             Grave == {i \in Own : j.intents[i].step \in ManualReviewSteps}
             Marked(r, marks) == IF marks = {} THEN r ELSE MarkUnresolved(r, j.intents[Max(marks)].step)
  <1>2. Remembered(x, row, j) = Marked(Marked(row, Grave), Own)
    BY DEF Remembered
  <1>3. \A r \in TransactionRecords : \A marks :
          /\ Marked(r, marks) \in TransactionRecords
          /\ Marked(r, marks).payment_status = r.payment_status
          /\ Unresolved(r) \/ marks # {} => Unresolved(Marked(r, marks))
    BY <1>1 DEF Unresolved
  <1>4. (\E i \in UnresolvedIntents(j) : j.intents[i].tx = x) => Own # {}
    OBVIOUS
  <1> HIDE DEF Marked, Own, Grave
  <1> QED
    BY <1>2, <1>3, <1>4

-----------------------------------------------------------------------------
(* A step of the kiosk, with its database or without, is a step of the     *)
(* kiosk.                                                                  *)
LEMMA DurableStepIsNext == ASSUME DurableStep PROVE Next
  BY DEF DurableStep, KioskStep, Next, PollFinds, DeadlineStep, Arrival, Click, CustomerStep,
         DeadlineStep

(* What a failed write does to the task that waits for it.                 *)
LEMMA PublishRaisesKinds ==
  ASSUME WriteFails
  PROVE  \/ /\ UNCHANGED <<clicks, timers>> /\ LoopDies
            /\ PayoutRaises \/ UNCHANGED machine
         \/ \E c \in Clicks : EndClick(c) /\ UNCHANGED <<machine, loop, timers>>
         \/ \E x \in Transactions :
              TimerGoesTo(x, "idle") /\ UNCHANGED <<machine, loop, clicks>>
  BY DEF WriteFails, PublishRaises, PayoutRaises

LEMMA WriteFailsTyped ==
  ASSUME StatusFollows, DataOK, WriteFails
  PROVE  StatusFollows' /\ DataOK'
  <1>1. UNCHANGED <<ledger, ui, bills, money, goods, inventory, answered, failures>>
    BY DEF WriteFails
  <1>2. LedgerOK' /\ CashOK' /\ GoodsOK' /\ DevicesOK' /\ UiOK'
    BY <1>1
    DEF DataOK, LedgerOK, CashOK, GoodsOK, DevicesOK, UiOK, ledger, ui, bills, money, goods
  <1>3. CASE UNCHANGED <<clicks, timers>> /\ LoopDies /\ (PayoutRaises \/ UNCHANGED machine)
    <2>1. LoopOK'
      BY <1>3, LoopRests
    <2>2. ClicksOK' /\ TimersOK'
      BY <1>3 DEF DataOK, ClicksOK, TimersOK
    <2>3. MachineStep
      BY <1>3, PayoutRaisesIsMachineStep DEF MachineStep, Keeps
    <2> QED
      BY <1>2, <2>1, <2>2, <2>3, MachineStepPreserves DEF DataOK
  <1>4. ASSUME NEW c \in Clicks, EndClick(c), UNCHANGED <<machine, loop, timers>>
        PROVE  StatusFollows' /\ DataOK'
    <2>1. ClicksOK'
      BY <1>4, ClickEnds DEF DataOK
    <2>2. LoopOK' /\ TimersOK'
      BY <1>4 DEF DataOK, LoopOK, TimersOK
    <2>3. MachineStep
      BY <1>4 DEF MachineStep, Keeps
    <2> QED
      BY <1>2, <2>1, <2>2, <2>3, MachineStepPreserves DEF DataOK
  <1>5. ASSUME NEW x \in Transactions, TimerGoesTo(x, "idle"), UNCHANGED <<machine, loop, clicks>>
        PROVE  StatusFollows' /\ DataOK'
    <2>1. TimersOK'
      BY <1>5 DEF DataOK, TimersOK, TimerGoesTo, TimerLabels
    <2>2. LoopOK' /\ ClicksOK'
      BY <1>5 DEF DataOK, LoopOK, ClicksOK
    <2>3. MachineStep
      BY <1>5 DEF MachineStep, Keeps
    <2> QED
      BY <1>2, <2>1, <2>2, <2>3, MachineStepPreserves DEF DataOK
  <1> QED
    BY <1>3, <1>4, <1>5, PublishRaisesKinds

-----------------------------------------------------------------------------
(* The pieces that were on their way when the program ended are pieces.    *)
LEMMA CutPaymentsTyped ==
  ASSUME DataOK, IsFiniteSet(Clicks), NEW accounting \in [Denominations -> Int],
         CommandsCut(accounting)
  PROVE  /\ coins' \in [Denominations -> Int] /\ paidOut' \in [Transactions -> Counts]
         /\ vends' \in [Transactions -> Nat] /\ window' \in {"open", "closed"}
  <1> DEFINE payers == {t \in {"loop"} \cup Clicks : Paying(t)}
  <1>1. PICK part \in [payers -> UNION {SubPlans(PlanOf(t)) : t \in payers}] :
          /\ \A t \in payers : part[t] \in SubPlans(PlanOf(t))
          /\ paidOut' = [x \in Transactions |->
                            PlusCounts(paidOut[x], PiecesOf(part, {t \in payers : Subject(t) = x}))]
          /\ coins' \in {MinusCounts(coins, PiecesOf(part, payers)), accounting}
    BY DEF CommandsCut, PiecesOf
  <1>2. IsFiniteSet(payers)
    <2>1. IsFiniteSet({"loop"} \cup Clicks)
      BY FS_AddElement
    <2> QED
      BY <2>1, FS_Subset
  <1>3. \A t \in payers : PlanOf(t) \in Counts
    BY DEF PlanOf, DataOK, LoopOK, LoopRecords, ClicksOK, ClickRecords
  <1>4. \A t \in payers : part[t] \in Counts
    BY <1>1, <1>3, SubPlansTyped
  <1> HIDE DEF payers
  <1>5. coins' \in [Denominations -> Int]
    <2>1. PiecesOf(part, payers) \in Counts
      BY <1>2, <1>4, PiecesCounted
    <2>2. MinusCounts(coins, PiecesOf(part, payers)) \in [Denominations -> Int]
      BY <2>1 DEF MinusCounts, Counts, DataOK, CashOK
    <2> QED
      BY <1>1, <2>2
  <1>6. paidOut' \in [Transactions -> Counts]
    <2>1. ASSUME NEW x \in Transactions
          PROVE  PiecesOf(part, {t \in payers : Subject(t) = x}) \in Counts
      <3>1. IsFiniteSet({t \in payers : Subject(t) = x})
        BY <1>2, FS_Subset
      <3> QED
        BY <1>4, <3>1, PiecesCounted
    <2>2. \A x \in Transactions : paidOut[x] \in Counts
      BY DEF DataOK, CashOK
    <2> QED
      BY <1>1, <2>1, <2>2, CountsClosed
  <1>7. vends' \in [Transactions -> Nat] /\ window' \in {"open", "closed"}
    BY DEF CommandsCut, MotorRuns, DataOK, GoodsOK
  <1> QED
    BY <1>5, <1>6, <1>7

-----------------------------------------------------------------------------
(* What a restart makes of what it finds on disk.                          *)
Unsettled(saved) == {x \in DOMAIN saved : Unresolved(saved[x]) \/ x \in Doubtful}

LEMMA RestartReads ==
  ASSUME Restart
  PROVE  \E end \in DiskAtTheEnd :
           /\ restored' = Unsettled(end.rows)
           /\ known' = restored' /\ active' \in restored' \cup {NoTx}
           /\ txs' = [x \in Transactions |->
                        IF x \in restored' THEN Remembered(x, end.rows[x], journal)
                                           ELSE NewTransaction]
           /\ rows' = [x \in DOMAIN end.rows |->
                        IF x \in restored' THEN Remembered(x, end.rows[x], journal)
                                           ELSE end.rows[x]]
           /\ IF restored' = {}
              THEN Project("IDLE", FreshStatus)
              ELSE Project("RECOVERY_PENDING", BlockSales(FreshStatus, "recovery_pending"))
           /\ inventory' = end.inventory /\ savedInventory' = end.inventory
           /\ CommandsCut(end.inventory.accounting)
  <1>1. PICK end \in DiskAtTheEnd :
          /\ Restored(end.rows) /\ LoadInventory(end.inventory)
          /\ CommandsCut(end.inventory.accounting)
    BY DEF Restart
  <1>2. Unsettled(end.rows) = ListUnresolved(end.rows) \cup (Doubtful \cap DOMAIN end.rows)
    BY DEF Unsettled, ListUnresolved
  <1>3. restored' = Unsettled(end.rows) /\ StartBlocked(Unsettled(end.rows))
    BY <1>1, <1>2 DEF Restored
  <1>4. known' = restored' /\ active' \in restored' \cup {NoTx}
    BY <1>1, <1>2, <1>3 DEF Restored, RestoreTransactions
  <1>5. /\ txs' = [x \in Transactions |->
                     IF x \in restored' THEN Remembered(x, end.rows[x], journal)
                                        ELSE NewTransaction]
        /\ rows' = [x \in DOMAIN end.rows |->
                     IF x \in restored' THEN Remembered(x, end.rows[x], journal)
                                        ELSE end.rows[x]]
    BY <1>1, <1>2, <1>3 DEF Restored
  <1>6. IF restored' = {}
        THEN Project("IDLE", FreshStatus)
        ELSE Project("RECOVERY_PENDING", BlockSales(FreshStatus, "recovery_pending"))
    BY <1>3 DEF StartBlocked
  <1> QED
    BY <1>1, <1>3, <1>4, <1>5, <1>6 DEF LoadInventory

LEMMA FreshStatusTyped ==
  /\ FreshStatus \in StatusRecords
  /\ BlockSales(FreshStatus, "recovery_pending") \in StatusRecords
  <1>1. FreshStatus \in StatusRecords
    BY DEF FreshStatus, StatusRecords, MachineStates, UnsafeStates, SelectionStates,
           FulfilmentStates
  <1> QED
    BY <1>1, Names, StatusOperations

LEMMA RestartTyped ==
  ASSUME BooksOK, IsFiniteSet(Clicks), Restart
  PROVE  BooksOK'
  <1>1. PICK end \in DiskAtTheEnd :
          /\ restored' = Unsettled(end.rows)
          /\ known' = restored' /\ active' \in restored' \cup {NoTx}
          /\ txs' = [x \in Transactions |->
                        IF x \in restored' THEN Remembered(x, end.rows[x], journal)
                                           ELSE NewTransaction]
          /\ rows' = [x \in DOMAIN end.rows |->
                        IF x \in restored' THEN Remembered(x, end.rows[x], journal)
                                           ELSE end.rows[x]]
          /\ IF restored' = {}
             THEN Project("IDLE", FreshStatus)
             ELSE Project("RECOVERY_PENDING", BlockSales(FreshStatus, "recovery_pending"))
          /\ inventory' = end.inventory /\ savedInventory' = end.inventory
          /\ CommandsCut(end.inventory.accounting)
    BY RestartReads
  <1>2. /\ DOMAIN end.rows \subseteq Transactions
        /\ \A x \in DOMAIN end.rows : end.rows[x] \in TransactionRecords
    BY DiskAtTheEndIs, SavingOK DEF BooksOK, DataOK
  <1>3. end.inventory \in InventoryRecords
    BY DiskAtTheEndIs DEF BooksOK, RowsOK, DataOK, CashOK
  <1>4. restored' \subseteq DOMAIN end.rows
    BY <1>1 DEF Unsettled
  <1>5. \A x \in restored' : Remembered(x, end.rows[x], journal) \in TransactionRecords
    BY <1>2, <1>4, RememberedOK
  <1>6. RowsOK'
    BY <1>1, <1>2, <1>3, <1>5 DEF RowsOK
  <1>7. LedgerOK'
    <2>1. txs' \in [Transactions -> TransactionRecords]
      BY <1>1, <1>5, NewTransactionTyped
    <2> QED
      BY <1>1, <1>2, <1>4, <2>1 DEF LedgerOK
  <1>8. CashOK' /\ GoodsOK'
    <2>1. end.inventory.accounting \in [Denominations -> Int]
      BY <1>3 DEF InventoryRecords
    <2> QED
      BY <1>1, <1>3, <2>1, CutPaymentsTyped, KioskAssumption
      DEF BooksOK, CashOK, GoodsOK, Restart
  <1>9. DevicesOK' /\ UiOK' /\ TimersOK'
    BY DEF Restart, BooksOK, DataOK, DevicesOK, Answers, RefundAnswers, UiOK, Screens, TimersOK,
           TimerLabels
  <1>10. LoopOK'
    BY LoopRests DEF Restart
  <1>11. ClicksOK'
    BY NoPiecesCount DEF Restart, ClicksOK, ClickRecords, IdleClick, ClickLabels
  <1>12. StatusFollows'
    <2>1. Projects
      BY <1>1, FreshStatusTyped, Names DEF Projects
    <2> QED
      BY <2>1, MachineStepPreserves DEF BooksOK, MachineStep
  <1> QED
    BY <1>6, <1>7, <1>8, <1>9, <1>10, <1>11, <1>12 DEF BooksOK, DataOK

LEMMA ProjectedTyped ==
  ASSUME BooksOK, Projected
  PROVE  BooksOK'
  <1>1. DataOK' /\ StatusFollows'
    BY DEF Projected, BooksOK, DataOK, LedgerOK, CashOK, GoodsOK, DevicesOK, UiOK, LoopOK, ClicksOK,
           TimersOK, StatusFollows, Permitted,
           kioskVars, vars, machine, ledger, ui, bills, money, goods
  <1>2. RowsOK'
    <2>1. Persisted(Head(unwritten).tx) \subseteq known
      BY DEF Persisted
    <2>2. inventory \in InventoryRecords
      BY DEF BooksOK, DataOK, CashOK
    <2> QED
      BY <2>1, <2>2, SavingOK DEF Projected, SaveInventory, BooksOK, DataOK, RowsOK
  <1> QED
    BY <1>1, <1>2 DEF BooksOK

(* What is in memory and what is on disk keep their types, whatever fails  *)
(* and wherever the program is cut.                                        *)
LEMMA BooksStayOK ==
  ASSUME BooksOK, IsFiniteSet(Clicks), [DurableNext]_durableVars
  PROVE  BooksOK'
  <1>1. CASE DurableStep
    <2>1. DataOK' /\ StatusFollows'
      BY <1>1, DurableStepIsNext, DataStaysOK, StatusStillFollows DEF BooksOK
    <2> QED
      BY <1>1, <2>1 DEF DurableStep, Durably, BooksOK, RowsOK
  <1>2. CASE WriteFails
    <2>1. DataOK' /\ StatusFollows'
      BY <1>2, WriteFailsTyped DEF BooksOK
    <2> QED
      BY <1>2, <2>1 DEF WriteFails, disk, BooksOK, RowsOK
  <1>3. CASE UNCHANGED durableVars
    BY <1>3
    DEF BooksOK, RowsOK, DataOK, LedgerOK, CashOK, GoodsOK, DevicesOK, UiOK, LoopOK, ClicksOK,
        TimersOK, StatusFollows, Permitted,
        durableVars, disk, kioskVars, vars, machine, ledger, ui, bills, money, goods
  <1> QED
    BY <1>1, <1>2, <1>3, ProjectedTyped, RestartTyped DEF DurableNext

LEMMA BooksOKAtFirst ==
  ASSUME DurableInit
  PROVE  BooksOK
  <1>1. DataOK /\ StatusFollows
    BY DataOKAtFirst, StatusFollowsAtFirst DEF DurableInit
  <1>2. RowsOK
    BY <1>1 DEF DurableInit, RowsOK, DataOK, CashOK
  <1> QED
    BY <1>1, <1>2 DEF BooksOK

LEMMA BooksAlwaysOK == ASSUME IsFiniteSet(Clicks) PROVE DurableSpec => []BooksOK
  <1>1. DurableInit => BooksOK
    BY BooksOKAtFirst
  <1>2. BooksOK /\ [DurableNext]_durableVars => BooksOK'
    BY BooksStayOK
  <1> QED
    BY <1>1, <1>2, PTL DEF DurableSpec

-----------------------------------------------------------------------------
(***************************************************************************)
(* A start that finds an unsettled sale on disk puts the machine out of    *)
(* the business of selling until an operator has settled it.               *)
(*                                                                         *)
(* RestoredSaleBlocksSales alone is not inductive: the blocker could be    *)
(* taken away by a step, and the next start could find the sale settled.   *)
(* Frozen adds why neither happens: nothing of the sale goes on, because   *)
(* no task has it in its hands and no bill is taken, and what can still    *)
(* be done to it, closing its window, leaves it unsettled in memory and    *)
(* on disk.                                                                *)
(***************************************************************************)
Frozen ==
  restored # {} =>
    /\ "recovery_pending" \in status.sale_blockers
    /\ known = restored /\ session = NoTx
    /\ loop.label \in {"read", "dead"} /\ \A c \in Clicks : clicks[c].label = "idle"
    /\ ~validator.accepting /\ validator.events = <<>>
    /\ \A x \in restored :
         x \in DOMAIN rows /\ Unresolved(rows[x]) /\ Unresolved(txs[x])

(* Nothing of value moves.                                                 *)
Moveless == UNCHANGED <<vends, money, stacked>>

(* What a step leaves of Frozen.                                           *)
StaysFrozen ==
  /\ Moveless
  /\ "recovery_pending" \in status'.sale_blockers
  /\ known' = known /\ session' = NoTx
  /\ loop'.label \in {"read", "dead"} /\ \A c \in Clicks : clicks'[c].label = "idle"
  /\ validator' = validator
  /\ \A x \in Transactions : Unresolved(txs[x]) => Unresolved(txs'[x])

LEMMA BlockersStay ==
  ASSUME status \in StatusRecords, "recovery_pending" \in status.sale_blockers
  PROVE  /\ ~SalesAllowed(status)
         /\ \A s : "recovery_pending" \in SetMachineState(status, s).sale_blockers
         /\ \A enabled, s :
              "recovery_pending" \in
                SetMachineState(SetServiceMode(status, enabled), s).sale_blockers
         /\ \A reason :
              "recovery_pending" \in BlockSales(status, reason).sale_blockers
         /\ \A reason, s :
              "recovery_pending" \in
                SetMachineState(BlockSales(status, reason), s).sale_blockers
         /\ \A reason \in HealthBlockers :
              "recovery_pending" \in UnblockSales(status, reason).sale_blockers
  BY DEF SalesAllowed, SetMachineState, SetServiceMode, BlockSales, UnblockSales,
         RefreshPermissions, StatusRecords, HealthBlockers

LEMMA FrozenDeadline ==
  ASSUME BooksOK, Frozen, restored # {}, NEW x \in Transactions, DeadlineStep(x)
  PROVE  StaysFrozen
  <1> USE DEF Frozen, StaysFrozen, Moveless
  <1>0. status \in StatusRecords
    BY DEF BooksOK, StatusFollows
  <1>1. /\ txs \in [Transactions -> TransactionRecords] /\ txs[x] \in TransactionRecords
    BY DEF BooksOK, DataOK, LedgerOK
  <1>2. CASE DeadlinePasses(x)
    BY <1>2 DEF DeadlinePasses, machine, ledger, bills, money, goods
  <1>3. CASE CloseOnTimeout(x)
    BY <1>0, <1>3, BlockersStay DEF CloseOnTimeout, Project, machine, ledger, ui, bills, money, goods
  <1>4. CASE TimeoutWindowClosed(x)
    <2>1. Unresolved(MarkPickupTimedOutWindowClosed(txs[x]))
      BY <1>1 DEF MarkPickupTimedOutWindowClosed, Unresolved, TransactionRecords
    <2> QED
      BY <1>0, <1>1, <1>4, <2>1, BlockersStay DEF TimeoutWindowClosed, Project, Record, bills, money
  <1>5. CASE TimeoutCloseFails(x)
    <2>1. Unresolved(MarkFaulted(txs[x]))
      BY <1>1 DEF MarkFaulted, Unresolved, TransactionRecords
    <2> QED
      BY <1>0, <1>1, <1>5, <2>1, BlockersStay DEF TimeoutCloseFails, Project, Record, bills, money
  <1> QED
    BY <1>2, <1>3, <1>4, <1>5 DEF DeadlineStep, TimerStep

LEMMA FrozenOperator ==
  ASSUME BooksOK, Frozen, restored # {}, "recover" \notin Operations,
         CustomerStep \/ OperatorStep
  PROVE  StaysFrozen
  <1> USE DEF Frozen, StaysFrozen, Moveless
  <1>0. status \in StatusRecords
    BY DEF BooksOK, StatusFollows
  <1>1. CASE CustomerStep
    <2>1. PICK c \in Clicks : CheckoutClick(c)
      BY <1>1 DEF CustomerStep, InsertBill, JamBill, CancelClick, PickupPress
    <2>2. ClickRejected(c)
      BY <1>0, <2>1, BlockersStay DEF CheckoutClick
    <2>3. \A d \in Clicks : clicks'[d].label = "idle"
      BY <2>2 DEF ClickRejected, EndClick, IdleClick, BooksOK, DataOK, ClicksOK
    <2> QED
      BY <2>1, <2>3 DEF CheckoutClick, machine, ledger, bills, money, goods
  <1>2. CASE EnterServiceMode \/ ExitServiceMode
    BY <1>0, <1>2, BlockersStay
    DEF EnterServiceMode, ExitServiceMode, Project, ledger, bills, money, goods
  <1>3. CASE LeaveNotice
    BY <1>3 DEF LeaveNotice, machine, ledger, bills, money, goods
  <1>4. CASE \E reason \in HealthBlockers : HealthPoll(reason)
    BY <1>0, <1>4, BlockersStay DEF HealthPoll, ledger, bills, money, goods
  <1> QED
    BY <1>1, <1>2, <1>3, <1>4 DEF OperatorStep, RecoverClick

LEMMA FrozenStep ==
  ASSUME BooksOK, Frozen, restored # {}, "recover" \notin Operations, Next
  PROVE  StaysFrozen
  <1>1. ~LoopStep
    BY DEF Frozen, LoopStep, PaymentLoopStep, VendLoopStep, ReadEvent, ValidatorFault, CreditBill,
           AwaitMoreCash, CompletePayment, AcceptanceDisabled, FinalizeReserve, RequestChange,
           ChangeDispensed, DisableFails, ChangeNotDispensed, ChangeCommandRaises,
           VendAuthorized, ProductVended, VendFails, OpenWindow, WindowOpened, OpenFails
  <1>2. \A c \in Clicks : ~ClickStep(c)
    BY DEF Frozen, ClickStep, PaymentClickStep, VendClickStep, RecoverAsCancelled,
           StartCashSession, ReserveCreated, AcceptanceEnabled, EnableFails, CancelDisabled,
           CancelDisableFails, RequestRefund, RefundDispensed, RefundNotDispensed,
           RefundCommandRaises, RefundPublished, CancelPublished, SensorMismatch, AlreadyActive,
           CreateTransaction, PickupClick, PickupWindowClosed, PickupCloseFails, SaleCompleted
  <1> QED
    BY <1>1, <1>2, FrozenDeadline, FrozenOperator DEF Next

(* A start brings back every sale that the last one did.                   *)
LEMMA RestartFreezes ==
  ASSUME BooksOK, Frozen, IsFiniteSet(Clicks), Restart
  PROVE  Frozen' /\ restored \subseteq restored'
  <1>1. PICK end \in DiskAtTheEnd :
          /\ restored' = Unsettled(end.rows)
          /\ known' = restored' /\ active' \in restored' \cup {NoTx}
          /\ txs' = [x \in Transactions |->
                        IF x \in restored' THEN Remembered(x, end.rows[x], journal)
                                           ELSE NewTransaction]
          /\ rows' = [x \in DOMAIN end.rows |->
                        IF x \in restored' THEN Remembered(x, end.rows[x], journal)
                                           ELSE end.rows[x]]
          /\ IF restored' = {}
             THEN Project("IDLE", FreshStatus)
             ELSE Project("RECOVERY_PENDING", BlockSales(FreshStatus, "recovery_pending"))
          /\ inventory' = end.inventory /\ savedInventory' = end.inventory
          /\ CommandsCut(end.inventory.accounting)
    BY RestartReads
  <1>2. PICK written \in SUBSET known : end.rows = Saving(written)
    BY DiskAtTheEndIs
  <1>3. /\ DOMAIN end.rows \subseteq Transactions
        /\ \A x \in DOMAIN end.rows : end.rows[x] \in TransactionRecords
    BY <1>2, SavingOK DEF BooksOK, DataOK
  <1>4. ASSUME NEW x \in restored'
        PROVE  x \in DOMAIN rows' /\ Unresolved(rows'[x]) /\ Unresolved(txs'[x])
    <2>1. x \in DOMAIN end.rows /\ x \in Transactions /\ end.rows[x] \in TransactionRecords
      BY <1>1, <1>3, <1>4 DEF Unsettled
    <2>2. Unresolved(Remembered(x, end.rows[x], journal))
      <3>1. Unresolved(end.rows[x]) \/ \E i \in UnresolvedIntents(journal) : journal.intents[i].tx = x
        BY <1>1, <1>4 DEF Unsettled, Doubtful
      <3> QED
        BY <2>1, <3>1, RememberedOK
    <2> QED
      BY <1>1, <1>4, <2>1, <2>2
  <1>5. restored' # {} => "recovery_pending" \in status'.sale_blockers
    <2> SUFFICES ASSUME restored' # {}
                 PROVE  "recovery_pending" \in status'.sale_blockers
      OBVIOUS
    <2>1. status' = SetMachineState(BlockSales(FreshStatus, "recovery_pending"), "RECOVERY_PENDING")
      BY <1>1 DEF Project
    <2> QED
      BY <2>1 DEF SetMachineState, BlockSales, RefreshPermissions, FreshStatus
  <1>6. Frozen'
    BY <1>1, <1>4, <1>5 DEF Frozen, Restart, ReadingLoop, IdleClick
  <1>7. restored \subseteq restored'
    <2> SUFFICES ASSUME NEW x \in restored
                 PROVE  x \in Unsettled(end.rows)
      BY <1>1
    <2>1. x \in known /\ x \in DOMAIN rows /\ Unresolved(rows[x]) /\ Unresolved(txs[x])
      BY DEF Frozen
    <2>2. CASE x \in written
      BY <1>2, <2>1, <2>2, SavingWrites DEF Unsettled
    <2>3. CASE x \notin written
      BY <1>2, <2>1, <2>3, SavingWrites DEF Unsettled
    <2> QED
      BY <2>2, <2>3
  <1> QED
    BY <1>6, <1>7

(* With no payout under way, a start pays nothing; with no command under   *)
(* way, it vends nothing either.                                           *)
LEMMA NothingPaid ==
  ASSUME BooksOK, NEW accounting, CommandsCut(accounting), loop.label # "dispensing_change",
         \A c \in Clicks : clicks[c].label # "refunding"
  PROVE  paidOut' = paidOut
  <1> DEFINE payers == {t \in {"loop"} \cup Clicks : Paying(t)}
  <1>1. payers = {}
    <2>1. ~(loop.label \in {"dispensing_change", "refunding"})
      BY DEF BooksOK, DataOK, LoopOK, LoopRecords, LoopLabels
    <2>2. \A c \in Clicks : ~(clicks[c].label \in {"dispensing_change", "refunding"})
      BY DEF BooksOK, DataOK, ClicksOK, ClickRecords, ClickLabels
    <2> QED
      BY <2>1, <2>2, Labels DEF Paying
  <1>2. PICK part \in [payers -> UNION {SubPlans(PlanOf(t)) : t \in payers}] :
          paidOut' = [x \in Transactions |->
                        PlusCounts(paidOut[x], PiecesOf(part, {t \in payers : Subject(t) = x}))]
    BY DEF CommandsCut, PiecesOf
  <1>3. \A x \in Transactions : {t \in payers : Subject(t) = x} = {}
    BY <1>1
  <1> HIDE DEF payers
  <1>4. PiecesOf(part, {}) = NoPieces
    <2>1. \A d \in Denominations : Total([t \in {} |-> part[t][d]], {}) = 0
      BY FS_EmptySet, SumUnfolds
    <2> QED
      BY <2>1, PiecesOfIs DEF NoPieces
  <1>5. paidOut \in [Transactions -> Counts]
    BY DEF BooksOK, DataOK, CashOK
  <1>6. ASSUME NEW x \in Transactions
        PROVE  PlusCounts(paidOut[x], PiecesOf(part, {t \in payers : Subject(t) = x})) = paidOut[x]
    <2>1. PlusCounts(paidOut[x], NoPieces) = paidOut[x]
      BY <1>5 DEF PlusCounts, NoPieces, Counts
    <2> QED
      BY <1>3, <1>4, <2>1
  <1> QED
    BY <1>2, <1>5, <1>6

LEMMA NothingCut ==
  ASSUME BooksOK, NEW accounting, CommandsCut(accounting), loop.label \in {"read", "dead"},
         \A c \in Clicks : clicks[c].label = "idle"
  PROVE  vends' = vends /\ paidOut' = paidOut
  <1>1. paidOut' = paidOut
    BY NothingPaid
  <1>2. \A t \in Tasks : Command(t) # "vend"
    BY TasksAssumption DEF Tasks, Command, Label, LoopCommand, ClickCommand, TimerCommand
  <1> QED
    BY <1>1, <1>2 DEF CommandsCut

LEMMA FrozenStays ==
  ASSUME BooksOK, Frozen, IsFiniteSet(Clicks), "recover" \notin Operations,
         [DurableNext]_durableVars
  PROVE  /\ Frozen'
         /\ restored # {} =>
              /\ vends' = vends /\ paidOut' = paidOut /\ stacked' = stacked
              /\ restored \subseteq restored'
  <1>1. CASE Restart
    <2>1. \E end : CommandsCut(end.inventory.accounting)
      BY <1>1, RestartReads
    <2>2. restored # {} => vends' = vends /\ paidOut' = paidOut
      BY <2>1, NothingCut DEF Frozen
    <2> QED
      BY <1>1, <2>2, RestartFreezes DEF Restart
  <1>2. CASE ~Restart /\ restored = {}
    <2>1. restored' = restored
      BY <1>2 DEF DurableNext, DurableStep, Durably, Projected, WriteFails, durableVars
    <2> QED
      BY <1>2, <2>1 DEF Frozen
  <1>3. CASE DurableStep /\ restored # {}
    <2>1. StaysFrozen
      BY <1>3, FrozenStep, DurableStepIsNext
    <2>2. rows' = rows /\ restored' = restored
      BY <1>3 DEF DurableStep, Durably
    <2>3. restored \subseteq Transactions
      BY <1>3 DEF Frozen, BooksOK, DataOK, LedgerOK
    <2> QED
      BY <1>3, <2>1, <2>2, <2>3 DEF Frozen, StaysFrozen, Moveless, money
  <1>4. CASE Projected /\ restored # {}
    <2>1. UNCHANGED <<kioskVars, restored>>
      BY <1>4 DEF Projected
    <2>2. Frozen'
      <3>1. rows' = Saving(Persisted(Head(unwritten).tx))
        BY <1>4 DEF Projected
      <3>2. \A x \in restored : x \in DOMAIN rows' /\ Unresolved(rows'[x])
        BY <1>4, <3>1, SavingWrites DEF Frozen
      <3> QED
        BY <1>4, <2>1, <3>2
        DEF Frozen, kioskVars, vars, machine, ledger, ui, bills, Unresolved, Terminal
    <2> QED
      BY <2>1, <2>2 DEF kioskVars, vars, goods, money, bills
  <1>5. CASE WriteFails /\ restored # {}
    <2>1. /\ UNCHANGED <<ledger, ui, bills, money, goods, disk, restored>>
      BY <1>5 DEF WriteFails
    <2>2. /\ loop'.label \in {"read", "dead"} /\ \A c \in Clicks : clicks'[c].label = "idle"
          /\ status'.sale_blockers = status.sale_blockers
      <3>1. CASE UNCHANGED <<clicks, timers>> /\ LoopDies /\ (PayoutRaises \/ UNCHANGED machine)
        <4>1. UNCHANGED machine
          BY <1>5 DEF WriteFails, PublishRaises, Frozen, machine
        <4> QED
          BY <1>5, <3>1, <4>1 DEF Frozen, LoopDies, DeadLoop, ReadingLoop, machine
      <3>2. CASE \E c \in Clicks : EndClick(c) /\ UNCHANGED <<machine, loop, timers>>
        BY <1>5, <3>2 DEF Frozen, EndClick, IdleClick, machine, BooksOK, DataOK, ClicksOK
      <3>3. CASE \E x \in Transactions :
                   TimerGoesTo(x, "idle") /\ UNCHANGED <<machine, loop, clicks>>
        BY <1>5, <3>3 DEF Frozen, machine
      <3> QED
        BY <1>5, <3>1, <3>2, <3>3, PublishRaisesKinds
    <2> QED
      BY <1>5, <2>1, <2>2 DEF Frozen, disk, ledger, ui, bills, money, goods
  <1>6. CASE UNCHANGED durableVars /\ restored # {}
    BY <1>6 DEF Frozen, durableVars, disk, kioskVars, vars, machine, ledger, ui, bills, money, goods
  <1> QED
    BY <1>1, <1>2, <1>3, <1>4, <1>5, <1>6 DEF DurableNext

(* A sale that a restart has brought back unsettled keeps the machine from *)
(* selling, through service mode and through further restarts, for any     *)
(* number of transactions, clicks, failures, database errors and crashes,  *)
(* until an operator recovers it.                                          *)
THEOREM RestoredSalesBlockSales ==
  ASSUME IsFiniteSet(Clicks), "recover" \notin Operations
  PROVE  DurableSpec => []RestoredSaleBlocksSales
  <1>1. DurableInit => Frozen
    BY DEF DurableInit, Frozen
  <1>2. BooksOK /\ Frozen /\ [DurableNext]_durableVars => Frozen'
    BY FrozenStays
  <1>3. BooksOK /\ Frozen => RestoredSaleBlocksSales
    BY DEF BooksOK, StatusFollows, Frozen, RestoredSaleBlocksSales, SalesAllowed
  <1> QED
    BY <1>1, <1>2, <1>3, BooksAlwaysOK, PTL DEF DurableSpec

(* And while it waits for the operator nothing moves: no bill is taken, no *)
(* motor runs, no piece is paid, and no restart forgets it.                *)
RestoredMachineStandsStill ==
  [][restored # {} =>
       /\ vends' = vends /\ paidOut' = paidOut /\ stacked' = stacked
       /\ restored \subseteq restored']_durableVars

THEOREM RestoredMachinesStandStill ==
  ASSUME IsFiniteSet(Clicks), "recover" \notin Operations
  PROVE  DurableSpec => RestoredMachineStandsStill
  <1>1. DurableInit => Frozen
    BY DEF DurableInit, Frozen
  <1>2. BooksOK /\ Frozen /\ [DurableNext]_durableVars => Frozen'
    BY FrozenStays
  <1>3. BooksOK /\ Frozen /\ [DurableNext]_durableVars =>
          [restored # {} =>
             /\ vends' = vends /\ paidOut' = paidOut /\ stacked' = stacked
             /\ restored \subseteq restored']_durableVars
    BY FrozenStays
  <1> QED
    BY <1>1, <1>2, <1>3, BooksAlwaysOK, PTL DEF DurableSpec, RestoredMachineStandsStill

-----------------------------------------------------------------------------
(***************************************************************************)
(* The motor, across the starts of the program.  What keeps it from        *)
(* running twice in one life of the program (LifeInv) begins afresh when a *)
(* start brings nothing back, and is not needed when it does: a machine    *)
(* with a restored sale is frozen.  From one life to the next nothing is   *)
(* remembered but the disk, so a transaction whose motor has run is on it: *)
(* no new transaction gets its identity.                                   *)
(***************************************************************************)
LifeHolds == restored = {} => LifeInv
VendedSaved == \A x \in Transactions : vends[x] > 0 => x \in DOMAIN rows
LoopWaitsForWrite ==
  \E i \in DOMAIN unwritten : unwritten[i] = [by |-> "loop", tx |-> loop.tx]
VendAwaitsRow == loop.label = "vending" => loop.tx \in DOMAIN rows \/ LoopWaitsForWrite

EventRecords == [by : Tasks \cup {NoTx}, tx : Transactions \cup {NoTx}]
UnwrittenOK == unwritten \in Seq(EventRecords)

MotorInv ==
  LifeHolds /\ QueueOK /\ VendedSaved /\ VendAwaitsRow /\ UnwrittenOK /\ AtMostOneVend

(* Between two awaits the motor runs for the loop's sale or not at all.    *)
MotorMayRun == vends' = vends \/ (loop.label = "vending" /\ MotorRuns)
VendingEntered ==
  loop'.label = "vending" =>
    loop'.tx = loop.tx /\ loop.label \in ToMotor

LEMMA FormsAndMotor ==
  ASSUME Forms
  PROVE  MotorMayRun /\ VendingEntered
  BY DEF Forms, MotorMayRun, VendingEntered, Elsewhere, Reserves, Opens, Creates, LoopForms,
         LoopStays, LoopAt, Reads, Credits, Disables, Accepts, Advances, MovesOn, ToMotor, MotorRuns

(* Where the loop waits for the write of the event it publishes.           *)
LoopAwaits ==
  \/ loop'.label \in {"change_requested", "vending"}
  \/ loop.label = "dispensing_change" /\ loop'.label = "vend_authorized"

(* The events a step publishes are appended to those that wait.            *)
LEMMA SubjectsTyped ==
  ASSUME DataOK, NEW t \in Tasks
  PROVE  Subject(t) \in Transactions \cup {NoTx}
  <1>1. CASE t = "loop"
    BY <1>1, TasksAssumption DEF Subject, DataOK, LoopOK, LoopRecords
  <1>2. CASE t \in Clicks
    BY <1>2, TasksAssumption DEF Subject, DataOK, ClicksOK, ClickRecords
  <1>3. CASE t \in Transactions
    BY <1>3, TasksAssumption DEF Subject
  <1> QED
    BY <1>1, <1>2, <1>3 DEF Tasks

LEMMA UnwrittenGrows ==
  ASSUME DataOK, DataOK', UnwrittenOK, QueueOK, Scheduled, Durably
  PROVE  /\ UnwrittenOK'
         /\ \E more \in Seq(EventRecords) : unwritten' = unwritten \o more
         /\ \A t \in Tasks :
              Moves(t) /\ PublishedBy(t) = Event(t, MovedSubject(t)) =>
                \E i \in DOMAIN unwritten' :
                  unwritten'[i] = [by |-> t, tx |-> MovedSubject(t)]
         /\ Moves("loop") /\ LoopAwaits =>
              \E i \in DOMAIN unwritten' :
                unwritten'[i] = [by |-> "loop", tx |-> MovedSubject("loop")]
  <1>1. PublishedByNobody \in Seq(EventRecords)
    <2>1. /\ [by |-> "loop", tx |-> NoTx] \in EventRecords
          /\ [by |-> NoTx, tx |-> NoTx] \in EventRecords
      BY DEF EventRecords, Tasks
    <2>2. PublishedByNobody \in
            {<<[by |-> "loop", tx |-> NoTx]>>, <<[by |-> NoTx, tx |-> NoTx]>>, <<>>}
      BY DEF PublishedByNobody, Event
    <2>3. <<>> \in Seq(EventRecords) /\ \A e \in EventRecords : <<e>> \in Seq(EventRecords)
      OBVIOUS
    <2>4. /\ <<[by |-> "loop", tx |-> NoTx]>> \in Seq(EventRecords)
          /\ <<[by |-> NoTx, tx |-> NoTx]>> \in Seq(EventRecords)
      BY <2>1, <2>3
    <2> QED
      BY <2>2, <2>3, <2>4
  <1>2. ASSUME NEW t \in Tasks
        PROVE  PublishedBy(t) \in Seq(EventRecords)
    <2>1. Subject(t) \in Transactions \cup {NoTx} /\ (Subject(t) \in Transactions \cup {NoTx})'
      <3>1. Subject(t) \in Transactions \cup {NoTx}
        BY SubjectsTyped
      <3>2. (Subject(t) \in Transactions \cup {NoTx})'
        <4>1. CASE t = "loop"
          BY <4>1, TasksAssumption DEF Subject, DataOK, LoopOK, LoopRecords
        <4>2. CASE t \in Clicks
          BY <4>2, TasksAssumption DEF Subject, DataOK, ClicksOK, ClickRecords
        <4>3. CASE t \in Transactions
          BY <4>3, TasksAssumption DEF Subject
        <4> QED
          BY <4>1, <4>2, <4>3 DEF Tasks
      <3> QED
        BY <3>1, <3>2
    <2>2. MovedSubject(t) \in Transactions \cup {NoTx}
      BY <2>1 DEF MovedSubject
    <2>3. Event(t, MovedSubject(t)) \in Seq(EventRecords) /\ Event(NoTx, MovedSubject(t)) \in Seq(EventRecords)
      BY <2>2 DEF Event, EventRecords
    <2>4. PublishedBy(t) \in {Event(t, MovedSubject(t)), Event(NoTx, MovedSubject(t)), <<>>}
      BY DEF PublishedBy
    <2>5. <<>> \in Seq(EventRecords)
      OBVIOUS
    <2> QED
      BY <2>3, <2>4, <2>5
  <1>3. \E more \in Seq(EventRecords) : unwritten' = unwritten \o more
    <2>1. CASE unwritten' = unwritten \o PublishedByNobody
      BY <1>1, <2>1
    <2>2. ASSUME NEW t \in Tasks, unwritten' = unwritten \o PublishedBy(t) \o PublishedByNobody
          PROVE  \E more \in Seq(EventRecords) : unwritten' = unwritten \o more
      <3>1. PICK p \in Seq(EventRecords) : p = PublishedBy(t)
        BY <1>2
      <3>2. PICK q \in Seq(EventRecords) : q = PublishedByNobody
        BY <1>1
      <3>3. p \o q \in Seq(EventRecords) /\ unwritten \o p \o q = unwritten \o (p \o q)
        BY ConcatAssociative DEF UnwrittenOK
      <3> QED
        BY <2>2, <3>1, <3>2, <3>3
    <2> QED
      BY <2>1, <2>2 DEF Durably
  <1>4. ASSUME NEW t \in Tasks, Moves(t), PublishedBy(t) = Event(t, MovedSubject(t))
        PROVE  \E i \in DOMAIN unwritten' :
                 unwritten'[i] = [by |-> t, tx |-> MovedSubject(t)]
    <2>1. PICK u \in Tasks :
            Moves(u) /\ unwritten' = unwritten \o PublishedBy(u) \o PublishedByNobody
      BY <1>4 DEF Durably
    <2>2. u = t
      BY <1>4, <2>1, Turns
    <2>3. PICK q \in Seq(EventRecords) : q = PublishedByNobody
      BY <1>1
    <2>4. PICK e \in EventRecords : e = [by |-> t, tx |-> MovedSubject(t)]
      <3>1. <<[by |-> t, tx |-> MovedSubject(t)]>> \in Seq(EventRecords)
        BY <1>2, <1>4 DEF Event
      <3> QED
        BY <3>1
    <2>5. unwritten' = unwritten \o <<e>> \o q
      BY <1>4, <2>1, <2>2, <2>3, <2>4 DEF Event
    <2>6. /\ Len(unwritten) + 1 \in DOMAIN (unwritten \o <<e>> \o q)
          /\ (unwritten \o <<e>> \o q)[Len(unwritten) + 1] = e
      BY DEF UnwrittenOK
    <2> QED
      BY <2>4, <2>5, <2>6
  <1>5. UnwrittenOK'
    BY <1>3 DEF UnwrittenOK
  <1>6. LoopAwaits => PublishedBy("loop") = Event("loop", MovedSubject("loop"))
    BY Labels DEF LoopAwaits, PublishedBy, PublishLabels, Event
  <1>7. "loop" \in Tasks
    BY DEF Tasks
  <1> QED
    BY <1>3, <1>4, <1>5, <1>6, <1>7

(* The loop can end at any point, and the machine may have left the states *)
(* of a payment by then.                                                   *)
LEMMA LoopDeathKeeps ==
  ASSUME DataOK, LifeInv, Scheduled, loop'.label = "dead", FsmLeaves,
         UNCHANGED <<ledger, clicks, vends, answered>>
  PROVE  LifeInv'
  <1>1. QueueOK'
    BY Order DEF LifeInv
  <1>2. TasksKnown' /\ VendedOnce' /\ LateBills'
    BY DEF LifeInv, TasksKnown, VendedOnce, LateBills, ledger, Opening, Started, Reserved, Sessioned,
           ToMotor
  <1>3. PaymentStates'
    BY DEF LifeInv, PaymentStates, FsmLeaves, CashStates, ledger, ToMotor
  <1>4. OpeningClicks'
    <2>1. \A c, d \in Clicks : Before(c, d) => Before(c, d)'
      BY Order DEF LifeInv, Same
    <2> QED
      BY <2>1 DEF LifeInv, OpeningClicks, ledger, Opening, Started, Reserved, Sessioned
  <1> QED
    BY <1>1, <1>2, <1>3, <1>4 DEF LifeInv

LEMMA WriteFailsKeepsLife ==
  ASSUME DataOK, LifeInv, WriteFails
  PROVE  LifeInv'
  <1>1. UNCHANGED <<ledger, vends, answered>> /\ Scheduled
    BY DEF WriteFails, goods
  <1>2. CASE UNCHANGED <<clicks, timers>> /\ LoopDies /\ (PayoutRaises \/ UNCHANGED machine)
    <2>1. loop'.label = "dead"
      BY <1>2 DEF LoopDies, DeadLoop, ReadingLoop
    <2>2. FsmLeaves
      BY <1>2, PayoutRaisesLeaves DEF FsmLeaves, machine
    <2> QED
      BY <1>1, <1>2, <2>1, <2>2, LoopDeathKeeps
  <1>3. CASE UNCHANGED <<machine, loop>> /\ NobodyOpens
    <2>1. Elsewhere
      BY <1>1, <1>3
      DEF Elsewhere, LoopStays, DisabledStays, SessionsStay, FsmLeaves, ledger, machine, Sessioned
    <2> QED
      BY <1>1, <2>1, ElsewhereKeeps
  <1>4. ASSUME NEW c \in Clicks, EndClick(c)
        PROVE  NobodyOpens
    BY <1>4, ClickElsewhere
  <1>5. UNCHANGED clicks => NobodyOpens
    BY DEF NobodyOpens
  <1> QED
    BY <1>2, <1>3, <1>4, <1>5, PublishRaisesKinds

(* What a restart finds of the motor: it ran, or it may have run for the   *)
(* sale the loop was vending, whose row had been written by then.          *)
LEMMA RestartVends ==
  ASSUME BooksOK, VendAwaitsRow, NEW accounting, CommandsCut(accounting)
  PROVE  vends' = vends \/ (loop.label = "vending" /\ MotorRuns /\ loop.tx \in DOMAIN rows)
  <1>1. ASSUME NEW t \in Tasks, Sent(t), Command(t) = "vend"
        PROVE  loop.label = "vending" /\ loop.tx \in DOMAIN rows
    <2>1. t = "loop" /\ Label(t) = "vending"
      BY <1>1, TasksAssumption DEF Tasks, Command, LoopCommand, ClickCommand, TimerCommand
    <2>2. loop.label = "vending" /\ MayMove("loop")
      BY <1>1, <2>1, Labels DEF Sent
    <2>3. ~LoopWaitsForWrite
      BY <2>2 DEF MayMove, LoopWaitsForWrite
    <2> QED
      BY <2>2, <2>3 DEF VendAwaitsRow
  <1> QED
    BY <1>1 DEF CommandsCut

LEMMA RestartKeepsMotor ==
  ASSUME BooksOK, Frozen, MotorInv, Restart
  PROVE  MotorInv'
  <1>1. PICK end \in DiskAtTheEnd :
          /\ known' = restored' /\ active' \in restored' \cup {NoTx}
          /\ DOMAIN rows' = DOMAIN end.rows
          /\ IF restored' = {}
             THEN Project("IDLE", FreshStatus)
             ELSE Project("RECOVERY_PENDING", BlockSales(FreshStatus, "recovery_pending"))
          /\ CommandsCut(end.inventory.accounting)
    BY RestartReads
  <1>2. DOMAIN rows \subseteq DOMAIN rows'
    BY <1>1, DiskAtTheEndIs, SavingWrites
  <1>3. vends' = vends \/ (loop.label = "vending" /\ MotorRuns /\ loop.tx \in DOMAIN rows)
    BY <1>1, RestartVends DEF MotorInv
  <1>4. vends \in [Transactions -> Nat]
    BY DEF BooksOK, DataOK, GoodsOK
  <1>5. VendedSaved'
    BY <1>2, <1>3, <1>4 DEF MotorInv, VendedSaved, MotorRuns
  <1>6. AtMostOneVend'
    <2>1. loop.label = "vending" => vends[loop.tx] = 0
      BY DEF MotorInv, LifeHolds, LifeInv, VendedOnce, ToMotor, Frozen
    <2> QED
      BY <1>3, <1>4, <2>1 DEF MotorInv, AtMostOneVend, MotorRuns
  <1>7. UnwrittenOK' /\ VendAwaitsRow'
    BY DEF Restart, UnwrittenOK, VendAwaitsRow, ReadingLoop
  <1>8. /\ loop'.label = "read" /\ \A c \in Clicks : clicks'[c].label = "idle"
        /\ \A x \in Transactions : timers'[x] = "idle"
        /\ ready' = <<>>
    BY DEF Restart, ReadingLoop, IdleClick
  <1>9. QueueOK'
    <2>1. \A t \in Tasks : ~Enqueued(t)'
      BY <1>8, TasksAssumption DEF Tasks, Enqueued, PublishLabels, Label
    <2> QED
      BY <1>8, <2>1 DEF QueueOK, OnceEach, In
  <1>10. LifeHolds'
    <2> SUFFICES ASSUME restored' = {}
                 PROVE  LifeInv'
      BY DEF LifeHolds
    <2>1. known' = {} /\ active' = NoTx /\ fsm' = "IDLE"
      BY <1>1 DEF Project
    <2>2. TasksKnown' /\ VendedOnce' /\ PaymentStates' /\ OpeningClicks' /\ LateBills'
      BY <1>8, <2>1 DEF TasksKnown, VendedOnce, PaymentStates, OpeningClicks, LateBills, Opening,
                        Started, Reserved, ToMotor
    <2> QED
      BY <1>9, <2>2 DEF LifeInv
  <1> QED
    BY <1>5, <1>6, <1>7, <1>9, <1>10 DEF MotorInv

(* A step of the running program.                                          *)
LEMMA LifeGoesOn ==
  ASSUME DataOK, LifeInv, Scheduled, Forms, \A x \in known' \ known : vends[x] = 0
  PROVE  LifeInv'
  <1>1. ASSUME NEW c \in Clicks, NEW x \in Transactions, Creates(c, x)
        PROVE  LifeInv'
    BY <1>1, CreatesKeeps DEF Creates
  <1> QED
    BY <1>1, ElsewhereKeeps, ReservesKeeps, OpensKeeps, LoopFormsKeep DEF Forms

LEMMA StepKeepsMotor ==
  ASSUME BooksOK, BooksOK', Frozen, MotorInv, WorstCaseChange > 0, "recover" \notin Operations,
         DurableStep
  PROVE  MotorInv'
  <1>0. Next /\ Scheduled /\ Durably /\ DataOK /\ DataOK'
    BY DurableStepIsNext DEF DurableStep, KioskStep, BooksOK
  <1>1. restored' = restored /\ rows' = rows
    BY <1>0 DEF Durably
  <1>2. UnwrittenOK' /\ QueueOK'
    BY <1>0, UnwrittenGrows, Turns DEF MotorInv
  <1>3. CASE restored # {}
    <2>1. StaysFrozen /\ loop.label # "vending"
      BY <1>0, <1>3, FrozenStep DEF Frozen
    <2> QED
      BY <1>1, <1>2, <1>3, <2>1
      DEF MotorInv, StaysFrozen, Moveless, LifeHolds, VendedSaved, VendAwaitsRow, AtMostOneVend
  <1>4. CASE restored = {}
    <2>1. LifeInv /\ Forms /\ MotorMayRun /\ VendingEntered
      BY <1>0, <1>4, NextForms, FormsAndMotor DEF MotorInv, LifeHolds
    <2>2. vends \in [Transactions -> Nat] /\ known' \subseteq Transactions
      BY <1>0 DEF DataOK, GoodsOK, LedgerOK
    <2>3. LifeInv'
      <3>1. \A x \in known' \ known : vends[x] = 0
        BY <1>0, <2>2 DEF MotorInv, VendedSaved, Durably
      <3> QED
        BY <1>0, <2>1, <3>1, LifeGoesOn
    <2>4. loop.label = "vending" /\ MotorRuns /\ vends' # vends => loop.tx \in DOMAIN rows
      <3> SUFFICES ASSUME loop.label = "vending", vends' # vends
                   PROVE  loop.tx \in DOMAIN rows
        OBVIOUS
      <3>1. loop'.label # "vending"
        BY <2>1 DEF Forms, Elsewhere, Reserves, Opens, Creates, LoopForms, Reads, Credits, Disables,
                    Accepts, Advances, MovesOn
      <3>2. Moves("loop") /\ "loop" \in Tasks
        BY <3>1, Labels DEF Moves, Tasks
      <3>3. ~LoopWaitsForWrite
        BY <1>0, <3>2 DEF Durably, MayMove, LoopWaitsForWrite
      <3> QED
        BY <3>3 DEF MotorInv, VendAwaitsRow
    <2>5. VendedSaved' /\ AtMostOneVend'
      <3>1. loop.label = "vending" => vends[loop.tx] = 0
        BY <2>1 DEF LifeInv, VendedOnce, ToMotor
      <3> QED
        BY <1>1, <2>1, <2>2, <2>4, <3>1 DEF MotorInv, MotorMayRun, MotorRuns, VendedSaved, AtMostOneVend
    <2>6. VendAwaitsRow'
      <3> SUFFICES ASSUME loop'.label = "vending"
                   PROVE  loop.tx \in DOMAIN rows \/ LoopWaitsForWrite'
        BY <1>1, <2>1 DEF VendAwaitsRow, VendingEntered
      <3>1. loop'.tx = loop.tx /\ loop.tx \in Transactions
        BY <1>0, <2>1 DEF VendingEntered, DataOK, LoopOK, ToMotor
      <3>2. CASE loop.label = "vending" /\ LoopWaitsForWrite
        <4>1. PICK more \in Seq(EventRecords) : unwritten' = unwritten \o more
          BY <1>0, UnwrittenGrows DEF MotorInv
        <4>2. PICK i \in DOMAIN unwritten : unwritten[i] = [by |-> "loop", tx |-> loop.tx]
          BY <3>2 DEF LoopWaitsForWrite
        <4>3. i \in DOMAIN (unwritten \o more) /\ (unwritten \o more)[i] = unwritten[i]
          BY <4>2 DEF MotorInv, UnwrittenOK
        <4> QED
          BY <3>1, <4>1, <4>2, <4>3 DEF LoopWaitsForWrite
      <3>3. CASE loop.label # "vending"
        <4>1. Moves("loop")
          BY <3>3, Labels DEF Moves
        <4>2. MovedSubject("loop") = loop.tx
          BY <3>1, KioskAssumption, TasksAssumption DEF MovedSubject, Subject
        <4> QED
          BY <1>0, <3>1, <4>1, <4>2, UnwrittenGrows DEF MotorInv, LoopWaitsForWrite, LoopAwaits
      <3> QED
        BY <3>2, <3>3 DEF MotorInv, VendAwaitsRow
    <2> QED
      BY <1>1, <1>2, <2>3, <2>5, <2>6 DEF MotorInv, LifeHolds
  <1> QED
    BY <1>3, <1>4

(* The writes of the projector, done or failed.                            *)
LEMMA HeadWritten ==
  ASSUME UnwrittenOK, unwritten # <<>>, unwritten' = Tail(unwritten), loop'.tx = loop.tx,
         LoopWaitsForWrite
  PROVE  Head(unwritten) = [by |-> "loop", tx |-> loop.tx] \/ LoopWaitsForWrite'
  <1>1. PICK i \in 1 .. Len(unwritten) : unwritten[i] = [by |-> "loop", tx |-> loop.tx]
    BY DEF LoopWaitsForWrite, UnwrittenOK
  <1>2. CASE i = 1
    BY <1>1, <1>2 DEF UnwrittenOK
  <1>3. CASE i # 1
    <2>1. i - 1 \in DOMAIN Tail(unwritten) /\ Tail(unwritten)[i - 1] = unwritten[i]
      BY <1>1, <1>3 DEF UnwrittenOK
    <2> QED
      BY <1>1, <2>1 DEF LoopWaitsForWrite
  <1> QED
    BY <1>2, <1>3

LEMMA WriteKeepsMotor ==
  ASSUME BooksOK, Frozen, MotorInv, Projected
  PROVE  MotorInv'
  <1>1. UNCHANGED <<kioskVars, restored>> /\ unwritten # <<>> /\ unwritten' = Tail(unwritten)
    BY DEF Projected
  <1>2. rows' = Saving(Persisted(Head(unwritten).tx))
    BY DEF Projected
  <1>3. DOMAIN rows' = Persisted(Head(unwritten).tx) \cup DOMAIN rows
    BY <1>2, SavingWrites
  <1>4. UnwrittenOK'
    BY <1>1 DEF MotorInv, UnwrittenOK
  <1>5. LifeHolds' /\ QueueOK' /\ AtMostOneVend'
    BY <1>1 DEF MotorInv, LifeHolds, LifeInv, QueueOK, TasksKnown, VendedOnce, PaymentStates,
      OpeningClicks, LateBills, Opening, Started, Reserved, Sessioned, Before, Enqueued, Label,
      AtMostOneVend, kioskVars, vars, machine, ledger, goods
  <1>6. VendedSaved'
    BY <1>1, <1>3 DEF MotorInv, VendedSaved, kioskVars, vars, goods
  <1>7. VendAwaitsRow'
    <2> SUFFICES ASSUME loop.label = "vending", loop.tx \notin DOMAIN rows
                 PROVE  loop.tx \in DOMAIN rows' \/ LoopWaitsForWrite'
      BY <1>1, <1>3 DEF MotorInv, VendAwaitsRow, kioskVars, vars
    <2>1. loop.tx \in known /\ loop.tx # NoTx
      BY KioskAssumption
      DEF MotorInv, LifeHolds, LifeInv, TasksKnown, Frozen, BooksOK, DataOK, LedgerOK
    <2>2. Head(unwritten) = [by |-> "loop", tx |-> loop.tx] \/ LoopWaitsForWrite'
      BY <1>1, HeadWritten DEF MotorInv, VendAwaitsRow, kioskVars, vars
    <2> QED
      BY <1>3, <2>1, <2>2 DEF Persisted
  <1> QED
    BY <1>4, <1>5, <1>6, <1>7 DEF MotorInv

LEMMA FailedWriteKeepsMotor ==
  ASSUME BooksOK, MotorInv, WriteFails
  PROVE  MotorInv'
  <1>1. /\ UNCHANGED <<rows, restored, vends>> /\ Scheduled
        /\ unwritten # <<>> /\ unwritten' = Tail(unwritten)
    BY DEF WriteFails, disk, goods
  <1>2. UnwrittenOK' /\ QueueOK' /\ VendedSaved' /\ AtMostOneVend'
    BY <1>1, Turns DEF MotorInv, UnwrittenOK, VendedSaved, AtMostOneVend
  <1>3. LifeHolds'
    BY <1>1, WriteFailsKeepsLife DEF MotorInv, LifeHolds, BooksOK
  <1>4. VendAwaitsRow'
    <2>1. CASE Head(unwritten).by = "loop"
      <3>1. loop'.label = "dead"
        BY <2>1, TasksAssumption
        DEF WriteFails, PublishRaises, PayoutRaises, LoopDies, DeadLoop, ReadingLoop
      <3> QED
        BY <3>1 DEF VendAwaitsRow
    <2>2. CASE Head(unwritten).by # "loop"
      <3>1. loop' = loop
        BY <2>2 DEF WriteFails, PublishRaises
      <3>2. Head(unwritten) # [by |-> "loop", tx |-> loop.tx]
        BY <2>2
      <3> QED
        BY <1>1, <3>1, <3>2, HeadWritten DEF MotorInv, VendAwaitsRow
    <2> QED
      BY <2>1, <2>2
  <1> QED
    BY <1>2, <1>3, <1>4 DEF MotorInv

LEMMA MotorInvKept ==
  ASSUME BooksOK, BooksOK', Frozen, MotorInv, WorstCaseChange > 0, "recover" \notin Operations,
         [DurableNext]_durableVars
  PROVE  MotorInv'
  <1>1. CASE UNCHANGED durableVars
    <2>1. UNCHANGED <<kioskVars, rows, unwritten, restored>>
      BY <1>1 DEF durableVars, disk
    <2>2. LifeHolds' /\ QueueOK' /\ AtMostOneVend'
      BY <2>1
      DEF MotorInv, LifeHolds, LifeInv, QueueOK, TasksKnown, VendedOnce, PaymentStates,
        OpeningClicks, LateBills, Opening, Started, Reserved, Sessioned, Before, Enqueued, Label,
        AtMostOneVend, kioskVars, vars, machine, ledger, goods
    <2>3. VendedSaved' /\ VendAwaitsRow' /\ UnwrittenOK'
      BY <2>1
      DEF MotorInv, VendedSaved, VendAwaitsRow, LoopWaitsForWrite, UnwrittenOK, kioskVars, vars, goods
    <2> QED
      BY <2>2, <2>3 DEF MotorInv
  <1> QED
    BY <1>1, RestartKeepsMotor, StepKeepsMotor, WriteKeepsMotor, FailedWriteKeepsMotor
    DEF DurableNext

LEMMA MotorInvAtFirst ==
  ASSUME DurableInit
  PROVE  MotorInv
  <1>1. /\ loop.label = "read" /\ \A c \in Clicks : clicks[c].label = "idle"
        /\ \A x \in Transactions : timers[x] = "idle"
        /\ ready = <<>> /\ known = {} /\ active = NoTx /\ fsm = "IDLE"
        /\ unwritten = <<>> /\ vends = [x \in Transactions |-> 0]
    BY DEF DurableInit, KioskInit, Init, ReadingLoop, IdleClick
  <1>2. QueueOK
    <2>1. \A t \in Tasks : ~Enqueued(t)
      BY <1>1, TasksAssumption DEF Tasks, Enqueued, PublishLabels, Label
    <2> QED
      BY <1>1, <2>1 DEF QueueOK, OnceEach, In
  <1>3. TasksKnown /\ VendedOnce /\ PaymentStates /\ OpeningClicks /\ LateBills
    BY <1>1 DEF TasksKnown, VendedOnce, PaymentStates, OpeningClicks, LateBills, Opening,
                Started, Reserved, ToMotor
  <1> QED
    BY <1>1, <1>2, <1>3
    DEF MotorInv, LifeHolds, LifeInv, VendedSaved, VendAwaitsRow, UnwrittenOK, AtMostOneVend

LEMMA FrozenAlways ==
  ASSUME IsFiniteSet(Clicks), "recover" \notin Operations
  PROVE  DurableSpec => []Frozen
  <1>1. DurableInit => Frozen
    BY DEF DurableInit, Frozen
  <1>2. BooksOK /\ Frozen /\ [DurableNext]_durableVars => Frozen'
    BY FrozenStays
  <1> QED
    BY <1>1, <1>2, BooksAlwaysOK, PTL DEF DurableSpec

LEMMA MotorInvariant ==
  ASSUME IsFiniteSet(Clicks), WorstCaseChange > 0, "recover" \notin Operations
  PROVE  DurableSpec => []MotorInv
  <1>1. DurableInit => MotorInv
    BY MotorInvAtFirst
  <1>2. BooksOK /\ (BooksOK)' /\ Frozen /\ MotorInv /\ [DurableNext]_durableVars => MotorInv'
    BY MotorInvKept
  <1> QED
    BY <1>1, <1>2, BooksAlwaysOK, FrozenAlways, PTL DEF DurableSpec

(* The motor runs at most once for a transaction, however often the        *)
(* program is cut and started again.                                       *)
THEOREM MotorRunsOnceAcrossRestarts ==
  ASSUME IsFiniteSet(Clicks), WorstCaseChange > 0, "recover" \notin Operations
  PROVE  DurableSpec => []AtMostOneVend
  <1>1. MotorInv => AtMostOneVend
    BY DEF MotorInv
  <1> QED
    BY <1>1, MotorInvariant, PTL

-----------------------------------------------------------------------------
(***************************************************************************)
(* The payment of a sale that gets its product is on disk.  The loop vends *)
(* when the write of its last event is through (VendingPaid), and what has *)
(* been written is not written over: a payment that has been confirmed is  *)
(* taken back only by a recovery, and the recovery that a technician has   *)
(* started for a sale not paid yet is through before the loop goes on with *)
(* the payment (RecoveryInTime), because it has published before.          *)
(***************************************************************************)
Confirmed(x) == txs[x].payment_status = "confirmed"
Recorded(x) == x \in DOMAIN rows /\ rows[x].payment_status = "confirmed"
Recovering(c) == clicks[c].label = "recovering"

SessionsOnce ==
  /\ \A c \in Clicks : Opening(c) => ~Sessioned(clicks[c].tx) /\ ~Confirmed(clicks[c].tx)
  /\ \A c, d \in Clicks : Opening(c) /\ Opening(d) /\ c # d => clicks[c].tx # clicks[d].tx
  /\ loop.label \in ToMotor \cup {"amount_updated", "disabling"} => Sessioned(loop.tx)

VendedPaid == \A x \in Transactions : vends[x] > 0 => Recorded(x) /\ (x \in known => Confirmed(x))
VendingPaid ==
  loop.label = "vending" => Confirmed(loop.tx) /\ (Recorded(loop.tx) \/ LoopWaitsForWrite)

RecoveryInTime ==
  \A c \in Clicks : Recovering(c) =>
    /\ clicks[c].tx \in known /\ vends[clicks[c].tx] = 0
    /\ loop.tx = clicks[c].tx =>
         /\ loop.label # "vending"
         /\ loop.label \in {"change_requested", "dispensing_change", "vend_authorized"} =>
              ~Confirmed(loop.tx)
         /\ loop.label = "payment_confirmed" /\ Confirmed(loop.tx) => Before(c, "loop")

PaidInv ==
  /\ QueueOK /\ UnwrittenOK /\ NobodyCancels /\ TasksKnown
  /\ SessionsOnce /\ RecoveryInTime /\ VendedPaid /\ VendingPaid

-----------------------------------------------------------------------------
(* The steps, as far as a payment is concerned.                            *)
PaymentStays(x) == Confirmed(x)' <=> Confirmed(x)
PaymentsStay == \A x \in known : PaymentStays(x)
NobodyRecovers ==
  \A c \in Clicks :
    clicks'[c].label = "recovering" => Recovering(c) /\ clicks'[c].tx = clicks[c].tx

LeavesUnpaid(c) ==
  \A x \in known : IF x = clicks[c].tx THEN ~Confirmed(x)' ELSE PaymentStays(x)

Quiet == Elsewhere /\ PaymentsStay /\ NobodyRecovers
StartsRecovery(c, x) ==
  /\ Elsewhere /\ PaymentsStay /\ Others(c)
  /\ x \in known /\ ~Confirmed(x) /\ clicks'[c].label = "recovering" /\ clicks'[c].tx = x
EndsRecovery(c) ==
  /\ Elsewhere /\ NobodyRecovers /\ Others(c) /\ Recovering(c) /\ clicks'[c].label = "idle"
  /\ LeavesUnpaid(c)
CreatesUnpaid(c, x) == Creates(c, x) /\ PaymentsStay /\ ~Confirmed(x)'
ReservesUnpaid(c) == Reserves(c) /\ PaymentsStay
OpensUnpaid(c) ==
  /\ Opening(c) /\ clicks'[c].label \in {"enabling", "idle"} /\ Others(c)
  /\ LoopStays /\ vends' = vends /\ known' = known /\ active' = active
  /\ \A x \in known : Sessioned(x)' <=> Sessioned(x) \/ x = clicks[c].tx
  /\ LeavesUnpaid(c)
LoopPays ==
  /\ Elsewhere \/ LoopForms
  /\ clicks' = clicks
  /\ \/ PaymentsStay
     \/ /\ loop.label = "amount_updated"
        /\ loop'.label \in {"disabling", "payment_confirmed", "dead"}
        /\ \A x \in known \ {loop.tx} : PaymentStays(x)
        /\ \A x \in known : Confirmed(x) => Confirmed(x)'
  /\ loop'.label = "vending" /\ loop.label # "vending" =>
       loop.label = "vend_authorized" /\ Confirmed(loop.tx)

PaymentForms ==
  \/ Quiet \/ LoopPays
  \/ \E c \in Clicks :
       \/ EndsRecovery(c) \/ ReservesUnpaid(c) \/ OpensUnpaid(c)
       \/ \E x \in Transactions : StartsRecovery(c, x) \/ CreatesUnpaid(c, x)

(* Of the methods of a transaction, four touch the payment.                *)
SamePayment(r, s) == r.payment_status = "confirmed" <=> s.payment_status = "confirmed"

LEMMA MethodsKeepPayment ==
  ASSUME NEW x \in TransactionRecords
  PROVE  /\ \A plan : SamePayment(AttachChangeReserve(x, plan), x)
         /\ SamePayment(DropReserve(x), x)
         /\ \A bill : SamePayment(RecordStackedCash(x, bill), x)
         /\ \A plan : SamePayment(MarkChangePending(AttachChangeReserve(x, plan)), x)
         /\ SamePayment(MarkChangeDispensed(x), x)
         /\ SamePayment(MarkChangePartial(x), x)
         /\ SamePayment(AuthorizeVend(x), x)
         /\ SamePayment(MarkProductDispensed(x), x)
         /\ SamePayment(MarkWindowOpened(x), x)
         /\ SamePayment(ConfirmPickup(x), x)
         /\ SamePayment(MarkWindowClosed(x), x)
         /\ SamePayment(MarkPickupTimedOutWindowClosed(x), x)
         /\ SamePayment(MarkFaulted(x), x)
         /\ SamePayment(MarkAmbiguous(x), x)
         /\ AttachPaymentSession(x).payment_status # "confirmed"
         /\ Cancel(x).payment_status # "confirmed"
  BY DEF TransactionRecords, SamePayment, AttachChangeReserve, DropReserve, RecordStackedCash,
         MarkChangePending, MarkChangeDispensed, MarkChangePartial, AuthorizeVend,
         MarkProductDispensed, MarkWindowOpened, ConfirmPickup, MarkWindowClosed,
         MarkPickupTimedOutWindowClosed, MarkFaulted, MarkAmbiguous, AttachPaymentSession, Cancel

LEMMA RecordedPayments ==
  ASSUME DataOK
  PROVE  /\ UNCHANGED txs => PaymentsStay
         /\ \A y \in Transactions : \A r :
              Record(y, r) =>
                /\ \A x \in known \ {y} : PaymentStays(x)
                /\ SamePayment(r, txs[y]) => PaymentsStay
                /\ r.payment_status # "confirmed" => ~Confirmed(y)'
  BY DEF DataOK, LedgerOK, Record, SamePayment, PaymentsStay, PaymentStays, Confirmed

LEMMA ClickAside ==
  ASSUME DataOK, NEW c \in Clicks,
         \/ EndClick(c) \/ UNCHANGED clicks
         \/ \E where, y, plan : Suspend(c, where, y, plan) /\ where # "recovering"
  PROVE  NobodyRecovers /\ Others(c)
  BY DEF EndClick, IdleClick, Suspend, NobodyRecovers, Others, Recovering, DataOK, ClicksOK

LEMMA PaymentLoopPays ==
  ASSUME DataOK, PaymentLoopStep
  PROVE  /\ clicks' = clicks /\ loop'.label # "vending"
         /\ \/ PaymentsStay
            \/ /\ loop.label = "amount_updated"
               /\ loop'.label \in {"disabling", "payment_confirmed", "dead"}
               /\ \A x \in known \ {loop.tx} : PaymentStays(x)
               /\ \A x \in known : Confirmed(x) => Confirmed(x)'
  <1> DEFINE x == txs[loop.tx]
  <1>a. clicks' = clicks
    BY DEF PaymentLoopStep, ReadEvent, ValidatorFault, CreditBill, AwaitMoreCash,
           CompletePayment, AcceptanceDisabled, FinalizeReserve, RequestChange,
           ChangeDispensed, DisableFails, ChangeNotDispensed, ChangeCommandRaises
  <1>1. CASE ReadEvent \/ AwaitMoreCash
    <2>1. PaymentsStay
      BY <1>1, RecordedPayments DEF ReadEvent, AwaitMoreCash, ledger
    <2>2. loop'.label # "vending"
      BY <1>1, LoopDiesTo DEF ReadEvent, AwaitMoreCash, DataOK, LoopOK, LoopRecords
    <2> QED
      BY <1>a, <2>1, <2>2
  <1>2. CASE loop.label \notin {"read", "dead"} /\ ~(ReadEvent \/ AwaitMoreCash)
    <2>1. loop.tx \in Transactions /\ x \in TransactionRecords
      BY <1>2, LoopHasRecord
    <2>2. CASE CompletePayment
      <3>1. loop.label = "amount_updated" /\ \A z \in known \ {loop.tx} : PaymentStays(z)
        BY <2>1, <2>2, RecordedPayments DEF CompletePayment
      <3>2. loop'.label \in {"disabling", "payment_confirmed", "dead"}
        BY <2>2, LoopGoes, LoopProceedsOrDies DEF CompletePayment, AcceptPayment, LoopAt
      <3>3. \A z \in known : Confirmed(z) => Confirmed(z)'
        <4>1. Record(loop.tx, ConfirmPayment(x)) /\ ConfirmPayment(x).payment_status = "confirmed"
          BY <2>1, <2>2 DEF CompletePayment, ConfirmPayment, TransactionRecords
        <4> QED
          BY <4>1 DEF Record, Confirmed, DataOK, LedgerOK
      <3> QED
        BY <1>a, <3>1, <3>2, <3>3
    <2>3. CASE ~CompletePayment
      <3>1. UNCHANGED txs \/ \E r : Record(loop.tx, r) /\ SamePayment(r, x)
        <4> HIDE DEF x
        <4>1. /\ \A plan : SamePayment(MarkChangePending(AttachChangeReserve(x, plan)), x)
              /\ SamePayment(DropReserve(x), x)
              /\ \A bill : SamePayment(RecordStackedCash(x, bill), x)
              /\ SamePayment(MarkChangeDispensed(x), x)
              /\ SamePayment(MarkChangePartial(x), x)
              /\ SamePayment(MarkFaulted(x), x)
              /\ SamePayment(MarkAmbiguous(x), x)
          BY <2>1, MethodsKeepPayment
        <4>2. CASE ValidatorFault \/ CreditBill \/ AcceptanceDisabled \/ RequestChange
          BY <4>1, <4>2 DEF x, ValidatorFault, CreditBill, AcceptanceDisabled, RequestChange, ledger
        <4>3. CASE FinalizeReserve
          BY <4>1, <4>3 DEF x, FinalizeReserve
        <4>4. CASE ChangeDispensed \/ DisableFails \/ ChangeNotDispensed \/ ChangeCommandRaises
          BY <4>1, <4>4
          DEF x, ChangeDispensed, DisableFails, ChangeNotDispensed, ChangeCommandRaises, ledger
        <4> QED
          BY <1>2, <2>3, <4>2, <4>3, <4>4 DEF PaymentLoopStep
      <3>2. PaymentsStay
        BY <2>1, <3>1, RecordedPayments
      <3>3. loop'.label # "vending"
        <4>1. CASE ValidatorFault \/ CreditBill \/ AcceptanceDisabled \/ DisableFails
          BY <4>1, LoopGoes, LoopProceedsOrDies, LoopDiesTo
          DEF ValidatorFault, CreditBill, AcceptanceDisabled, DisableFails, AcceptPayment, LoopAt
        <4>2. CASE FinalizeReserve
          <5>1. \/ LoopGoesTo("vend_authorized") \/ PayoutRaises
                \/ LoopProceeds("DISPENSING_CHANGE", "change_requested", "dispensing")
            BY <4>2 DEF FinalizeReserve
          <5> QED
            BY <5>1, LoopGoes, LoopProceedsOrDies, PayoutRaisesLeaves DEF LoopAt
        <4>3. CASE RequestChange
          <5>1. \/ PayoutRaises
                \/ loop' = [loop EXCEPT !.label = "dispensing_change", !.plan = x.change_reserve]
            BY <4>3 DEF RequestChange
          <5> QED
            BY <5>1, PayoutRaisesLeaves DEF DataOK, LoopOK, LoopRecords
        <4>4. CASE ChangeDispensed \/ ChangeNotDispensed \/ ChangeCommandRaises
          <5>1. PayoutRaises \/ LoopGoesTo("vend_authorized")
            BY <4>4 DEF ChangeDispensed, ChangeNotDispensed, ChangeCommandRaises
          <5> QED
            BY <5>1, LoopGoes, PayoutRaisesLeaves DEF LoopAt
        <4> QED
          BY <1>2, <2>3, <4>1, <4>2, <4>3, <4>4 DEF PaymentLoopStep
      <3> QED
        BY <1>a, <3>2, <3>3
    <2> QED
      BY <2>2, <2>3
  <1> QED
    BY <1>1, <1>2
    DEF PaymentLoopStep, ValidatorFault, CreditBill, CompletePayment, AcceptanceDisabled,
        FinalizeReserve, RequestChange, ChangeDispensed, DisableFails, ChangeNotDispensed,
        ChangeCommandRaises

LEMMA VendLoopPays ==
  ASSUME DataOK, VendLoopStep
  PROVE  /\ clicks' = clicks /\ PaymentsStay
         /\ loop'.label = "vending" => loop.label = "vend_authorized" /\ Confirmed(loop.tx)
  <1> DEFINE x == txs[loop.tx]
  <1>1. loop.label \notin {"read", "dead"} /\ clicks' = clicks
    BY DEF VendLoopStep, VendAuthorized, ProductVended, VendFails, OpenWindow, WindowOpened, OpenFails
  <1>2. loop.tx \in Transactions /\ x \in TransactionRecords
    BY <1>1, LoopHasRecord
  <1>3. PaymentsStay
    <2>1. /\ SamePayment(AuthorizeVend(x), x) /\ SamePayment(MarkProductDispensed(x), x)
          /\ SamePayment(MarkWindowOpened(x), x) /\ SamePayment(MarkFaulted(x), x)
      BY <1>2, MethodsKeepPayment
    <2>2. UNCHANGED txs \/ \E r : Record(loop.tx, r) /\ SamePayment(r, x)
      BY <2>1 DEF VendLoopStep, VendAuthorized, ProductVended, VendFails, OpenWindow, WindowOpened,
                  OpenFails, ledger
    <2> QED
      BY <1>2, <2>2, RecordedPayments
  <1>4. loop'.label = "vending" => loop.label = "vend_authorized" /\ Confirmed(loop.tx)
    <2>1. CASE VendAuthorized
      BY <2>1, LoopDiesTo DEF VendAuthorized, AuthorizeVendReturns, Confirmed
    <2>2. CASE ProductVended \/ VendFails \/ OpenWindow \/ WindowOpened \/ OpenFails
      BY <2>2, LoopGoes, LoopDiesTo, LoopProceedsOrDies
      DEF ProductVended, VendFails, OpenWindow, WindowOpened, OpenFails, LoopAt
    <2> QED
      BY <2>1, <2>2 DEF VendLoopStep
  <1> QED
    BY <1>1, <1>3, <1>4

LEMMA LoopPaymentForms ==
  ASSUME DataOK, LoopStep
  PROVE  LoopPays
  <1>1. Forms /\ clicks' = clicks
    BY PaymentLoopForms, VendLoopForms, PaymentLoopPays, VendLoopPays DEF LoopStep
  <1>2. Elsewhere \/ LoopForms
    BY <1>1 DEF Forms, Reserves, Opens, Creates, Started, Reserved
  <1> QED
    BY <1>1, <1>2, PaymentLoopPays, VendLoopPays DEF LoopStep, LoopPays

(* The clicks.                                                             *)
LEMMA SessionOpensUnpaid ==
  ASSUME DataOK, NEW c \in Clicks, Opening(c), NEW st,
         OpenSession(c, clicks[c].tx, txs[clicks[c].tx], st),
         LoopStays, vends' = vends, known' = known, active' = active
  PROVE  OpensUnpaid(c)
  <1> DEFINE y == clicks[c].tx
             x == txs[y]
  <1>1. y \in Transactions /\ x \in TransactionRecords
    BY DEF Opening, Started, Reserved, DataOK, ClicksOK, LedgerOK
  <1>2. Record(y, AttachPaymentSession(x))
    BY DEF OpenSession
  <1>3. \A z \in known : Sessioned(z)' <=> Sessioned(z) \/ z = y
    <2>1. AttachPaymentSession(x).session # "none"
      BY <1>1 DEF AttachPaymentSession, TransactionRecords
    <2> QED
      BY <1>1, <1>2, <2>1 DEF Record, Sessioned, DataOK, LedgerOK
  <1>4. LeavesUnpaid(c)
    <2>1. AttachPaymentSession(x).payment_status # "confirmed"
      BY <1>1, MethodsKeepPayment
    <2> QED
      BY <1>1, <1>2, <2>1, RecordedPayments DEF LeavesUnpaid
  <1>5. clicks'[c].label \in {"enabling", "idle"} /\ Others(c)
    BY DEF OpenSession, Suspend, ClickRejected, EndClick, IdleClick, Others, DataOK, ClicksOK
  <1> QED
    BY <1>3, <1>4, <1>5 DEF OpensUnpaid

LEMMA OpeningPayments ==
  ASSUME DataOK, NEW c \in Clicks, StartCashSession(c) \/ ReserveCreated(c)
  PROVE  Quiet \/ ReservesUnpaid(c) \/ OpensUnpaid(c)
  <1> DEFINE y == clicks[c].tx
             x == txs[y]
  <1>a. y \in Transactions /\ x \in TransactionRecords /\ Opening(c)
    BY DEF StartCashSession, ReserveCreated, DataOK, ClicksOK, LedgerOK, Opening, Started, Reserved
  <1>b. LoopStays /\ vends' = vends /\ known' = known /\ active' = active /\ DisabledStays
    BY DEF StartCashSession, ReserveCreated, LoopStays, DisabledStays, goods
  <1>1. CASE StartCashSession(c)
    <2>1. \/ ClickRejected(c) /\ UNCHANGED <<fsm, txs>>
          \/ \E st : OpenSession(c, y, x, st)
          \/ \E plan : /\ Record(y, AttachChangeReserve(x, plan))
                       /\ Suspend(c, "reserve_created", y, NoPieces)
                       /\ UNCHANGED fsm
      BY <1>1 DEF StartCashSession, machine
    <2>2. CASE ClickRejected(c) /\ UNCHANGED <<fsm, txs>>
      <3>1. Elsewhere
        BY <1>b, <2>2, ClickElsewhere, RecordsKeepSessions DEF ClickRejected, Elsewhere, FsmLeaves
      <3> QED
        BY <2>2, <3>1, ClickAside, RecordedPayments DEF ClickRejected, Quiet
    <2>3. CASE \E plan : /\ Record(y, AttachChangeReserve(x, plan))
                         /\ Suspend(c, "reserve_created", y, NoPieces)
                         /\ UNCHANGED fsm
      <3>1. SessionsStay
        BY <1>a, <2>3, RecordsKeepSessions, MethodsKeepSession
      <3>2. Reserves(c)
        BY <1>1, <1>b, <2>3, <3>1
        DEF StartCashSession, Suspend, Reserves, Started, Others, DataOK, ClicksOK
      <3>3. PaymentsStay
        <4>1. \A plan : SamePayment(AttachChangeReserve(x, plan), x)
          BY <1>a, MethodsKeepPayment
        <4> QED
          BY <1>a, <2>3, <4>1, RecordedPayments
      <3> QED
        BY <3>2, <3>3 DEF ReservesUnpaid
    <2> QED
      BY <1>a, <1>b, <2>1, <2>2, <2>3, SessionOpensUnpaid
  <1>2. CASE ReserveCreated(c)
    BY <1>a, <1>b, <1>2, SessionOpensUnpaid DEF ReserveCreated
  <1> QED
    BY <1>1, <1>2

LEMMA ClickPayments ==
  ASSUME DataOK, NobodyCancels, NEW c \in Clicks, ClickStep(c)
  PROVE  PaymentForms
  <1> DEFINE y == clicks[c].tx
             x == txs[y]
  <1>1. CASE StartCashSession(c) \/ ReserveCreated(c)
    BY <1>1, OpeningPayments DEF PaymentForms
  <1>2. CASE AcceptanceEnabled(c) \/ EnableFails(c)
    <2>1. Elsewhere
      BY <1>2, PaymentClickElsewhere DEF PaymentClickMisses
    <2>2. NobodyRecovers
      BY <1>2, ClickAside DEF AcceptanceEnabled, EnableFails, ClickRejected
    <2>3. PaymentsStay
      <3>1. y \in Transactions /\ SamePayment(MarkFaulted(x), x)
        BY <1>2, MethodsKeepPayment DEF AcceptanceEnabled, EnableFails, DataOK, ClicksOK, LedgerOK
      <3> QED
        BY <1>2, <3>1, RecordedPayments DEF AcceptanceEnabled, EnableFails, ledger
    <2> QED
      BY <2>1, <2>2, <2>3 DEF Quiet, PaymentForms
  <1>3. ASSUME NEW z \in Transactions, CreateTransaction(c, z)
        PROVE  PaymentForms
    <2>1. Creates(c, z)
      BY <1>3, CreationForms
    <2>2. PaymentsStay /\ ~Confirmed(z)'
      <3>1. NewTransaction.payment_status # "confirmed" /\ z \notin known
        BY <1>3 DEF NewTransaction, CreateTransaction
      <3> QED
        BY <1>3, <3>1, RecordedPayments DEF CreateTransaction, PaymentsStay
    <2> QED
      BY <2>1, <2>2 DEF CreatesUnpaid, PaymentForms
  <1>4. CASE \/ SensorMismatch(c) \/ AlreadyActive(c) \/ PickupClick(c) \/ PickupWindowClosed(c)
             \/ PickupCloseFails(c) \/ SaleCompleted(c)
    <2>1. Elsewhere
      BY <1>4, VendClickElsewhere
    <2>2. NobodyRecovers
      <3>1. \/ EndClick(c)
            \/ \E where, z, plan : Suspend(c, where, z, plan) /\ where # "recovering"
        BY <1>4 DEF SensorMismatch, AlreadyActive, PickupClick, PickupWindowClosed, PickupCloseFails,
                    SaleCompleted, ClickRejected
      <3> QED
        BY <3>1, ClickAside
    <2>3. PaymentsStay
      <3>1. CASE SensorMismatch(c) \/ AlreadyActive(c) \/ SaleCompleted(c)
        BY <3>1, RecordedPayments DEF SensorMismatch, AlreadyActive, SaleCompleted, ledger
      <3>2. CASE PickupClick(c) \/ PickupWindowClosed(c) \/ PickupCloseFails(c)
        <4>1. /\ y \in Transactions /\ SamePayment(ConfirmPickup(x), x)
              /\ SamePayment(MarkWindowClosed(x), x) /\ SamePayment(MarkFaulted(x), x)
          BY <3>2, MethodsKeepPayment
          DEF PickupClick, PickupWindowClosed, PickupCloseFails, DataOK, ClicksOK, LedgerOK
        <4>2. UNCHANGED txs \/ \E r : Record(y, r) /\ SamePayment(r, x)
          BY <3>2, <4>1 DEF PickupClick, PickupWindowClosed, PickupCloseFails
        <4> QED
          BY <4>1, <4>2, RecordedPayments
      <3> QED
        BY <1>4, <3>1, <3>2
    <2> QED
      BY <2>1, <2>2, <2>3 DEF Quiet, PaymentForms
  <1>5. CASE RecoverAsCancelled(c)
    <2>1. Elsewhere
      BY <1>5, VendClickElsewhere
    <2>2. NobodyRecovers /\ Others(c) /\ Recovering(c) /\ clicks'[c].label = "idle"
      BY <1>5, ClickAside
      DEF RecoverAsCancelled, EndClick, IdleClick, Recovering, DataOK, ClicksOK
    <2>3. y \in Transactions /\ Cancel(x).payment_status # "confirmed"
      BY <1>5, MethodsKeepPayment DEF RecoverAsCancelled, DataOK, ClicksOK, LedgerOK
    <2>4. LeavesUnpaid(c)
      BY <1>5, <2>3, RecordedPayments DEF RecoverAsCancelled, LeavesUnpaid
    <2> QED
      BY <2>1, <2>2, <2>4 DEF EndsRecovery, PaymentForms
  <1> QED
    BY <1>1, <1>2, <1>3, <1>4, <1>5
    DEF ClickStep, PaymentClickStep, VendClickStep, NobodyCancels, CancelLabels, CancelDisabled,
        CancelDisableFails, RequestRefund, RefundDispensed, RefundNotDispensed,
        RefundCommandRaises, RefundPublished, CancelPublished

(* The deadlines, the customers and the technician.                        *)
LEMMA OutsidePayments ==
  ASSUME DataOK, (\E x \in Transactions : DeadlineStep(x)) \/ CustomerStep \/ OperatorStep
  PROVE  PaymentForms
  <1>0. Elsewhere
    BY DeadlineElsewhere, CustomerElsewhere, OperatorElsewhere
  <1>1. ASSUME NEW x \in Transactions, DeadlineStep(x)
        PROVE  PaymentForms
    <2>1. /\ SamePayment(MarkPickupTimedOutWindowClosed(txs[x]), txs[x])
          /\ SamePayment(MarkFaulted(txs[x]), txs[x])
      BY MethodsKeepPayment DEF DataOK, LedgerOK
    <2>2. UNCHANGED txs \/ \E r : Record(x, r) /\ SamePayment(r, txs[x])
      BY <1>1, <2>1 DEF DeadlineStep, DeadlinePasses, TimerStep, CloseOnTimeout,
                        TimeoutWindowClosed, TimeoutCloseFails, ledger
    <2>3. UNCHANGED clicks
      BY <1>1 DEF DeadlineStep, DeadlinePasses, TimerStep, CloseOnTimeout, TimeoutWindowClosed,
                  TimeoutCloseFails
    <2> QED
      BY <1>0, <2>2, <2>3, RecordedPayments DEF Quiet, PaymentForms, NobodyRecovers, Recovering
  <1>2. CASE CustomerStep
    <2>1. CASE UNCHANGED <<txs, clicks>>
      BY <1>0, <2>1, RecordedPayments DEF Quiet, PaymentForms, NobodyRecovers, Recovering
    <2>2. ASSUME NEW c \in Clicks, CheckoutClick(c) \/ CancelClick(c) \/ PickupPress(c)
          PROVE  PaymentForms
      <3>1. NobodyRecovers
        <4>1. \/ EndClick(c)
              \/ \E where, y, plan : Suspend(c, where, y, plan) /\ where # "recovering"
          BY <2>2 DEF CheckoutClick, CancelClick, PickupPress, ClickRejected
        <4> QED
          BY <4>1, ClickAside
      <3>2. PaymentsStay
        BY <2>2, RecordedPayments DEF CheckoutClick, CancelClick, PickupPress, ledger
      <3> QED
        BY <1>0, <3>1, <3>2 DEF Quiet, PaymentForms
    <2> QED
      BY <1>2, <2>1, <2>2 DEF CustomerStep, InsertBill, JamBill, ledger
  <1>3. CASE OperatorStep
    <2>1. UNCHANGED txs
      BY <1>3 DEF OperatorStep, EnterServiceMode, ExitServiceMode, LeaveNotice, RecoverClick,
                  HealthPoll, ledger
    <2>2. CASE UNCHANGED clicks
      BY <1>0, <2>1, <2>2, RecordedPayments DEF Quiet, PaymentForms, NobodyRecovers, Recovering
    <2>3. ASSUME NEW c \in Clicks, RecoverClick(c), ~UNCHANGED clicks
          PROVE  PaymentForms
      <3>1. PICK x \in known : CancelSafe(txs[x]) /\ Suspend(c, "recovering", x, NoPieces)
        BY <2>3 DEF RecoverClick
      <3>2. ~Confirmed(x) /\ x \in Transactions
        BY <3>1 DEF CancelSafe, Confirmed, DataOK, LedgerOK
      <3>3. Others(c) /\ clicks'[c].label = "recovering" /\ clicks'[c].tx = x
        BY <3>1 DEF Suspend, Others, DataOK, ClicksOK
      <3> QED
        BY <1>0, <2>1, <3>1, <3>2, <3>3, RecordedPayments DEF StartsRecovery, PaymentForms
    <2> QED
      BY <1>3, <2>2, <2>3
      DEF OperatorStep, EnterServiceMode, ExitServiceMode, LeaveNotice, HealthPoll
  <1> QED
    BY <1>1, <1>2, <1>3

LEMMA NextPaymentForms ==
  ASSUME DataOK, NobodyCancels, Next
  PROVE  PaymentForms
  BY LoopPaymentForms, ClickPayments, OutsidePayments DEF Next, PaymentForms

-----------------------------------------------------------------------------
LEMMA TasksStayKnown ==
  ASSUME DataOK, TasksKnown, PaymentForms
  PROVE  TasksKnown'
  <1> USE DEF TasksKnown
  <1>1. CASE Elsewhere
    BY <1>1 DEF Elsewhere, LoopStays, NobodyOpens, Opening, Started, Reserved
  <1>2. CASE LoopForms
    <2>1. loop'.label \notin {"read", "dead"} =>
            \/ loop'.tx = loop.tx /\ loop.label \notin {"read", "dead"}
            \/ loop'.tx = active /\ active # NoTx
      BY <1>2 DEF LoopForms, Reads, Credits, Disables, Accepts, Advances, MovesOn, ToMotor, LoopAt
    <2> QED
      BY <1>2, <2>1 DEF LoopForms, LoopOnly, Opening, Started, Reserved
  <1>3. ASSUME NEW c \in Clicks, ReservesUnpaid(c) \/ OpensUnpaid(c)
        PROVE  TasksKnown'
    BY <1>3 DEF ReservesUnpaid, Reserves, OpensUnpaid, LoopStays, Others, Opening, Started, Reserved
  <1>4. ASSUME NEW c \in Clicks, NEW x \in Transactions, CreatesUnpaid(c, x)
        PROVE  TasksKnown'
    BY <1>4 DEF CreatesUnpaid, Creates, LoopStays, Others, Opening, Started, Reserved
  <1> QED
    BY <1>1, <1>2, <1>3, <1>4 DEF PaymentForms, Quiet, LoopPays, EndsRecovery, StartsRecovery

LEMMA SessionsOpenOnce ==
  ASSUME DataOK, TasksKnown, SessionsOnce, PaymentForms
  PROVE  SessionsOnce'
  <1> USE DEF SessionsOnce, TasksKnown
  <1>1. CASE Elsewhere /\ \A x \in known : Confirmed(x)' => Confirmed(x)
    BY <1>1 DEF Elsewhere, LoopStays, SessionsStay, NobodyOpens, Opening, Started, Reserved, ToMotor
  <1>2. CASE LoopPays /\ LoopForms
    <2>1. \A c \in Clicks : Opening(c)' <=> Opening(c)
      BY <1>2 DEF LoopPays, Opening, Started, Reserved
    <2>2. \A c \in Clicks : Opening(c) => clicks[c].tx \in known /\ ~Confirmed(clicks[c].tx)
                                          /\ ~Sessioned(clicks[c].tx)
      OBVIOUS
    <2>3. \A x \in known : ~Sessioned(x) /\ ~Confirmed(x) => ~Sessioned(x)' /\ ~Confirmed(x)'
      BY <1>2 DEF LoopPays, LoopForms, LoopOnly, SessionsStay, PaymentsStay, PaymentStays
    <2>4. \A c \in Clicks : Opening(c)' => ~Sessioned(clicks[c].tx)' /\ ~Confirmed(clicks[c].tx)'
      BY <1>2, <2>1, <2>2, <2>3 DEF LoopPays
    <2>5. loop'.label \in ToMotor \cup {"amount_updated", "disabling"} =>
            loop'.tx = loop.tx /\ loop.tx \in known /\ Sessioned(loop.tx)
      BY <1>2 DEF LoopForms, Reads, Credits, Disables, Accepts, Advances, MovesOn, ToMotor, LoopAt
    <2> QED
      BY <1>2, <2>1, <2>4, <2>5 DEF LoopPays, LoopForms, LoopOnly, SessionsStay, Sessioned, Confirmed
  <1>3. ASSUME NEW c \in Clicks, ReservesUnpaid(c)
        PROVE  SessionsOnce'
    <2>1. \A d \in Clicks : (Opening(d)' <=> Opening(d)) /\ clicks'[d].tx = clicks[d].tx
      BY <1>3 DEF ReservesUnpaid, Reserves, Others, Opening, Started, Reserved
    <2> QED
      BY <1>3, <2>1
      DEF ReservesUnpaid, Reserves, LoopStays, SessionsStay, PaymentsStay, PaymentStays, ToMotor,
          Sessioned, Confirmed
  <1>4. ASSUME NEW c \in Clicks, OpensUnpaid(c)
        PROVE  SessionsOnce'
    <2>1. \A d \in Clicks : Opening(d)' => d # c /\ Opening(d) /\ clicks'[d] = clicks[d]
      BY <1>4 DEF OpensUnpaid, Others, Opening, Started, Reserved
    <2>2. \A d \in Clicks : Opening(d)' => clicks[d].tx \in known /\ clicks[d].tx # clicks[c].tx
      BY <1>4, <2>1 DEF OpensUnpaid
    <2> QED
      BY <1>4, <2>1, <2>2
      DEF OpensUnpaid, LoopStays, LeavesUnpaid, PaymentStays, ToMotor, Sessioned, Confirmed
  <1>5. ASSUME NEW c \in Clicks, NEW x \in Transactions, CreatesUnpaid(c, x)
        PROVE  SessionsOnce'
    <2>1. \A d \in Clicks :
            Opening(d)' => \/ d # c /\ Opening(d) /\ clicks'[d] = clicks[d]
                           \/ d = c /\ clicks'[d].tx = x
      BY <1>5 DEF CreatesUnpaid, Creates, Others, Opening, Started, Reserved
    <2> QED
      BY <1>5, <2>1
      DEF CreatesUnpaid, Creates, LoopStays, SessionsStay, PaymentsStay, PaymentStays, ToMotor,
          Sessioned, Confirmed
  <1>6. ASSUME NEW c \in Clicks, EndsRecovery(c)
        PROVE  SessionsOnce'
    BY <1>1, <1>6 DEF EndsRecovery, LeavesUnpaid, PaymentStays
  <1>7. CASE Quiet \/ \E c \in Clicks, x \in Transactions : StartsRecovery(c, x)
    BY <1>1, <1>7 DEF Quiet, StartsRecovery, PaymentsStay, PaymentStays
  <1>8. CASE LoopPays /\ ~LoopForms
    <2>1. Elsewhere /\ loop'.label = loop.label
      BY <1>8 DEF LoopPays, Elsewhere, LoopStays
    <2>2. PaymentsStay
      BY <1>8, <2>1 DEF LoopPays
    <2> QED
      BY <1>1, <2>1, <2>2 DEF PaymentsStay, PaymentStays
  <1> QED
    BY <1>2, <1>3, <1>4, <1>5, <1>6, <1>7, <1>8 DEF PaymentForms

(* Where the motor may have run in a step.                                 *)
LEMMA MotorOfForms ==
  ASSUME DataOK, PaymentForms
  PROVE  /\ vends' = vends
            \/ (loop.label = "vending" /\ MotorRuns /\ LoopPays /\ loop'.label # "vending")
         /\ loop'.label = "vending" => loop'.tx = loop.tx /\ loop.label \in ToMotor
  <1>1. LoopForms => /\ vends' = vends
                        \/ (loop.label = "vending" /\ MotorRuns /\ loop'.label # "vending")
                     /\ loop'.label = "vending" => loop'.tx = loop.tx /\ loop.label \in ToMotor
    BY DEF LoopForms, LoopAt, Reads, Credits, Disables, Accepts, Advances, MovesOn, ToMotor, MotorRuns
  <1> QED
    BY <1>1
    DEF PaymentForms, Quiet, EndsRecovery, StartsRecovery, ReservesUnpaid, Reserves, OpensUnpaid,
        CreatesUnpaid, Creates, LoopPays, Elsewhere, LoopStays, ToMotor

(* What has been vended stays paid.                                        *)
LEMMA VendedStaysPaid ==
  ASSUME DataOK, TasksKnown, SessionsOnce, RecoveryInTime, VendedPaid, VendingPaid, PaymentForms,
         \A x \in known' \ known : vends[x] = 0
  PROVE  /\ \A x \in known' : vends'[x] > 0 => Confirmed(x)'
         /\ loop'.label = "vending" => Confirmed(loop.tx)'
  <1>0. /\ vends \in [Transactions -> Nat] /\ known \subseteq Transactions
        /\ loop.label = "vending" => loop.tx \in known
        /\ \A c \in Clicks : Recovering(c) => clicks[c].tx \in known
    BY DEF DataOK, GoodsOK, LedgerOK, TasksKnown, RecoveryInTime
  <1>1. CASE PaymentsStay /\ known' = known /\ ~LoopPays
    <2>1. vends' = vends /\ LoopStays
      BY <1>1, MotorOfForms
      DEF PaymentForms, Quiet, EndsRecovery, StartsRecovery, ReservesUnpaid, Reserves, OpensUnpaid,
        CreatesUnpaid, Creates, Elsewhere
    <2> QED
      BY <1>0, <1>1, <2>1 DEF PaymentsStay, PaymentStays, VendedPaid, VendingPaid, LoopStays, Confirmed
  <1>2. CASE LoopPays
    <2>1. known' = known
      BY <1>2 DEF LoopPays, Elsewhere, LoopForms, LoopOnly
    <2>2. \A x \in known : Confirmed(x) /\ vends'[x] > 0 => Confirmed(x)'
      <3>1. CASE PaymentsStay
        BY <3>1 DEF PaymentsStay, PaymentStays
      <3> QED
        BY <1>2, <3>1 DEF LoopPays
    <2>3. \A x \in known : vends'[x] > 0 => Confirmed(x)
      BY <1>0, MotorOfForms DEF VendedPaid, VendingPaid, MotorRuns
    <2>4. loop'.label = "vending" => Confirmed(loop.tx)'
      <3> SUFFICES ASSUME loop'.label = "vending"
                   PROVE  Confirmed(loop.tx)'
        OBVIOUS
      <3>1. loop'.tx = loop.tx /\ loop.label \in ToMotor /\ PaymentsStay
        BY <1>2, MotorOfForms DEF LoopPays, ToMotor
      <3>2. Confirmed(loop.tx) /\ loop.tx \in known
        BY <1>0, <1>2, <3>1 DEF LoopPays, VendingPaid, TasksKnown, ToMotor
      <3> QED
        BY <3>1, <3>2 DEF PaymentsStay, PaymentStays, Confirmed
    <2> QED
      BY <2>1, <2>2, <2>3, <2>4
  <1>3. ASSUME NEW c \in Clicks, EndsRecovery(c) \/ OpensUnpaid(c)
        PROVE  /\ \A x \in known' : vends'[x] > 0 => Confirmed(x)'
               /\ loop'.label = "vending" => Confirmed(loop.tx)'
    <2>1. vends' = vends /\ known' = known /\ LoopStays /\ LeavesUnpaid(c)
      BY <1>3 DEF EndsRecovery, OpensUnpaid, Elsewhere
    <2>2. vends[clicks[c].tx] = 0 /\ (loop.label = "vending" => loop.tx # clicks[c].tx)
      <3>1. CASE EndsRecovery(c)
        BY <3>1 DEF EndsRecovery, RecoveryInTime
      <3>2. CASE OpensUnpaid(c)
        <4>1. clicks[c].tx \in known /\ ~Confirmed(clicks[c].tx)
          BY <3>2 DEF OpensUnpaid, SessionsOnce, TasksKnown
        <4> QED
          BY <1>0, <4>1 DEF VendedPaid, VendingPaid
      <3> QED
        BY <1>3, <3>1, <3>2
    <2> QED
      BY <1>0, <2>1, <2>2 DEF LeavesUnpaid, PaymentStays, LoopStays, VendedPaid, VendingPaid, Confirmed
  <1>4. ASSUME NEW c \in Clicks, NEW y \in Transactions, CreatesUnpaid(c, y)
        PROVE  /\ \A x \in known' : vends'[x] > 0 => Confirmed(x)'
               /\ loop'.label = "vending" => Confirmed(loop.tx)'
    <2>1. vends' = vends /\ LoopStays /\ PaymentsStay
      BY <1>4 DEF CreatesUnpaid, Creates
    <2> QED
      BY <1>0, <2>1 DEF PaymentsStay, PaymentStays, LoopStays, VendedPaid, VendingPaid, Confirmed
  <1> QED
    BY <1>1, <1>2, <1>3, <1>4
    DEF PaymentForms, Quiet, StartsRecovery, ReservesUnpaid, Reserves, Elsewhere

(* A recovery that has been started for a sale is through before the loop  *)
(* goes on with the payment of that sale.                                  *)
LEMMA RecoveryKept ==
  ASSUME DataOK, QueueOK, Scheduled, RecoveryInTime, VendedPaid, VendingPaid, PaymentForms
  PROVE  RecoveryInTime'
  <1>0. /\ vends \in [Transactions -> Nat] /\ known \subseteq Transactions
        /\ known \subseteq known'
    BY DEF DataOK, GoodsOK, LedgerOK, PaymentForms, Quiet, LoopPays, EndsRecovery, ReservesUnpaid,
           Reserves, OpensUnpaid, StartsRecovery, CreatesUnpaid, Creates, Elsewhere, LoopForms, LoopOnly
  <1>1. ASSUME NEW c \in Clicks, NEW y \in known, StartsRecovery(c, y)
        PROVE  /\ vends'[y] = 0
               /\ loop'.tx = y => loop'.label # "vending" /\ ~Confirmed(y)'
    BY <1>0, <1>1
    DEF StartsRecovery, Elsewhere, LoopStays, PaymentsStay, PaymentStays, VendedPaid, VendingPaid, Confirmed
  <1>2. ASSUME NEW c \in Clicks, NEW y \in known, Recovering(c), clicks[c].tx = y,
               clicks'[c].label = "recovering"
        PROVE  /\ vends'[y] = 0
               /\ loop'.tx = y =>
                    /\ loop'.label # "vending"
                    /\ loop'.label \in {"change_requested", "dispensing_change", "vend_authorized"}
                         => ~Confirmed(y)'
                    /\ loop'.label = "payment_confirmed" /\ Confirmed(y)' => Before(c, "loop")'
    <2>1. /\ vends[y] = 0
          /\ loop.tx = y =>
               /\ loop.label # "vending"
               /\ loop.label \in {"change_requested", "dispensing_change", "vend_authorized"} =>
                    ~Confirmed(y)
               /\ loop.label = "payment_confirmed" /\ Confirmed(y) => Before(c, "loop")
      BY <1>2 DEF RecoveryInTime
    <2>2. /\ c \in Tasks /\ "loop" \in Tasks /\ Enqueued(c) /\ ~Moves(c)
          /\ Moves("loop") <=> loop'.label # loop.label
      BY <1>2, Labels DEF Tasks, Enqueued, PublishLabels, Recovering, Moves
    <2>3. vends'[y] = 0
      BY <1>0, <2>1, MotorOfForms DEF MotorRuns
    <2>4. CASE LoopStays /\ (Confirmed(y)' => Confirmed(y))
      <3>1. Before(c, "loop") => Before(c, "loop")'
        BY <2>2, <2>4, Turns DEF LoopStays
      <3> QED
        BY <2>1, <2>3, <2>4, <3>1 DEF LoopStays
    <2>5. CASE LoopPays /\ LoopForms
      <3> SUFFICES ASSUME loop'.tx = y
                   PROVE  /\ loop'.label # "vending"
                          /\ loop'.label \in {"change_requested", "dispensing_change", "vend_authorized"}
                               => ~Confirmed(y)'
                          /\ loop'.label = "payment_confirmed" /\ Confirmed(y)' => Before(c, "loop")'
        BY <2>3
      <3>1. /\ loop'.label \in {"change_requested", "dispensing_change", "vend_authorized", "vending"} =>
                 loop.tx = y /\ loop.label \in ToMotor
            /\ loop'.label = "payment_confirmed" =>
                 loop.label \in {"amount_updated", "disabling"}
        BY <2>5 DEF LoopForms, Reads, Credits, Disables, Accepts, Advances, MovesOn, ToMotor, LoopAt
      <3>2. loop'.label # "vending"
        BY <2>1, <2>5, <3>1 DEF LoopPays, Confirmed
      <3>3. loop'.label \in {"change_requested", "dispensing_change", "vend_authorized"}
              => ~Confirmed(y)'
        <4> SUFFICES ASSUME loop'.label \in {"change_requested", "dispensing_change", "vend_authorized"}
                     PROVE  ~Confirmed(y)'
          OBVIOUS
        <4>1. Confirmed(y)' <=> Confirmed(y)
          BY <2>5, <3>1 DEF LoopPays, PaymentsStay, PaymentStays, ToMotor
        <4>2. CASE loop.label = "payment_confirmed" /\ Confirmed(y)
          <5>1. Before(c, "loop") /\ Moves("loop")
            BY <2>1, <2>2, <3>1, <4>2
          <5>2. OneRound("loop")
            BY <2>2, <5>1, Turns
          <5> QED
            BY <4>2, <5>2, Labels DEF OneRound
        <4> QED
          BY <2>1, <3>1, <4>1, <4>2 DEF ToMotor
      <3>4. loop'.label = "payment_confirmed" => Before(c, "loop")'
        <4> SUFFICES ASSUME loop'.label = "payment_confirmed"
                     PROVE  Before(c, "loop")'
          OBVIOUS
        <4>1. Moves("loop") /\ Enqueued("loop")'
          BY <2>2, <3>1, Labels DEF Enqueued, PublishLabels
        <4> QED
          BY <2>2, <4>1, Turns
      <3> QED
        BY <3>2, <3>3, <3>4
    <2>6. LoopPays \/ (LoopStays /\ (Confirmed(y)' => Confirmed(y)))
      <3>1. CASE \E d \in Clicks : EndsRecovery(d) \/ OpensUnpaid(d)
        BY <3>1 DEF EndsRecovery, OpensUnpaid, LeavesUnpaid, PaymentStays, Elsewhere
      <3>2. CASE \/ Quiet
                 \/ \E d \in Clicks :
                      ReservesUnpaid(d) \/ \E x \in Transactions : StartsRecovery(d, x) \/ CreatesUnpaid(d, x)
        BY <3>2 DEF Quiet, StartsRecovery, CreatesUnpaid, Creates, ReservesUnpaid, Reserves, PaymentsStay,
                    PaymentStays, Elsewhere
      <3> QED
        BY <3>1, <3>2 DEF PaymentForms
    <2>7. LoopPays => LoopForms \/ (LoopStays /\ (Confirmed(y)' => Confirmed(y)))
      BY DEF LoopPays, Elsewhere, LoopStays, PaymentsStay, PaymentStays
    <2> QED
      BY <2>4, <2>5, <2>6, <2>7
  <1>3. ASSUME NEW c \in Clicks, clicks'[c].label = "recovering"
        PROVE  \E y \in known :
                 /\ clicks'[c].tx = y
                 /\ StartsRecovery(c, y) \/ (Recovering(c) /\ clicks[c].tx = y)
    <2>1. CASE Recovering(c) /\ clicks'[c].tx = clicks[c].tx
      BY <2>1 DEF RecoveryInTime
    <2>2. CASE NobodyRecovers \/ clicks' = clicks
      BY <1>3, <2>1, <2>2 DEF NobodyRecovers, Recovering
    <2>3. ASSUME NEW d \in Clicks,
                 \/ ReservesUnpaid(d) \/ OpensUnpaid(d)
                 \/ \E x \in Transactions : StartsRecovery(d, x) \/ CreatesUnpaid(d, x)
          PROVE  \E y \in known :
                   /\ clicks'[c].tx = y
                   /\ StartsRecovery(c, y) \/ (Recovering(c) /\ clicks[c].tx = y)
      <3>1. CASE d # c
        BY <1>3, <2>1, <2>3, <3>1
        DEF ReservesUnpaid, Reserves, OpensUnpaid, StartsRecovery, CreatesUnpaid, Creates, Others, Recovering
      <3>2. CASE d = c
        BY <1>3, <2>3, <3>2 DEF ReservesUnpaid, Reserves, OpensUnpaid, StartsRecovery, CreatesUnpaid, Creates
      <3> QED
        BY <3>1, <3>2
    <2> QED
      BY <2>2, <2>3 DEF PaymentForms, Quiet, LoopPays, EndsRecovery
  <1>4. ASSUME NEW c \in Clicks, Recovering(c)'
        PROVE  \E y \in known' :
                 /\ clicks'[c].tx = y /\ vends'[y] = 0
                 /\ loop'.tx = y =>
                      /\ loop'.label # "vending"
                      /\ loop'.label \in {"change_requested", "dispensing_change", "vend_authorized"}
                           => ~Confirmed(y)'
                      /\ loop'.label = "payment_confirmed" /\ Confirmed(y)' => Before(c, "loop")'
    <2>1. PICK y \in known :
            /\ clicks'[c].tx = y
            /\ StartsRecovery(c, y) \/ (Recovering(c) /\ clicks[c].tx = y)
      BY <1>3, <1>4 DEF Recovering
    <2> QED
      BY <1>0, <1>1, <1>2, <1>4, <2>1 DEF Recovering
  <1> QED
    BY <1>4 DEF RecoveryInTime, Confirmed

-----------------------------------------------------------------------------
(* A step of the running program.                                          *)
LEMMA StepKeepsPaid ==
  ASSUME DataOK, DataOK', PaidInv, "cancel" \notin Operations, DurableStep
  PROVE  PaidInv'
  <1> USE DEF PaidInv
  <1>0. Next /\ Scheduled /\ Durably /\ rows' = rows
    BY DurableStepIsNext DEF DurableStep, KioskStep, Durably
  <1>1. PaymentForms
    BY <1>0, NextPaymentForms
  <1>2. /\ vends \in [Transactions -> Nat] /\ known' \subseteq Transactions
        /\ \A x \in known' \ known : vends[x] = 0
    <2>1. vends \in [Transactions -> Nat] /\ known' \subseteq Transactions
      BY DEF DataOK, GoodsOK, LedgerOK
    <2> QED
      BY <1>0, <2>1 DEF VendedPaid, Recorded, Durably
  <1>3. QueueOK' /\ UnwrittenOK'
    BY <1>0, UnwrittenGrows, Turns
  <1>4. NobodyCancels'
    BY <1>0, NobodyCancelsKept
  <1>5. TasksKnown' /\ SessionsOnce' /\ RecoveryInTime'
    BY <1>0, <1>1, TasksStayKnown, SessionsOpenOnce, RecoveryKept
  <1>6. /\ \A x \in known' : vends'[x] > 0 => Confirmed(x)'
        /\ loop'.label = "vending" => Confirmed(loop.tx)'
    BY <1>1, <1>2, VendedStaysPaid
  <1>7. \A x \in Transactions : vends'[x] > 0 => Recorded(x)
    <2>1. CASE vends' = vends
      BY <2>1 DEF VendedPaid
    <2>2. CASE loop.label = "vending" /\ MotorRuns /\ loop'.label # "vending"
      <3>1. Moves("loop") /\ "loop" \in Tasks
        BY <2>2, Labels DEF Moves, Tasks
      <3>2. ~LoopWaitsForWrite
        BY <1>0, <3>1 DEF Durably, MayMove, LoopWaitsForWrite
      <3> QED
        BY <1>2, <2>2, <3>2 DEF VendedPaid, VendingPaid, MotorRuns
    <2> QED
      BY <1>1, <2>1, <2>2, MotorOfForms
  <1>8. VendedPaid'
    BY <1>0, <1>6, <1>7 DEF VendedPaid, Recorded, Confirmed
  <1>9. VendingPaid'
    <2> SUFFICES ASSUME loop'.label = "vending"
                 PROVE  Confirmed(loop.tx)' /\ (Recorded(loop.tx)' \/ LoopWaitsForWrite')
      BY DEF VendingPaid
    <2>1. loop'.tx = loop.tx /\ loop.label \in ToMotor
      BY <1>1, MotorOfForms
    <2>2. loop.tx \in Transactions
      BY <2>1, LoopHasRecord DEF ToMotor
    <2>3. CASE loop.label = "vending" /\ LoopWaitsForWrite
      <3>1. PICK more \in Seq(EventRecords) : unwritten' = unwritten \o more
        BY <1>0, UnwrittenGrows
      <3>2. PICK i \in DOMAIN unwritten : unwritten[i] = [by |-> "loop", tx |-> loop.tx]
        BY <2>3 DEF LoopWaitsForWrite
      <3>3. i \in DOMAIN (unwritten \o more) /\ (unwritten \o more)[i] = unwritten[i]
        BY <3>2 DEF UnwrittenOK
      <3> QED
        BY <1>6, <2>1, <3>1, <3>2, <3>3 DEF LoopWaitsForWrite
    <2>4. CASE loop.label = "vending" /\ Recorded(loop.tx)
      BY <1>0, <1>6, <2>1, <2>4 DEF Recorded
    <2>5. CASE loop.label # "vending"
      <3>1. Moves("loop")
        BY <2>5, Labels DEF Moves
      <3>2. MovedSubject("loop") = loop.tx
        BY <2>1, <2>2, KioskAssumption, TasksAssumption DEF MovedSubject, Subject
      <3> QED
        BY <1>0, <1>6, <2>1, <3>1, <3>2, UnwrittenGrows DEF LoopWaitsForWrite, LoopAwaits
    <2> QED
      BY <2>3, <2>4, <2>5 DEF VendingPaid
  <1> QED
    BY <1>3, <1>4, <1>5, <1>8, <1>9

(* A write takes over what is in memory, or leaves the row alone.          *)
LEMMA WrittenPayments ==
  ASSUME NEW written \in SUBSET known, NEW x, Recorded(x), x \in known => Confirmed(x)
  PROVE  x \in DOMAIN Saving(written) /\ Saving(written)[x].payment_status = "confirmed"
  BY SavingWrites DEF Recorded, Confirmed

LEMMA WriteKeepsPaid ==
  ASSUME DataOK, PaidInv, Projected
  PROVE  PaidInv'
  <1> USE DEF PaidInv
  <1> DEFINE written == Persisted(Head(unwritten).tx)
  <1>1. /\ UNCHANGED kioskVars /\ unwritten # <<>> /\ unwritten' = Tail(unwritten)
        /\ rows' = Saving(written) /\ written \in SUBSET known
    BY DEF Projected, Persisted
  <1>2. UnwrittenOK'
    BY <1>1 DEF UnwrittenOK
  <1>3. QueueOK' /\ NobodyCancels' /\ TasksKnown' /\ SessionsOnce' /\ RecoveryInTime'
    BY <1>1
    DEF QueueOK, NobodyCancels, TasksKnown, SessionsOnce, RecoveryInTime, Opening, Started, Reserved,
        Sessioned, Confirmed, Recovering, Before, Enqueued, Label, kioskVars, vars, ledger, goods
  <1>4. \A x \in Transactions : Recorded(x) /\ (x \in known => Confirmed(x)) => Recorded(x)'
    <2> SUFFICES ASSUME NEW x \in Transactions, Recorded(x), x \in known => Confirmed(x)
                 PROVE  Recorded(x)'
      OBVIOUS
    <2>1. x \in DOMAIN Saving(written) /\ Saving(written)[x].payment_status = "confirmed"
      BY <1>1, WrittenPayments
    <2> QED
      BY <1>1, <2>1 DEF Recorded
  <1>5. VendedPaid'
    BY <1>1, <1>4 DEF VendedPaid, Confirmed, kioskVars, vars, goods, ledger
  <1>6. VendingPaid'
    <2> SUFFICES ASSUME loop.label = "vending"
                 PROVE  Recorded(loop.tx)' \/ LoopWaitsForWrite'
      BY <1>1 DEF VendingPaid, Confirmed, kioskVars, vars, ledger
    <2>1. /\ loop.tx \in known /\ loop.tx \in Transactions /\ loop.tx # NoTx
          /\ Confirmed(loop.tx) /\ loop' = loop
      BY <1>1, KioskAssumption DEF VendingPaid, TasksKnown, DataOK, LedgerOK, kioskVars, vars
    <2>2. Recorded(loop.tx) => Recorded(loop.tx)'
      <3>1. \A x \in Transactions : x = loop.tx /\ Recorded(x) => Recorded(x)'
        BY <1>4, <2>1
      <3> QED
        BY <2>1, <3>1 DEF Recorded
    <2>3. CASE Head(unwritten) = [by |-> "loop", tx |-> loop.tx]
      <3>1. loop.tx \in written
        BY <2>1, <2>3 DEF Persisted
      <3>2. rows'[loop.tx] = txs[loop.tx] /\ loop.tx \in DOMAIN rows'
        BY <1>1, <3>1, SavingWrites
      <3> QED
        BY <2>1, <3>2 DEF Recorded, Confirmed
    <2> QED
      BY <1>1, <2>1, <2>2, <2>3, HeadWritten DEF VendingPaid
  <1> QED
    BY <1>2, <1>3, <1>5, <1>6

LEMMA FailedWriteKeepsPaid ==
  ASSUME DataOK, PaidInv, WriteFails
  PROVE  PaidInv'
  <1> USE DEF PaidInv
  <1>1. /\ UNCHANGED <<rows, vends, txs, known, active>> /\ Scheduled
        /\ unwritten # <<>> /\ unwritten' = Tail(unwritten)
    BY DEF WriteFails, disk, goods, ledger
  <1>2. UnwrittenOK' /\ QueueOK' /\ VendedPaid'
    BY <1>1, Turns DEF UnwrittenOK, VendedPaid, Recorded, Confirmed
  <1>3. /\ \A c \in Clicks : clicks'[c] = clicks[c] \/ clicks'[c].label = "idle"
        /\ \/ loop' = loop /\ Head(unwritten).by # "loop"
           \/ loop'.label = "dead" /\ loop'.tx = NoTx
    <2>1. \A c \in Clicks : clicks'[c] = clicks[c] \/ clicks'[c].label = "idle"
      BY PublishRaisesKinds DEF EndClick, IdleClick, DataOK, ClicksOK
    <2>2. CASE Head(unwritten).by = "loop"
      BY <2>1, <2>2, TasksAssumption
      DEF WriteFails, PublishRaises, PayoutRaises, LoopDies, DeadLoop, ReadingLoop
    <2>3. CASE Head(unwritten).by # "loop"
      BY <2>1, <2>3 DEF WriteFails, PublishRaises
    <2> QED
      BY <2>1, <2>2, <2>3
  <1>4. NobodyCancels' /\ TasksKnown' /\ SessionsOnce'
    BY <1>1, <1>3
    DEF NobodyCancels, CancelLabels, TasksKnown, SessionsOnce, Opening, Started, Reserved, Sessioned,
        Confirmed, ToMotor
  <1>5. RecoveryInTime'
    <2>1. ASSUME NEW c \in Clicks, Recovering(c)', loop' = loop, Before(c, "loop")
          PROVE  Before(c, "loop")'
      <3>1. clicks'[c] = clicks[c] /\ c \in Tasks /\ "loop" \in Tasks
        BY <1>3, <2>1 DEF Recovering, Tasks
      <3>2. ~Moves(c) /\ ~Moves("loop")
        BY <2>1, <3>1, Labels DEF Moves
      <3> QED
        BY <1>1, <2>1, <3>1, <3>2, Turns
    <2>2. \A c \in Clicks : Recovering(c)' => Recovering(c) /\ clicks'[c] = clicks[c]
      BY <1>3 DEF Recovering
    <2>3. NoTx \notin known
      BY KioskAssumption DEF DataOK, LedgerOK
    <2> QED
      BY <1>1, <1>3, <2>1, <2>2, <2>3 DEF RecoveryInTime, Confirmed
  <1>6. VendingPaid'
    <2> SUFFICES ASSUME loop'.label = "vending"
                 PROVE  Confirmed(loop.tx)' /\ (Recorded(loop.tx)' \/ LoopWaitsForWrite')
      BY DEF VendingPaid
    <2>1. loop' = loop /\ Head(unwritten) # [by |-> "loop", tx |-> loop.tx]
      BY <1>3
    <2> QED
      BY <1>1, <2>1, HeadWritten DEF VendingPaid, Recorded, Confirmed
  <1> QED
    BY <1>2, <1>4, <1>5, <1>6

(* What is read back is what has been written: a paid sale comes back paid.*)
LEMMA RestartKeepsPaid ==
  ASSUME BooksOK, PaidInv, Restart
  PROVE  PaidInv'
  <1> USE DEF PaidInv
  <1>1. PICK end \in DiskAtTheEnd :
          /\ restored' = Unsettled(end.rows)
          /\ known' = restored' /\ active' \in restored' \cup {NoTx}
          /\ txs' = [x \in Transactions |->
                       IF x \in restored' THEN Remembered(x, end.rows[x], journal)
                                          ELSE NewTransaction]
          /\ rows' = [x \in DOMAIN end.rows |->
                       IF x \in restored' THEN Remembered(x, end.rows[x], journal)
                                          ELSE end.rows[x]]
          /\ CommandsCut(end.inventory.accounting)
    BY RestartReads
  <1>2. PICK written \in SUBSET known : end.rows = Saving(written)
    BY DiskAtTheEndIs
  <1>3. \A x \in DOMAIN end.rows :
          /\ end.rows[x] \in TransactionRecords
          /\ Remembered(x, end.rows[x], journal).payment_status = end.rows[x].payment_status
    BY <1>2, SavingOK, RememberedOK DEF BooksOK, DataOK
  <1>4. vends \in [Transactions -> Nat]
    BY DEF BooksOK, DataOK, GoodsOK
  <1>5. \A x \in Transactions : vends'[x] > 0 => Recorded(x) /\ (x \in known => Confirmed(x))
    <2>1. vends' = vends \/ (loop.label = "vending" /\ MotorRuns /\ Recorded(loop.tx))
      <3>1. ASSUME NEW t \in Tasks, Sent(t), Command(t) = "vend"
            PROVE  loop.label = "vending" /\ Recorded(loop.tx)
        <4>1. t = "loop" /\ Label(t) = "vending"
          BY <3>1, TasksAssumption DEF Tasks, Command, LoopCommand, ClickCommand, TimerCommand
        <4>2. loop.label = "vending" /\ MayMove("loop")
          BY <3>1, <4>1, Labels DEF Sent
        <4>3. ~LoopWaitsForWrite
          BY <4>2 DEF MayMove, LoopWaitsForWrite
        <4> QED
          BY <4>2, <4>3 DEF VendingPaid
      <3> QED
        BY <1>1, <3>1 DEF CommandsCut
    <2> QED
      BY <1>4, <2>1 DEF VendedPaid, VendingPaid, MotorRuns
  <1>6. VendedPaid'
    <2> SUFFICES ASSUME NEW x \in Transactions, vends'[x] > 0
                 PROVE  Recorded(x)' /\ (x \in known' => Confirmed(x)')
      BY DEF VendedPaid
    <2>1. x \in DOMAIN end.rows /\ end.rows[x].payment_status = "confirmed"
      BY <1>2, <1>5, WrittenPayments
    <2> QED
      BY <1>1, <1>3, <2>1 DEF Recorded, Confirmed
  <1>7. /\ loop'.label = "read" /\ \A c \in Clicks : clicks'[c].label = "idle"
        /\ \A x \in Transactions : timers'[x] = "idle"
        /\ ready' = <<>> /\ unwritten' = <<>>
    BY DEF Restart, ReadingLoop, IdleClick
  <1>8. QueueOK'
    <2>1. \A t \in Tasks : ~Enqueued(t)'
      BY <1>7, TasksAssumption DEF Tasks, Enqueued, PublishLabels, Label
    <2> QED
      BY <1>7, <2>1 DEF QueueOK, OnceEach, In
  <1>9. UnwrittenOK' /\ NobodyCancels' /\ TasksKnown' /\ SessionsOnce' /\ RecoveryInTime' /\ VendingPaid'
    BY <1>1, <1>7
    DEF UnwrittenOK, NobodyCancels, CancelLabels, TasksKnown, SessionsOnce, RecoveryInTime, VendingPaid,
        Opening, Started, Reserved, Recovering, ToMotor
  <1> QED
    BY <1>6, <1>8, <1>9

LEMMA PaidInvKept ==
  ASSUME BooksOK, BooksOK', PaidInv, "cancel" \notin Operations, [DurableNext]_durableVars
  PROVE  PaidInv'
  <1>1. CASE UNCHANGED durableVars
    <2>1. UNCHANGED <<kioskVars, rows, unwritten>>
      BY <1>1 DEF durableVars, disk
    <2>2. QueueOK' /\ NobodyCancels' /\ TasksKnown' /\ SessionsOnce' /\ RecoveryInTime' /\ UnwrittenOK'
      BY <2>1
      DEF PaidInv, QueueOK, NobodyCancels, TasksKnown, SessionsOnce, RecoveryInTime, Opening, Started,
          Reserved, Sessioned, Confirmed, Recovering, Before, Enqueued, Label, kioskVars, vars,
          ledger, goods, UnwrittenOK
    <2>3. VendedPaid' /\ VendingPaid'
      BY <2>1
      DEF PaidInv, VendedPaid, VendingPaid, LoopWaitsForWrite, Recorded, Confirmed, kioskVars, vars,
          ledger, goods
    <2> QED
      BY <2>2, <2>3 DEF PaidInv
  <1> QED
    BY <1>1, RestartKeepsPaid, StepKeepsPaid, WriteKeepsPaid, FailedWriteKeepsPaid
    DEF DurableNext, BooksOK

LEMMA PaidInvAtFirst ==
  ASSUME DurableInit
  PROVE  PaidInv
  <1>1. /\ loop.label = "read" /\ \A c \in Clicks : clicks[c].label = "idle"
        /\ \A x \in Transactions : timers[x] = "idle"
        /\ ready = <<>> /\ known = {} /\ active = NoTx
        /\ unwritten = <<>> /\ vends = [x \in Transactions |-> 0]
    BY DEF DurableInit, KioskInit, Init, ReadingLoop, IdleClick
  <1>2. QueueOK
    <2>1. \A t \in Tasks : ~Enqueued(t)
      BY <1>1, TasksAssumption DEF Tasks, Enqueued, PublishLabels, Label
    <2> QED
      BY <1>1, <2>1 DEF QueueOK, OnceEach, In
  <1>3. UnwrittenOK /\ NobodyCancels /\ TasksKnown /\ SessionsOnce /\ RecoveryInTime
    BY <1>1
    DEF UnwrittenOK, NobodyCancels, CancelLabels, TasksKnown, SessionsOnce, RecoveryInTime, Opening,
        Started, Reserved, Recovering, ToMotor
  <1>4. VendedPaid /\ VendingPaid
    BY <1>1 DEF VendedPaid, VendingPaid
  <1> QED
    BY <1>2, <1>3, <1>4 DEF PaidInv

LEMMA PaidInvariant ==
  ASSUME IsFiniteSet(Clicks), "cancel" \notin Operations
  PROVE  DurableSpec => []PaidInv
  <1>1. DurableInit => PaidInv
    BY PaidInvAtFirst
  <1>2. BooksOK /\ (BooksOK)' /\ PaidInv /\ [DurableNext]_durableVars => PaidInv'
    BY PaidInvKept
  <1> QED
    BY <1>1, <1>2, BooksAlwaysOK, PTL DEF DurableSpec

(* Nothing leaves the machine for a sale whose payment is not on disk,     *)
(* whatever fails, is recovered, is cut or is started again.               *)
THEOREM VendedSalesAreRecorded ==
  ASSUME IsFiniteSet(Clicks), "cancel" \notin Operations
  PROVE  DurableSpec => []NothingLeavesUnrecorded
  <1>1. PaidInv => NothingLeavesUnrecorded
    BY DEF PaidInv, VendedPaid, Recorded, NothingLeavesUnrecorded
  <1> QED
    BY <1>1, PaidInvariant, PTL

-----------------------------------------------------------------------------
(***************************************************************************)
(* The books on disk.  They are behind from the payout to the next write,  *)
(* and a start that comes in between must find the sale it was paid for    *)
(* unsettled.  So it has to be known when a sale can be settled: when its  *)
(* product has been handed over (HandingInv), which it has not while the   *)
(* motor has not run.                                                      *)
(***************************************************************************)
Handed(r) == r.delivery_status # "not_started"
EndsHanded(r) == Terminal(r) \/ r.status = "waiting_for_customer_pickup" => Handed(r)
HandedOver(x) == Handed(txs[x])
Delivering == loop.label \in {"product_dispensed", "opening_window"}
PickingUp(c) == clicks[c].label \in {"pressed", "closing_window", "completed"}
Enabling(c) == clicks[c].label = "enabling"

HandedAreVended ==
  \A x \in known : EndsHanded(txs[x]) /\ (HandedOver(x) => vends[x] > 0)
OneUnhanded == \A x \in known : x = active \/ HandedOver(x)
ClicksHanded ==
  \A c \in Clicks : /\ ~Recovering(c)
                    /\ PickingUp(c) => clicks[c].tx \in known /\ HandedOver(clicks[c].tx)
                    /\ Enabling(c) => clicks[c].tx \in known
TimersHanded ==
  \A x \in Transactions : timers[x] # "idle" => x \in known /\ HandedOver(x)
ScreenHanded ==
  session # NoTx => session \in known /\ (screen = "pickup" => HandedOver(session))
HandingOver == Delivering => vends[loop.tx] > 0 /\ ~HandedOver(loop.tx)
HandingInv ==
  /\ HandedAreVended /\ OneUnhanded /\ ClicksHanded /\ TimersHanded /\ ScreenHanded
  /\ HandingOver
-----------------------------------------------------------------------------
(* The steps, as far as the handing over is concerned: three of them       *)
(* change what has been handed over or which sale is active.               *)
SameHanding(r, s) == (Handed(r) <=> Handed(s)) /\ (EndsHanded(s) => EndsHanded(r))
HandingStays == \A x \in known : SameHanding(txs'[x], txs[x])
ClicksWork ==
  \A c \in Clicks :
    /\ clicks'[c].label # "recovering"
    /\ PickingUp(c)' => \E x \in known : clicks'[c].tx = x /\ HandedOver(x)
    /\ Enabling(c)' => clicks'[c].tx \in known
TimersWork ==
  \A x \in Transactions : timers'[x] # "idle" => x \in known /\ HandedOver(x)
ScreenWorks ==
  session' # NoTx => \E x \in known : session' = x /\ (screen' = "pickup" => HandedOver(x))
LoopWorks ==
  Delivering' => \/ Delivering /\ loop'.tx = loop.tx
                 \/ loop.label = "vending" /\ loop'.tx = loop.tx /\ vends'[loop.tx] > 0
TasksWork == ClicksWork /\ TimersWork /\ ScreenWorks /\ LoopWorks
Works == known' = known /\ active' = active /\ HandingStays /\ TasksWork
HandingForms ==
  \/ Works \/ WindowOpened
  \/ \E c \in Clicks : SaleCompleted(c) \/ \E x \in Transactions : CreateTransaction(c, x)

LEMMA MethodsKeepHanding ==
  ASSUME NEW x \in TransactionRecords
  PROVE  /\ ~Handed(NewTransaction) /\ EndsHanded(NewTransaction)
         /\ SameHanding(x, x)
         /\ SameHanding(AttachPaymentSession(x), x)
         /\ \A plan : SameHanding(AttachChangeReserve(x, plan), x)
         /\ SameHanding(DropReserve(x), x)
         /\ \A bill : SameHanding(RecordStackedCash(x, bill), x)
         /\ SameHanding(ConfirmPayment(x), x)
         /\ \A plan : SameHanding(MarkChangePending(AttachChangeReserve(x, plan)), x)
         /\ SameHanding(MarkChangeDispensed(x), x)
         /\ SameHanding(MarkChangePartial(x), x)
         /\ SameHanding(AuthorizeVend(x), x)
         /\ SameHanding(MarkProductDispensed(x), x)
         /\ SameHanding(MarkFaulted(x), x)
         /\ SameHanding(MarkAmbiguous(x), x)
         /\ Handed(x) => /\ SameHanding(ConfirmPickup(x), x)
                         /\ SameHanding(MarkWindowClosed(x), x)
                         /\ SameHanding(MarkPickupTimedOutWindowClosed(x), x)
         /\ Handed(MarkWindowOpened(x)) /\ EndsHanded(MarkWindowOpened(x))
  BY SMTT(30)
  DEF Handed, EndsHanded, SameHanding, Terminal, TransactionRecords, NewTransaction,
      AttachPaymentSession, AttachChangeReserve, DropReserve, RecordStackedCash, ConfirmPayment,
      MarkChangePending, MarkChangeDispensed, MarkChangePartial, AuthorizeVend,
      MarkProductDispensed, MarkFaulted, MarkAmbiguous, ConfirmPickup, MarkWindowClosed,
      MarkPickupTimedOutWindowClosed, MarkWindowOpened

LEMMA RecordsKeepHanding ==
  ASSUME DataOK,
         \/ UNCHANGED txs
         \/ \E x \in Transactions : \E r : Record(x, r) /\ SameHanding(r, txs[x])
  PROVE  HandingStays
  <1>1. txs \in [Transactions -> TransactionRecords] /\ known \subseteq Transactions
    BY DEF DataOK, LedgerOK
  <1>2. \A x \in known : SameHanding(txs[x], txs[x])
    BY DEF SameHanding
  <1> QED
    BY <1>1, <1>2 DEF HandingStays, Record

LEMMA TasksAtWork ==
  ASSUME DataOK, TasksKnown, HandingInv
  PROVE  /\ UNCHANGED clicks => ClicksWork
         /\ UNCHANGED timers => TimersWork
         /\ session' \in {session, NoTx} /\ (screen' = "pickup" => screen = "pickup") => ScreenWorks
         /\ loop'.label \notin {"product_dispensed", "opening_window"} \/ LoopStays => LoopWorks
         /\ \A c \in Clicks :
              \/ EndClick(c)
              \/ \E where, y, plan :
                   /\ Suspend(c, where, y, plan) /\ where # "recovering"
                   /\ where \in {"pressed", "closing_window", "completed"} => y \in known /\ HandedOver(y)
                   /\ where = "enabling" => y \in known
              => ClicksWork
  <1>1. UNCHANGED clicks => ClicksWork
    BY DEF ClicksWork, HandingInv, ClicksHanded, PickingUp, Enabling, Recovering
  <1>2. UNCHANGED timers => TimersWork
    BY DEF TimersWork, HandingInv, TimersHanded
  <1>3. session' \in {session, NoTx} /\ (screen' = "pickup" => screen = "pickup") => ScreenWorks
    BY DEF ScreenWorks, HandingInv, ScreenHanded
  <1>4. loop'.label \notin {"product_dispensed", "opening_window"} \/ LoopStays => LoopWorks
    BY DEF LoopWorks, Delivering, LoopStays
  <1>5. ASSUME NEW c \in Clicks, EndClick(c)
        PROVE  ClicksWork
    <2>1. clicks'[c].label = "idle" /\ \A d \in Clicks \ {c} : clicks'[d] = clicks[d]
      BY <1>5 DEF EndClick, IdleClick, DataOK, ClicksOK
    <2> QED
      BY <2>1 DEF ClicksWork, HandingInv, ClicksHanded, PickingUp, Enabling, Recovering
  <1>6. ASSUME NEW c \in Clicks, NEW where, NEW y, NEW plan,
               Suspend(c, where, y, plan), where # "recovering",
               where \in {"pressed", "closing_window", "completed"} => y \in known /\ HandedOver(y),
               where = "enabling" => y \in known
        PROVE  ClicksWork
    <2>1. /\ clicks'[c].label = where /\ clicks'[c].tx = y
          /\ \A d \in Clicks \ {c} : clicks'[d] = clicks[d]
      BY <1>6 DEF Suspend, DataOK, ClicksOK
    <2> QED
      BY <1>6, <2>1 DEF ClicksWork, HandingInv, ClicksHanded, PickingUp, Enabling, Recovering
  <1> QED
    BY <1>1, <1>2, <1>3, <1>4, <1>5, <1>6

(* The validator loop.                                                     *)
LEMMA PaymentLoopWorks ==
  ASSUME DataOK, TasksKnown, HandingInv, PaymentLoopStep
  PROVE  Works
  <1> DEFINE x == txs[loop.tx]
  <1>1. UNCHANGED <<known, active, session, clicks, timers>>
    BY DEF PaymentLoopStep, ReadEvent, ValidatorFault, CreditBill, AwaitMoreCash, CompletePayment,
           AcceptanceDisabled, FinalizeReserve, RequestChange, ChangeDispensed, DisableFails,
           ChangeNotDispensed, ChangeCommandRaises, ledger, ui
  <1>2. HandingStays
    <2>1. CASE ReadEvent \/ AwaitMoreCash \/ AcceptanceDisabled \/ RequestChange \/ ChangeCommandRaises
      BY <2>1, RecordsKeepHanding
      DEF ReadEvent, AwaitMoreCash, AcceptanceDisabled, RequestChange, ChangeCommandRaises, ledger
    <2>2. CASE loop.label \notin {"read", "dead"}
               /\ (UNCHANGED txs \/ \E r : Record(loop.tx, r) /\ SameHanding(r, x))
      BY <2>2, LoopHasRecord, RecordsKeepHanding
    <2>3. CASE ValidatorFault \/ CreditBill \/ CompletePayment \/ DisableFails
      <3>1. loop.label \notin {"read", "dead"}
        BY <2>3 DEF ValidatorFault, CreditBill, CompletePayment, DisableFails
      <3> QED
        BY <2>2, <2>3, <3>1, LoopHasRecord, MethodsKeepHanding
        DEF ValidatorFault, CreditBill, CompletePayment, DisableFails
    <2>4. CASE FinalizeReserve \/ ChangeDispensed \/ ChangeNotDispensed
      <3>1. loop.label \notin {"read", "dead"}
        BY <2>4 DEF FinalizeReserve, ChangeDispensed, ChangeNotDispensed
      <3> QED
        BY <2>2, <2>4, <3>1, LoopHasRecord, MethodsKeepHanding
        DEF FinalizeReserve, ChangeDispensed, ChangeNotDispensed
    <2> QED
      BY <2>1, <2>3, <2>4 DEF PaymentLoopStep
  <1>3. screen' = "pickup" => screen = "pickup"
    BY DEF PaymentLoopStep, ReadEvent, ValidatorFault, CreditBill, AwaitMoreCash, CompletePayment,
           AcceptanceDisabled, AcceptPayment, LoopProceeds, FinalizeReserve, RequestChange,
           ChangeDispensed, DisableFails, ChangeNotDispensed, ChangeCommandRaises, ui
  <1>4. loop'.label \notin {"product_dispensed", "opening_window"} \/ LoopStays
    <2>1. CASE ReadEvent \/ AwaitMoreCash
      BY <2>1, LoopDiesTo DEF ReadEvent, AwaitMoreCash, DataOK, LoopOK, LoopRecords
    <2>2. CASE ValidatorFault \/ CreditBill \/ CompletePayment \/ AcceptanceDisabled \/ DisableFails
      BY <2>2, LoopGoes, LoopProceedsOrDies, LoopDiesTo
      DEF ValidatorFault, CreditBill, CompletePayment, AcceptanceDisabled, DisableFails,
          AcceptPayment, LoopAt
    <2>3. CASE FinalizeReserve
      <3>1. \/ LoopGoesTo("vend_authorized") \/ PayoutRaises
            \/ LoopProceeds("DISPENSING_CHANGE", "change_requested", "dispensing")
        BY <2>3 DEF FinalizeReserve
      <3> QED
        BY <3>1, LoopGoes, LoopProceedsOrDies, PayoutRaisesLeaves DEF LoopAt
    <2>4. CASE RequestChange
      <3>1. \/ PayoutRaises
            \/ loop' = [loop EXCEPT !.label = "dispensing_change", !.plan = x.change_reserve]
        BY <2>4 DEF RequestChange
      <3> QED
        BY <3>1, PayoutRaisesLeaves DEF DataOK, LoopOK, LoopRecords
    <2>5. CASE ChangeDispensed \/ ChangeNotDispensed \/ ChangeCommandRaises
      <3>1. PayoutRaises \/ LoopGoesTo("vend_authorized")
        BY <2>5 DEF ChangeDispensed, ChangeNotDispensed, ChangeCommandRaises
      <3> QED
        BY <3>1, LoopGoes, PayoutRaisesLeaves DEF LoopAt
    <2> QED
      BY <2>1, <2>2, <2>3, <2>4, <2>5 DEF PaymentLoopStep
  <1> QED
    BY <1>1, <1>2, <1>3, <1>4, TasksAtWork DEF Works, TasksWork

LEMMA VendLoopWorks ==
  ASSUME DataOK, TasksKnown, HandingInv, VendLoopStep, ~WindowOpened
  PROVE  Works
  <1>1. UNCHANGED <<known, active, session, clicks, timers>> /\ loop.label \notin {"read", "dead"}
    BY DEF VendLoopStep, VendAuthorized, ProductVended, VendFails, OpenWindow, OpenFails, ledger, ui
  <1>2. HandingStays
    <2>1. UNCHANGED txs \/ \E r : Record(loop.tx, r) /\ SameHanding(r, txs[loop.tx])
      BY <1>1, LoopHasRecord, MethodsKeepHanding
      DEF VendLoopStep, VendAuthorized, ProductVended, VendFails, OpenWindow, OpenFails, ledger
    <2> QED
      BY <1>1, <2>1, LoopHasRecord, RecordsKeepHanding
  <1>3. screen' = "pickup" => screen = "pickup"
    BY DEF VendLoopStep, VendAuthorized, ProductVended, VendFails, OpenWindow, OpenFails,
           LoopProceeds, ui
  <1>4. LoopWorks
    <2>1. CASE VendAuthorized
      <3>1. loop'.label \in {"vending", "dead"}
        BY <2>1, LoopDiesTo, LoopProceedsOrDies DEF VendAuthorized, LoopAt
      <3> QED
        BY <3>1 DEF LoopWorks, Delivering
    <2>2. CASE ProductVended
      <3>1. loop.label = "vending" /\ loop.tx \in Transactions /\ vends \in [Transactions -> Nat]
        BY <2>2, LoopHasRecord DEF ProductVended, DataOK, GoodsOK
      <3>2. vends'[loop.tx] > 0
        BY <2>2, <3>1 DEF ProductVended, MotorRuns
      <3>3. loop'.label = "dead" \/ LoopAt("product_dispensed")
        BY <2>2, LoopDiesTo, LoopGoes DEF ProductVended
      <3> QED
        BY <3>1, <3>2, <3>3 DEF LoopWorks, Delivering, LoopAt
    <2>3. CASE VendFails \/ OpenFails
      <3>1. loop'.label = "dead"
        BY <2>3, LoopDiesTo DEF VendFails, OpenFails
      <3> QED
        BY <3>1 DEF LoopWorks, Delivering
    <2>4. CASE OpenWindow
      <3>1. loop'.label = "dead" \/ LoopAt("opening_window")
        BY <2>4, LoopProceedsOrDies DEF OpenWindow
      <3> QED
        BY <2>4, <3>1 DEF OpenWindow, LoopWorks, Delivering, LoopAt
    <2> QED
      BY <2>1, <2>2, <2>3, <2>4 DEF VendLoopStep
  <1> QED
    BY <1>1, <1>2, <1>3, <1>4, TasksAtWork DEF Works, TasksWork

(* The clicks.                                                             *)
LEMMA PaymentClickWorks ==
  ASSUME DataOK, TasksKnown, HandingInv, NobodyCancels, NEW c \in Clicks, PaymentClickStep(c)
  PROVE  Works
  <1> DEFINE y == clicks[c].tx
             x == txs[y]
  <1>0. StartCashSession(c) \/ ReserveCreated(c) \/ AcceptanceEnabled(c) \/ EnableFails(c)
    BY DEF PaymentClickStep, NobodyCancels, CancelLabels, CancelDisabled, CancelDisableFails,
           RequestRefund, RefundDispensed, RefundNotDispensed, RefundCommandRaises,
           RefundPublished, CancelPublished
  <1>1. y \in known /\ y \in Transactions /\ x \in TransactionRecords
    BY <1>0
    DEF StartCashSession, ReserveCreated, AcceptanceEnabled, EnableFails, TasksKnown, HandingInv,
        ClicksHanded, Opening, Started, Reserved, Enabling, DataOK, LedgerOK
  <1>2. UNCHANGED <<known, active, timers, loop>>
    BY <1>0
    DEF StartCashSession, ReserveCreated, AcceptanceEnabled, EnableFails, ledger
  <1>3. ASSUME NEW st, OpenSession(c, y, x, st), session' = session
        PROVE  HandingStays /\ ClicksWork /\ ScreenWorks
    <2>1. HandingStays
      BY <1>1, <1>3, MethodsKeepHanding, RecordsKeepHanding DEF OpenSession
    <2>2. EndClick(c) \/ Suspend(c, "enabling", y, NoPieces)
      BY <1>3 DEF OpenSession, ClickRejected
    <2>3. ClicksWork
      BY <1>1, <2>2, TasksAtWork
    <2>4. screen' = "pickup" => screen = "pickup"
      BY <1>3 DEF OpenSession, ClickRejected
    <2> QED
      BY <1>3, <2>1, <2>3, <2>4, TasksAtWork
  <1>4. CASE StartCashSession(c)
    <2>1. CASE \/ EndClick(c) /\ screen' = "notice" /\ UNCHANGED txs
               \/ /\ \E plan : Record(y, AttachChangeReserve(x, plan))
                  /\ Suspend(c, "reserve_created", y, NoPieces) /\ UNCHANGED screen
      <3>1. HandingStays
        BY <1>1, <2>1, MethodsKeepHanding, RecordsKeepHanding
      <3>2. ClicksWork
        BY <2>1, TasksAtWork
      <3>3. ScreenWorks
        BY <1>4, <2>1, TasksAtWork DEF StartCashSession
      <3> QED
        BY <1>2, <3>1, <3>2, <3>3, TasksAtWork DEF Works, TasksWork, LoopStays
    <2>2. ASSUME NEW st, OpenSession(c, y, x, st)
          PROVE  Works
      BY <1>2, <1>3, <1>4, <2>2, TasksAtWork DEF StartCashSession, Works, TasksWork, LoopStays
    <2> QED
      BY <1>4, <2>1, <2>2 DEF StartCashSession, ClickRejected
  <1>5. CASE ReserveCreated(c)
    BY <1>2, <1>3, <1>5, TasksAtWork DEF ReserveCreated, Works, TasksWork, LoopStays
  <1>6. CASE AcceptanceEnabled(c)
    <2>1. HandingStays
      BY <1>6, RecordsKeepHanding DEF AcceptanceEnabled, ledger
    <2>2. ClicksWork
      BY <1>6, TasksAtWork DEF AcceptanceEnabled
    <2>3. ScreenWorks
      BY <1>1, <1>6 DEF AcceptanceEnabled, ScreenWorks
    <2> QED
      BY <1>2, <2>1, <2>2, <2>3, TasksAtWork DEF Works, TasksWork, LoopStays
  <1>7. CASE EnableFails(c)
    <2>1. HandingStays
      BY <1>1, <1>7, MethodsKeepHanding, RecordsKeepHanding DEF EnableFails
    <2>2. ClicksWork /\ ScreenWorks
      BY <1>7, TasksAtWork DEF EnableFails, ClickRejected
    <2> QED
      BY <1>2, <2>1, <2>2, TasksAtWork DEF Works, TasksWork, LoopStays
  <1> QED
    BY <1>0, <1>4, <1>5, <1>6, <1>7

LEMMA VendClickWorks ==
  ASSUME DataOK, TasksKnown, HandingInv, NEW c \in Clicks,
         \/ SensorMismatch(c) \/ AlreadyActive(c)
         \/ PickupClick(c) \/ PickupWindowClosed(c) \/ PickupCloseFails(c)
  PROVE  Works
  <1> DEFINE y == clicks[c].tx
             x == txs[y]
  <1>1. UNCHANGED <<known, active, timers, loop>>
    BY DEF SensorMismatch, AlreadyActive, PickupClick, PickupWindowClosed, PickupCloseFails, ledger
  <1>2. session' \in {session, NoTx} /\ (screen' = "pickup" => screen = "pickup")
    BY DEF SensorMismatch, AlreadyActive, PickupClick, PickupWindowClosed, PickupCloseFails, ClickRejected, ui
  <1>3. CASE SensorMismatch(c) \/ AlreadyActive(c)
    <2>1. HandingStays
      BY <1>3, RecordsKeepHanding DEF SensorMismatch, AlreadyActive, ledger
    <2>2. ClicksWork
      BY <1>3, TasksAtWork DEF SensorMismatch, AlreadyActive, ClickRejected
    <2> QED
      BY <1>1, <1>2, <2>1, <2>2, TasksAtWork DEF Works, TasksWork, LoopStays
  <1>4. CASE PickupClick(c) \/ PickupWindowClosed(c) \/ PickupCloseFails(c)
    <2>1. y \in known /\ y \in Transactions /\ x \in TransactionRecords /\ HandedOver(y)
      BY <1>4
      DEF PickupClick, PickupWindowClosed, PickupCloseFails, HandingInv, ClicksHanded, PickingUp,
          DataOK, LedgerOK
    <2>2. /\ SameHanding(MarkWindowClosed(x), x) /\ SameHanding(MarkFaulted(x), x)
          /\ SameHanding(ConfirmPickup(x), x)
      BY <2>1, MethodsKeepHanding DEF HandedOver
    <2>3. UNCHANGED txs \/ \E r : Record(y, r) /\ SameHanding(r, x)
      BY <1>4, <2>2 DEF PickupClick, PickupWindowClosed, PickupCloseFails
    <2>4. HandingStays
      BY <2>1, <2>3, RecordsKeepHanding
    <2>5. \/ EndClick(c)
          \/ \E where \in {"closing_window", "completed"} : Suspend(c, where, y, NoPieces)
      BY <1>4 DEF PickupClick, PickupWindowClosed, PickupCloseFails, ClickRejected
    <2>6. ClicksWork
      BY <2>1, <2>5, TasksAtWork
    <2> QED
      BY <1>1, <1>2, <2>4, <2>6, TasksAtWork DEF Works, TasksWork, LoopStays
  <1> QED
    BY <1>3, <1>4

(* The deadlines, the customers and the technician.                        *)
LEMMA DeadlineWorks ==
  ASSUME DataOK, TasksKnown, HandingInv, NEW x \in Transactions, DeadlineStep(x)
  PROVE  Works
  <1>1. UNCHANGED <<known, active, session, clicks, loop>> /\ (screen' = "pickup" => screen = "pickup")
    BY DEF DeadlineStep, DeadlinePasses, TimerStep, CloseOnTimeout, TimeoutWindowClosed,
           TimeoutCloseFails, ledger, ui
  <1>2. x \in known /\ HandedOver(x) /\ txs[x] \in TransactionRecords
    <2>1. CASE DeadlinePasses(x)
      BY <2>1 DEF DeadlinePasses, HandingInv, HandedAreVended, EndsHanded, HandedOver, DataOK, LedgerOK
    <2>2. CASE TimerStep(x)
      BY <2>2 DEF TimerStep, CloseOnTimeout, TimeoutWindowClosed, TimeoutCloseFails, HandingInv,
                  TimersHanded, DataOK, LedgerOK
    <2> QED
      BY <2>1, <2>2 DEF DeadlineStep
  <1>3. HandingStays
    <2>1. /\ SameHanding(MarkPickupTimedOutWindowClosed(txs[x]), txs[x])
          /\ SameHanding(MarkFaulted(txs[x]), txs[x])
      BY <1>2, MethodsKeepHanding DEF HandedOver
    <2>2. UNCHANGED txs \/ \E r : Record(x, r) /\ SameHanding(r, txs[x])
      BY <2>1 DEF DeadlineStep, DeadlinePasses, TimerStep, CloseOnTimeout,
                  TimeoutWindowClosed, TimeoutCloseFails, ledger
    <2> QED
      BY <2>2, RecordsKeepHanding
  <1>4. TimersWork
    <2>1. \A z \in Transactions : z # x => timers'[z] = timers[z]
      BY DEF DeadlineStep, DeadlinePasses, TimerStep, CloseOnTimeout, TimeoutWindowClosed,
             TimeoutCloseFails, TimerGoesTo, DataOK, TimersOK
    <2> QED
      BY <1>2, <2>1 DEF TimersWork, HandingInv, TimersHanded
  <1> QED
    BY <1>1, <1>3, <1>4, TasksAtWork DEF Works, TasksWork, LoopStays

LEMMA CustomerWorks ==
  ASSUME DataOK, TasksKnown, HandingInv, "cancel" \notin Operations, CustomerStep
  PROVE  Works
  <1>1. UNCHANGED <<known, active, session, timers, loop>>
    BY DEF CustomerStep, InsertBill, JamBill, CheckoutClick, CancelClick, PickupPress, ledger, ui
  <1>2. screen' = "pickup" => screen = "pickup"
    BY DEF CustomerStep, InsertBill, JamBill, CheckoutClick, CancelClick, PickupPress, ui,
           ClickRejected
  <1>3. CASE UNCHANGED <<txs, clicks>>
    BY <1>1, <1>2, <1>3, RecordsKeepHanding, TasksAtWork DEF Works, TasksWork, LoopStays
  <1>4. ASSUME NEW c \in Clicks, CheckoutClick(c)
        PROVE  Works
    <2>1. UNCHANGED txs /\ (EndClick(c) \/ Suspend(c, "sensing", NoTx, NoPieces))
      BY <1>4 DEF CheckoutClick, ClickRejected, ledger
    <2>2. HandingStays /\ ClicksWork
      BY <2>1, RecordsKeepHanding, TasksAtWork
    <2> QED
      BY <1>1, <1>2, <2>2, TasksAtWork DEF Works, TasksWork, LoopStays
  <1>5. ASSUME NEW c \in Clicks, PickupPress(c)
        PROVE  Works
    <2>1. session \in known /\ HandedOver(session)
      BY <1>5 DEF PickupPress, HandingInv, ScreenHanded
    <2>2. UNCHANGED txs /\ Suspend(c, "pressed", session, NoPieces)
      BY <1>5 DEF PickupPress, ledger
    <2>3. HandingStays /\ ClicksWork
      BY <2>1, <2>2, RecordsKeepHanding, TasksAtWork
    <2> QED
      BY <1>1, <1>2, <2>3, TasksAtWork DEF Works, TasksWork, LoopStays
  <1> QED
    BY <1>3, <1>4, <1>5 DEF CustomerStep, InsertBill, JamBill, CancelClick, ledger

LEMMA OperatorWorks ==
  ASSUME DataOK, TasksKnown, HandingInv, "recover" \notin Operations, OperatorStep
  PROVE  Works
  <1>1. UNCHANGED <<txs, known, active, clicks, timers, loop>>
    BY DEF OperatorStep, EnterServiceMode, ExitServiceMode, LeaveNotice, RecoverClick, HealthPoll,
           ledger
  <1>2. session' \in {session, NoTx} /\ (screen' = "pickup" => screen = "pickup")
    BY DEF OperatorStep, EnterServiceMode, ExitServiceMode, LeaveNotice, RecoverClick, HealthPoll
  <1> QED
    BY <1>1, <1>2, RecordsKeepHanding, TasksAtWork DEF Works, TasksWork, LoopStays

LEMMA NextHands ==
  ASSUME DataOK, TasksKnown, HandingInv, NobodyCancels,
         "cancel" \notin Operations, "recover" \notin Operations, Next
  PROVE  HandingForms
  <1>1. CASE LoopStep
    BY <1>1, PaymentLoopWorks, VendLoopWorks DEF LoopStep, HandingForms
  <1>2. ASSUME NEW c \in Clicks, ClickStep(c)
        PROVE  HandingForms
    <2>1. ~RecoverAsCancelled(c)
      BY DEF RecoverAsCancelled, HandingInv, ClicksHanded, Recovering
    <2> QED
      BY <1>2, <2>1, PaymentClickWorks, VendClickWorks DEF ClickStep, VendClickStep, HandingForms
  <1>3. CASE (\E x \in Transactions : DeadlineStep(x)) \/ CustomerStep \/ OperatorStep
    BY <1>3, DeadlineWorks, CustomerWorks, OperatorWorks DEF HandingForms
  <1> QED
    BY <1>1, <1>2, <1>3 DEF Next

-----------------------------------------------------------------------------
(* What has been handed over stays handed over.                            *)
LEMMA WorkKeepsHanding ==
  ASSUME DataOK, TasksKnown, VendedOnce, HandingInv, Works,
         \A x \in known : vends[x] > 0 => vends'[x] > 0
  PROVE  HandingInv'
  <1> USE DEF HandingInv
  <1>1. known' = known /\ active' = active
    BY DEF Works
  <1>2. \A x \in known : (HandedOver(x) <=> Handed(txs'[x])) /\ (EndsHanded(txs[x]) => EndsHanded(txs'[x]))
    BY DEF Works, HandingStays, SameHanding, HandedOver
  <1>3. HandedAreVended' /\ OneUnhanded'
    BY <1>1, <1>2 DEF HandedAreVended, OneUnhanded, HandedOver
  <1>4. ClicksHanded'
    <2> SUFFICES ASSUME NEW c \in Clicks
                 PROVE  /\ ~Recovering(c)'
                        /\ PickingUp(c)' => \E x \in known' : clicks'[c].tx = x /\ Handed(txs'[x])
                        /\ Enabling(c)' => clicks'[c].tx \in known'
      BY DEF ClicksHanded, HandedOver
    <2> QED
      BY <1>1, <1>2 DEF Works, TasksWork, ClicksWork, Recovering
  <1>5. TimersHanded' /\ ScreenHanded'
    BY <1>1, <1>2 DEF Works, TasksWork, TimersWork, ScreenWorks, TimersHanded, ScreenHanded, HandedOver
  <1>6. HandingOver'
    <2> SUFFICES ASSUME Delivering'
                 PROVE  \E x \in known : loop'.tx = x /\ vends'[x] > 0 /\ ~Handed(txs'[x])
      BY DEF HandingOver, HandedOver
    <2>1. CASE Delivering /\ loop'.tx = loop.tx
      <3>1. loop.tx \in known
        BY <2>1 DEF Delivering, TasksKnown
      <3> QED
        BY <1>2, <2>1, <3>1 DEF HandingOver
    <2>2. CASE loop.label = "vending" /\ loop'.tx = loop.tx /\ vends'[loop.tx] > 0
      <3>1. loop.tx \in known /\ ~(vends[loop.tx] > 0)
        BY <2>2 DEF TasksKnown, VendedOnce, ToMotor
      <3>2. ~HandedOver(loop.tx)
        BY <3>1 DEF HandedAreVended
      <3> QED
        BY <1>2, <2>2, <3>1, <3>2
    <2> QED
      BY <2>1, <2>2 DEF Works, TasksWork, LoopWorks
  <1> QED
    BY <1>3, <1>4, <1>5, <1>6

LEMMA OpeningHandsOver ==
  ASSUME DataOK, TasksKnown, HandingInv, WindowOpened
  PROVE  HandingInv'
  <1> USE DEF HandingInv
  <1> DEFINE y == loop.tx
  <1>1. /\ y \in known /\ y \in Transactions /\ txs[y] \in TransactionRecords
        /\ vends[y] > 0 /\ ~HandedOver(y)
    BY LoopHasRecord DEF WindowOpened, TasksKnown, HandingOver, Delivering
  <1>2. UNCHANGED <<known, active, session, clicks, timers, vends>>
    BY DEF WindowOpened
  <1>3. Handed(MarkWindowOpened(txs[y])) /\ EndsHanded(MarkWindowOpened(txs[y]))
    BY <1>1, MethodsKeepHanding
  <1>4. txs \in [Transactions -> TransactionRecords] /\ known \subseteq Transactions
    BY DEF DataOK, LedgerOK
  <1>5. txs'[y] = MarkWindowOpened(txs[y]) /\ \A x \in known : x # y => txs'[x] = txs[x]
    BY <1>1, <1>4 DEF WindowOpened, Record
  <1>6. \A x \in known : (HandedOver(x) => Handed(txs'[x])) /\ (EndsHanded(txs[x]) => EndsHanded(txs'[x]))
                         /\ (Handed(txs'[x]) => vends[x] > 0)
    BY <1>1, <1>3, <1>5 DEF HandedOver, HandedAreVended
  <1>7. HandedAreVended' /\ OneUnhanded'
    BY <1>2, <1>6 DEF HandedAreVended, OneUnhanded, HandedOver
  <1>8. ClicksHanded' /\ TimersHanded'
    BY <1>2, <1>6
    DEF ClicksHanded, TimersHanded, Recovering, PickingUp, Enabling, HandedOver
  <1>9. ScreenHanded'
    <2> SUFFICES ASSUME session # NoTx
                 PROVE  session \in known /\ Handed(txs'[session])
      BY <1>2 DEF ScreenHanded, HandedOver
    <2>1. session \in known
      BY DEF ScreenHanded
    <2>2. session = y \/ HandedOver(session)
      BY <1>1, <2>1 DEF OneUnhanded
    <2> QED
      BY <1>3, <1>5, <1>6, <2>1, <2>2
  <1>10. HandingOver'
    <2>1. loop'.label \in {"read", "dead"}
      BY LoopDiesTo DEF WindowOpened
    <2> QED
      BY <2>1 DEF HandingOver, Delivering
  <1> QED
    BY <1>7, <1>8, <1>9, <1>10

LEMMA CompletionKeepsHanding ==
  ASSUME DataOK, TasksKnown, HandingInv, NEW c \in Clicks, SaleCompleted(c)
  PROVE  HandingInv'
  <1> USE DEF HandingInv
  <1>1. UNCHANGED <<known, txs, timers, loop, vends>> /\ session' \in {session, NoTx}
        /\ screen' # "pickup"
    BY DEF SaleCompleted, ClickRejected, goods
  <1>2. clicks[c].tx \in known /\ HandedOver(clicks[c].tx)
    BY DEF SaleCompleted, ClicksHanded, PickingUp
  <1>3. clicks'[c].label = "idle" /\ \A d \in Clicks \ {c} : clicks'[d] = clicks[d]
    BY DEF SaleCompleted, ClickRejected, EndClick, IdleClick, DataOK, ClicksOK
  <1>4. active' = active \/ (active = clicks[c].tx /\ active' = NoTx)
    BY DEF SaleCompleted, ClearActive
  <1>5. HandedAreVended' /\ TimersHanded' /\ ScreenHanded' /\ HandingOver'
    BY <1>1
    DEF HandedAreVended, TimersHanded, ScreenHanded, HandingOver, Delivering, HandedOver
  <1>6. OneUnhanded'
    BY <1>1, <1>2, <1>4 DEF OneUnhanded, HandedOver
  <1>7. ClicksHanded'
    BY <1>1, <1>3 DEF ClicksHanded, Recovering, PickingUp, Enabling, HandedOver
  <1> QED
    BY <1>5, <1>6, <1>7

LEMMA CreationKeepsHanding ==
  ASSUME DataOK, TasksKnown, HandingInv, NEW c \in Clicks, NEW x \in Transactions,
         CreateTransaction(c, x)
  PROVE  HandingInv'
  <1> USE DEF HandingInv
  <1>1. /\ active = NoTx /\ x \notin known /\ known' = known \cup {x} /\ active' = x
        /\ UNCHANGED <<session, timers, loop, vends>>
        /\ screen' = "pickup" => screen = "pickup"
    BY DEF CreateTransaction, ClickRejected, goods
  <1>2. known \subseteq Transactions /\ txs \in [Transactions -> TransactionRecords]
    BY DEF DataOK, LedgerOK
  <1>3. txs'[x] = NewTransaction /\ \A z \in known : txs'[z] = txs[z]
    BY <1>1, <1>2 DEF CreateTransaction, Record
  <1>4. ~Handed(txs'[x]) /\ EndsHanded(txs'[x])
    BY <1>3, NewTransactionTyped, MethodsKeepHanding
  <1>5. \A z \in known : HandedOver(z)
    BY <1>1, <1>2, KioskAssumption DEF OneUnhanded
  <1>6. /\ \A d \in Clicks \ {c} : clicks'[d] = clicks[d]
        /\ clicks'[c].label \in {"idle", "purchase_started"}
    BY DEF CreateTransaction, ClickRejected, EndClick, Suspend, IdleClick, DataOK, ClicksOK
  <1>7. HandedAreVended' /\ OneUnhanded'
    BY <1>1, <1>3, <1>4, <1>5 DEF HandedAreVended, OneUnhanded, HandedOver
  <1>8. ClicksHanded'
    BY <1>1, <1>3, <1>6 DEF ClicksHanded, Recovering, PickingUp, Enabling, HandedOver
  <1>9. TimersHanded' /\ ScreenHanded'
    BY <1>1, <1>3 DEF TimersHanded, ScreenHanded, HandedOver
  <1>10. HandingOver'
    BY <1>1, <1>5 DEF HandingOver, Delivering, TasksKnown
  <1> QED
    BY <1>7, <1>8, <1>9, <1>10

LEMMA StepKeepsHanding ==
  ASSUME DataOK, TasksKnown, VendedOnce, HandingInv, HandingForms, Forms
  PROVE  HandingInv'
  <1>1. \A x \in known : vends[x] > 0 => vends'[x] > 0
    BY VendedStays DEF Vended, DataOK, LedgerOK
  <1> QED
    BY <1>1, WorkKeepsHanding, OpeningHandsOver, CompletionKeepsHanding, CreationKeepsHanding
    DEF HandingForms

-----------------------------------------------------------------------------
(* The books: the pieces they miss are the pieces that were paid.  The     *)
(* ones on disk may be behind, but then the sale they are behind for is on *)
(* disk and has not been handed over, and the loop waits for the write or  *)
(* is dead.                                                                *)
Even(inv) ==
  \A d \in Denominations :
    InitialChange[d] - inv.accounting[d] = PiecesOf(paidOut, Transactions)[d]
Behind(x) ==
  /\ x \in known \cap DOMAIN rows /\ vends[x] = 0
  /\ \/ loop.label = "dead"
     \/ loop.label = "vend_authorized" /\ loop.tx = x /\ LoopWaitsForWrite
RowsHanded == \A x \in known \cap DOMAIN rows : Terminal(rows[x]) => HandedOver(x)
ChangeOnDisk ==
  /\ loop.label = "change_requested" => loop.tx \in DOMAIN rows \/ LoopWaitsForWrite
  /\ loop.label = "dispensing_change" => loop.tx \in DOMAIN rows
ChangePlanned ==
  loop.label = "dispensing_change" =>
    loop.plan = txs[loop.tx].change_reserve /\ loop.plan # NoPieces
BooksInv ==
  /\ HandingInv /\ RowsHanded /\ ChangeOnDisk /\ ChangePlanned /\ Even(inventory)
  /\ Even(savedInventory) \/ \E x \in known : Behind(x)

(* Where the loop comes from when it is at the change.                     *)
LEMMA ChangeLabels ==
  ASSUME DataOK, MoneyForms
  PROVE  /\ loop'.label = "change_requested" =>
              loop'.tx = loop.tx /\ loop.label \in {"payment_confirmed", "change_requested"}
         /\ loop'.label = "dispensing_change" =>
              loop'.tx = loop.tx /\ loop.label \in {"change_requested", "dispensing_change"}
         /\ loop.label = "vend_authorized" /\ loop'.label = "vend_authorized" => loop'.tx = loop.tx
         /\ loop.label = "dead" => loop'.label = "dead"
  <1>1. CASE \/ Idles
             \/ \E x \in Transactions : Adds(x)
             \/ \E c \in Clicks : \E plan \in ChangePlans(inventory, WorstCaseChange) : Attaches(c, plan)
    BY <1>1 DEF Idles, Travels, Adds, Attaches, ToMotor
  <1>2. CASE CreditBill \/ CompletePayment
    <2>1. /\ loop.label \in {"device_event", "amount_updated"}
          /\ loop'.label \in {"amount_updated", "disabling", "payment_confirmed", "dead"}
      BY <1>2, LoopGoes, LoopProceedsOrDies, LoopDiesTo
      DEF CreditBill, CompletePayment, AcceptPayment, LoopAt
    <2> QED
      BY <2>1
  <1>3. CASE FinalizeReserve
    <2>1. /\ loop.label = "payment_confirmed"
          /\ LoopAt("vend_authorized") \/ LoopAt("change_requested") \/ loop'.label = "dead"
      BY <1>3, LoopGoes, LoopProceedsOrDies, PayoutRaisesLeaves DEF FinalizeReserve
    <2> QED
      BY <2>1 DEF LoopAt
  <1>4. CASE ChangeDispensed \/ ChangeNotDispensed \/ ChangeCommandRaises
    <2>1. loop.label = "dispensing_change" /\ loop'.label \in {"vend_authorized", "dead"}
      BY <1>4, LoopGoes, PayoutRaisesLeaves
      DEF ChangeDispensed, ChangeNotDispensed, ChangeCommandRaises, LoopAt
    <2> QED
      BY <2>1
  <1> QED
    BY <1>1, <1>2, <1>3, <1>4 DEF MoneyForms

LEMMA ChangeStaysPlanned ==
  ASSUME DataOK, TasksKnown, SessionsOnce, ChangePlanned, MoneyForms
  PROVE  ChangePlanned'
  <1> SUFFICES ASSUME loop'.label = "dispensing_change"
               PROVE  /\ loop'.plan = txs'[loop'.tx].change_reserve
                      /\ loop'.plan # NoPieces
    BY DEF ChangePlanned
  <1>1. loop'.tx = loop.tx /\ loop.label \in {"change_requested", "dispensing_change"}
    BY ChangeLabels
  <1>2. loop.tx \in known /\ Sessioned(loop.tx)
    BY <1>1 DEF TasksKnown, SessionsOnce, ToMotor
  <1>3. txs \in [Transactions -> TransactionRecords]
    BY DEF DataOK, LedgerOK
  <1>4. CASE Idles
    <2>1. txs'[loop.tx].change_reserve = txs[loop.tx].change_reserve
      BY <1>2, <1>4 DEF Idles, MoneyStays, PursesStay, SamePurse
    <2> QED
      BY <1>1, <1>4, <2>1 DEF Idles, Travels, ToMotor, ChangePlanned
  <1>5. ASSUME NEW x \in Transactions, Adds(x)
        PROVE  loop' = loop /\ txs'[loop.tx] = txs[loop.tx]
    BY <1>2, <1>3, <1>5 DEF Adds, Record
  <1>6. ASSUME NEW c \in Clicks, NEW plan, Attaches(c, plan)
        PROVE  loop' = loop /\ txs'[loop.tx] = txs[loop.tx]
    <2>1. clicks[c].tx # loop.tx
      BY <1>2, <1>6 DEF Attaches, SessionsOnce, Opening
    <2> QED
      BY <1>3, <1>6, <2>1 DEF Attaches, Record
  <1>7. ~CreditBill /\ ~CompletePayment /\ ~FinalizeReserve
    BY <1>1 DEF CreditBill, CompletePayment, FinalizeReserve
  <1>8. ~ChangeDispensed /\ ~ChangeNotDispensed /\ ~ChangeCommandRaises
    <2>1. ChangeDispensed \/ ChangeNotDispensed \/ ChangeCommandRaises
            => loop'.label \in {"vend_authorized", "dead"}
      BY LoopGoes, PayoutRaisesLeaves
      DEF ChangeDispensed, ChangeNotDispensed, ChangeCommandRaises, LoopAt
    <2> QED
      BY <2>1
  <1> QED
    BY <1>1, <1>4, <1>5, <1>6, <1>7, <1>8 DEF MoneyForms, ChangePlanned

(* The payout is booked as it is made.                                     *)
LEMMA EvenKept ==
  ASSUME paidOut' = paidOut
  PROVE  /\ inventory'.accounting = inventory.accounting => (Even(inventory)' <=> Even(inventory))
         /\ savedInventory' = savedInventory => (Even(savedInventory)' <=> Even(savedInventory))
         /\ savedInventory' = inventory => (Even(savedInventory)' <=> Even(inventory))
  BY DEF Even

LEMMA PaidPieces ==
  ASSUME DataOK, IsFiniteSet(Transactions), NEW x \in Transactions, NEW plan \in Counts,
         PayOut(x, plan), NEW d \in Denominations
  PROVE  /\ PiecesOf(paidOut, Transactions)[d] \in Nat
         /\ PiecesOf(paidOut, Transactions)'[d] = PiecesOf(paidOut, Transactions)[d] + plan[d]
  <1> DEFINE F == [y \in Transactions |-> paidOut[y][d]]
             G == [y \in Transactions |-> paidOut'[y][d]]
  <1>1. paidOut \in [Transactions -> Counts]
    BY DEF DataOK, CashOK
  <1>2. paidOut' = [paidOut EXCEPT ![x] = PlusCounts(@, plan)]
    BY DEF PayOut
  <1>3. plan[d] \in Nat /\ \A y \in Transactions : paidOut[y][d] \in Nat
    BY <1>1 DEF Counts
  <1>4. /\ paidOut'[x][d] = paidOut[x][d] + plan[d]
        /\ \A y \in Transactions : y # x => paidOut'[y][d] = paidOut[y][d]
    BY <1>1, <1>2 DEF PlusCounts
  <1>5. /\ F[x] \in Nat /\ G[x] = F[x] + plan[d]
        /\ \A y \in Transactions : F[y] \in Nat /\ G[y] \in Nat
        /\ \A y \in Transactions : y # x => F[y] = G[y]
    BY <1>3, <1>4
  <1>6. /\ PiecesOf(paidOut, Transactions)[d] = Total(F, Transactions)
        /\ PiecesOf(paidOut', Transactions)[d] = Total(G, Transactions)
    BY PiecesOfIs
  <1> HIDE DEF F, G
  <1>7. /\ Total(F, Transactions) \in Nat /\ Total(G, Transactions) \in Nat
        /\ Total(G, Transactions) + F[x] = Total(F, Transactions) + G[x]
    BY <1>5, TotalChanged
  <1>8. Total(G, Transactions) = Total(F, Transactions) + plan[d]
    BY <1>3, <1>5, <1>7
  <1> QED
    BY <1>6, <1>7, <1>8

LEMMA PayoutBooked ==
  ASSUME DataOK, IsFiniteSet(Transactions), MaxFailures = 0, ChangePlanned, Even(inventory),
         ChangeDispensed \/ ChangeNotDispensed \/ ChangeCommandRaises
  PROVE  /\ Even(inventory)'
         /\ paidOut' = paidOut \/ LoopAt("vend_authorized")
  <1> DEFINE x == loop.tx
             plan == txs[x].change_reserve
  <1>1. ~Fails
    BY DEF Fails, DataOK, DevicesOK
  <1>2. loop.label = "dispensing_change" /\ x \in Transactions /\ txs[x] \in TransactionRecords
    BY LoopHasRecord DEF ChangeDispensed, ChangeNotDispensed, ChangeCommandRaises
  <1>3. inventory \in InventoryRecords
    BY DEF DataOK, CashOK
  <1>4. CASE ChangeNotDispensed \/ ChangeCommandRaises
    <2>1. paidOut' = paidOut /\ inventory' = MarkDrift(inventory)
      BY <1>1, <1>4 DEF ChangeNotDispensed, ChangeCommandRaises, money
    <2>2. inventory'.accounting = inventory.accounting
      BY <1>3, <2>1 DEF MarkDrift, InventoryRecords
    <2> QED
      BY <2>1, <2>2, EvenKept
  <1>5. CASE ChangeDispensed
    <2>1. plan \in Counts /\ plan # NoPieces /\ loop.plan = plan
      BY <1>2 DEF ChangePlanned, TransactionRecords
    <2>2. /\ PayOut(x, plan) /\ inventory' = Consume(inventory, plan)
          /\ LoopGoesTo("vend_authorized")
      BY <1>5, <2>1 DEF ChangeDispensed
    <2>3. inventory'.accounting = MinusCounts(inventory.accounting, plan)
      BY <1>3, <2>2 DEF Consume, InventoryRecords
    <2>4. ASSUME NEW d \in Denominations
          PROVE  InitialChange[d] - inventory'.accounting[d] = PiecesOf(paidOut, Transactions)'[d]
      <3>1. inventory'.accounting[d] = inventory.accounting[d] - plan[d]
        BY <2>3 DEF MinusCounts
      <3>2. InitialChange[d] \in Nat /\ inventory.accounting[d] \in Int /\ plan[d] \in Nat
        BY <1>3, <2>1, KioskAssumption DEF InventoryRecords, Counts
      <3>3. InitialChange[d] - inventory.accounting[d] = PiecesOf(paidOut, Transactions)[d]
        BY DEF Even
      <3>4. /\ PiecesOf(paidOut, Transactions)[d] \in Nat
            /\ PiecesOf(paidOut, Transactions)'[d] = PiecesOf(paidOut, Transactions)[d] + plan[d]
        BY <1>2, <2>1, <2>2, PaidPieces
      <3> HIDE DEF plan
      <3> QED
        BY <3>1, <3>2, <3>3, <3>4
    <2>5. LoopAt("vend_authorized")
      BY <2>2, LoopGoes
    <2> QED
      BY <2>4, <2>5 DEF Even
  <1> QED
    BY <1>4, <1>5

LEMMA StepStaysEven ==
  ASSUME DataOK, IsFiniteSet(Transactions), MaxFailures = 0, NobodyCancels, ChangePlanned,
         Even(inventory), MoneyForms, Next
  PROVE  /\ Even(inventory)'
         /\ \/ paidOut' = paidOut
            \/ loop.label = "dispensing_change" /\ LoopAt("vend_authorized")
  <1>1. CASE ChangeDispensed \/ ChangeNotDispensed \/ ChangeCommandRaises
    <2>1. loop.label = "dispensing_change"
      BY <1>1 DEF ChangeDispensed, ChangeNotDispensed, ChangeCommandRaises
    <2> QED
      BY <1>1, <2>1, PayoutBooked
  <1>2. CASE ~ChangeDispensed /\ ~ChangeNotDispensed /\ ~ChangeCommandRaises
    <2>1. inventory'.accounting = inventory.accounting
      BY <1>2, BooksKept DEF BooksStay
    <2>2. paidOut' = paidOut
      BY <1>2
      DEF MoneyForms, Idles, MoneyStays, Adds, Attaches, CreditBill, CompletePayment,
          FinalizeReserve, money
    <2> QED
      BY <2>1, <2>2, EvenKept
  <1> QED
    BY <1>1, <1>2

(* What is handed over stays so, with every step.                          *)
LEMMA HandedStays ==
  ASSUME DataOK, HandingForms
  PROVE  known \subseteq known' /\ \A x \in known : HandedOver(x) => Handed(txs'[x])
  <1>0. known \subseteq Transactions /\ txs \in [Transactions -> TransactionRecords]
    BY DEF DataOK, LedgerOK
  <1>1. CASE Works
    BY <1>1 DEF Works, HandingStays, SameHanding, HandedOver
  <1>2. CASE WindowOpened
    <2>1. Handed(MarkWindowOpened(txs[loop.tx])) /\ loop.tx \in Transactions
      BY <1>2, LoopHasRecord, MethodsKeepHanding DEF WindowOpened
    <2> QED
      BY <1>0, <1>2, <2>1 DEF WindowOpened, Record, HandedOver
  <1>3. ASSUME NEW c \in Clicks, SaleCompleted(c)
        PROVE  known' = known /\ txs' = txs
    BY <1>3 DEF SaleCompleted
  <1>4. ASSUME NEW c \in Clicks, NEW x \in Transactions, CreateTransaction(c, x)
        PROVE  known \subseteq known' /\ \A z \in known : txs'[z] = txs[z]
    BY <1>0, <1>4 DEF CreateTransaction, Record
  <1> QED
    BY <1>1, <1>2, <1>3, <1>4 DEF HandingForms, HandedOver

-----------------------------------------------------------------------------
(* A step of the running program.                                          *)
LEMMA StepKeepsBooks ==
  ASSUME DataOK, DataOK', LifeInv, UnwrittenOK, NobodyCancels, SessionsOnce, BooksInv,
         IsFiniteSet(Transactions), WorstCaseChange > 0, MaxFailures = 0,
         "cancel" \notin Operations, "recover" \notin Operations, DurableStep
  PROVE  BooksInv'
  <1> USE DEF BooksInv
  <1>0. Next /\ Scheduled /\ Durably /\ rows' = rows /\ savedInventory' = savedInventory
    BY DurableStepIsNext DEF DurableStep, KioskStep, Durably
  <1>1. QueueOK /\ TasksKnown /\ VendedOnce
    BY DEF LifeInv
  <1>2. MoneyForms /\ Forms /\ HandingForms /\ MotorMayRun
    BY <1>0, <1>1, NextMoney, NextForms, NextHands, FormsAndMotor
  <1>3. HandingInv'
    BY <1>1, <1>2, StepKeepsHanding
  <1>4. RowsHanded'
    <2>1. \A x \in known' \cap DOMAIN rows : x \in known
      BY <1>0 DEF Durably
    <2> QED
      BY <1>0, <1>2, <2>1, HandedStays DEF RowsHanded, HandedOver
  <1>5. PICK more \in Seq(EventRecords) : unwritten' = unwritten \o more
    BY <1>0, <1>1, UnwrittenGrows
  <1>6. ASSUME LoopWaitsForWrite, loop'.tx = loop.tx
        PROVE  LoopWaitsForWrite'
    <2>1. PICK i \in DOMAIN unwritten : unwritten[i] = [by |-> "loop", tx |-> loop.tx]
      BY <1>6 DEF LoopWaitsForWrite
    <2>2. i \in DOMAIN (unwritten \o more) /\ (unwritten \o more)[i] = unwritten[i]
      BY <2>1 DEF UnwrittenOK
    <2> QED
      BY <1>5, <1>6, <2>1, <2>2 DEF LoopWaitsForWrite
  <1>7. ASSUME loop'.label # loop.label, loop'.tx = loop.tx, loop.tx \in Transactions, LoopAwaits
        PROVE  LoopWaitsForWrite'
    <2>1. Moves("loop")
      BY <1>7, Labels DEF Moves
    <2>2. MovedSubject("loop") = loop.tx
      BY <1>7, KioskAssumption, TasksAssumption DEF MovedSubject, Subject
    <2> QED
      BY <1>0, <1>1, <1>7, <2>1, <2>2, UnwrittenGrows DEF LoopWaitsForWrite
  <1>8. loop'.label # loop.label => ~LoopWaitsForWrite
    <2>1. loop'.label # loop.label => Moves("loop") /\ "loop" \in Tasks
      BY Labels DEF Moves, Tasks
    <2> QED
      BY <1>0, <2>1 DEF Durably, MayMove, LoopWaitsForWrite
  <1>9. ChangeOnDisk'
    <2>1. ASSUME loop'.label = "change_requested"
          PROVE  loop'.tx \in DOMAIN rows \/ LoopWaitsForWrite'
      <3>1. loop'.tx = loop.tx /\ loop.label \in {"payment_confirmed", "change_requested"}
        BY <1>2, <2>1, ChangeLabels
      <3>2. loop.tx \in Transactions
        BY <3>1, LoopHasRecord
      <3> QED
        BY <1>6, <1>7, <2>1, <3>1, <3>2 DEF ChangeOnDisk, LoopAwaits
    <2>2. ASSUME loop'.label = "dispensing_change"
          PROVE  loop'.tx \in DOMAIN rows
      <3>1. loop'.tx = loop.tx /\ loop.label \in {"change_requested", "dispensing_change"}
        BY <1>2, <2>2, ChangeLabels
      <3> QED
        BY <1>8, <2>2, <3>1 DEF ChangeOnDisk
    <2> QED
      BY <1>0, <2>1, <2>2 DEF ChangeOnDisk
  <1>10. ChangePlanned'
    BY <1>1, <1>2, ChangeStaysPlanned
  <1>11. /\ Even(inventory)'
         /\ \/ paidOut' = paidOut
            \/ loop.label = "dispensing_change" /\ LoopAt("vend_authorized")
    BY <1>0, <1>2, StepStaysEven
  <1>12. vends \in [Transactions -> Nat] /\ known \subseteq known'
    BY <1>2, HandedStays DEF DataOK, GoodsOK
  <1>13. Even(savedInventory)' \/ \E x \in known' : Behind(x)'
    <2>1. CASE loop.label = "dispensing_change" /\ LoopAt("vend_authorized")
      <3>1. /\ loop.tx \in known /\ loop.tx \in Transactions /\ loop.tx \in DOMAIN rows
            /\ vends[loop.tx] = 0
        BY <1>1, <2>1, LoopHasRecord DEF TasksKnown, VendedOnce, ToMotor, ChangeOnDisk
      <3>2. vends' = vends
        BY <1>2, <2>1 DEF MotorMayRun
      <3>3. LoopWaitsForWrite'
        BY <1>7, <2>1, <3>1 DEF LoopAt, LoopAwaits
      <3>4. \A x : x = loop.tx => Behind(x)'
        BY <1>0, <1>12, <2>1, <3>1, <3>2, <3>3 DEF Behind, LoopAt
      <3> QED
        BY <1>12, <3>1, <3>4
    <2>2. CASE paidOut' = paidOut /\ Even(savedInventory)
      BY <1>0, <2>2, EvenKept
    <2>3. ASSUME NEW x \in known, Behind(x)
          PROVE  Behind(x)'
      <3>1. vends' = vends
        BY <1>2, <2>3 DEF Behind, MotorMayRun
      <3>2. loop.label = "vend_authorized" /\ LoopWaitsForWrite =>
              loop'.label = "vend_authorized" /\ loop'.tx = loop.tx
        BY <1>2, <1>8, ChangeLabels
      <3> QED
        BY <1>0, <1>2, <1>6, <1>12, <2>3, <3>1, <3>2, ChangeLabels DEF Behind
    <2> QED
      BY <1>11, <1>12, <2>1, <2>2, <2>3
  <1> QED
    BY <1>3, <1>4, <1>9, <1>10, <1>11, <1>13

-----------------------------------------------------------------------------
(* The writes of the projector, done or failed.                            *)
LEMMA WriteKeepsBooks ==
  ASSUME DataOK, LifeInv, UnwrittenOK, BooksInv, Projected
  PROVE  BooksInv'
  <1> USE DEF BooksInv
  <1> DEFINE written == Persisted(Head(unwritten).tx)
  <1>1. /\ UNCHANGED kioskVars /\ unwritten # <<>> /\ unwritten' = Tail(unwritten)
        /\ rows' = Saving(written) /\ written \in SUBSET known /\ savedInventory' = inventory
    BY DEF Projected, Persisted, SaveInventory
  <1>2. /\ UNCHANGED <<txs, known, active, session, screen, vends, inventory, paidOut>>
        /\ UNCHANGED <<loop, clicks, timers>>
    BY <1>1 DEF kioskVars, vars, ledger, ui, goods, money
  <1>3. HandingInv' /\ ChangePlanned'
    BY <1>2
    DEF HandingInv, HandedAreVended, OneUnhanded, ClicksHanded, TimersHanded, ScreenHanded,
        HandingOver, HandedOver, Delivering, PickingUp, Enabling, Recovering, ChangePlanned
  <1>4. RowsHanded'
    <2> SUFFICES ASSUME NEW x \in known, x \in DOMAIN rows', Terminal(rows'[x])
                 PROVE  HandedOver(x)
      BY <1>2 DEF RowsHanded, HandedOver
    <2>1. CASE x \in written
      <3>1. rows'[x] = txs[x]
        BY <1>1, <2>1, SavingWrites
      <3> QED
        BY <3>1 DEF HandingInv, HandedAreVended, EndsHanded, HandedOver
    <2>2. CASE x \notin written
      <3>1. x \in DOMAIN rows /\ rows'[x] = rows[x]
        BY <1>1, <2>2, SavingWrites
      <3> QED
        BY <3>1 DEF RowsHanded
    <2> QED
      BY <2>1, <2>2
  <1>5. ChangeOnDisk'
    <2>1. DOMAIN rows' = written \cup DOMAIN rows
      BY <1>1, SavingWrites
    <2>2. ASSUME loop.label = "change_requested", loop.tx \notin DOMAIN rows
          PROVE  loop.tx \in DOMAIN rows' \/ LoopWaitsForWrite'
      <3>1. loop.tx \in known /\ loop.tx # NoTx
        BY <2>2, KioskAssumption DEF LifeInv, TasksKnown, DataOK, LedgerOK
      <3>2. Head(unwritten) = [by |-> "loop", tx |-> loop.tx] \/ LoopWaitsForWrite'
        BY <1>1, <1>2, <2>2, HeadWritten DEF ChangeOnDisk
      <3> QED
        BY <2>1, <3>1, <3>2 DEF Persisted
    <2> QED
      BY <1>2, <2>1, <2>2 DEF ChangeOnDisk
  <1>6. Even(inventory)' /\ Even(savedInventory)'
    BY <1>1, <1>2, EvenKept
  <1> QED
    BY <1>3, <1>4, <1>5, <1>6

LEMMA FailedWriteKeepsBooks ==
  ASSUME DataOK, LifeInv, UnwrittenOK, BooksInv, WriteFails
  PROVE  BooksInv'
  <1> USE DEF BooksInv
  <1>1. /\ UNCHANGED <<txs, known, active, session, screen, vends, inventory, paidOut>>
        /\ UNCHANGED <<rows, savedInventory>>
        /\ unwritten # <<>> /\ unwritten' = Tail(unwritten)
    BY DEF WriteFails, disk, goods, ledger, ui, money
  <1>2. /\ \A c \in Clicks : clicks'[c] = clicks[c] \/ clicks'[c].label = "idle"
        /\ \A x \in Transactions : timers'[x] = timers[x] \/ timers'[x] = "idle"
    <2>1. \A c \in Clicks : clicks'[c] = clicks[c] \/ clicks'[c].label = "idle"
      BY PublishRaisesKinds DEF EndClick, IdleClick, DataOK, ClicksOK
    <2>2. timers \in [Transactions -> TimerLabels]
      BY DEF DataOK, TimersOK
    <2>3. \A x \in Transactions : timers'[x] = timers[x] \/ timers'[x] = "idle"
      BY <2>2, PublishRaisesKinds DEF EndClick, TimerGoesTo
    <2> QED
      BY <2>1, <2>3
  <1>3. \/ loop' = loop /\ Head(unwritten).by # "loop"
        \/ loop'.label = "dead" /\ loop'.tx = NoTx
    <2>1. CASE Head(unwritten).by = "loop"
      BY <2>1, TasksAssumption
      DEF WriteFails, PublishRaises, PayoutRaises, LoopDies, DeadLoop, ReadingLoop
    <2>2. CASE Head(unwritten).by # "loop"
      BY <2>2 DEF WriteFails, PublishRaises
    <2> QED
      BY <2>1, <2>2
  <1>4. HandingInv'
    <2>1. ClicksHanded'
      BY <1>1, <1>2 DEF HandingInv, ClicksHanded, Recovering, PickingUp, Enabling, HandedOver
    <2>2. TimersHanded'
      BY <1>1, <1>2 DEF HandingInv, TimersHanded, HandedOver
    <2>3. HandedAreVended' /\ OneUnhanded' /\ ScreenHanded'
      BY <1>1 DEF HandingInv, HandedAreVended, OneUnhanded, ScreenHanded, HandedOver
    <2>4. HandingOver'
      BY <1>1, <1>3 DEF HandingInv, HandingOver, Delivering, HandedOver
    <2> QED
      BY <2>1, <2>2, <2>3, <2>4 DEF HandingInv
  <1>5. RowsHanded' /\ ChangePlanned'
    BY <1>1, <1>3 DEF RowsHanded, ChangePlanned, HandedOver
  <1>6. ASSUME loop' = loop, Head(unwritten).by # "loop", LoopWaitsForWrite
        PROVE  LoopWaitsForWrite'
    BY <1>1, <1>6, HeadWritten
  <1>7. ChangeOnDisk'
    BY <1>1, <1>3, <1>6 DEF ChangeOnDisk
  <1>8. Even(inventory)' /\ (Even(savedInventory) => Even(savedInventory)')
    BY <1>1, EvenKept
  <1>9. \A x \in known : Behind(x) => Behind(x)'
    BY <1>1, <1>3, <1>6 DEF Behind
  <1> QED
    BY <1>1, <1>4, <1>5, <1>7, <1>8, <1>9

(* A start that finds nothing unsettled finds the books as they are.       *)
LEMMA RestartKeepsBooks ==
  ASSUME BooksOK, LifeInv, NobodyCancels, BooksInv, Restart, restored' = {}
  PROVE  BooksInv'
  <1> USE DEF BooksInv
  <1>1. PICK end \in DiskAtTheEnd :
          /\ restored' = Unsettled(end.rows)
          /\ known' = restored' /\ active' \in restored' \cup {NoTx}
          /\ inventory' = end.inventory /\ savedInventory' = end.inventory
          /\ CommandsCut(end.inventory.accounting)
    BY RestartReads
  <1>2. PICK written \in SUBSET known : end.rows = Saving(written)
    BY <1>1, DiskAtTheEndIs
  <1>3. \A x \in known \cap DOMAIN rows : vends[x] # 0
    <2> SUFFICES ASSUME NEW x \in known, x \in DOMAIN rows, vends[x] = 0
                 PROVE  FALSE
      OBVIOUS
    <2>1. ~HandedOver(x)
      BY DEF HandingInv, HandedAreVended
    <2>2. ~Terminal(txs[x]) /\ ~Terminal(rows[x])
      BY <2>1 DEF HandingInv, HandedAreVended, EndsHanded, HandedOver, RowsHanded
    <2>3. x \in DOMAIN end.rows /\ end.rows[x] \in {txs[x], rows[x]}
      <3>1. x \in DOMAIN Saving(written)
        BY SavingWrites
      <3>2. Saving(written)[x] = txs[x] \/ Saving(written)[x] = rows[x]
        <4>1. CASE x \in written
          BY <4>1, SavingWrites
        <4>2. CASE x \notin written
          BY <4>2, SavingWrites
        <4> QED
          BY <4>1, <4>2
      <3> QED
        BY <1>2, <3>1, <3>2
    <2> QED
      BY <1>1, <2>2, <2>3 DEF Unsettled, Unresolved
  <1>4. loop.label # "dispensing_change"
    BY <1>3 DEF ChangeOnDisk, LifeInv, TasksKnown, VendedOnce, ToMotor
  <1>5. paidOut' = paidOut
    BY <1>1, <1>4, NothingPaid DEF NobodyCancels, CancelLabels
  <1>6. Even(savedInventory)
    BY <1>3 DEF Behind
  <1>7. Even(inventory)' /\ Even(savedInventory)'
    <2>1. end.inventory \in {savedInventory, inventory}
      BY DiskAtTheEndIs
    <2> QED
      BY <1>1, <1>5, <1>6, <2>1 DEF Even
  <1>8. /\ loop'.label = "read" /\ \A c \in Clicks : clicks'[c].label = "idle"
        /\ \A x \in Transactions : timers'[x] = "idle"
        /\ session' = NoTx /\ known' = {}
    BY <1>1 DEF Restart, ReadingLoop, IdleClick
  <1>9. HandingInv' /\ RowsHanded' /\ ChangeOnDisk' /\ ChangePlanned'
    BY <1>8
    DEF HandingInv, HandedAreVended, OneUnhanded, ClicksHanded, TimersHanded, ScreenHanded,
        HandingOver, Delivering, PickingUp, Enabling, Recovering, RowsHanded, ChangeOnDisk,
        ChangePlanned
  <1> QED
    BY <1>7, <1>9

-----------------------------------------------------------------------------
(* Until a start finds a sale unsettled, the books are kept.               *)
BooksHold == restored = {} => BooksInv

LEMMA BooksHoldKept ==
  ASSUME BooksOK, BooksOK', Frozen, MotorInv, NobodyCancels, SessionsOnce, BooksHold,
         IsFiniteSet(Clicks), IsFiniteSet(Transactions), WorstCaseChange > 0, MaxFailures = 0,
         "cancel" \notin Operations, "recover" \notin Operations, [DurableNext]_durableVars
  PROVE  BooksHold'
  <1> SUFFICES ASSUME restored' = {}
               PROVE  BooksInv'
    BY DEF BooksHold
  <1>1. restored = {}
    BY FrozenStays
  <1>2. DataOK /\ DataOK' /\ LifeInv /\ UnwrittenOK /\ BooksInv
    BY <1>1 DEF BooksOK, MotorInv, LifeHolds, BooksHold
  <1>3. CASE UNCHANGED durableVars
    <2>1. UNCHANGED <<kioskVars, rows, unwritten, savedInventory>>
      BY <1>3 DEF durableVars, disk
    <2>2. /\ UNCHANGED <<txs, known, active, session, screen, vends, inventory, paidOut>>
          /\ UNCHANGED <<loop, clicks, timers>>
      BY <2>1 DEF kioskVars, vars, ledger, ui, goods, money
    <2>3. HandingInv' /\ RowsHanded' /\ ChangeOnDisk' /\ ChangePlanned'
      BY <1>2, <2>1, <2>2
      DEF BooksInv, HandingInv, HandedAreVended, OneUnhanded, ClicksHanded, TimersHanded,
          ScreenHanded, HandingOver, HandedOver, Delivering, PickingUp, Enabling, Recovering,
          RowsHanded, ChangeOnDisk, ChangePlanned, LoopWaitsForWrite
    <2>4. Even(inventory)' /\ (Even(savedInventory) => Even(savedInventory)')
      BY <1>2, <2>1, <2>2, EvenKept DEF BooksInv
    <2>5. \A x \in known : Behind(x) => Behind(x)'
      BY <2>1, <2>2 DEF Behind, LoopWaitsForWrite
    <2> QED
      BY <1>2, <2>2, <2>3, <2>4, <2>5 DEF BooksInv
  <1> QED
    BY <1>2, <1>3, StepKeepsBooks, WriteKeepsBooks, FailedWriteKeepsBooks, RestartKeepsBooks
    DEF DurableNext

LEMMA BooksHoldAtFirst ==
  ASSUME DurableInit, IsFiniteSet(Transactions)
  PROVE  BooksHold
  <1>1. /\ loop.label = "read" /\ \A c \in Clicks : clicks[c].label = "idle"
        /\ \A x \in Transactions : timers[x] = "idle"
        /\ session = NoTx /\ known = {}
        /\ paidOut = [x \in Transactions |-> NoPieces]
        /\ inventory.accounting = InitialChange /\ savedInventory = inventory
    BY DEF DurableInit, KioskInit, Init, ReadingLoop, IdleClick
  <1>2. HandingInv /\ RowsHanded /\ ChangeOnDisk /\ ChangePlanned
    BY <1>1
    DEF HandingInv, HandedAreVended, OneUnhanded, ClicksHanded, TimersHanded, ScreenHanded,
        HandingOver, Delivering, PickingUp, Enabling, Recovering, RowsHanded, ChangeOnDisk,
        ChangePlanned
  <1>3. ASSUME NEW d \in Denominations
        PROVE  InitialChange[d] - inventory.accounting[d] = PiecesOf(paidOut, Transactions)[d]
    <2> DEFINE F == [x \in Transactions |-> paidOut[x][d]]
    <2>1. \A x \in Transactions : F[x] = 0
      BY <1>1 DEF NoPieces
    <2>2. PiecesOf(paidOut, Transactions)[d] = Total(F, Transactions)
      BY PiecesOfIs
    <2> HIDE DEF F
    <2>3. Total(F, Transactions) = 0
      BY <2>1, TotalOfNothing
    <2>4. InitialChange[d] \in Nat
      BY KioskAssumption DEF Counts
    <2> QED
      BY <1>1, <2>2, <2>3, <2>4
  <1> QED
    BY <1>1, <1>2, <1>3 DEF BooksHold, BooksInv, Even

(* The pieces the books miss are the pieces that were paid, or the machine *)
(* does not sell: whichever task is cut at whichever point, and whichever  *)
(* write fails.                                                            *)
THEOREM BooksAlwaysBalance ==
  ASSUME IsFiniteSet(Clicks), IsFiniteSet(Transactions), WorstCaseChange > 0, MaxFailures = 0,
         "cancel" \notin Operations, "recover" \notin Operations
  PROVE  DurableSpec => []BooksBalance
  <1>1. DurableInit => BooksHold
    BY BooksHoldAtFirst
  <1>2. PaidInv => NobodyCancels /\ SessionsOnce
    BY DEF PaidInv
  <1>3. BooksOK /\ (BooksOK)' /\ Frozen /\ MotorInv /\ NobodyCancels /\ SessionsOnce /\ BooksHold
          /\ [DurableNext]_durableVars
            => (BooksHold)'
    BY BooksHoldKept
  <1>4. BooksOK /\ Frozen /\ BooksHold => BooksBalance
    <2> SUFFICES ASSUME BooksOK, Frozen, BooksHold
                 PROVE  BooksBalance
      OBVIOUS
    <2>1. CASE restored # {}
      <3>1. ~SalesAllowed(status)
        BY <2>1, BlockersStay DEF Frozen, BooksOK, StatusFollows
      <3> QED
        BY <3>1 DEF BooksBalance
    <2>2. CASE restored = {}
      <3>1. \A d \in Denominations :
              InitialChange[d] - inventory.accounting[d] = PiecesOf(paidOut, Transactions)[d]
        BY <2>2 DEF BooksHold, BooksInv, Even
      <3>2. \A d \in Denominations :
              PiecesOf(paidOut, Transactions)[d] = MapThenSumSet(LAMBDA x : paidOut[x][d], Transactions)
        BY PiecesAreTotal, PiecesOfIs
      <3> QED
        BY <3>1, <3>2 DEF BooksBalance
    <2> QED
      BY <2>1, <2>2
  <1> QED
    BY <1>1, <1>2, <1>3, <1>4, BooksAlwaysOK, FrozenAlways, MotorInvariant, PaidInvariant, PTL
    DEF DurableSpec

-----------------------------------------------------------------------------
(***************************************************************************)
(* The commands of the loop in the journal.  A key is written once, so the *)
(* intent of a command says that it is under way only if the same sale has *)
(* not sent the same command before.  The loop never sends one twice: what *)
(* has been answered lies behind it (AnsweredBehind), and a sale of an     *)
(* earlier life keeps its identity, because it is on disk before its cash  *)
(* session opens (RowsFirst, KeysOnDisk).                                  *)
(***************************************************************************)
LoopSteps == {"change", "vend", "open"}
Key(x, s) == [tx |-> x, step |-> s]
KeyRecords == [tx : Transactions \cup {NoTx}, step : Steps]
Journals == [intents : Seq(KeyRecords), outcomes : SUBSET KeyRecords]
Holds(j, e) == \E i \in DOMAIN j.intents : j.intents[i] = e
Intended(x, s) == Holds(journal, Key(x, s))
Closed(x, s) == Key(x, s) \in journal.outcomes

(* What a record of the journal does to it.                                *)
LEMMA IntentRecorded ==
  ASSUME NEW j \in Journals, NEW e \in KeyRecords
  PROVE  /\ RecordIntent(j, e) \in Journals
         /\ RecordIntent(j, e).outcomes = j.outcomes
         /\ \A f : Holds(RecordIntent(j, e), f) <=> Holds(j, f) \/ f = e
  <1>1. j.intents \in Seq(KeyRecords) /\ j.outcomes \in SUBSET KeyRecords
    BY DEF Journals
  <1>2. CASE Contains(j.intents, e)
    <2>1. RecordIntent(j, e) = j
      BY <1>2 DEF RecordIntent
    <2>2. Holds(j, e)
      BY <1>1, <1>2 DEF Contains, Holds
    <2> QED
      BY <2>1, <2>2
  <1>3. CASE ~Contains(j.intents, e)
    <2>1. RecordIntent(j, e) = [j EXCEPT !.intents = Append(j.intents, e)]
      BY <1>3 DEF RecordIntent
    <2>2. PICK new \in Seq(KeyRecords) : new = Append(j.intents, e)
      <3>1. Append(j.intents, e) \in Seq(KeyRecords)
        BY <1>1
      <3> QED
        BY <3>1
    <2>3. /\ Len(new) = Len(j.intents) + 1 /\ new[Len(j.intents) + 1] = e
          /\ \A i \in 1 .. Len(j.intents) : new[i] = j.intents[i]
      BY <1>1, <2>2
    <2>4. /\ DOMAIN new = 1 .. Len(j.intents) + 1 /\ DOMAIN j.intents = 1 .. Len(j.intents)
          /\ Len(j.intents) \in Nat
      BY <1>1, <2>2, <2>3
    <2>5. /\ RecordIntent(j, e).intents = new
          /\ RecordIntent(j, e).outcomes = j.outcomes
          /\ RecordIntent(j, e) \in Journals
      BY <1>1, <2>1, <2>2 DEF Journals
    <2>6. ASSUME NEW f
          PROVE  (\E i \in DOMAIN new : new[i] = f) <=> Holds(j, f) \/ f = e
      <3>1. ASSUME NEW i \in DOMAIN new, new[i] = f
            PROVE  Holds(j, f) \/ f = e
        <4>1. i \in 1 .. Len(j.intents) \/ i = Len(j.intents) + 1
          BY <2>4
        <4> QED
          BY <2>3, <2>4, <3>1, <4>1 DEF Holds
      <3>2. Len(j.intents) + 1 \in DOMAIN new /\ DOMAIN j.intents \subseteq DOMAIN new
        BY <2>4
      <3> QED
        BY <2>3, <2>4, <3>1, <3>2 DEF Holds
    <2>7. \A f : Holds(RecordIntent(j, e), f) <=> (\E i \in DOMAIN new : new[i] = f)
      BY <2>5 DEF Holds
    <2> QED
      BY <2>5, <2>6, <2>7
  <1> QED
    BY <1>2, <1>3

LEMMA OutcomeRecorded ==
  ASSUME NEW j \in Journals, NEW e \in KeyRecords
  PROVE  /\ RecordOutcome(j, e) \in Journals
         /\ RecordOutcome(j, e).outcomes = j.outcomes \cup {e}
         /\ \A f : Holds(RecordOutcome(j, e), f) <=> Holds(j, f)
  BY DEF Journals, RecordOutcome, Holds

(* Only the loop has commands of these three steps.                        *)
LEMMA CommandsTyped ==
  ASSUME NEW t \in Tasks
  PROVE  /\ Command(t) \in Steps \cup {"none"} /\ Command(t)' \in Steps \cup {"none"}
         /\ t # "loop" => Command(t) \notin LoopSteps /\ Command(t)' \notin LoopSteps
         /\ t = "loop" => /\ Command(t) = LoopCommand(loop.label)
                         /\ Command(t)' = LoopCommand(loop'.label)
  <1>1. CASE t = "loop"
    <2>1. Command(t) = LoopCommand(loop.label) /\ Command(t)' = LoopCommand(loop'.label)
      BY <1>1, Labels, TasksAssumption DEF Command
    <2>2. \A label : LoopCommand(label) \in {"disable", "change", "vend", "open", "none"}
      BY DEF LoopCommand
    <2> QED
      BY <1>1, <2>1, <2>2 DEF Steps, ManualReviewSteps
  <1>2. CASE t \in Clicks
    <2>1. /\ Command(t) = ClickCommand(clicks[t].label) /\ t # "loop"
          /\ Command(t)' = ClickCommand(clicks'[t].label)
      BY <1>2, Labels, TasksAssumption DEF Command
    <2>2. \A label :
            ClickCommand(label) \in {"enable", "cancel_disable", "refund", "pickup_close", "none"}
      BY DEF ClickCommand
    <2> QED
      BY <2>1, <2>2 DEF Steps, ManualReviewSteps, LoopSteps
  <1>3. CASE t \in Transactions
    <2>1. /\ Command(t) = TimerCommand(timers[t]) /\ t # "loop"
          /\ Command(t)' = TimerCommand(timers'[t])
      BY <1>3, TasksAssumption DEF Command, Label
    <2>2. \A label : TimerCommand(label) \in {"timeout_close", "none"}
      BY DEF TimerCommand
    <2> QED
      BY <2>1, <2>2 DEF Steps, ManualReviewSteps, LoopSteps
  <1> QED
    BY <1>1, <1>2, <1>3 DEF Tasks

(* What a step of a task writes, as far as these steps are concerned.      *)
JournalOK == journal \in Journals

LEMMA JournalAfterTask ==
  ASSUME JournalOK, NEW t \in Tasks, MovedSubject(t) \in Transactions \cup {NoTx}
  PROVE  /\ JournalAfter(t) \in Journals
         /\ \A x, s :
              /\ Intended(x, s) => Holds(JournalAfter(t), Key(x, s))
              /\ Closed(x, s) => Key(x, s) \in JournalAfter(t).outcomes
              /\ s \in LoopSteps /\ Holds(JournalAfter(t), Key(x, s)) /\ ~Intended(x, s) =>
                   /\ t = "loop" /\ x = MovedSubject(t)
                   /\ s = Command(t)' /\ s # "vend"
              /\ s \in LoopSteps /\ Key(x, s) \in JournalAfter(t).outcomes /\ ~Closed(x, s) =>
                   /\ t = "loop" /\ x = MovedSubject(t)
                   /\ s = Command(t) /\ s # Command(t)'
         /\ t = "loop" /\ Command(t)' \in {"change", "open"} /\ Command(t) # Command(t)' =>
              \A x, s : x = MovedSubject(t) /\ s = Command(t)' =>
                Holds(JournalAfter(t), Key(x, s))
  <1>1. PICK before \in Steps \cup {"none"} : before = Command(t)
    BY CommandsTyped
  <1>2. Command(t)' \in Steps \cup {"none"}
    BY CommandsTyped
  <1>3. \A step \in Steps : Entry(t, step) \in KeyRecords
    BY DEF Entry, KeyRecords
  <1>4. \A x, s, step : Key(x, s) = Entry(t, step) => x = MovedSubject(t) /\ s = step
    BY DEF Key, Entry
  <1> DEFINE after == Command(t)'
             closed == IF before \notin {"none", after}
                         THEN RecordOutcome(journal, Entry(t, before)) ELSE journal
             refund == Entry(t, "refund")
  <1>5. /\ closed \in Journals
        /\ \A e : Holds(closed, e) <=> Holds(journal, e)
        /\ \A e : e \in closed.outcomes <=>
               e \in journal.outcomes \/ (before \notin {"none", after} /\ e = Entry(t, before))
    BY <1>1, <1>3, OutcomeRecorded DEF JournalOK
  <1>6. JournalAfter(t) =
          IF Label(t) = "refund_requested" /\ after = "none"
          THEN RecordOutcome(RecordIntent(journal, refund), refund)
          ELSE IF after \in {"none", "vend", before} THEN closed
          ELSE RecordIntent(closed, Entry(t, after))
    BY <1>1 DEF JournalAfter
  <1>7. t # "loop" => before \notin LoopSteps /\ after \notin LoopSteps
    BY <1>1, CommandsTyped
  <1> HIDE DEF closed
  <1>8. CASE Label(t) = "refund_requested" /\ after = "none"
    <2>1. refund \in KeyRecords
      BY <1>3 DEF Steps, ManualReviewSteps
    <2> HIDE DEF refund, after
    <2>2. /\ RecordIntent(journal, refund) \in Journals
          /\ RecordIntent(journal, refund).outcomes = journal.outcomes
          /\ \A f : Holds(RecordIntent(journal, refund), f) <=> Holds(journal, f) \/ f = refund
      BY <2>1, IntentRecorded DEF JournalOK
    <2>3. /\ JournalAfter(t) \in Journals
          /\ JournalAfter(t).outcomes = journal.outcomes \cup {refund}
          /\ \A f : Holds(JournalAfter(t), f) <=> Holds(journal, f) \/ f = refund
      BY <1>6, <1>8, <2>1, <2>2, OutcomeRecorded
    <2>4. \A x, s : s \in LoopSteps => Key(x, s) # refund
      BY <1>4 DEF refund, LoopSteps
    <2>5. Command(t)' = "none"
      BY <1>8 DEF after
    <2> QED
      BY <2>3, <2>4, <2>5 DEF Intended, Closed
  <1>9. CASE ~(Label(t) = "refund_requested" /\ after = "none") /\ after \in {"none", "vend", before}
    <2>1. JournalAfter(t) = closed
      BY <1>6, <1>9
    <2> QED
      BY <1>1, <1>4, <1>5, <1>7, <1>9, <2>1 DEF Intended, Closed, LoopSteps
  <1>10. CASE ~(Label(t) = "refund_requested" /\ after = "none") /\ after \notin {"none", "vend", before}
    <2>1. Entry(t, after) \in KeyRecords
      BY <1>2, <1>3, <1>10
    <2>2. /\ JournalAfter(t) \in Journals
          /\ JournalAfter(t).outcomes = closed.outcomes
          /\ \A f : Holds(JournalAfter(t), f) <=> Holds(closed, f) \/ f = Entry(t, after)
      BY <1>5, <1>6, <1>10, <2>1, IntentRecorded
    <2>3. \A x, s : x = MovedSubject(t) /\ s = after => Key(x, s) = Entry(t, after)
      BY DEF Key, Entry
    <2> QED
      BY <1>1, <1>4, <1>5, <1>7, <1>10, <2>2, <2>3 DEF Intended, Closed, LoopSteps
  <1> QED
    BY <1>8, <1>9, <1>10

(* What a step of the running program writes.  The loop's entries go by    *)
(* the sale it had or has got.                                             *)
LoopSubject == MovedSubject("loop")

LEMMA MovedTyped ==
  ASSUME DataOK, DataOK', NEW t \in Tasks
  PROVE  MovedSubject(t) \in Transactions \cup {NoTx}
  <1>1. Subject(t) \in Transactions \cup {NoTx}
    BY SubjectsTyped
  <1>2. (Subject(t) \in Transactions \cup {NoTx})'
    <2>1. CASE t = "loop"
      BY <2>1, TasksAssumption DEF Subject, DataOK, LoopOK, LoopRecords
    <2>2. CASE t \in Clicks
      BY <2>2, TasksAssumption DEF Subject, DataOK, ClicksOK, ClickRecords
    <2>3. CASE t \in Transactions
      BY <2>3, TasksAssumption DEF Subject
    <2> QED
      BY <2>1, <2>2, <2>3 DEF Tasks
  <1> QED
    BY <1>1, <1>2 DEF MovedSubject

NewIntent(x, s) ==
  /\ loop'.label # loop.label /\ x = LoopSubject
  /\ s = LoopCommand(loop'.label) /\ s # "vend"
NewOutcome(x, s) ==
  /\ loop'.label # loop.label /\ x = LoopSubject
  /\ s = LoopCommand(loop.label) /\ s # LoopCommand(loop'.label)

LEMMA JournalGrows ==
  ASSUME DataOK, DataOK', JournalOK, QueueOK, Scheduled, Durably
  PROVE  /\ JournalOK'
         /\ \A x, s :
              /\ Intended(x, s) => Intended(x, s)'
              /\ s \in LoopSteps /\ Intended(x, s)' /\ ~Intended(x, s) => NewIntent(x, s)
              /\ s \in LoopSteps /\ Closed(x, s)' /\ ~Closed(x, s) => NewOutcome(x, s)
              /\ /\ NewIntent(x, s) /\ s \in {"change", "open"}
                 /\ s # LoopCommand(loop.label)
                 => Intended(x, s)'
  <1>1. CASE \A t \in Tasks : ~Moves(t)
    <2>1. journal' = journal
      BY <1>1 DEF Durably
    <2>2. "loop" \in Tasks
      BY DEF Tasks
    <2>3. loop'.label = loop.label
      BY <1>1, <2>2, Labels DEF Moves
    <2> QED
      BY <2>1, <2>3 DEF JournalOK, Intended, Closed, NewIntent
  <1>2. ASSUME NEW t \in Tasks, Moves(t), journal' = JournalAfter(t)
        PROVE  /\ JournalOK'
               /\ \A x, s :
                    /\ Intended(x, s) => Intended(x, s)'
                    /\ s \in LoopSteps /\ Intended(x, s)' /\ ~Intended(x, s) => NewIntent(x, s)
                    /\ s \in LoopSteps /\ Closed(x, s)' /\ ~Closed(x, s) => NewOutcome(x, s)
                    /\ /\ NewIntent(x, s) /\ s \in {"change", "open"}
                       /\ s # LoopCommand(loop.label)
                       => Intended(x, s)'
    <2>1. MovedSubject(t) \in Transactions \cup {NoTx}
      BY MovedTyped
    <2>2. "loop" \in Tasks /\ (Moves("loop") <=> loop'.label # loop.label)
      BY Labels DEF Tasks, Moves
    <2>3. loop'.label # loop.label => t = "loop"
      BY <1>2, <2>2, Turns
    <2>4. t = "loop" => loop'.label # loop.label
      BY <1>2, <2>2
    <2>5. t = "loop" => /\ Command(t) = LoopCommand(loop.label)
                       /\ Command(t)' = LoopCommand(loop'.label)
      BY CommandsTyped
    <2>6. \A x, s : /\ Intended(x, s)' <=> Holds(JournalAfter(t), Key(x, s))
                    /\ Closed(x, s)' <=> Key(x, s) \in JournalAfter(t).outcomes
      BY <1>2 DEF Intended, Closed
    <2>7. JournalOK'
      BY <1>2, <2>1, JournalAfterTask DEF JournalOK
    <2>8. ASSUME NEW x, NEW s
          PROVE  /\ Intended(x, s) => Intended(x, s)'
                 /\ s \in LoopSteps /\ Intended(x, s)' /\ ~Intended(x, s) => NewIntent(x, s)
                 /\ s \in LoopSteps /\ Closed(x, s)' /\ ~Closed(x, s) => NewOutcome(x, s)
                 /\ /\ NewIntent(x, s) /\ s \in {"change", "open"}
                    /\ s # LoopCommand(loop.label)
                    => Intended(x, s)'
      <3>1. Intended(x, s) => Intended(x, s)'
        BY <2>1, <2>6, JournalAfterTask
      <3>2. s \in LoopSteps /\ Intended(x, s)' /\ ~Intended(x, s) => NewIntent(x, s)
        BY <2>1, <2>4, <2>5, <2>6, JournalAfterTask DEF NewIntent, LoopSubject
      <3>3. s \in LoopSteps /\ Closed(x, s)' /\ ~Closed(x, s) => NewOutcome(x, s)
        BY <2>1, <2>4, <2>5, <2>6, JournalAfterTask DEF NewOutcome, LoopSubject
      <3>4. ASSUME NewIntent(x, s), s \in {"change", "open"}, s # LoopCommand(loop.label)
            PROVE  Intended(x, s)'
        <4>1. t = "loop" /\ Command(t)' = s /\ Command(t) # s /\ x = MovedSubject(t)
          BY <2>3, <2>5, <3>4 DEF NewIntent, LoopSubject
        <4> QED
          BY <2>1, <2>6, <3>4, <4>1, JournalAfterTask
      <3> QED
        BY <3>1, <3>2, <3>3, <3>4
    <2> QED
      BY <2>7, <2>8
  <1>3. CASE \E t \in Tasks : Moves(t)
    <2>1. \E t \in Tasks : Moves(t) /\ journal' = JournalAfter(t)
      BY <1>3 DEF Durably
    <2> QED
      BY <1>2, <2>1
  <1> QED
    BY <1>1, <1>3

(* The mark that is left on a sale whose journal holds a command that asks *)
(* for a review and has not been answered.                                 *)
LEMMA LastOf ==
  ASSUME NEW n \in Nat, NEW S \in SUBSET (1 .. n), S # {}
  PROVE  Max(S) \in S
  <1> DEFINE T == {1 .. m : m \in {k \in 1 .. n : S \subseteq 1 .. k}}
  <1>1. T \in SUBSET (SUBSET (1 .. n)) /\ IsFiniteSet(1 .. n)
    BY FS_Interval
  <1>2. T # {}
    <2>1. S \subseteq 1 .. n /\ \E y \in S : y \in 1 .. n
      OBVIOUS
    <2>2. n \in 1 .. n
      BY <2>1
    <2> QED
      BY <2>2
  <1>a. \A t \in T : \E m \in 1 .. n : t = 1 .. m /\ S \subseteq 1 .. m
    OBVIOUS
  <1>b. \A m \in 1 .. n : S \subseteq 1 .. m => 1 .. m \in T
    OBVIOUS
  <1> DEFINE D == 1 .. n
  <1>c. T \in SUBSET (SUBSET D) /\ IsFiniteSet(D)
    BY <1>1
  <1> HIDE DEF T, D
  <1>3. PICK s \in T : \A t \in T : t \subseteq s => t = s
    BY <1>2, <1>c, Smallest
  <1>4. PICK m \in 1 .. n : s = 1 .. m /\ S \subseteq 1 .. m
    BY <1>3, <1>a
  <1>5. m \in S
    <2> SUFFICES ASSUME m \notin S
                 PROVE  FALSE
      OBVIOUS
    <2>0. \A y \in S : y \in 1 .. (m - 1)
      <3> SUFFICES ASSUME NEW y \in S
                   PROVE  y \in 1 .. (m - 1)
        OBVIOUS
      <3>1. y \in 1 .. m /\ y # m
        BY <1>4
      <3> QED
        BY <3>1
    <2>1. S \subseteq 1 .. (m - 1) /\ m - 1 \in 1 .. n
      <3>1. PICK y \in S : y \in 1 .. (m - 1)
        BY <2>0
      <3> QED
        BY <2>0, <3>1
    <2>2. 1 .. (m - 1) \in T /\ 1 .. (m - 1) \subseteq s
      BY <1>4, <1>b, <2>1
    <2>3. 1 .. (m - 1) = 1 .. m
      BY <1>3, <1>4, <2>2
    <2> QED
      BY <2>3
  <1>6. \A y \in S : m >= y
    BY <1>4
  <1> QED
    BY <1>5, <1>6 DEF Max

LEMMA RememberedGrave ==
  ASSUME NEW x, NEW row \in TransactionRecords, JournalOK,
         \E i \in UnresolvedIntents(journal) :
           journal.intents[i].tx = x /\ journal.intents[i].step \in ManualReviewSteps
  PROVE  Remembered(x, row, journal).status = "ambiguous"
  <1> DEFINE Own == {i \in UnresolvedIntents(journal) : journal.intents[i].tx = x}
             Grave == {i \in Own : journal.intents[i].step \in ManualReviewSteps}
             Marked(r, marks) ==
               IF marks = {} THEN r ELSE MarkUnresolved(r, journal.intents[Max(marks)].step)
  <1>1. Remembered(x, row, journal) = Marked(Marked(row, Grave), Own)
    BY DEF Remembered
  <1>2. Grave # {} /\ Own # {}
    OBVIOUS
  <1>3. Max(Grave) \in Grave
    <2>1. UnresolvedIntents(journal) \subseteq 1 .. Len(journal.intents) /\ Len(journal.intents) \in Nat
      BY DEF UnresolvedIntents, JournalOK, Journals
    <2> HIDE DEF Max
    <2> QED
      BY <1>2, <2>1, LastOf
  <1>4. Marked(row, Grave) = MarkAmbiguous(row)
    BY <1>2, <1>3 DEF MarkUnresolved
  <1>5. MarkAmbiguous(row) \in TransactionRecords /\ MarkAmbiguous(row).status = "ambiguous"
    <2>1. MarkAmbiguous(row) \in TransactionRecords
      BY TransactionOperations, NoPiecesCount
    <2>2. MarkAmbiguous(row).status = "ambiguous"
      BY DEF MarkAmbiguous, TransactionRecords
    <2> QED
      BY <2>1, <2>2
  <1>6. \A r \in TransactionRecords : \A step :
          r.status = "ambiguous" => MarkUnresolved(r, step).status = "ambiguous"
    BY DEF MarkUnresolved, MarkAmbiguous, TransactionRecords
  <1> QED
    BY <1>1, <1>2, <1>4, <1>5, <1>6

-----------------------------------------------------------------------------
(* The way of the loop: from a bill to the delivery, or to its end.        *)
LoopEdges ==
  {<<"device_event", "amount_updated">>, <<"amount_updated", "disabling">>,
   <<"amount_updated", "payment_confirmed">>, <<"disabling", "payment_confirmed">>,
   <<"payment_confirmed", "change_requested">>, <<"payment_confirmed", "vend_authorized">>,
   <<"change_requested", "dispensing_change">>, <<"dispensing_change", "vend_authorized">>,
   <<"vend_authorized", "vending">>, <<"vending", "product_dispensed">>,
   <<"product_dispensed", "opening_window">>}
GoesAlong(from, to) == loop.label = from /\ LoopAt(to) /\ <<from, to>> \in LoopEdges
LoopEnds ==
  /\ loop'.tx = NoTx
  /\ \/ loop'.label = "dead"
     \/ loop'.label = "read" /\ loop.label \in {"amount_updated", "opening_window"}
LoopPath ==
  \/ LoopStays \/ LoopEnds
  \/ loop.label = "read" /\ loop'.label = "device_event"
  \/ /\ \E from, to : GoesAlong(from, to)
     /\ loop'.label = "product_dispensed" => vends'[loop.tx] > 0

LEMMA LoopEndsWith ==
  ASSUME DataOK
  PROVE  /\ LoopDies \/ PayoutRaises => LoopEnds
         /\ loop' = ReadingLoop /\ loop.label \in {"amount_updated", "opening_window"} => LoopEnds
  BY DEF PayoutRaises, LoopDies, DeadLoop, ReadingLoop, LoopEnds

LEMMA LoopKeepsToPath ==
  ASSUME DataOK, LoopStep
  PROVE  LoopPath
  <1>1. CASE ReadEvent
    BY <1>1 DEF ReadEvent, LoopPath, LoopStays, DataOK, LoopOK, LoopRecords
  <1>2. ASSUME NEW from, NEW to, GoesAlong(from, to), to # "product_dispensed"
        PROVE  LoopPath
    BY <1>2 DEF LoopPath, GoesAlong, LoopAt
  <1>3. ASSUME NEW s, NEW shown, NEW from, NEW to, <<from, to>> \in LoopEdges,
               to # "product_dispensed", loop.label = from, LoopProceeds(s, to, shown)
        PROVE  LoopPath
    <2>1. LoopAt(to) \/ LoopDies
      BY <1>3, LoopGoes DEF LoopProceeds
    <2> QED
      BY <1>2, <1>3, <2>1, LoopEndsWith DEF GoesAlong, LoopPath
  <1>4. CASE ValidatorFault \/ DisableFails \/ ChangeNotDispensed \/ ChangeCommandRaises
    BY <1>4, LoopEndsWith
    DEF ValidatorFault, DisableFails, ChangeNotDispensed, ChangeCommandRaises, LoopPath
  <1>5. CASE CreditBill
    <2>1. loop.label = "device_event" /\ (LoopAt("amount_updated") \/ LoopDies)
      BY <1>5, LoopGoes DEF CreditBill
    <2>2. <<"device_event", "amount_updated">> \in LoopEdges
      BY DEF LoopEdges
    <2> QED
      BY <1>2, <2>1, <2>2, LoopEndsWith DEF GoesAlong, LoopPath
  <1>6. CASE AwaitMoreCash
    BY <1>6, LoopEndsWith DEF AwaitMoreCash, LoopPath
  <1>7. CASE CompletePayment
    <2>1. /\ <<"amount_updated", "disabling">> \in LoopEdges
          /\ <<"amount_updated", "payment_confirmed">> \in LoopEdges
      BY DEF LoopEdges
    <2>2. loop.label = "amount_updated" /\ (AcceptPayment \/ LoopAt("disabling"))
      BY <1>7, LoopGoes DEF CompletePayment
    <2> QED
      BY <1>2, <1>3, <2>1, <2>2 DEF GoesAlong, AcceptPayment
  <1>8. CASE AcceptanceDisabled
    <2>1. <<"disabling", "payment_confirmed">> \in LoopEdges
      BY DEF LoopEdges
    <2> QED
      BY <1>3, <1>8, <2>1 DEF AcceptanceDisabled, AcceptPayment
  <1>9. CASE FinalizeReserve
    <2>1. \/ LoopAt("vend_authorized") \/ PayoutRaises
          \/ LoopProceeds("DISPENSING_CHANGE", "change_requested", "dispensing")
      BY <1>9, LoopGoes DEF FinalizeReserve
    <2>2. loop.label = "payment_confirmed"
      BY <1>9 DEF FinalizeReserve
    <2>3. /\ <<"payment_confirmed", "vend_authorized">> \in LoopEdges
          /\ <<"payment_confirmed", "change_requested">> \in LoopEdges
      BY DEF LoopEdges
    <2> QED
      BY <1>2, <1>3, <2>1, <2>2, <2>3, LoopEndsWith DEF GoesAlong, LoopPath
  <1>10. CASE RequestChange
    <2>1. PayoutRaises \/ LoopAt("dispensing_change")
      BY <1>10 DEF RequestChange, LoopAt, DataOK, LoopOK, LoopRecords
    <2>2. loop.label = "change_requested"
      BY <1>10 DEF RequestChange
    <2>3. <<"change_requested", "dispensing_change">> \in LoopEdges
      BY DEF LoopEdges
    <2> QED
      BY <1>2, <2>1, <2>2, <2>3, LoopEndsWith DEF GoesAlong, LoopPath
  <1>11. CASE ChangeDispensed
    <2>1. PayoutRaises \/ LoopAt("vend_authorized")
      BY <1>11, LoopGoes DEF ChangeDispensed
    <2>2. loop.label = "dispensing_change"
      BY <1>11 DEF ChangeDispensed
    <2>3. <<"dispensing_change", "vend_authorized">> \in LoopEdges
      BY DEF LoopEdges
    <2> QED
      BY <1>2, <2>1, <2>2, <2>3, LoopEndsWith DEF GoesAlong, LoopPath
  <1>12. CASE VendAuthorized
    <2>1. LoopDies \/ LoopProceeds("DISPENSING_PRODUCT", "vending", "dispensing")
      BY <1>12 DEF VendAuthorized
    <2>2. loop.label = "vend_authorized"
      BY <1>12 DEF VendAuthorized
    <2>3. <<"vend_authorized", "vending">> \in LoopEdges
      BY DEF LoopEdges
    <2> QED
      BY <1>3, <2>1, <2>2, <2>3, LoopEndsWith DEF LoopPath
  <1>13. CASE ProductVended
    <2>1. loop.label = "vending" /\ loop.tx \in Transactions /\ vends \in [Transactions -> Nat]
      BY <1>13, LoopHasRecord DEF ProductVended, DataOK, GoodsOK
    <2>2. vends'[loop.tx] > 0
      BY <1>13, <2>1 DEF ProductVended, MotorRuns
    <2>3. LoopDies \/ LoopAt("product_dispensed")
      BY <1>13, LoopGoes DEF ProductVended
    <2>4. <<"vending", "product_dispensed">> \in LoopEdges
      BY DEF LoopEdges
    <2> QED
      BY <2>1, <2>2, <2>3, <2>4, LoopEndsWith DEF GoesAlong, LoopPath
  <1>14. CASE VendFails \/ OpenFails
    BY <1>14, LoopEndsWith DEF VendFails, OpenFails, LoopPath
  <1>15. CASE OpenWindow
    <2>1. <<"product_dispensed", "opening_window">> \in LoopEdges
      BY DEF LoopEdges
    <2> QED
      BY <1>3, <1>15, <2>1 DEF OpenWindow
  <1>16. CASE WindowOpened
    BY <1>16, LoopEndsWith DEF WindowOpened, LoopPath
  <1> QED
    BY <1>1, <1>4, <1>5, <1>6, <1>7, <1>8, <1>9, <1>10, <1>11, <1>12, <1>13, <1>14, <1>15, <1>16
    DEF LoopStep, PaymentLoopStep, VendLoopStep

LEMMA NextKeepsToPath ==
  ASSUME DataOK, WorstCaseChange > 0, Next
  PROVE  LoopPath
  <1>1. ASSUME NEW c \in Clicks, ClickStep(c)
        PROVE  LoopStays
    BY <1>1
    DEF ClickStep, PaymentClickStep, VendClickStep, RecoverAsCancelled,
        StartCashSession, ReserveCreated, AcceptanceEnabled, EnableFails, CancelDisabled,
        CancelDisableFails, RequestRefund, RefundDispensed, RefundNotDispensed,
        RefundCommandRaises, RefundPublished, CancelPublished, SensorMismatch, AlreadyActive,
        CreateTransaction, PickupClick, PickupWindowClosed, PickupCloseFails, SaleCompleted, LoopStays
  <1>2. CASE (\E x \in Transactions : DeadlineStep(x)) \/ CustomerStep \/ OperatorStep
    <2>1. Elsewhere
      BY <1>2, DeadlineElsewhere, CustomerElsewhere, OperatorElsewhere
    <2> QED
      BY <2>1 DEF Elsewhere, LoopPath
  <1> QED
    BY <1>1, <1>2, LoopKeepsToPath DEF Next, LoopPath

-----------------------------------------------------------------------------
(* A sale is on disk before its cash session opens, because the click that *)
(* opens it waits for the write; so what the journal holds of the loop is  *)
(* of sales on disk.                                                       *)
Waits(t, x) == \E i \in DOMAIN unwritten : unwritten[i] = [by |-> t, tx |-> x]
SalesOnDisk ==
  /\ \A x \in known : Sessioned(x) => x \in DOMAIN rows
  /\ \A c \in Clicks :
       /\ Started(c) => clicks[c].tx \in DOMAIN rows \/ Waits(c, clicks[c].tx)
       /\ Reserved(c) => clicks[c].tx \in DOMAIN rows
KeysOnDisk ==
  \A x : \A s \in LoopSteps : Intended(x, s) \/ Closed(x, s) => x \in DOMAIN rows

(* What has been answered for a sale lies behind the loop, unless it has   *)
(* died; what is under way has been announced.                             *)
AnsweredBehind ==
  loop.label # "dead" =>
    \A x \in known :
      /\ Closed(x, "change") => vends[x] > 0 \/ OnItsWay(x)
      /\ Closed(x, "vend") => vends[x] > 0
      /\ Closed(x, "open") => vends[x] > 0 /\ ~(Delivering /\ loop.tx = x)
IntentsMade ==
  /\ loop.label \in {"change_requested", "dispensing_change"} => Intended(loop.tx, "change")
  /\ loop.label = "vending" => Intended(loop.tx, "vend") \/ Waits("loop", loop.tx)
  /\ loop.label = "opening_window" => Intended(loop.tx, "open")
  /\ Delivering => vends[loop.tx] > 0
JournalInv ==
  /\ JournalOK /\ KeysOnDisk
  /\ restored = {} => SalesOnDisk /\ AnsweredBehind /\ IntentsMade

(* Only the loop's own commands are in its way.                            *)
LEMMA LoopCommands ==
  /\ \A label : LoopCommand(label) = "change" <=> label \in {"change_requested", "dispensing_change"}
  /\ \A label : LoopCommand(label) = "vend" <=> label = "vending"
  /\ \A label : LoopCommand(label) = "open" <=> label = "opening_window"
  BY DEF LoopCommand

LEMMA LoopOnDisk ==
  ASSUME DataOK, TasksKnown, VendedOnce, VendedSaved, SalesOnDisk, IntentsMade
  PROVE  loop.label \in ToMotor \/ Delivering =>
           loop.tx \in known /\ loop.tx \in Transactions /\ loop.tx \in DOMAIN rows
  <1>1. loop.label \in ToMotor \/ Delivering => loop.tx \in known /\ loop.tx \in Transactions
    BY LoopHasRecord DEF ToMotor, Delivering, TasksKnown
  <1>2. loop.label \in ToMotor => Sessioned(loop.tx)
    BY DEF VendedOnce
  <1>3. Delivering => vends[loop.tx] > 0
    BY DEF IntentsMade
  <1> QED
    BY <1>1, <1>2, <1>3 DEF SalesOnDisk, VendedSaved

(* What the loop adds, it adds for its sale.                               *)
LEMMA LoopAdds ==
  ASSUME DataOK, LoopPath, NEW x, NEW s \in LoopSteps
  PROVE  /\ NewOutcome(x, s) =>
              /\ x = loop.tx
              /\ loop.label \in {"change_requested", "dispensing_change", "vending", "opening_window"}
         /\ NewIntent(x, s) =>
              /\ x = loop.tx /\ loop'.tx = loop.tx
              /\ loop.label \in {"payment_confirmed", "change_requested", "product_dispensed"}
  <1>1. LoopSubject = IF loop'.tx = NoTx THEN loop.tx ELSE loop'.tx
    BY TasksAssumption DEF LoopSubject, MovedSubject, Subject
  <1>2. ASSUME NewOutcome(x, s)
        PROVE  /\ x = loop.tx
               /\ loop.label \in {"change_requested", "dispensing_change", "vending", "opening_window"}
    <2>1. loop.label \in {"change_requested", "dispensing_change", "vending", "opening_window"}
      BY <1>2, LoopCommands DEF NewOutcome, LoopSteps
    <2>2. loop'.label # loop.label /\ x = LoopSubject
      BY <1>2 DEF NewOutcome
    <2>3. loop'.tx \in {loop.tx, NoTx}
      BY <2>1, <2>2 DEF LoopPath, LoopStays, LoopEnds, GoesAlong, LoopAt
    <2> QED
      BY <1>1, <2>1, <2>2, <2>3
  <1>3. ASSUME NewIntent(x, s)
        PROVE  /\ x = loop.tx /\ loop'.tx = loop.tx
               /\ loop.label \in {"payment_confirmed", "change_requested", "product_dispensed"}
    <2>1. loop'.label \in {"change_requested", "dispensing_change", "opening_window"}
      BY <1>3, LoopCommands DEF NewIntent, LoopSteps
    <2>2. loop'.label # loop.label /\ x = LoopSubject
      BY <1>3 DEF NewIntent
    <2>3. PICK from, to : GoesAlong(from, to)
      BY <2>1, <2>2 DEF LoopPath, LoopStays, LoopEnds
    <2>4. /\ loop'.tx = loop.tx
          /\ loop.label \in {"payment_confirmed", "change_requested", "product_dispensed"}
      BY <2>1, <2>3 DEF GoesAlong, LoopAt, LoopEdges
    <2> QED
      BY <1>1, <2>2, <2>4
  <1> QED
    BY <1>2, <1>3

(* What has been answered stays behind the loop.                           *)
LEMMA AnswersStayBehind ==
  ASSUME DataOK, TasksKnown, VendedOnce, AnsweredBehind, IntentsMade, LoopPath,
         \A x, s : s \in LoopSteps /\ Closed(x, s)' /\ ~Closed(x, s) => NewOutcome(x, s),
         \A x \in known : vends[x] > 0 => vends'[x] > 0,
         \A x \in known' \ known : \A s \in LoopSteps : ~Closed(x, s)'
  PROVE  AnsweredBehind'
  <1> SUFFICES ASSUME loop'.label # "dead", NEW x \in known
               PROVE  /\ Closed(x, "change")' => vends'[x] > 0 \/ OnItsWay(x)'
                      /\ Closed(x, "vend")' => vends'[x] > 0
                      /\ Closed(x, "open")' => vends'[x] > 0 /\ ~(Delivering' /\ loop'.tx = x)
    BY DEF AnsweredBehind, LoopSteps
  <1>1. loop.label # "dead"
    BY DEF LoopPath, LoopStays, LoopEnds, GoesAlong, LoopEdges
  <1>2. /\ Closed(x, "change") => vends'[x] > 0 \/ OnItsWay(x)
        /\ Closed(x, "vend") => vends'[x] > 0
        /\ Closed(x, "open") => vends'[x] > 0 /\ ~(Delivering /\ loop.tx = x)
    BY <1>1 DEF AnsweredBehind
  <1>3. \A s \in LoopSteps : Closed(x, s)' => Closed(x, s) \/ NewOutcome(x, s)
    OBVIOUS
  <1>4. \A s \in LoopSteps :
          NewOutcome(x, s) => /\ x = loop.tx /\ s = LoopCommand(loop.label)
                              /\ s # LoopCommand(loop'.label) /\ loop'.label # loop.label
    BY LoopAdds DEF NewOutcome
  <1>5. /\ Closed(x, "change")' => vends'[x] > 0 \/ OnItsWay(x) \/ NewOutcome(x, "change")
        /\ Closed(x, "vend")' => vends'[x] > 0 \/ NewOutcome(x, "vend")
        /\ Closed(x, "open")' => NewOutcome(x, "open") \/ (vends'[x] > 0 /\ ~(Delivering /\ loop.tx = x))
    BY <1>2, <1>3 DEF LoopSteps
  <1>6. /\ NewOutcome(x, "change") => /\ x = loop.tx /\ loop'.label # loop.label
                                      /\ loop.label \in {"change_requested", "dispensing_change"}
                                      /\ loop'.label # "dispensing_change"
        /\ NewOutcome(x, "vend") => /\ x = loop.tx /\ loop'.label # loop.label
                                    /\ loop.label = "vending"
        /\ NewOutcome(x, "open") => /\ x = loop.tx /\ loop'.label # loop.label
                                    /\ loop.label = "opening_window"
    BY <1>4, LoopCommands DEF LoopSteps
  <1>7. CASE LoopStays
    BY <1>5, <1>6, <1>7 DEF LoopStays, OnItsWay, Delivering
  <1>8. CASE LoopEnds \/ (loop.label = "read" /\ loop'.label = "device_event")
    <2>1. /\ loop.label \in {"amount_updated", "opening_window", "read"}
          /\ loop'.label \in {"read", "device_event"}
      BY <1>8 DEF LoopEnds
    <2>2. loop.label = "opening_window" => vends[loop.tx] > 0
      BY DEF IntentsMade, Delivering
    <2>3. NewOutcome(x, "open") => vends'[x] > 0
      BY <1>6, <2>2
    <2> QED
      BY <1>5, <1>6, <2>1, <2>3 DEF OnItsWay, Delivering
  <1>9. ASSUME NEW from, NEW to, GoesAlong(from, to),
               loop'.label = "product_dispensed" => vends'[loop.tx] > 0
        PROVE  /\ Closed(x, "change")' => vends'[x] > 0 \/ OnItsWay(x)'
               /\ Closed(x, "vend")' => vends'[x] > 0
               /\ Closed(x, "open")' => vends'[x] > 0 /\ ~(Delivering' /\ loop'.tx = x)
    <2>1. loop'.tx = loop.tx /\ <<loop.label, loop'.label>> \in LoopEdges
      BY <1>9 DEF GoesAlong, LoopAt
    <2>2. /\ loop.label \in {"vend_authorized", "vending"} =>
               loop'.label \in {"vending", "product_dispensed"}
          /\ loop.label = "change_requested" => loop'.label = "dispensing_change"
          /\ loop.label = "dispensing_change" => loop'.label = "vend_authorized"
          /\ loop.label = "vending" => loop'.label = "product_dispensed"
          /\ loop.label # "opening_window"
          /\ loop'.label \in {"product_dispensed", "opening_window"} =>
               loop.label \in {"vending", "product_dispensed"}
      BY <2>1 DEF LoopEdges
    <2>3. loop.label = "vending" => vends[loop.tx] = 0
      BY DEF VendedOnce, ToMotor
    <2>4. Closed(x, "change")' => vends'[x] > 0 \/ OnItsWay(x)'
      BY <1>5, <1>6, <1>9, <2>1, <2>2 DEF OnItsWay
    <2>5. Closed(x, "vend")' => vends'[x] > 0
      BY <1>5, <1>6, <1>9, <2>2
    <2>6. ASSUME Closed(x, "open")'
          PROVE  vends'[x] > 0 /\ ~(Delivering' /\ loop'.tx = x)
      <3>1. Closed(x, "open")
        BY <1>3, <1>6, <2>2, <2>6 DEF LoopSteps
      <3>2. vends[x] > 0 /\ vends'[x] > 0 /\ ~(Delivering /\ loop.tx = x)
        BY <1>1, <3>1 DEF AnsweredBehind
      <3>3. ~(loop.label = "vending" /\ loop.tx = x)
        BY <2>3, <3>2
      <3> QED
        BY <2>1, <2>2, <3>2, <3>3 DEF Delivering
    <2> QED
      BY <2>4, <2>5, <2>6
  <1> QED
    BY <1>7, <1>8, <1>9 DEF LoopPath

(* Whoever waits for a write goes on waiting until it is done.             *)
LEMMA WaitsGrow ==
  ASSUME DataOK, DataOK', UnwrittenOK, QueueOK, Scheduled, Durably, NEW t, NEW x, Waits(t, x)
  PROVE  Waits(t, x)'
  <1>1. PICK more \in Seq(EventRecords) : unwritten' = unwritten \o more
    BY UnwrittenGrows
  <1>2. PICK i \in DOMAIN unwritten : unwritten[i] = [by |-> t, tx |-> x]
    BY DEF Waits
  <1>3. i \in DOMAIN (unwritten \o more) /\ (unwritten \o more)[i] = unwritten[i]
    BY <1>2 DEF UnwrittenOK
  <1> QED
    BY <1>1, <1>2, <1>3 DEF Waits

(* What is under way has been announced.                                   *)
LEMMA IntentsStayMade ==
  ASSUME DataOK, DataOK', IntentsMade, TasksKnown, LoopPath, UnwrittenOK, QueueOK, Scheduled, Durably,
         \A x, s :
           /\ Intended(x, s) => Intended(x, s)'
           /\ /\ NewIntent(x, s) /\ s \in {"change", "open"} /\ s # LoopCommand(loop.label)
              => Intended(x, s)',
         \A x \in known : vends[x] > 0 => vends'[x] > 0
  PROVE  IntentsMade'
  <1>1. LoopSubject = IF loop'.tx = NoTx THEN loop.tx ELSE loop'.tx
    BY TasksAssumption DEF LoopSubject, MovedSubject, Subject
  <1>2. \A t, x : Waits(t, x) => Waits(t, x)'
    BY WaitsGrow
  <1>3. loop'.label # loop.label /\ loop'.label = "vending" => \A x : x = LoopSubject => Waits("loop", x)'
    <2>1. loop'.label # loop.label => Moves("loop")
      BY Labels DEF Moves
    <2> QED
      BY <2>1, UnwrittenGrows DEF LoopAwaits, Waits, LoopSubject
  <1>4. CASE LoopStays
    <2>1. Delivering => vends'[loop.tx] > 0
      BY DEF IntentsMade, Delivering, TasksKnown
    <2> QED
      BY <1>2, <1>4, <2>1 DEF LoopStays, IntentsMade, Delivering, Intended
  <1>5. CASE loop'.label \in {"read", "dead", "device_event"}
    BY <1>5 DEF IntentsMade, Delivering
  <1>6. ASSUME NEW from, NEW to, GoesAlong(from, to),
               loop'.label = "product_dispensed" => vends'[loop.tx] > 0
        PROVE  IntentsMade'
    <2>1. (loop'.tx = loop.tx /\ loop.tx # NoTx) \/ loop.label \in {"read", "dead"}
      BY <1>6, LoopHasRecord, KioskAssumption DEF GoesAlong, LoopAt
    <2>2. <<loop.label, loop'.label>> \in LoopEdges /\ loop'.tx = loop.tx
      BY <1>6 DEF GoesAlong, LoopAt
    <2>3. /\ loop'.label # loop.label /\ loop.label \notin {"read", "dead"}
          /\ loop'.label = "change_requested" => loop.label = "payment_confirmed"
          /\ loop'.label = "dispensing_change" => loop.label = "change_requested"
          /\ loop'.label = "opening_window" => loop.label = "product_dispensed"
      BY <2>2 DEF LoopEdges
    <2>4. LoopSubject = loop.tx
      BY <1>1, <2>1, <2>2, <2>3
    <2>5. \A x : x = loop.tx =>
            /\ loop'.label \in {"change_requested", "dispensing_change"} => Intended(x, "change")'
            /\ loop'.label = "vending" => Waits("loop", x)'
            /\ loop'.label = "opening_window" => Intended(x, "open")'
            /\ Delivering' => vends'[x] > 0
      <3> SUFFICES ASSUME NEW x, x = loop.tx
                   PROVE  /\ loop'.label \in {"change_requested", "dispensing_change"} =>
                               Intended(x, "change")'
                          /\ loop'.label = "vending" => Waits("loop", x)'
                          /\ loop'.label = "opening_window" => Intended(x, "open")'
                          /\ Delivering' => vends'[x] > 0
        OBVIOUS
      <3>1. CASE loop'.label = "change_requested"
        <4>1. LoopCommand(loop.label) # "change" /\ LoopCommand(loop'.label) = "change"
          BY <2>3, <3>1, LoopCommands
        <4>2. NewIntent(x, "change")
          BY <2>3, <2>4, <4>1 DEF NewIntent
        <4> QED
          BY <3>1, <4>1, <4>2 DEF Delivering
      <3>2. CASE loop'.label = "opening_window"
        <4>1. LoopCommand(loop.label) # "open" /\ LoopCommand(loop'.label) = "open"
          BY <2>3, <3>2, LoopCommands
        <4>2. NewIntent(x, "open")
          BY <2>3, <2>4, <4>1 DEF NewIntent
        <4>3. vends'[x] > 0
          BY <2>3, <3>2 DEF IntentsMade, Delivering, TasksKnown
        <4> QED
          BY <3>2, <4>1, <4>2, <4>3
      <3>3. CASE loop'.label = "dispensing_change"
        BY <2>3, <3>3 DEF IntentsMade, Delivering
      <3>4. CASE loop'.label = "vending"
        BY <1>3, <2>3, <2>4, <3>4 DEF Delivering
      <3>5. CASE loop'.label = "product_dispensed"
        BY <1>6, <3>5 DEF Delivering
      <3> QED
        BY <3>1, <3>2, <3>3, <3>4, <3>5 DEF Delivering
    <2> QED
      BY <2>2, <2>5 DEF IntentsMade, Intended
  <1> QED
    BY <1>4, <1>5, <1>6 DEF LoopPath, LoopEnds

(* A sale is on disk before its session opens.                             *)
LEMMA ClicksWait ==
  ASSUME DataOK, DataOK', UnwrittenOK, QueueOK, Scheduled, Durably, NEW c \in Clicks,
         clicks'[c].label # clicks[c].label
  PROVE  /\ \A x : ~Waits(c, x)
         /\ clicks'[c].label = "purchase_started" =>
              \A x : x = clicks'[c].tx /\ x # NoTx => Waits(c, x)'
  <1>1. c \in Tasks /\ Moves(c)
    BY Labels DEF Tasks, Moves
  <1>2. \A x : ~Waits(c, x)
    BY <1>1 DEF Durably, MayMove, Waits
  <1>3. clicks'[c].label = "purchase_started" =>
          \A x : x = clicks'[c].tx /\ x # NoTx => Waits(c, x)'
    <2> SUFFICES ASSUME clicks'[c].label = "purchase_started",
                        NEW x, x = clicks'[c].tx, x # NoTx
                 PROVE  Waits(c, x)'
      OBVIOUS
    <2>1. PublishedBy(c) = Event(c, MovedSubject(c))
      BY Labels DEF PublishedBy, PublishLabels
    <2>2. MovedSubject(c) = x
      BY TasksAssumption DEF MovedSubject, Subject
    <2>3. \E i \in DOMAIN unwritten' : unwritten'[i] = [by |-> c, tx |-> MovedSubject(c)]
      BY <1>1, <2>1, UnwrittenGrows
    <2> QED
      BY <2>2, <2>3 DEF Waits
  <1> QED
    BY <1>2, <1>3

LEMMA SalesStayOnDisk ==
  ASSUME DataOK, DataOK', TasksKnown, SalesOnDisk, Forms, UnwrittenOK, QueueOK, Scheduled, Durably
  PROVE  SalesOnDisk'
  <1>1. rows' = rows
    BY DEF Durably
  <1>2. ASSUME NEW c \in Clicks, clicks'[c].label = clicks[c].label, clicks'[c].tx = clicks[c].tx
        PROVE  /\ Started(c)' => \A x : x = clicks[c].tx => x \in DOMAIN rows \/ Waits(c, x)'
               /\ Reserved(c)' => clicks[c].tx \in DOMAIN rows
    BY <1>2, WaitsGrow DEF SalesOnDisk, Started, Reserved
  <1>3. CASE Elsewhere
    <2>1. \A x \in known' : Sessioned(x)' => x \in DOMAIN rows
      BY <1>3 DEF Elsewhere, SessionsStay, SalesOnDisk
    <2>2. ASSUME NEW c \in Clicks, Started(c)' \/ Reserved(c)'
          PROVE  clicks'[c].label = clicks[c].label /\ clicks'[c].tx = clicks[c].tx
      BY <1>3, <2>2 DEF Elsewhere, NobodyOpens, Started, Reserved
    <2> QED
      BY <1>1, <1>2, <2>1, <2>2 DEF SalesOnDisk
  <1>4. ASSUME NEW c \in Clicks, Reserves(c)
        PROVE  SalesOnDisk'
    <2>1. \A x \in known' : Sessioned(x)' => x \in DOMAIN rows
      BY <1>4 DEF Reserves, SessionsStay, SalesOnDisk
    <2>2. clicks[c].tx \in DOMAIN rows
      BY <1>4, ClicksWait DEF Reserves, Started, SalesOnDisk
    <2>3. ~Started(c)' /\ clicks'[c].tx = clicks[c].tx
      BY <1>4 DEF Reserves, Started
    <2>4. \A d \in Clicks \ {c} : clicks'[d].label = clicks[d].label /\ clicks'[d].tx = clicks[d].tx
      BY <1>4 DEF Reserves, Others
    <2> QED
      BY <1>1, <1>2, <2>1, <2>2, <2>3, <2>4 DEF SalesOnDisk
  <1>5. ASSUME NEW c \in Clicks, Opens(c)
        PROVE  SalesOnDisk'
    <2>1. \A x \in known' : Sessioned(x)' => x \in DOMAIN rows
      BY <1>5 DEF Opens, SalesOnDisk
    <2>2. ~Started(c)' /\ ~Reserved(c)'
      BY <1>5 DEF Opens, Started, Reserved
    <2>3. \A d \in Clicks \ {c} : clicks'[d].label = clicks[d].label /\ clicks'[d].tx = clicks[d].tx
      BY <1>5 DEF Opens, Others
    <2> QED
      BY <1>1, <1>2, <2>1, <2>2, <2>3 DEF SalesOnDisk
  <1>6. ASSUME NEW c \in Clicks, NEW x \in Transactions, Creates(c, x)
        PROVE  SalesOnDisk'
    <2>1. \A y \in known' : Sessioned(y)' => y \in DOMAIN rows
      BY <1>6 DEF Creates, SessionsStay, SalesOnDisk
    <2>2. Started(c)' => \A y : y = clicks'[c].tx => Waits(c, y)'
      BY <1>6, ClicksWait, KioskAssumption DEF Creates, Started
    <2>3. ~Reserved(c)'
      BY <1>6 DEF Creates, Reserved
    <2>4. \A d \in Clicks \ {c} : clicks'[d].label = clicks[d].label /\ clicks'[d].tx = clicks[d].tx
      BY <1>6 DEF Creates, Others
    <2> QED
      BY <1>1, <1>2, <2>1, <2>2, <2>3, <2>4 DEF SalesOnDisk
  <1>7. CASE LoopForms
    <2>1. \A x \in known' : Sessioned(x)' => x \in DOMAIN rows
      BY <1>7 DEF LoopForms, LoopOnly, SessionsStay, SalesOnDisk
    <2>2. clicks' = clicks
      BY <1>7 DEF LoopForms, LoopOnly
    <2> QED
      BY <1>1, <1>2, <2>1, <2>2 DEF SalesOnDisk
  <1> QED
    BY <1>3, <1>4, <1>5, <1>6, <1>7 DEF Forms

LEMMA StepKeepsJournal ==
  ASSUME BooksOK, BooksOK', Frozen, MotorInv, JournalInv, WorstCaseChange > 0,
         "recover" \notin Operations, DurableStep
  PROVE  JournalInv'
  <1>0. Next /\ Scheduled /\ Durably /\ DataOK /\ DataOK' /\ JournalOK /\ QueueOK /\ UnwrittenOK
    BY DurableStepIsNext DEF DurableStep, KioskStep, BooksOK, JournalInv, MotorInv
  <1>1. restored' = restored /\ rows' = rows
    BY <1>0 DEF Durably
  <1>2. /\ JournalOK'
        /\ \A x, s :
             /\ Intended(x, s) => Intended(x, s)'
             /\ s \in LoopSteps /\ Intended(x, s)' /\ ~Intended(x, s) => NewIntent(x, s)
             /\ s \in LoopSteps /\ Closed(x, s)' /\ ~Closed(x, s) => NewOutcome(x, s)
             /\ /\ NewIntent(x, s) /\ s \in {"change", "open"}
                /\ s # LoopCommand(loop.label)
                => Intended(x, s)'
    BY <1>0, JournalGrows
  <1>3. ASSUME \A x : \A s \in LoopSteps :
                 NewIntent(x, s) \/ NewOutcome(x, s) => x \in DOMAIN rows
        PROVE  KeysOnDisk'
    BY <1>1, <1>2, <1>3 DEF JournalInv, KeysOnDisk
  <1>4. CASE restored # {}
    <2>1. loop.label \in {"read", "dead"} /\ loop'.label \in {"read", "dead"}
      BY <1>0, <1>4, FrozenStep DEF Frozen, StaysFrozen
    <2>2. \A x : \A s \in LoopSteps : ~NewIntent(x, s) /\ ~NewOutcome(x, s)
      BY <2>1, LoopCommands DEF NewIntent, NewOutcome, LoopSteps
    <2> QED
      BY <1>1, <1>2, <1>3, <1>4, <2>2 DEF JournalInv
  <1>5. CASE restored = {}
    <2>1. /\ Forms /\ LoopPath /\ TasksKnown /\ VendedOnce /\ VendedSaved
          /\ SalesOnDisk /\ AnsweredBehind /\ IntentsMade /\ KeysOnDisk
      BY <1>0, <1>5, NextForms, NextKeepsToPath DEF MotorInv, LifeHolds, LifeInv, JournalInv
    <2>2. known \subseteq Transactions /\ \A x \in known : vends[x] > 0 => vends'[x] > 0
      BY <1>0, <2>1, VendedStays DEF Vended, DataOK, LedgerOK
    <2>3. loop.label \in ToMotor \/ Delivering => loop.tx \in DOMAIN rows
      BY <1>0, <2>1, LoopOnDisk
    <2>4. KeysOnDisk'
      <3> SUFFICES ASSUME NEW x, NEW s \in LoopSteps, NewIntent(x, s) \/ NewOutcome(x, s)
                   PROVE  x \in DOMAIN rows
        BY <1>3
      <3>1. x = loop.tx /\ (loop.label \in ToMotor \/ Delivering)
        BY <1>0, <2>1, LoopAdds DEF ToMotor, Delivering
      <3> QED
        BY <2>3, <3>1
    <2>5. \A x \in known' \ known : \A s \in LoopSteps : ~Closed(x, s)'
      BY <1>0, <1>1, <2>4 DEF Durably, KeysOnDisk
    <2>6. SalesOnDisk'
      BY <1>0, <2>1, SalesStayOnDisk
    <2>7. AnsweredBehind'
      BY <1>0, <1>2, <2>1, <2>2, <2>5, AnswersStayBehind
    <2>8. IntentsMade'
      BY <1>0, <1>2, <2>1, <2>2, IntentsStayMade
    <2> QED
      BY <1>2, <2>4, <2>6, <2>7, <2>8 DEF JournalInv
  <1> QED
    BY <1>4, <1>5

(* The writes of the projector, done or failed.                            *)
LEMMA HeadOrLater ==
  ASSUME UnwrittenOK, unwritten # <<>>, unwritten' = Tail(unwritten), NEW t, NEW x, Waits(t, x)
  PROVE  Head(unwritten) = [by |-> t, tx |-> x] \/ Waits(t, x)'
  <1>1. PICK i \in 1 .. Len(unwritten) : unwritten[i] = [by |-> t, tx |-> x]
    BY DEF Waits, UnwrittenOK
  <1>2. CASE i = 1
    BY <1>1, <1>2 DEF UnwrittenOK
  <1>3. CASE i # 1
    <2>1. i - 1 \in DOMAIN Tail(unwritten) /\ Tail(unwritten)[i - 1] = unwritten[i]
      BY <1>1, <1>3 DEF UnwrittenOK
    <2> QED
      BY <1>1, <2>1 DEF Waits
  <1> QED
    BY <1>2, <1>3

LEMMA WriteKeepsJournal ==
  ASSUME BooksOK, Frozen, MotorInv, JournalInv, Projected
  PROVE  JournalInv'
  <1>1. /\ UNCHANGED <<kioskVars, restored>> /\ unwritten # <<>> /\ unwritten' = Tail(unwritten)
        /\ rows' = Saving(Persisted(Head(unwritten).tx))
        /\ journal' = MotorIntent(Head(unwritten))
    BY DEF Projected
  <1>2. UNCHANGED <<txs, known, loop, clicks, vends>>
    BY <1>1 DEF kioskVars, vars, ledger, goods
  <1>3. DOMAIN rows' = Persisted(Head(unwritten).tx) \cup DOMAIN rows
    BY <1>1, SavingWrites
  <1>4. DataOK /\ JournalOK /\ KeysOnDisk /\ UnwrittenOK
    BY DEF BooksOK, JournalInv, MotorInv
  <1>5. \A x : x \in known => x \in Transactions /\ x # NoTx
    BY <1>4, KioskAssumption DEF DataOK, LedgerOK
  <1>6. /\ JournalOK'
        /\ \A x, s :
             /\ Intended(x, s) => Intended(x, s)'
             /\ Closed(x, s)' <=> Closed(x, s)
             /\ Intended(x, s)' /\ ~Intended(x, s) => x = loop.tx /\ loop.label = "vending"
             /\ /\ Head(unwritten).by = "loop" /\ loop.label = "vending"
                /\ x = loop.tx /\ s = "vend"
                => Intended(x, s)'
    <2>1. CASE ~(Head(unwritten).by = "loop" /\ loop.label = "vending")
      <3>1. journal' = journal
        BY <1>1, <2>1 DEF MotorIntent
      <3> QED
        BY <1>4, <2>1, <3>1 DEF JournalOK, Intended, Closed
    <2>2. CASE Head(unwritten).by = "loop" /\ loop.label = "vending"
      <3>1. PICK e \in KeyRecords : e = Key(loop.tx, "vend")
        BY <1>4 DEF Key, KeyRecords, Steps, ManualReviewSteps, DataOK, LoopOK, LoopRecords
      <3>2. journal' = RecordIntent(journal, e)
        BY <1>1, <2>2, <3>1 DEF MotorIntent, Key
      <3>3. /\ RecordIntent(journal, e) \in Journals
            /\ RecordIntent(journal, e).outcomes = journal.outcomes
            /\ \A f : Holds(RecordIntent(journal, e), f) <=> Holds(journal, f) \/ f = e
        BY <1>4, IntentRecorded DEF JournalOK
      <3>4. \A x, s : Key(x, s) = e <=> x = loop.tx /\ s = "vend"
        BY <3>1 DEF Key
      <3> QED
        BY <2>2, <3>2, <3>3, <3>4 DEF JournalOK, Intended, Closed
    <2> QED
      BY <2>1, <2>2
  <1>7. CASE restored # {}
    <2>1. loop.label \in {"read", "dead"}
      BY <1>7 DEF Frozen
    <2>2. KeysOnDisk'
      BY <1>3, <1>4, <1>6, <2>1 DEF KeysOnDisk
    <2> QED
      BY <1>1, <1>6, <1>7, <2>2 DEF JournalInv
  <1>8. CASE restored = {}
    <2>1. /\ TasksKnown /\ VendedOnce /\ VendedSaved /\ SalesOnDisk /\ AnsweredBehind /\ IntentsMade
      BY <1>8 DEF MotorInv, LifeHolds, LifeInv, JournalInv
    <2>2. loop.label = "vending" => loop.tx \in DOMAIN rows
      BY <1>4, <2>1, LoopOnDisk DEF ToMotor
    <2>3. KeysOnDisk'
      BY <1>3, <1>4, <1>6, <2>2 DEF KeysOnDisk
    <2>4. ASSUME NEW c \in Clicks, Started(c)
          PROVE  \A x : x = clicks[c].tx => x \in DOMAIN rows' \/ Waits(c, x)'
      <3> SUFFICES ASSUME NEW x, x = clicks[c].tx
                   PROVE  x \in DOMAIN rows' \/ Waits(c, x)'
        OBVIOUS
      <3>1. x \in known /\ (x \in DOMAIN rows \/ Waits(c, x))
        BY <2>1, <2>4 DEF TasksKnown, Opening, SalesOnDisk
      <3>2. CASE Waits(c, x) /\ ~Waits(c, x)'
        <4>1. Head(unwritten) = [by |-> c, tx |-> x]
          BY <1>1, <1>4, <3>2, HeadOrLater
        <4>2. x \in Persisted(Head(unwritten).tx)
          BY <1>5, <3>1, <4>1 DEF Persisted
        <4> QED
          BY <1>3, <4>2
      <3> QED
        BY <1>3, <3>1, <3>2
    <2>5. SalesOnDisk'
      BY <1>2, <1>3, <2>1, <2>4 DEF SalesOnDisk, Sessioned, Started, Reserved
    <2>6. AnsweredBehind'
      BY <1>2, <1>6, <2>1 DEF AnsweredBehind, Closed, OnItsWay, Delivering
    <2>7. \A x : x = loop.tx /\ loop.label = "vending" => Intended(x, "vend")' \/ Waits("loop", x)'
      <3> SUFFICES ASSUME NEW x, x = loop.tx, loop.label = "vending"
                   PROVE  Intended(x, "vend")' \/ Waits("loop", x)'
        OBVIOUS
      <3>1. Intended(x, "vend") \/ Waits("loop", x)
        BY <2>1 DEF IntentsMade
      <3>2. Waits("loop", x) => Head(unwritten).by = "loop" \/ Waits("loop", x)'
        BY <1>1, <1>4, HeadOrLater
      <3> QED
        BY <1>6, <3>1, <3>2
    <2>8. IntentsMade'
      BY <1>2, <1>6, <2>1, <2>7 DEF IntentsMade, Intended, Delivering
    <2> QED
      BY <1>6, <2>3, <2>5, <2>6, <2>8 DEF JournalInv
  <1> QED
    BY <1>7, <1>8

LEMMA FailedWriteKeepsJournal ==
  ASSUME BooksOK, MotorInv, JournalInv, WriteFails
  PROVE  JournalInv'
  <1>1. /\ UNCHANGED <<txs, known, vends, rows, journal, restored>>
        /\ unwritten # <<>> /\ unwritten' = Tail(unwritten)
        /\ Head(unwritten).by # NoTx /\ PublishRaises(Head(unwritten).by)
    BY DEF WriteFails, disk, goods, ledger
  <1>2. DataOK /\ UnwrittenOK
    BY DEF BooksOK, MotorInv
  <1>3. \/ loop' = loop /\ Head(unwritten).by # "loop"
        \/ loop'.label = "dead"
    <2>1. CASE Head(unwritten).by = "loop"
      BY <1>1, <2>1, TasksAssumption
      DEF PublishRaises, PayoutRaises, LoopDies, DeadLoop, ReadingLoop
    <2>2. CASE Head(unwritten).by # "loop"
      BY <1>1, <2>2 DEF PublishRaises
    <2> QED
      BY <2>1, <2>2
  <1>4. ASSUME NEW c \in Clicks
        PROVE  \/ clicks'[c].label = "idle"
               \/ clicks'[c] = clicks[c] /\ Head(unwritten).by # c
    <2>1. CASE Head(unwritten).by \in Clicks
      <3>1. EndClick(Head(unwritten).by)
        BY <1>1, <2>1, TasksAssumption DEF PublishRaises
      <3> QED
        BY <1>2, <3>1 DEF EndClick, IdleClick, DataOK, ClicksOK
    <2>2. CASE Head(unwritten).by \notin Clicks
      BY <1>1, <2>2 DEF PublishRaises
    <2> QED
      BY <2>1, <2>2
  <1>5. JournalOK' /\ KeysOnDisk'
    BY <1>1 DEF JournalInv, JournalOK, KeysOnDisk, Intended, Closed
  <1>6. ASSUME SalesOnDisk
        PROVE  SalesOnDisk'
    <2>1. ASSUME NEW c \in Clicks, clicks'[c].label # "idle"
          PROVE  /\ clicks'[c] = clicks[c]
                 /\ \A x : Waits(c, x) => Waits(c, x)'
      <3>1. clicks'[c] = clicks[c] /\ Head(unwritten).by # c
        BY <1>4, <2>1
      <3> QED
        BY <1>1, <1>2, <3>1, HeadOrLater
    <2> QED
      BY <1>1, <1>6, <2>1 DEF SalesOnDisk, Sessioned, Started, Reserved
  <1>7. ASSUME AnsweredBehind
        PROVE  AnsweredBehind'
    BY <1>1, <1>3, <1>7 DEF AnsweredBehind, Closed, OnItsWay, Delivering
  <1>8. ASSUME IntentsMade
        PROVE  IntentsMade'
    <2>1. CASE loop' = loop /\ Head(unwritten).by # "loop"
      <3>1. \A x : Waits("loop", x) => Waits("loop", x)'
        BY <1>1, <1>2, <2>1, HeadOrLater
      <3> QED
        BY <1>1, <1>8, <2>1, <3>1 DEF IntentsMade, Intended, Delivering
    <2>2. CASE loop'.label = "dead"
      BY <2>2 DEF IntentsMade, Delivering
    <2> QED
      BY <1>3, <2>1, <2>2
  <1> QED
    BY <1>1, <1>5, <1>6, <1>7, <1>8 DEF JournalInv

LEMMA RestartKeepsJournal ==
  ASSUME JournalInv, Restart
  PROVE  JournalInv'
  <1>1. PICK end \in DiskAtTheEnd :
          /\ known' = restored'
          /\ rows' = [x \in DOMAIN end.rows |->
                        IF x \in restored' THEN Remembered(x, end.rows[x], journal)
                                           ELSE end.rows[x]]
    BY RestartReads
  <1>2. DOMAIN rows \subseteq DOMAIN rows'
    BY <1>1, DiskAtTheEndIs, SavingWrites
  <1>3. /\ journal' = journal /\ loop'.label = "read"
        /\ \A c \in Clicks : clicks'[c].label = "idle"
    BY DEF Restart, ReadingLoop, IdleClick
  <1>4. JournalOK' /\ KeysOnDisk'
    BY <1>2, <1>3 DEF JournalInv, JournalOK, KeysOnDisk, Intended, Closed
  <1>5. restored' = {} => SalesOnDisk' /\ AnsweredBehind' /\ IntentsMade'
    BY <1>1, <1>3
    DEF SalesOnDisk, AnsweredBehind, IntentsMade, Started, Reserved, Delivering
  <1> QED
    BY <1>4, <1>5 DEF JournalInv

LEMMA JournalInvKept ==
  ASSUME BooksOK, BooksOK', Frozen, MotorInv, JournalInv, WorstCaseChange > 0,
         "recover" \notin Operations, [DurableNext]_durableVars
  PROVE  JournalInv'
  <1>1. CASE UNCHANGED durableVars
    <2>1. UNCHANGED <<txs, known, loop, clicks, vends, rows, journal, restored, unwritten>>
      BY <1>1 DEF durableVars, disk, kioskVars, vars, ledger, goods
    <2> QED
      BY <2>1
      DEF JournalInv, JournalOK, KeysOnDisk, SalesOnDisk, AnsweredBehind, IntentsMade, Intended,
          Closed, Waits, Sessioned, Started, Reserved, OnItsWay, Delivering
  <1> QED
    BY <1>1, StepKeepsJournal, WriteKeepsJournal, FailedWriteKeepsJournal, RestartKeepsJournal
    DEF DurableNext

LEMMA JournalInvAtFirst ==
  ASSUME DurableInit
  PROVE  JournalInv
  <1>1. /\ loop.label = "read" /\ \A c \in Clicks : clicks[c].label = "idle"
        /\ known = {} /\ journal = [intents |-> <<>>, outcomes |-> {}]
    BY DEF DurableInit, KioskInit, Init, ReadingLoop, IdleClick, EmptyJournal
  <1>2. JournalOK
    <2>1. <<>> \in Seq(KeyRecords)
      OBVIOUS
    <2> QED
      BY <1>1, <2>1 DEF JournalOK, Journals
  <1>3. KeysOnDisk
    BY <1>1 DEF KeysOnDisk, Intended, Closed, Holds
  <1>4. SalesOnDisk /\ AnsweredBehind /\ IntentsMade
    BY <1>1 DEF SalesOnDisk, AnsweredBehind, IntentsMade, Started, Reserved, Delivering
  <1> QED
    BY <1>2, <1>3, <1>4 DEF JournalInv

LEMMA JournalInvariant ==
  ASSUME IsFiniteSet(Clicks), WorstCaseChange > 0, "recover" \notin Operations
  PROVE  DurableSpec => []JournalInv
  <1>1. DurableInit => JournalInv
    BY JournalInvAtFirst
  <1>2. BooksOK /\ (BooksOK)' /\ Frozen /\ MotorInv /\ JournalInv /\ [DurableNext]_durableVars
          => (JournalInv)'
    BY JournalInvKept
  <1> QED
    BY <1>1, <1>2, BooksAlwaysOK, FrozenAlways, MotorInvariant, PTL DEF DurableSpec

-----------------------------------------------------------------------------
(* A command of the loop that asks for a review, and was sent, has left an *)
(* intent without an outcome.                                              *)
CommandUnderWay == Sent("loop") /\ Command("loop") \in ManualReviewSteps
LoopCommandsJournalled ==
  CommandUnderWay =>
    \E i \in UnresolvedIntents(journal) :
      journal.intents[i] = [tx |-> loop.tx, step |-> Command("loop")]

LEMMA UnderWayIsJournalled ==
  ASSUME BooksOK, Frozen, MotorInv, JournalInv, CommandUnderWay
  PROVE  /\ loop.tx \in DOMAIN rows /\ loop.tx \in known
         /\ \E i \in UnresolvedIntents(journal) : journal.intents[i] = Key(loop.tx, Command("loop"))
         /\ Command("loop") \in ManualReviewSteps
  <1>1. Command("loop") = LoopCommand(loop.label)
    BY CommandsTyped DEF Tasks
  <1>2. /\ loop.label \in {"change_requested", "dispensing_change", "vending", "opening_window"}
        /\ Command("loop") \in LoopSteps
    BY <1>1 DEF CommandUnderWay, Sent, LoopCommand, ManualReviewSteps, LoopSteps
  <1>3. restored = {}
    BY <1>2 DEF Frozen
  <1>4. /\ TasksKnown /\ VendedOnce /\ VendedSaved
        /\ SalesOnDisk /\ AnsweredBehind /\ IntentsMade
    BY <1>3 DEF MotorInv, LifeHolds, LifeInv, JournalInv
  <1>5. loop.tx \in known /\ loop.tx \in DOMAIN rows
    BY <1>2, <1>4, LoopOnDisk DEF BooksOK, ToMotor, Delivering
  <1>6. ~Closed(loop.tx, Command("loop"))
    <2>1. loop.label # "opening_window" => ~(vends[loop.tx] > 0)
      BY <1>2, <1>4 DEF VendedOnce, ToMotor
    <2> QED
      BY <1>1, <1>2, <1>4, <1>5, <2>1, LoopCommands DEF AnsweredBehind, OnItsWay, Delivering
  <1>7. Intended(loop.tx, Command("loop"))
    <2>1. loop.label = "vending" => ~Waits("loop", loop.tx)
      BY Labels DEF CommandUnderWay, Sent, MayMove, Waits
    <2> QED
      BY <1>1, <1>2, <1>4, <2>1, LoopCommands DEF IntentsMade
  <1>8. PICK i \in DOMAIN journal.intents : journal.intents[i] = Key(loop.tx, Command("loop"))
    BY <1>7 DEF Intended, Holds
  <1>9. i \in UnresolvedIntents(journal)
    BY <1>6, <1>8 DEF UnresolvedIntents, Closed
  <1> QED
    BY <1>5, <1>8, <1>9 DEF CommandUnderWay

(* A start finds it, whatever the row of the sale says.                    *)
LEMMA UnderWayIsReviewed ==
  ASSUME BooksOK, Frozen, MotorInv, JournalInv, IsFiniteSet(Clicks), Restart, CommandUnderWay
  PROVE  \A x : x = loop.tx =>
           /\ x \in known' /\ txs'[x].status = "ambiguous"
           /\ ~SalesAllowed(status)'
  <1> SUFFICES ASSUME NEW x, x = loop.tx
               PROVE  /\ x \in known' /\ txs'[x].status = "ambiguous"
                      /\ ~SalesAllowed(status)'
    OBVIOUS
  <1>1. /\ x \in DOMAIN rows /\ x \in known
        /\ \E i \in UnresolvedIntents(journal) :
             journal.intents[i].tx = x /\ journal.intents[i].step \in ManualReviewSteps
    BY UnderWayIsJournalled DEF Key
  <1>2. PICK end \in DiskAtTheEnd :
          /\ restored' = Unsettled(end.rows)
          /\ known' = restored'
          /\ txs' = [y \in Transactions |->
                       IF y \in restored' THEN Remembered(y, end.rows[y], journal)
                                          ELSE NewTransaction]
    BY RestartReads
  <1>3. PICK written \in SUBSET known : end.rows = Saving(written)
    BY DiskAtTheEndIs
  <1>4. /\ DOMAIN end.rows \subseteq Transactions
        /\ \A y \in DOMAIN end.rows : end.rows[y] \in TransactionRecords
    BY <1>3, SavingOK DEF BooksOK, DataOK
  <1>5. x \in DOMAIN end.rows
    BY <1>1, <1>3, SavingWrites
  <1>6. x \in restored'
    BY <1>1, <1>2, <1>5 DEF Unsettled, Doubtful
  <1>7. Remembered(x, end.rows[x], journal).status = "ambiguous"
    BY <1>1, <1>4, <1>5, RememberedGrave DEF JournalInv
  <1>8. txs'[x].status = "ambiguous"
    BY <1>2, <1>4, <1>5, <1>6, <1>7
  <1>9. "recovery_pending" \in status'.sale_blockers
    BY <1>6, RestartFreezes DEF Frozen
  <1>10. ~SalesAllowed(status)'
    BY <1>9 DEF SalesAllowed
  <1> QED
    BY <1>2, <1>6, <1>8, <1>10

(* A motor, payout or window command of the loop that was under way when   *)
(* the program ended leaves its sale to an operator: it comes back as      *)
(* ambiguous, whatever its row said and whatever the command did, and the  *)
(* machine does not sell.  (For the commands of the clicks and the timers  *)
(* this is not so: their keys can repeat.)                                 *)
InterruptedLoopCommandsAreReviewed ==
  [][crashes' # crashes /\ CommandUnderWay =>
       \E x \in known' :
         x = loop.tx /\ txs'[x].status = "ambiguous" /\ ~SalesAllowed(status')]_durableVars

THEOREM InterruptedLoopCommandsAlwaysReviewed ==
  ASSUME IsFiniteSet(Clicks), WorstCaseChange > 0, "recover" \notin Operations
  PROVE  DurableSpec => InterruptedLoopCommandsAreReviewed
  <1>1. BooksOK /\ Frozen /\ MotorInv /\ JournalInv /\ [DurableNext]_durableVars =>
          [crashes' # crashes /\ CommandUnderWay =>
             \E x \in known' :
               x = loop.tx /\ txs'[x].status = "ambiguous" /\ ~SalesAllowed(status')]_durableVars
    <2> SUFFICES ASSUME BooksOK, Frozen, MotorInv, JournalInv, DurableNext,
                        crashes' # crashes, CommandUnderWay
                 PROVE  \E x \in known' :
                          x = loop.tx /\ txs'[x].status = "ambiguous" /\ ~SalesAllowed(status')
      OBVIOUS
    <2>1. Restart
      BY DEF DurableNext, DurableStep, Durably, Projected, WriteFails
    <2> QED
      BY <2>1, UnderWayIsReviewed
  <1> QED
    BY <1>1, BooksAlwaysOK, FrozenAlways, MotorInvariant, JournalInvariant, PTL
    DEF DurableSpec, InterruptedLoopCommandsAreReviewed

(* While such a command is under way, the journal holds its intent and no  *)
(* outcome: what the recovery rests on.                                    *)
THEOREM LoopCommandsAlwaysJournalled ==
  ASSUME IsFiniteSet(Clicks), WorstCaseChange > 0, "recover" \notin Operations
  PROVE  DurableSpec => []LoopCommandsJournalled
  <1>1. BooksOK /\ Frozen /\ MotorInv /\ JournalInv => LoopCommandsJournalled
    BY UnderWayIsJournalled DEF LoopCommandsJournalled, Key
  <1> QED
    BY <1>1, BooksAlwaysOK, FrozenAlways, MotorInvariant, JournalInvariant, PTL
=============================================================================
