---------------------------- MODULE ChangeManager ----------------------------
(***************************************************************************)
(* The change inventory (domain/entities/money_inventory.py) and the       *)
(* planning done on it (payments/change_manager.py), as operators on an    *)
(* inventory record.  Amounts are integers in minor units; a plan or a     *)
(* reserve is a function that gives each denomination a number of pieces.  *)
(* The reserve object's own status field is never read by the code and is  *)
(* left out; the absence of a reserve is the empty plan, which the code    *)
(* never stores as a reserve.                                              *)
(***************************************************************************)
EXTENDS Integers, FiniteSets, FiniteSetsExt

CONSTANTS
  Denominations,  \* denominations the change dispenser holds
  BillValues,     \* accepted_bill_denominations of the configuration
  Price           \* price of the product on sale

ASSUME ChangeAssumption ==
  /\ Denominations \subseteq Nat \ {0} /\ IsFiniteSet(Denominations)
  /\ BillValues \subseteq Nat \ {0} /\ IsFiniteSet(BillValues) /\ BillValues # {}
  /\ Price \in Nat \ {0}

Counts == [Denominations -> Nat]
NoPieces == [d \in Denominations |-> 0]

InventoryRecords ==
  [accounting : [Denominations -> Int], reserved : Counts, drift_detected : BOOLEAN]

PlusCounts(a, b) == [d \in Denominations |-> a[d] + b[d]]
MinusCounts(a, b) == [d \in Denominations |-> a[d] - b[d]]
FloorMinus(a, b) == [d \in Denominations |-> IF a[d] > b[d] THEN a[d] - b[d] ELSE 0]
Value(counts) == MapThenSumSet(LAMBDA d : d * counts[d], Denominations)

(* The piece counts that fit into a stock, and those of a given value.     *)
SubPlans(stock) ==
  {p \in [Denominations -> UNION {0 .. stock[d] : d \in Denominations}] :
     \A d \in Denominations : p[d] <= stock[d]}

(* ---------------------------- MoneyInventory --------------------------- *)

(* Slip: a plan may use pieces that another sale has reserved.             *)
AvailableIgnoringReserves(inv) ==
  [d \in Denominations |-> IF inv.accounting[d] > 0 THEN inv.accounting[d] ELSE 0]

Available(inv) == FloorMinus(inv.accounting, inv.reserved)

Reserve(inv, plan) == [inv EXCEPT !.reserved = PlusCounts(@, plan)]

(* Slip: a release forgets to give the pieces back.                        *)
ReleaseForgotten(inv, plan) == inv

(* Slip: a release is not floored at zero.                                 *)
ReleaseUnfloored(inv, plan) == [inv EXCEPT !.reserved = MinusCounts(@, plan)]

Release(inv, plan) == [inv EXCEPT !.reserved = FloorMinus(@, plan)]

Consume(inv, plan) ==
  [inv EXCEPT !.accounting = MinusCounts(@, plan), !.reserved = FloorMinus(@, plan)]

MarkDrift(inv) == [inv EXCEPT !.drift_detected = TRUE]

(* ------------------------------ plan_change ---------------------------- *)

ExactPlans(inv, target) == {p \in SubPlans(Available(inv)) : Value(p) = target}

(* p takes more of the largest denomination on which p and q differ.       *)
Greedier(p, q) ==
  \E d \in Denominations :
     /\ p[d] > q[d]
     /\ \A e \in Denominations : e > d => p[e] = q[e]

(* The backtracking of plan_change returns the greediest exact plan, and   *)
(* None when there is no exact plan: a set of one element or none.         *)
ChangePlans(inv, target) ==
  LET plans == ExactPlans(inv, target)
  IN  {p \in plans : \A q \in plans : q = p \/ Greedier(p, q)}

(* -------------------------- assess_sale -------------------------------- *)

(* Totals below the price that some sequence of accepted bills reaches.    *)
UnderpaidTotals ==
  LET reached[n \in Nat] == n = 0 \/ \E b \in BillValues : b <= n /\ reached[n - b]
  IN  {n \in 0 .. Price - 1 : reached[n]}

Overpayments ==
  {n + b - Price : n \in UnderpaidTotals, b \in BillValues} \cap Nat

WorstCaseChange == CHOOSE c \in Overpayments : \A o \in Overpayments : o <= c

SaleSupported(inv) ==
  /\ ~inv.drift_detected
  /\ \A change \in Overpayments : ExactPlans(inv, change) # {}
=============================================================================
