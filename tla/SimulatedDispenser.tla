-------------------------- MODULE SimulatedDispenser --------------------------
(***************************************************************************)
(* simulators/devices/mock_change_dispenser.py: payouts through the        *)
(* command runner.  A request is a number of pieces; which denominations   *)
(* they are makes no difference here.                                      *)
(***************************************************************************)
EXTENDS CommandRunner, FiniteSetsExt

CONSTANTS
  Requested,  \* pieces asked for under each key
  Stocked     \* pieces in the dispenser at first
ASSUME RequestedAssumption == Requested \in [Keys -> Nat \ {0}]
ASSUME StockedAssumption == Stocked \in Nat

VARIABLE stock  \* _inventory

dispenserVars == <<runnerVars, stock>>

DispenserTypeOK == RunnerTypeOK /\ stock \in 0 .. Stocked

DispenserInit == RunnerInit /\ stock = Stocked

DispenserFaults ==
  {"command_timeout", "transient_command_failure", "payout_unavailable",
   "ambiguous_physical_result", "partial_payout"}
PolicyCodes == <<"command_timeout", "transient_command_failure">>

Pieces(c) == Requested[KeyOf[c]]
CanDispense(c) == stock >= Pieces(c)
Drives(c) == moved' = [moved EXCEPT ![c] = @ + 1]

-----------------------------------------------------------------------------
(* _dispense_once, when no planned failure of the command comes first: the *)
(* conditions are tried in the order of the actions below.                 *)
Operating(c) == call[c].at = "ready" /\ NoPolicyFault(PolicyCodes)

FailsBeforehand(c) ==
  /\ call[c].at = "ready"
  /\ PolicyFault(c, PolicyCodes)
  /\ UNCHANGED stock

PayoutUnavailable(c) ==
  /\ Operating(c) /\ Pending("payout_unavailable")
  /\ plans' = Consumed("payout_unavailable")
  /\ ActivateFault("payout_unavailable")
  /\ End(c, "unavailable")
  /\ UNCHANGED <<injected, remembered, moved, stock>>

InsufficientInventory(c) ==
  /\ Operating(c) /\ ~Pending("payout_unavailable") /\ ~CanDispense(c)
  /\ End(c, "insufficient")
  /\ UNCHANGED <<health, plans, injected, remembered, moved, stock>>

Dispensing(c) == Operating(c) /\ ~Pending("payout_unavailable") /\ CanDispense(c)

(* The hardware was driven; what it paid is unknown, and the simulated     *)
(* inventory is left as it was.                                            *)
PayoutAmbiguous(c) ==
  /\ Dispensing(c) /\ Pending("ambiguous_physical_result")
  /\ plans' = Consumed("ambiguous_physical_result")
  /\ ActivateFault("ambiguous_physical_result")
  /\ Drives(c)
  /\ End(c, "ambiguous")
  /\ UNCHANGED <<injected, remembered, stock>>

(* Slip: the inventory is reduced before the plan is found to be empty.    *)
PartialPayoutTooLate(c) ==
  /\ Dispensing(c) /\ ~Pending("ambiguous_physical_result") /\ Pending("partial_payout")
  /\ plans' = Consumed("partial_payout")
  /\ Drives(c)
  /\ stock' = stock - (Pieces(c) - 1)
  /\ IF Pieces(c) = 1
     THEN End(c, "adapter_error") /\ UNCHANGED health
     ELSE End(c, "partial") /\ health' = [state |-> "degraded", code |-> "partial_payout"]
  /\ UNCHANGED <<injected, remembered>>

(* _partial_plan leaves one piece out; a plan of nothing raises.           *)
PartialPayout(c) ==
  /\ Dispensing(c) /\ ~Pending("ambiguous_physical_result") /\ Pending("partial_payout")
  /\ plans' = Consumed("partial_payout")
  /\ IF Pieces(c) = 1
     THEN /\ End(c, "adapter_error")
          /\ UNCHANGED <<health, moved, stock>>
     ELSE /\ End(c, "partial")
          /\ health' = [state |-> "degraded", code |-> "partial_payout"]
          /\ Drives(c)
          /\ stock' = stock - (Pieces(c) - 1)
  /\ UNCHANGED <<injected, remembered>>

Dispense(c) ==
  /\ Dispensing(c)
  /\ ~Pending("ambiguous_physical_result") /\ ~Pending("partial_payout")
  /\ Drives(c)
  /\ stock' = stock - Pieces(c)
  /\ Heartbeat("ready")
  /\ End(c, "dispensed")
  /\ UNCHANGED <<plans, injected, remembered>>

-----------------------------------------------------------------------------
DispenseOnce(c) ==
  \/ FailsBeforehand(c) \/ PayoutUnavailable(c) \/ InsufficientInventory(c)
  \/ PayoutAmbiguous(c) \/ PartialPayout(c) \/ Dispense(c)

(* A technician or a scenario.                                             *)
Controls ==
  /\ \/ \E f \in DispenserFaults, n \in 1 .. 2, slow \in BOOLEAN :
          /\ slow => \E i \in DOMAIN PolicyCodes : f = PolicyCodes[i]
          /\ InjectFault(f, [hits |-> n, slow |-> slow])
     \/ ClearFaults
  /\ UNCHANGED stock

DispenserNext ==
  \/ \E c \in Calls : (RunnerStep(c) /\ UNCHANGED stock) \/ DispenseOnce(c)
  \/ Controls

DispenserSpec == DispenserInit /\ [][DispenserNext]_dispenserVars

(* The event loop goes on with a call; a sleep ends, or its timeout does.  *)
Goes(c) ==
  \/ DispenseOnce(c)
  \/ (WakesUp(c) \/ TimesOut(c) \/ Retries(c) \/ Returns(c) \/ Raises(c)) /\ UNCHANGED stock

FairDispenserSpec ==
  DispenserSpec /\ \A c \in Calls : WF_dispenserVars(Goes(c))

-----------------------------------------------------------------------------
(* The retries of one call never drive the hardware twice: every failure   *)
(* that is retried comes before the operation moves anything.              *)
DrivenOncePerCall == \A c \in Calls : moved[c] <= 1

(* Calls that come one after another with the same key drive the hardware  *)
(* once between them: what has moved is remembered, what is not remembered *)
(* has not moved.                                                          *)
DrivenOncePerKey ==
  \A c, d \in Calls :
    KeyOf[c] = KeyOf[d] /\ moved[c] > 0 /\ moved[d] > 0 => c = d

(* A payout that raises has paid nothing: the caller, which knows only     *)
(* that it failed, may try again under another key.                        *)
RaisedCallPaysNothing == \A c \in Calls : call[c].at = "raised" => moved[c] = 0

(* Two calls with the same key never tell their callers different stories. *)
OneAnswerPerKey ==
  \A c, d \in Calls :
    /\ KeyOf[c] = KeyOf[d]
    /\ call[c].at = "returned" /\ call[d].at = "returned"
    => call[c].outcome = call[d].outcome

(* When no call is under way, the pieces missing from the dispenser are    *)
(* those of the answers it remembers: nothing left it unaccounted for.     *)
PaidUnder(k) ==
  CASE remembered[k] = "dispensed" -> Requested[k]
    [] remembered[k] = "partial" -> Requested[k] - 1
    [] OTHER -> 0

StockMatchesAnswers ==
  (\A c \in Calls : call[c].at \notin UnderWay) =>
    stock = Stocked - MapThenSumSet(PaidUnder, Keys)

(* Once a payout under a key is known to be ambiguous, nothing is paid     *)
(* under that key any more.                                                *)
UnknownPayoutIsFinal ==
  [][\A c \in Calls :
       remembered[KeyOf[c]] = "ambiguous" => moved'[c] = moved[c]]_dispenserVars

(* --------------------------- What it implements ------------------------ *)

(* What happened under a key is what is remembered of it or, before the    *)
(* runner has handled it, the outcome of the payout that was made.         *)
Paying == {"dispensed", "partial", "ambiguous"}
Paid(k) == {c \in Calls : KeyOf[c] = k /\ call[c].at = "ended" /\ call[c].outcome \in Paying}
Verdict(k) ==
  IF remembered[k] = "none" /\ Paid(k) # {}
  THEN call[CHOOSE c \in Paid(k) : TRUE].outcome
  ELSE remembered[k]

Told(c) ==
  CASE call[c].at = "returned" -> call[c].outcome
    [] call[c].at = "raised" -> "error"
    [] OTHER -> "nothing"

(* What each answer says has left the dispenser, as simulated.             *)
Effect ==
  [k \in Keys |-> [v \in Paying |->
     CASE v = "dispensed" -> Requested[k]
       [] v = "partial" -> Requested[k] - 1
       [] v = "ambiguous" -> 0]]

Device == INSTANCE KeyedDevice
  WITH Acts <- Paying,
       verdict <- [k \in Keys |-> Verdict(k)],
       told <- [c \in Calls |-> Told(c)],
       given <- Stocked - stock

(* With all its attempts, timeouts and faults, the dispenser is a device   *)
(* that acts once under a key and tells everyone the same: no caller is    *)
(* told of pieces that did not leave it, or not told of pieces that did.   *)
KeepsItsWord == Device!Spec

(* Every call that was made comes to an end.                               *)
EveryCallSettles == \A c \in Calls : call[c].at = "ready" ~> Settled(c)
=============================================================================
