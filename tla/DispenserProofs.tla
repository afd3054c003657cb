--------------------------- MODULE DispenserProofs ----------------------------
(***************************************************************************)
(* What a payout does, for any number of calls, keys, attempts and faults. *)
(*                                                                         *)
(* A call that has driven the hardware has ended with an answer that is    *)
(* never retried, or has returned it; and a returned answer is remembered. *)
(* So a call that still has an attempt before it has moved nothing, and -  *)
(* when calls with one key come one after another - neither has any other  *)
(* call with its key.                                                      *)
(*                                                                         *)
(* The dispenser keeps the word of a KeyedDevice, for any number of calls, *)
(* keys, attempts and faults, when calls with one key come one after       *)
(* another: each step acts, refuses, tells, fails, or is not to be seen.   *)
(***************************************************************************)
EXTENDS SimulatedDispenser, SumProofs, SequenceTheorems

CallRecords ==
  [at : UnderWay \cup {"new", "returned", "raised"},
   attempt : Nat,
   outcome : Answers \cup Failures \cup {"none"}]

CallsOK ==
  /\ call \in [Calls -> CallRecords]
  /\ moved \in [Calls -> Nat]
  /\ remembered \in [Keys -> Answers \cup {"none"}]
  /\ \A c \in Calls : call[c].at = "asleep" => call[c].outcome \in Failures
  /\ stock \in Int

DrivenCallHasAnAnswer ==
  \A c \in Calls :
    moved[c] # 0 => /\ moved[c] = 1
                    /\ \/ call[c].at = "ended" /\ call[c].outcome \in Paying
                       \/ call[c].at = "returned"

ReturnedIsRemembered ==
  \A c \in Calls : call[c].at = "returned" => remembered[KeyOf[c]] # "none"

OneUnderWay ==
  \A c \in Calls :
    call[c].at \in UnderWay =>
      /\ remembered[KeyOf[c]] = "none"
      /\ \A d \in Calls : KeyOf[d] = KeyOf[c] /\ call[d].at \in UnderWay => d = c

CommandInv == CallsOK /\ DrivenCallHasAnAnswer /\ ReturnedIsRemembered

-----------------------------------------------------------------------------
(* An answer that was paid for is never retried.                           *)
LEMMA PaidIsFinal ==
  ASSUME NEW o \in Paying PROVE ~MayRetry(o)
BY PolicyAssumption DEF MayRetry, IsRetryable, ResultFault, Paying, Answers, FailureFault

(* What a step may do to the calls: nothing; start, replay, move on, or    *)
(* end one call without driving the hardware; drive it and end with an     *)
(* answer; retry; return; raise.                                           *)
Quiet ==
  call' = call /\ moved' = moved /\ remembered' = remembered /\ stock' = stock

Begins(c) ==
  /\ call[c].at = "new"
  /\ Overlap \/ \A d \in Calls : KeyOf[d] = KeyOf[c] => call[d].at \notin UnderWay
  /\ remembered[KeyOf[c]] = "none"
  /\ call' = [call EXCEPT ![c].at = "ready"]
  /\ moved' = moved /\ remembered' = remembered /\ stock' = stock

Replays(c) ==
  /\ call[c].at = "new"
  /\ remembered[KeyOf[c]] # "none"
  /\ call' = [call EXCEPT ![c].at = "returned", ![c].outcome = remembered[KeyOf[c]]]
  /\ moved' = moved /\ remembered' = remembered /\ stock' = stock

EndsUnmoved(c) ==
  /\ call[c].at \in {"ready", "asleep"}
  /\ \E a \in {"asleep", "ended"}, o \in (Answers \cup Failures) \ Paying :
       /\ call' = [call EXCEPT ![c].at = a, ![c].outcome = o]
       /\ a = "asleep" => o \in Failures
  /\ moved' = moved /\ remembered' = remembered /\ stock' = stock

EndsPaying(c) ==
  /\ call[c].at = "ready"
  /\ \E o \in Paying :
       /\ call' = [call EXCEPT ![c].at = "ended", ![c].outcome = o]
       /\ stock' = stock - Effect[KeyOf[c]][o]
  /\ moved' = [moved EXCEPT ![c] = @ + 1]
  /\ remembered' = remembered

TriesAgain(c) ==
  /\ call[c].at = "ended" /\ call[c].outcome \notin Paying
  /\ call[c].attempt < MaxAttempts
  /\ call' = [call EXCEPT ![c].at = "ready", ![c].attempt = @ + 1]
  /\ moved' = moved /\ remembered' = remembered /\ stock' = stock

Answered(c) ==
  /\ call[c].at = "ended" /\ call[c].outcome \in Answers
  /\ call' = [call EXCEPT ![c].at = "returned"]
  /\ remembered' = [remembered EXCEPT ![KeyOf[c]] = call[c].outcome]
  /\ moved' = moved /\ stock' = stock

Failed(c) ==
  /\ call[c].at = "ended" /\ call[c].outcome \in Failures
  /\ call' = [call EXCEPT ![c].at = "raised"]
  /\ moved' = moved /\ remembered' = remembered /\ stock' = stock

CallForms(c) ==
  \/ Begins(c) \/ Replays(c) \/ EndsUnmoved(c) \/ EndsPaying(c)
  \/ TriesAgain(c) \/ Answered(c) \/ Failed(c)

LEMMA EndingUnmoved ==
  ASSUME NEW c \in Calls, call[c].at \in {"ready", "asleep"},
         NEW o \in (Answers \cup Failures) \ Paying, End(c, o),
         moved' = moved, remembered' = remembered, stock' = stock
  PROVE EndsUnmoved(c)
BY DEF EndsUnmoved, End

LEMMA RunnerForms ==
  ASSUME CallsOK, NEW c \in Calls, RunnerStep(c), UNCHANGED stock
  PROVE CallForms(c)
<1> call[c] \in CallRecords BY DEF CallsOK
<1>1. CASE Issue(c)
  <2>1. CASE remembered[KeyOf[c]] = "none"
    <3>1. Begins(c) BY <1>1, <2>1 DEF Issue, Begins
    <3> QED BY <3>1 DEF CallForms
  <2>2. CASE remembered[KeyOf[c]] # "none"
    <3>1. Replays(c) BY <1>1, <2>2 DEF Issue, Replays
    <3> QED BY <3>1 DEF CallForms
  <2> QED BY <2>1, <2>2
<1>2. CASE WakesUp(c)
  <2>1. call' = [call EXCEPT ![c].at = "ended", ![c].outcome = call[c].outcome]
    BY <1>2 DEF WakesUp, CallsOK, CallRecords
  <2>2. EndsUnmoved(c)
    BY <1>2, <2>1 DEF WakesUp, EndsUnmoved, CallsOK, Failures, Paying
  <2> QED BY <2>2 DEF CallForms
<1>3. CASE TimesOut(c)
  <2>1. EndsUnmoved(c) BY <1>3 DEF TimesOut, End, EndsUnmoved, Failures, Paying
  <2> QED BY <2>1 DEF CallForms
<1>4. CASE Retries(c)
  <2>1. call[c].outcome \notin Paying BY <1>4, PaidIsFinal DEF Retries
  <2>2. TriesAgain(c) BY <1>4, <2>1 DEF Retries, TriesAgain
  <2> QED BY <2>2 DEF CallForms
<1>5. CASE Returns(c)
  <2>1. Answered(c) BY <1>5 DEF Returns, IsFinal, Answered
  <2> QED BY <2>1 DEF CallForms
<1>6. CASE Raises(c)
  <2>1. Failed(c) BY <1>6 DEF Raises, IsFinal, Failed
  <2> QED BY <2>1 DEF CallForms
<1> QED BY <1>1, <1>2, <1>3, <1>4, <1>5, <1>6 DEF RunnerStep

LEMMA DispenseForms ==
  ASSUME CallsOK, NEW c \in Calls, DispenseOnce(c)
  PROVE CallForms(c)
<1>1. CASE FailsBeforehand(c)
  <2>1. PICK i \in DOMAIN PolicyCodes :
          /\ \/ call' = [call EXCEPT ![c].at = "asleep",
                                     ![c].outcome = PolicyFailure(PolicyCodes[i])]
             \/ call' = [call EXCEPT ![c].at = "ended",
                                     ![c].outcome = PolicyFailure(PolicyCodes[i])]
          /\ IF PolicyCodes[i] = "ambiguous_physical_result"
             THEN moved' \in {moved, [moved EXCEPT ![c] = @ + 1]}
             ELSE UNCHANGED moved
          /\ remembered' = remembered
    BY <1>1 DEF FailsBeforehand, PolicyFault, End
  <2>2. PolicyCodes[i] \in {"command_timeout", "transient_command_failure"}
    BY DEF PolicyCodes
  <2>3. PolicyFailure(PolicyCodes[i]) \in Failures \ Paying
    BY <2>2 DEF PolicyFailure, Failures, Paying
  <2>4. moved' = moved BY <2>1, <2>2
  <2>5. EndsUnmoved(c)
    BY <1>1, <2>1, <2>3, <2>4 DEF FailsBeforehand, EndsUnmoved
  <2> QED BY <2>5 DEF CallForms
<1>2. CASE PayoutUnavailable(c)
  <2>1. EndsUnmoved(c)
    <3>1. "unavailable" \in Answers \ Paying BY DEF Answers, Paying
    <3> QED BY <1>2, <3>1, EndingUnmoved DEF PayoutUnavailable, Operating
  <2> QED BY <2>1 DEF CallForms
<1>3. CASE InsufficientInventory(c)
  <2>1. EndsUnmoved(c)
    <3>1. "insufficient" \in Answers \ Paying BY DEF Answers, Paying
    <3> QED BY <1>3, <3>1, EndingUnmoved DEF InsufficientInventory, Operating
  <2> QED BY <2>1 DEF CallForms
<1> KeyOf[c] \in Keys BY KeyOfAssumption
<1> Stocked \in Nat BY StockedAssumption
<1>4. CASE PayoutAmbiguous(c)
  <2>1. Effect[KeyOf[c]]["ambiguous"] = 0 BY DEF Effect, Paying
  <2>2. stock' = stock - 0 BY <1>4 DEF PayoutAmbiguous, CallsOK
  <2>3. EndsPaying(c)
    BY <1>4, <2>1, <2>2
    DEF PayoutAmbiguous, Dispensing, Operating, Drives, End, EndsPaying, Paying
  <2> QED BY <2>3 DEF CallForms
<1>5. CASE PartialPayout(c)
  <2>1. CASE Pieces(c) = 1
    <3>1. EndsUnmoved(c)
      <4>1. "adapter_error" \in Failures \ Paying BY DEF Failures, Paying
      <4> QED BY <1>5, <2>1, <4>1, EndingUnmoved DEF PartialPayout, Dispensing, Operating
    <3> QED BY <3>1 DEF CallForms
  <2>2. CASE Pieces(c) # 1
    <3>1. Effect[KeyOf[c]]["partial"] = Pieces(c) - 1 BY DEF Effect, Paying, Pieces
    <3>2. EndsPaying(c)
      BY <1>5, <2>2, <3>1
      DEF PartialPayout, Dispensing, Operating, Drives, End, EndsPaying, Paying
    <3> QED BY <3>2 DEF CallForms
  <2> QED BY <2>1, <2>2
<1>6. CASE Dispense(c)
  <2>1. Effect[KeyOf[c]]["dispensed"] = Pieces(c) BY DEF Effect, Paying, Pieces
  <2>2. EndsPaying(c)
    BY <1>6, <2>1 DEF Dispense, Dispensing, Operating, Drives, End, EndsPaying, Paying
  <2> QED BY <2>2 DEF CallForms
<1> QED BY <1>1, <1>2, <1>3, <1>4, <1>5, <1>6 DEF DispenseOnce

LEMMA StepForms ==
  ASSUME CallsOK, [DispenserNext]_dispenserVars
  PROVE Quiet \/ \E c \in Calls : CallForms(c)
<1>1. CASE \E c \in Calls : RunnerStep(c) /\ UNCHANGED stock BY <1>1, RunnerForms
<1>2. CASE \E c \in Calls : DispenseOnce(c) BY <1>2, DispenseForms
<1>3. CASE Controls BY <1>3 DEF Controls, InjectFault, ClearFaults, Quiet
<1>4. CASE UNCHANGED dispenserVars BY <1>4 DEF dispenserVars, runnerVars, Quiet
<1> QED BY <1>1, <1>2, <1>3, <1>4 DEF DispenserNext

-----------------------------------------------------------------------------
(* The invariant, one conjunct at a time, under each form of a step.       *)
LEMMA InitCalls == ASSUME DispenserInit PROVE CommandInv
BY StockedAssumption DEF DispenserInit, RunnerInit, CommandInv, CallsOK, CallRecords,
       DrivenCallHasAnAnswer, ReturnedIsRemembered

LEMMA EffectOK ==
  ASSUME NEW k \in Keys, NEW o \in Paying PROVE Effect[k][o] \in Nat
<1>1. Requested[k] \in Nat /\ Requested[k] > 0 BY RequestedAssumption
<1>2. Effect[k][o] = CASE o = "dispensed" -> Requested[k]
                       [] o = "partial" -> Requested[k] - 1
                       [] o = "ambiguous" -> 0
  BY DEF Effect
<1> QED BY <1>1, <1>2 DEF Paying

LEMMA CallsStayOK ==
  ASSUME CallsOK, NEW c \in Calls, CallForms(c)
  PROVE CallsOK'
<1> USE KeyOfAssumption
<1> KeyOf[c] \in Keys OBVIOUS
<1> call[c] \in CallRecords BY DEF CallsOK
<1>1. CASE Begins(c) BY <1>1 DEF Begins, CallsOK, CallRecords, UnderWay
<1>2. CASE Replays(c) BY <1>2 DEF Replays, CallsOK, CallRecords
<1>3. CASE EndsUnmoved(c)
  <2>1. PICK a \in {"asleep", "ended"}, o \in (Answers \cup Failures) \ Paying :
          /\ call' = [call EXCEPT ![c].at = a, ![c].outcome = o]
          /\ a = "asleep" => o \in Failures
    BY <1>3 DEF EndsUnmoved
  <2>2. call' \in [Calls -> CallRecords]
    BY <2>1 DEF CallsOK, CallRecords, UnderWay
  <2>3. ASSUME NEW d \in Calls, call'[d].at = "asleep" PROVE call'[d].outcome \in Failures
    BY <2>1, <2>3 DEF CallsOK, CallRecords
  <2> QED BY <1>3, <2>2, <2>3 DEF EndsUnmoved, CallsOK
<1>4. CASE EndsPaying(c)
  <2>1. PICK o \in Paying : /\ call' = [call EXCEPT ![c].at = "ended", ![c].outcome = o]
                           /\ stock' = stock - Effect[KeyOf[c]][o]
    BY <1>4 DEF EndsPaying
  <2>2. o \in Answers BY DEF Paying, Answers
  <2>3. call' \in [Calls -> CallRecords]
    BY <2>1, <2>2 DEF CallsOK, CallRecords, UnderWay
  <2>4. moved' \in [Calls -> Nat] BY <1>4 DEF EndsPaying, CallsOK
  <2>5. ASSUME NEW d \in Calls, call'[d].at = "asleep" PROVE call'[d].outcome \in Failures
    BY <2>1, <2>5 DEF CallsOK, CallRecords
  <2>6. Effect[KeyOf[c]][o] \in Nat BY EffectOK
  <2> QED BY <1>4, <2>1, <2>3, <2>4, <2>5, <2>6 DEF EndsPaying, CallsOK
<1>5. CASE TriesAgain(c) BY <1>5 DEF TriesAgain, CallsOK, CallRecords, UnderWay
<1>6. CASE Answered(c) BY <1>6 DEF Answered, CallsOK, CallRecords
<1>7. CASE Failed(c) BY <1>7 DEF Failed, CallsOK, CallRecords
<1> QED BY <1>1, <1>2, <1>3, <1>4, <1>5, <1>6, <1>7 DEF CallForms

LEMMA DrivenStays ==
  ASSUME CallsOK, DrivenCallHasAnAnswer, NEW c \in Calls, CallForms(c)
  PROVE DrivenCallHasAnAnswer'
<1> SUFFICES ASSUME NEW d \in Calls, moved'[d] # 0
             PROVE moved'[d] = 1 /\ (\/ call'[d].at = "ended" /\ call'[d].outcome \in Paying
                                     \/ call'[d].at = "returned")
  BY DEF DrivenCallHasAnAnswer
<1> USE DEF CallsOK, CallRecords, DrivenCallHasAnAnswer
<1>1. CASE Begins(c) BY <1>1 DEF Begins
<1>2. CASE Replays(c) BY <1>2 DEF Replays
<1>3. CASE EndsUnmoved(c) BY <1>3 DEF EndsUnmoved
<1>4. CASE EndsPaying(c) BY <1>4 DEF EndsPaying
<1>5. CASE TriesAgain(c) BY <1>5 DEF TriesAgain
<1>6. CASE Answered(c) BY <1>6 DEF Answered
<1>7. CASE Failed(c) BY <1>7 DEF Failed, Paying, Failures
<1> QED BY <1>1, <1>2, <1>3, <1>4, <1>5, <1>6, <1>7 DEF CallForms

LEMMA RememberedStays ==
  ASSUME CallsOK, ReturnedIsRemembered, NEW c \in Calls, CallForms(c)
  PROVE ReturnedIsRemembered'
<1> SUFFICES ASSUME NEW d \in Calls, call'[d].at = "returned"
             PROVE remembered'[KeyOf[d]] # "none"
  BY DEF ReturnedIsRemembered
<1> USE KeyOfAssumption DEF CallsOK, CallRecords, ReturnedIsRemembered
<1>1. CASE Begins(c) BY <1>1 DEF Begins
<1>2. CASE Replays(c) BY <1>2 DEF Replays
<1>3. CASE EndsUnmoved(c) BY <1>3 DEF EndsUnmoved
<1>4. CASE EndsPaying(c) BY <1>4 DEF EndsPaying
<1>5. CASE TriesAgain(c) BY <1>5 DEF TriesAgain
<1>6. CASE Answered(c) BY <1>6 DEF Answered, Answers
<1>7. CASE Failed(c) BY <1>7 DEF Failed
<1> QED BY <1>1, <1>2, <1>3, <1>4, <1>5, <1>6, <1>7 DEF CallForms

LEMMA CommandInvariant == DispenserSpec => []CommandInv
<1>1. ASSUME CommandInv, [DispenserNext]_dispenserVars PROVE CommandInv'
  <2> CallsOK /\ DrivenCallHasAnAnswer /\ ReturnedIsRemembered BY <1>1 DEF CommandInv
  <2>1. CASE Quiet
    BY <2>1 DEF Quiet, CommandInv, CallsOK, DrivenCallHasAnAnswer, ReturnedIsRemembered
  <2>2. CASE \E c \in Calls : CallForms(c)
    BY <2>2, CallsStayOK, DrivenStays, RememberedStays DEF CommandInv
  <2> QED BY <1>1, <2>1, <2>2, StepForms
<1> QED BY InitCalls, <1>1, PTL DEF DispenserSpec

-----------------------------------------------------------------------------
(* Retries included, one call drives the hardware at most once             *)
(* (DeviceCommandRunner.run over MockChangeDispenser.dispense).            *)
THEOREM CallsDriveOnce == DispenserSpec => []DrivenOncePerCall
<1>1. CommandInv => DrivenOncePerCall
  <2> SUFFICES ASSUME CommandInv, NEW c \in Calls PROVE moved[c] <= 1
    BY DEF DrivenOncePerCall
  <2>1. moved[c] = 0 \/ moved[c] = 1 BY DEF CommandInv, DrivenCallHasAnAnswer
  <2> QED BY <2>1
<1> QED BY CommandInvariant, <1>1, PTL

(* A payout that raises has paid nothing.                                  *)
THEOREM RaisingPaysNothing == DispenserSpec => []RaisedCallPaysNothing
<1>1. CommandInv => RaisedCallPaysNothing
  BY DEF CommandInv, DrivenCallHasAnAnswer, RaisedCallPaysNothing
<1> QED BY CommandInvariant, <1>1, PTL

(* When calls with the same key come one after another, as they do unless  *)
(* a customer clicks twice, each key drives the hardware at most once.     *)
LEMMA BegunIsAlone ==
  ASSUME ~Overlap, CallsOK, OneUnderWay, NEW c \in Calls, CallForms(c)
  PROVE OneUnderWay'
<1> SUFFICES ASSUME NEW d \in Calls, call'[d].at \in UnderWay
             PROVE /\ remembered'[KeyOf[d]] = "none"
                   /\ \A e \in Calls : KeyOf[e] = KeyOf[d] /\ call'[e].at \in UnderWay => e = d
  BY DEF OneUnderWay
<1> USE KeyOfAssumption DEF CallsOK, CallRecords, OneUnderWay
<1>1. CASE Begins(c) BY <1>1 DEF Begins, UnderWay
<1>2. CASE Replays(c) BY <1>2 DEF Replays, UnderWay
<1>3. CASE EndsUnmoved(c) BY <1>3 DEF EndsUnmoved, UnderWay
<1>4. CASE EndsPaying(c) BY <1>4 DEF EndsPaying, UnderWay
<1>5. CASE TriesAgain(c) BY <1>5 DEF TriesAgain, UnderWay
<1>6. CASE Answered(c) BY <1>6 DEF Answered, UnderWay
<1>7. CASE Failed(c) BY <1>7 DEF Failed, UnderWay
<1> QED BY <1>1, <1>2, <1>3, <1>4, <1>5, <1>6, <1>7 DEF CallForms

LEMMA CallsAlone == ASSUME ~Overlap PROVE DispenserSpec => []OneUnderWay
<1>1. DispenserInit => OneUnderWay
  BY DEF DispenserInit, RunnerInit, OneUnderWay, UnderWay
<1>2. ASSUME CommandInv, OneUnderWay, [DispenserNext]_dispenserVars PROVE OneUnderWay'
  <2>1. CallsOK BY <1>2 DEF CommandInv
  <2>2. CASE Quiet BY <1>2, <2>2 DEF Quiet, OneUnderWay
  <2>3. CASE \E c \in Calls : CallForms(c) BY <1>2, <2>1, <2>3, BegunIsAlone
  <2> QED BY <1>2, <2>1, <2>2, <2>3, StepForms
<1> QED BY <1>1, <1>2, CommandInvariant, PTL DEF DispenserSpec

(* Only a call whose key has no answer yet drives the hardware.            *)
LEMMA DrivenBeforeAnswered ==
  ASSUME ~Overlap, CommandInv, OneUnderWay, [DispenserNext]_dispenserVars
  PROVE \/ moved' = moved
        \/ \E c \in Calls : /\ remembered[KeyOf[c]] = "none"
                            /\ \A d \in Calls : KeyOf[d] = KeyOf[c] => moved[d] = 0
                            /\ moved' = [moved EXCEPT ![c] = @ + 1]
<1> CallsOK /\ DrivenCallHasAnAnswer /\ ReturnedIsRemembered BY DEF CommandInv
<1>1. CASE Quiet BY <1>1 DEF Quiet
<1>2. ASSUME NEW c \in Calls, EndsPaying(c)
      PROVE /\ remembered[KeyOf[c]] = "none"
            /\ \A d \in Calls : KeyOf[d] = KeyOf[c] => moved[d] = 0
            /\ moved' = [moved EXCEPT ![c] = @ + 1]
  <2>1. call[c].at = "ready" BY <1>2 DEF EndsPaying
  <2>2. remembered[KeyOf[c]] = "none" BY <2>1 DEF OneUnderWay, UnderWay
  <2>3. ASSUME NEW d \in Calls, KeyOf[d] = KeyOf[c] PROVE moved[d] = 0
    <3>1. call[d].at # "returned" BY <2>2, <2>3 DEF ReturnedIsRemembered
    <3>2. call[d].at # "ended" BY <2>1, <2>3 DEF OneUnderWay, UnderWay
    <3> QED BY <3>1, <3>2 DEF DrivenCallHasAnAnswer
  <2> QED BY <1>2, <2>2, <2>3 DEF EndsPaying
<1>3. ASSUME NEW c \in Calls, CallForms(c) PROVE moved' = moved \/ EndsPaying(c)
  BY <1>3 DEF CallForms, Begins, Replays, EndsUnmoved, TriesAgain, Answered, Failed
<1> QED BY <1>1, <1>2, <1>3, StepForms

THEOREM KeysDriveOnce ==
  ASSUME ~Overlap PROVE DispenserSpec => []DrivenOncePerKey
<1>1. DispenserInit => DrivenOncePerKey
  BY DEF DispenserInit, RunnerInit, DrivenOncePerKey
<1>2. ASSUME CommandInv, OneUnderWay, DrivenOncePerKey, [DispenserNext]_dispenserVars
      PROVE DrivenOncePerKey'
  <2>1. CASE moved' = moved BY <1>2, <2>1 DEF DrivenOncePerKey
  <2>2. ASSUME NEW c \in Calls, \A d \in Calls : KeyOf[d] = KeyOf[c] => moved[d] = 0,
               moved' = [moved EXCEPT ![c] = @ + 1]
        PROVE DrivenOncePerKey'
    BY <1>2, <2>2 DEF DrivenOncePerKey, CommandInv, CallsOK
  <2> QED BY <1>2, <2>1, <2>2, DrivenBeforeAnswered
<1> QED BY <1>1, <1>2, CommandInvariant, CallsAlone, PTL DEF DispenserSpec

(* And a payout known to be ambiguous is not repeated under its key.       *)
THEOREM UnknownPayoutStays ==
  ASSUME ~Overlap PROVE DispenserSpec => UnknownPayoutIsFinal
<1>1. ASSUME CommandInv, OneUnderWay, [DispenserNext]_dispenserVars
      PROVE [\A c \in Calls : remembered[KeyOf[c]] = "ambiguous" =>
               moved'[c] = moved[c]]_dispenserVars
  <2> SUFFICES ASSUME NEW c \in Calls, remembered[KeyOf[c]] = "ambiguous"
               PROVE moved'[c] = moved[c]
    OBVIOUS
  <2> QED BY <1>1, DrivenBeforeAnswered DEF CommandInv, CallsOK
<1> QED BY <1>1, CommandInvariant, CallsAlone, PTL DEF DispenserSpec, UnknownPayoutIsFinal

-----------------------------------------------------------------------------
(* The types, with the attempts bounded by the policy and the inventory    *)
(* never below zero.                                                       *)
Plans == Seq([hits : Nat \ {0}, slow : BOOLEAN])

LEMMA ConsumedPlans ==
  ASSUME plans \in [InjectableFaults -> Plans], NEW code \in InjectableFaults, Pending(code)
  PROVE Consumed(code) \in [InjectableFaults -> Plans]
<1> DEFINE queue == plans[code]
<1>1. queue \in Plans /\ queue # <<>> BY DEF Pending
<1>2. Head(queue) \in [hits : Nat \ {0}, slow : BOOLEAN] /\ Tail(queue) \in Plans
  BY <1>1, HeadTailProperties, Zenon DEF Plans
<1>3. CASE Head(queue).hits = 1
  <2>1. Consumed(code) = [plans EXCEPT ![code] = Tail(queue)]
    BY <1>3, Zenon DEF Consumed
  <2> HIDE DEF queue
  <2> QED BY <1>2, <2>1
<1>4. CASE Head(queue).hits # 1
  <2>1. [Head(queue) EXCEPT !.hits = @ - 1] \in [hits : Nat \ {0}, slow : BOOLEAN]
    BY <1>2, <1>4
  <2>2. <<[Head(queue) EXCEPT !.hits = @ - 1]>> \o Tail(queue) \in Plans
    BY <1>2, <2>1 DEF Plans
  <2>3. Consumed(code) =
          [plans EXCEPT ![code] = <<[Head(queue) EXCEPT !.hits = @ - 1]>> \o Tail(queue)]
    BY <1>4 DEF Consumed
  <2> HIDE DEF queue
  <2> QED BY <2>2, <2>3
<1> QED BY <1>3, <1>4

HealthOK == health \in [state : {"ready", "degraded", "fault"}, code : FaultCodes]
PlansOK == plans \in [InjectableFaults -> Plans] /\ injected \in Nat
StockOK == stock \in 0 .. Stocked
AttemptsOK == \A c \in Calls : call[c].attempt \in 1 .. MaxAttempts

DeviceOK == HealthOK /\ PlansOK /\ StockOK /\ AttemptsOK

LEMMA AttemptsStay ==
  ASSUME CallsOK, AttemptsOK, NEW c \in Calls, CallForms(c)
  PROVE AttemptsOK'
<1> SUFFICES ASSUME NEW d \in Calls PROVE call'[d].attempt \in 1 .. MaxAttempts
  BY DEF AttemptsOK
<1> USE MaxAttemptsAssumption DEF CallsOK, CallRecords, AttemptsOK
<1>1. CASE Begins(c) BY <1>1 DEF Begins
<1>2. CASE Replays(c) BY <1>2 DEF Replays
<1>3. CASE EndsUnmoved(c) BY <1>3 DEF EndsUnmoved
<1>4. CASE EndsPaying(c) BY <1>4 DEF EndsPaying
<1>5. CASE TriesAgain(c) BY <1>5 DEF TriesAgain
<1>6. CASE Answered(c) BY <1>6 DEF Answered
<1>7. CASE Failed(c) BY <1>7 DEF Failed
<1> QED BY <1>1, <1>2, <1>3, <1>4, <1>5, <1>6, <1>7 DEF CallForms

LEMMA HeartbeatOK ==
  ASSUME HealthOK, NEW state \in {"ready", "degraded", "fault"}, Heartbeat(state)
  PROVE HealthOK'
BY DEF HealthOK, Heartbeat

LEMMA FaultOK ==
  ASSUME NEW code \in FaultCodes, ActivateFault(code) PROVE HealthOK'
BY DEF HealthOK, ActivateFault

LEMMA RunnerStepOK ==
  ASSUME DeviceOK, NEW c \in Calls, RunnerStep(c), UNCHANGED stock
  PROVE HealthOK' /\ PlansOK' /\ StockOK'
<1>0. HealthOK /\ PlansOK /\ StockOK BY DEF DeviceOK
<1>1. plans' = plans /\ injected' = injected
  BY DEF RunnerStep, Issue, WakesUp, TimesOut, Retries, Returns, Raises
<1>2. PlansOK' /\ StockOK' BY <1>0, <1>1 DEF PlansOK, StockOK
<1> SUFFICES HealthOK' BY <1>2
<1>3. CASE health' = health BY <1>0, <1>3 DEF HealthOK
<1>4. CASE Heartbeat("ready") \/ Heartbeat("degraded") BY <1>0, <1>4, HeartbeatOK
<1>5. CASE Issue(c) BY <1>3, <1>4, <1>5 DEF Issue
<1>6. CASE WakesUp(c) \/ TimesOut(c) BY <1>3, <1>6 DEF WakesUp, TimesOut
<1>7. CASE Retries(c) BY <1>4, <1>7 DEF Retries
<1>8. CASE Returns(c)
  <2>1. ResultFault(call[c].outcome) \in FaultCodes
    BY DEF ResultFault, FaultCodes, InjectableFaults
  <2>2. Heartbeat("ready") \/ ActivateFault(ResultFault(call[c].outcome))
    BY <1>8 DEF Returns
  <2> QED BY <1>4, <2>1, <2>2, FaultOK
<1>9. CASE Raises(c)
  <2>1. FailureFault(call[c].outcome) \in FaultCodes
    BY <1>9 DEF Raises, Failures, FailureFault, FaultCodes, InjectableFaults
  <2>2. "command_retry_exhausted" \in FaultCodes BY DEF FaultCodes
  <2>3. \/ ActivateFault("command_retry_exhausted")
        \/ ActivateFault(FailureFault(call[c].outcome))
    BY <1>9 DEF Raises
  <2> QED BY <2>1, <2>2, <2>3, FaultOK
<1> QED BY <1>5, <1>6, <1>7, <1>8, <1>9 DEF RunnerStep

LEMMA DispenseOnceOK ==
  ASSUME DeviceOK, NEW c \in Calls, DispenseOnce(c)
  PROVE HealthOK' /\ PlansOK' /\ StockOK'
<1>0. HealthOK /\ PlansOK /\ StockOK BY DEF DeviceOK
<1> Pieces(c) \in Nat \ {0} BY RequestedAssumption, KeyOfAssumption DEF Pieces
<1>a. ASSUME NEW code \in InjectableFaults, Pending(code), plans' = Consumed(code),
             injected' = injected
      PROVE PlansOK'
  BY <1>0, <1>a, ConsumedPlans DEF PlansOK
<1>1. CASE FailsBeforehand(c)
  <2>1. PICK i \in DOMAIN PolicyCodes :
          Pending(PolicyCodes[i]) /\ plans' = Consumed(PolicyCodes[i])
    BY <1>1 DEF FailsBeforehand, PolicyFault
  <2>2. PolicyCodes[i] \in InjectableFaults BY DEF PolicyCodes, InjectableFaults
  <2>3. health' = health /\ injected' = injected /\ stock' = stock
    BY <1>1 DEF FailsBeforehand, PolicyFault
  <2>4. PlansOK' BY <1>a, <2>1, <2>2, <2>3
  <2> QED BY <1>0, <2>3, <2>4 DEF HealthOK, StockOK
<1>2. CASE PayoutUnavailable(c)
  <2>1. PlansOK' BY <1>2, <1>a DEF PayoutUnavailable, InjectableFaults
  <2>2. HealthOK'
    BY <1>2, FaultOK DEF PayoutUnavailable, FaultCodes, InjectableFaults
  <2> QED BY <1>0, <1>2, <2>1, <2>2 DEF PayoutUnavailable, StockOK
<1>3. CASE InsufficientInventory(c)
  BY <1>0, <1>3 DEF InsufficientInventory, HealthOK, PlansOK, StockOK
<1>4. CASE PayoutAmbiguous(c)
  <2>1. PlansOK' BY <1>4, <1>a DEF PayoutAmbiguous, InjectableFaults
  <2>2. HealthOK' BY <1>4, FaultOK DEF PayoutAmbiguous, FaultCodes, InjectableFaults
  <2> QED BY <1>0, <1>4, <2>1, <2>2 DEF PayoutAmbiguous, StockOK
<1>5. CASE PartialPayout(c)
  <2>1. PlansOK' BY <1>5, <1>a DEF PartialPayout, InjectableFaults
  <2>2. HealthOK'
    <3>1. health' = health \/ health' = [state |-> "degraded", code |-> "partial_payout"]
      BY <1>5 DEF PartialPayout
    <3> QED BY <1>0, <3>1 DEF HealthOK, FaultCodes, InjectableFaults
  <2>3. StockOK'
    <3>1. stock >= Pieces(c) BY <1>5 DEF PartialPayout, Dispensing, CanDispense
    <3>2. stock' = stock \/ stock' = stock - (Pieces(c) - 1) BY <1>5 DEF PartialPayout
    <3> QED BY <1>0, <3>1, <3>2, StockedAssumption DEF StockOK
  <2> QED BY <2>1, <2>2, <2>3
<1>6. CASE Dispense(c)
  <2>1. HealthOK' BY <1>0, <1>6, HeartbeatOK DEF Dispense
  <2>2. StockOK'
    BY <1>0, <1>6, StockedAssumption DEF Dispense, Dispensing, CanDispense, StockOK
  <2> QED BY <1>0, <1>6, <2>1, <2>2 DEF Dispense, PlansOK
<1> QED BY <1>1, <1>2, <1>3, <1>4, <1>5, <1>6 DEF DispenseOnce

LEMMA ControlsOK ==
  ASSUME DeviceOK, Controls PROVE HealthOK' /\ PlansOK' /\ StockOK'
<1>0. HealthOK /\ PlansOK /\ StockOK BY DEF DeviceOK
<1>1. CASE ClearFaults /\ UNCHANGED stock
  <2>1. HealthOK' BY <1>1 DEF ClearFaults, HealthOK, FaultCodes
  <2>2. PlansOK' BY <1>0, <1>1 DEF ClearFaults, PlansOK, Plans
  <2> QED BY <1>0, <1>1, <2>1, <2>2 DEF StockOK
<1>2. ASSUME NEW f \in DispenserFaults, NEW n \in 1 .. 2, NEW slow \in BOOLEAN,
             InjectFault(f, [hits |-> n, slow |-> slow]), UNCHANGED stock
      PROVE HealthOK' /\ PlansOK' /\ StockOK'
  <2> DEFINE plan == [hits |-> n, slow |-> slow]
  <2>1. f \in InjectableFaults BY DEF DispenserFaults, InjectableFaults
  <2>2. plan \in [hits : Nat \ {0}, slow : BOOLEAN] OBVIOUS
  <2> HIDE DEF plan
  <2>3. Append(plans[f], plan) \in Plans
    BY <1>0, <2>1, <2>2, AppendProperties, Zenon DEF PlansOK, Plans
  <2>4. plans' = [plans EXCEPT ![f] = Append(plans[f], plan)] /\ injected' = injected + 1
    BY <1>2 DEF InjectFault, plan
  <2>5. PlansOK' BY <1>0, <2>1, <2>3, <2>4 DEF PlansOK
  <2> QED BY <1>0, <1>2, <2>5 DEF InjectFault, HealthOK, StockOK
<1> QED BY <1>1, <1>2 DEF Controls

THEOREM DispenserTypeAlwaysOK == DispenserSpec => []DispenserTypeOK
<1>1. DispenserInit => DeviceOK
  <2> SUFFICES ASSUME DispenserInit PROVE DeviceOK OBVIOUS
  <2>1. HealthOK BY DEF DispenserInit, RunnerInit, HealthOK, FaultCodes
  <2>2. PlansOK BY DEF DispenserInit, RunnerInit, PlansOK, Plans
  <2>3. StockOK BY StockedAssumption DEF DispenserInit, StockOK
  <2>4. AttemptsOK
    <3>1. 1 \in 1 .. MaxAttempts BY MaxAttemptsAssumption
    <3>2. \A c \in Calls : call[c].attempt = 1 BY DEF DispenserInit, RunnerInit
    <3> QED BY <3>1, <3>2 DEF AttemptsOK
  <2> QED BY <2>1, <2>2, <2>3, <2>4 DEF DeviceOK
<1>2. ASSUME CommandInv, DeviceOK, [DispenserNext]_dispenserVars PROVE DeviceOK'
  <2>1. AttemptsOK'
    <3>1. CASE Quiet BY <1>2, <3>1 DEF Quiet, DeviceOK, AttemptsOK
    <3>2. CASE \E c \in Calls : CallForms(c)
      BY <1>2, <3>2, AttemptsStay DEF CommandInv, DeviceOK
    <3> QED BY <1>2, <3>1, <3>2, StepForms DEF CommandInv
  <2>2. HealthOK' /\ PlansOK' /\ StockOK'
    <3>1. CASE UNCHANGED dispenserVars
      BY <1>2, <3>1 DEF dispenserVars, runnerVars, DeviceOK, HealthOK, PlansOK, StockOK
    <3> QED BY <1>2, <3>1, RunnerStepOK, DispenseOnceOK, ControlsOK DEF DispenserNext
  <2> QED BY <2>1, <2>2 DEF DeviceOK
<1>3. CommandInv /\ DeviceOK => DispenserTypeOK
  <2> SUFFICES ASSUME CommandInv, DeviceOK PROVE DispenserTypeOK OBVIOUS
  <2>1. call \in [Calls -> [at : UnderWay \cup {"new", "returned", "raised"},
                            attempt : 1 .. MaxAttempts,
                            outcome : Answers \cup Failures \cup {"none"}]]
    BY DEF CommandInv, CallsOK, CallRecords, DeviceOK, AttemptsOK
  <2>2. moved \in [Calls -> Nat] /\ remembered \in [Keys -> Answers \cup {"none"}]
    BY DEF CommandInv, CallsOK
  <2> QED BY <2>1, <2>2
    DEF DispenserTypeOK, RunnerTypeOK, DeviceOK, HealthOK, PlansOK, Plans, StockOK
<1> QED BY <1>1, <1>2, <1>3, CommandInvariant, PTL DEF DispenserSpec

-----------------------------------------------------------------------------

(* What a returned call was told is what is remembered under its key.      *)
ReturnedAsRemembered ==
  \A c \in Calls : call[c].at = "returned" => call[c].outcome = remembered[KeyOf[c]]

(* An attempt has paid, and the runner has not handled its answer yet.     *)
HasPaid(c) == call[c].at = "ended" /\ call[c].outcome \in Paying

(* What Verdict amounts to when one call at a time is under way with a key. *)
VerdictsOK ==
  \A k \in Keys :
    /\ remembered[k] # "none" => Verdict(k) = remembered[k]
    /\ \A c \in Calls : KeyOf[c] = k /\ HasPaid(c) => Verdict(k) = call[c].outcome
    /\ remembered[k] = "none" /\ (\A c \in Calls : KeyOf[c] = k => ~HasPaid(c))
         => Verdict(k) = "none"

LEMMA VerdictMeaning == ASSUME CommandInv, OneUnderWay PROVE VerdictsOK
<1> SUFFICES ASSUME NEW k \in Keys
    PROVE /\ remembered[k] # "none" => Verdict(k) = remembered[k]
          /\ \A c \in Calls : KeyOf[c] = k /\ HasPaid(c) => Verdict(k) = call[c].outcome
          /\ remembered[k] = "none" /\ (\A c \in Calls : KeyOf[c] = k => ~HasPaid(c))
               => Verdict(k) = "none"
  BY DEF VerdictsOK
<1>1. remembered[k] # "none" => Verdict(k) = remembered[k] BY DEF Verdict
<1>2. ASSUME NEW c \in Calls, KeyOf[c] = k, HasPaid(c) PROVE Verdict(k) = call[c].outcome
  <2>1. remembered[k] = "none" BY <1>2 DEF HasPaid, OneUnderWay, UnderWay
  <2>2. c \in Paid(k) BY <1>2 DEF Paid, HasPaid
  <2>3. \A d \in Paid(k) : d = c BY <1>2 DEF Paid, HasPaid, OneUnderWay, UnderWay
  <2>4. (CHOOSE d \in Paid(k) : TRUE) = c BY <2>2, <2>3
  <2> QED BY <2>1, <2>2, <2>4, Zenon DEF Verdict
<1>3. ASSUME remembered[k] = "none", \A c \in Calls : KeyOf[c] = k => ~HasPaid(c)
      PROVE Verdict(k) = "none"
  <2>1. Paid(k) = {} BY <1>3 DEF Paid, HasPaid
  <2> QED BY <1>3, <2>1, Zenon DEF Verdict
<1> QED BY <1>1, <1>2, <1>3

LEMMA ReturnedStay ==
  ASSUME CommandInv, ReturnedAsRemembered, OneUnderWay, NEW c \in Calls, CallForms(c)
  PROVE ReturnedAsRemembered'
<1> CallsOK /\ ReturnedIsRemembered BY DEF CommandInv
<1> SUFFICES ASSUME NEW d \in Calls, call'[d].at = "returned"
             PROVE call'[d].outcome = remembered'[KeyOf[d]]
  BY DEF ReturnedAsRemembered
<1> USE KeyOfAssumption DEF CallsOK, CallRecords, ReturnedAsRemembered
<1>1. CASE Begins(c) BY <1>1 DEF Begins
<1>2. CASE Replays(c) BY <1>2 DEF Replays
<1>3. CASE EndsUnmoved(c) BY <1>3 DEF EndsUnmoved
<1>4. CASE EndsPaying(c) BY <1>4 DEF EndsPaying
<1>5. CASE TriesAgain(c) BY <1>5 DEF TriesAgain
<1>6. CASE Answered(c)
  <2>1. CASE d = c BY <1>6, <2>1 DEF Answered
  <2>2. CASE d # c /\ KeyOf[d] # KeyOf[c] BY <1>6, <2>2 DEF Answered
  <2>3. CASE d # c /\ KeyOf[d] = KeyOf[c]
    <3>1. remembered[KeyOf[c]] = "none" BY <1>6 DEF Answered, OneUnderWay, UnderWay
    <3>2. call[d].at = "returned" BY <1>6, <2>3 DEF Answered
    <3> QED BY <2>3, <3>1, <3>2 DEF ReturnedIsRemembered
  <2> QED BY <2>1, <2>2, <2>3
<1>7. CASE Failed(c) BY <1>7 DEF Failed
<1> QED BY <1>1, <1>2, <1>3, <1>4, <1>5, <1>6, <1>7 DEF CallForms

LEMMA ReturnedAlways == ASSUME ~Overlap PROVE DispenserSpec => []ReturnedAsRemembered
<1>1. DispenserInit => ReturnedAsRemembered
  BY DEF DispenserInit, RunnerInit, ReturnedAsRemembered
<1>2. ASSUME CommandInv, OneUnderWay, ReturnedAsRemembered, [DispenserNext]_dispenserVars
      PROVE ReturnedAsRemembered'
  <2>1. CASE Quiet BY <1>2, <2>1 DEF Quiet, ReturnedAsRemembered
  <2>2. CASE \E c \in Calls : CallForms(c) BY <1>2, <2>2, ReturnedStay
  <2> QED BY <1>2, <2>1, <2>2, StepForms DEF CommandInv
<1> QED BY <1>1, <1>2, CommandInvariant, CallsAlone, PTL DEF DispenserSpec

(* Two callers who name the same key are never told different stories      *)
(* (the cache of DeviceCommandRunner.run).                                 *)
THEOREM KeysAnswerOnce == ASSUME ~Overlap PROVE DispenserSpec => []OneAnswerPerKey
<1>1. ReturnedAsRemembered => OneAnswerPerKey
  BY DEF ReturnedAsRemembered, OneAnswerPerKey
<1> QED BY <1>1, ReturnedAlways, PTL

-----------------------------------------------------------------------------
(* What the device's state, as its callers see it, is after each form of   *)
(* a step.                                                                 *)
LEMMA SameVerdict ==
  ASSUME VerdictsOK, VerdictsOK', NEW k \in Keys,
         remembered'[k] = remembered[k],
         \A c \in Calls : KeyOf[c] = k =>
            /\ HasPaid(c) <=> HasPaid(c)'
            /\ HasPaid(c) => call'[c].outcome = call[c].outcome
  PROVE Verdict(k)' = Verdict(k)
BY DEF VerdictsOK

LEMMA UndecidedWhileUnderWay ==
  ASSUME OneUnderWay, VerdictsOK, NEW c \in Calls, call[c].at \in UnderWay, ~HasPaid(c)
  PROVE Verdict(KeyOf[c]) = "none"
<1>1. remembered[KeyOf[c]] = "none" BY DEF OneUnderWay
<1>2. \A d \in Calls : KeyOf[d] = KeyOf[c] => ~HasPaid(d)
  BY DEF OneUnderWay, HasPaid, UnderWay
<1> QED BY <1>1, <1>2, KeyOfAssumption DEF VerdictsOK

LEMMA TellsWhatIsRemembered ==
  ASSUME CallsOK, VerdictsOK, VerdictsOK', NEW c \in Calls, Replays(c)
  PROVE Device!Tell(c)
<1> KeyOf[c] \in Keys BY KeyOfAssumption
<1>1. Verdict(KeyOf[c]) = remembered[KeyOf[c]] /\ remembered[KeyOf[c]] # "none"
  BY DEF Replays, VerdictsOK
<1>2. \A k \in Keys : Verdict(k)' = Verdict(k)
  <2> SUFFICES ASSUME NEW k \in Keys PROVE Verdict(k)' = Verdict(k) OBVIOUS
  <2>1. \A d \in Calls : HasPaid(d) <=> HasPaid(d)'
    BY DEF Replays, HasPaid, CallsOK, CallRecords
  <2>2. \A d \in Calls : HasPaid(d) => call'[d].outcome = call[d].outcome
    BY DEF Replays, HasPaid, CallsOK, CallRecords
  <2> QED BY <2>1, <2>2, SameVerdict DEF Replays
<1>3. Told(c) = "nothing" /\ Told(c)' = remembered[KeyOf[c]]
  BY DEF Told, Replays, CallsOK, CallRecords
<1>4. \A d \in Calls : d # c => Told(d)' = Told(d)
  BY DEF Told, Replays, CallsOK, CallRecords
<1> QED BY <1>1, <1>2, <1>3, <1>4 DEF Device!Tell, Replays

(* A step that starts, delays or repeats an attempt, or ends one that paid *)
(* nothing, is not to be seen.                                             *)
LEMMA NothingSeen ==
  ASSUME CallsOK, VerdictsOK, VerdictsOK', NEW c \in Calls,
         Begins(c) \/ EndsUnmoved(c) \/ TriesAgain(c)
  PROVE UNCHANGED Device!deviceVars
<1>1. remembered' = remembered /\ stock' = stock
  BY DEF Begins, EndsUnmoved, TriesAgain
<1>2. \A d \in Calls : d # c => call'[d] = call[d]
  BY DEF Begins, EndsUnmoved, TriesAgain, CallsOK, CallRecords
<1>3. ~HasPaid(c) /\ ~HasPaid(c)'
  BY DEF Begins, EndsUnmoved, TriesAgain, CallsOK, CallRecords, HasPaid
<1>4. ASSUME NEW k \in Keys PROVE Verdict(k)' = Verdict(k)
  <2>1. \A d \in Calls : HasPaid(d) <=> HasPaid(d)' BY <1>2, <1>3 DEF HasPaid
  <2>2. \A d \in Calls : HasPaid(d) => call'[d].outcome = call[d].outcome
    BY <1>2, <1>3
  <2> QED BY <1>1, <2>1, <2>2, SameVerdict
<1>5. ASSUME NEW d \in Calls PROVE Told(d)' = Told(d)
  <2>1. CASE d = c
    BY <2>1 DEF Told, Begins, EndsUnmoved, TriesAgain, CallsOK, CallRecords
  <2>2. CASE d # c BY <1>2, <2>2 DEF Told
  <2> QED BY <2>1, <2>2
<1> QED BY <1>1, <1>4, <1>5 DEF Device!deviceVars

LEMMA PaysOnce ==
  ASSUME CallsOK, OneUnderWay, VerdictsOK, VerdictsOK', NEW c \in Calls, EndsPaying(c)
  PROVE \E o \in Paying : Device!Act(KeyOf[c], o)
<1> DEFINE key == KeyOf[c]
<1> key \in Keys BY KeyOfAssumption
<1>1. PICK o \in Paying : /\ call' = [call EXCEPT ![c].at = "ended", ![c].outcome = o]
                         /\ stock' = stock - Effect[key][o]
  BY DEF EndsPaying
<1>2. \A d \in Calls : d # c => call'[d] = call[d] BY <1>1 DEF CallsOK, CallRecords
<1>3. call'[c].at = "ended" /\ call'[c].outcome = o BY <1>1 DEF CallsOK, CallRecords
<1>4. Verdict(key) = "none"
  <2>1. call[c].at \in UnderWay /\ ~HasPaid(c) BY DEF EndsPaying, UnderWay, HasPaid
  <2> QED BY <2>1, UndecidedWhileUnderWay
<1>5. Verdict(key)' = o
  <2>1. HasPaid(c)' BY <1>3 DEF HasPaid
  <2> QED BY <1>3, <2>1 DEF VerdictsOK
<1>6. ASSUME NEW k \in Keys, k # key PROVE Verdict(k)' = Verdict(k)
  <2>1. \A d \in Calls : KeyOf[d] = k =>
          (HasPaid(d) <=> HasPaid(d)') /\ call'[d].outcome = call[d].outcome
    BY <1>2, <1>6 DEF HasPaid
  <2>2. remembered' = remembered BY DEF EndsPaying
  <2> QED BY <2>1, <2>2, SameVerdict
<1>7. ASSUME NEW d \in Calls PROVE Told(d)' = Told(d)
  <2>1. CASE d = c BY <1>3, <2>1 DEF Told, EndsPaying
  <2>2. CASE d # c BY <1>2, <2>2 DEF Told
  <2> QED BY <2>1, <2>2
<1>8. (Stocked - stock)' = Stocked - stock + Effect[key][o]
  <2>1. Effect[key][o] \in Nat BY EffectOK
  <2> QED BY <1>1, <2>1, StockedAssumption DEF CallsOK
<1> HIDE DEF key
<1>9. Device!Act(key, o) BY <1>4, <1>5, <1>6, <1>7, <1>8 DEF Device!Act
<1> QED BY <1>9 DEF key

LEMMA TellsOrRefuses ==
  ASSUME CallsOK, OneUnderWay, VerdictsOK, VerdictsOK', NEW c \in Calls, Answered(c)
  PROVE \/ Device!Tell(c)
        \/ \E o \in Answers \ Paying : Device!Refuse(c, o)
<1> DEFINE key == KeyOf[c]  o == call[c].outcome
<1> key \in Keys BY KeyOfAssumption
<1>1. \A d \in Calls : d # c => call'[d] = call[d] BY DEF Answered, CallsOK, CallRecords
<1>2. call'[c].at = "returned" /\ call'[c].outcome = o BY DEF Answered, CallsOK, CallRecords
<1>3. o \in Answers /\ o # "none" BY DEF Answered, Answers
<1>4. Verdict(key)' = o
  <2>1. remembered'[key] = o BY DEF Answered, CallsOK
  <2> QED BY <1>3, <2>1 DEF VerdictsOK
<1>5. ASSUME NEW k \in Keys, k # key PROVE Verdict(k)' = Verdict(k)
  <2>1. \A d \in Calls : KeyOf[d] = k =>
          (HasPaid(d) <=> HasPaid(d)') /\ call'[d].outcome = call[d].outcome
    BY <1>1, <1>5 DEF HasPaid
  <2>2. remembered'[k] = remembered[k] BY <1>5 DEF Answered, CallsOK
  <2> QED BY <2>1, <2>2, SameVerdict
<1>6. Told(c) = "nothing" /\ Told(c)' = o BY <1>2 DEF Told, Answered
<1>7. \A d \in Calls : d # c => Told(d)' = Told(d) BY <1>1 DEF Told
<1>8. stock' = stock BY DEF Answered
<1>9. CASE o \in Paying
  <2>1. Verdict(key) = o BY <1>9 DEF Answered, HasPaid, VerdictsOK
  <2> HIDE DEF key, o
  <2>2. Device!Tell(c)
    BY <1>3, <1>4, <1>5, <1>6, <1>7, <1>8, <2>1 DEF Device!Tell, key
  <2> QED BY <2>2
<1>10. CASE o \notin Paying
  <2>1. Verdict(key) = "none"
    <3>1. call[c].at \in UnderWay /\ ~HasPaid(c) BY <1>10 DEF Answered, UnderWay, HasPaid
    <3> QED BY <3>1, UndecidedWhileUnderWay
  <2> HIDE DEF key, o
  <2>2. Device!Refuse(c, o)
    BY <1>4, <1>5, <1>6, <1>7, <1>8, <2>1 DEF Device!Refuse, key
  <2> QED BY <1>3, <1>10, <2>2
<1> QED BY <1>9, <1>10

LEMMA FailsUndecided ==
  ASSUME CallsOK, OneUnderWay, VerdictsOK, VerdictsOK', NEW c \in Calls, Failed(c)
  PROVE Device!Fail(c)
<1> KeyOf[c] \in Keys BY KeyOfAssumption
<1>1. \A d \in Calls : d # c => call'[d] = call[d] BY DEF Failed, CallsOK, CallRecords
<1>2. call'[c].at = "raised" BY DEF Failed, CallsOK, CallRecords
<1>3. ~HasPaid(c) /\ ~HasPaid(c)'
  BY <1>2 DEF Failed, HasPaid, Paying, Failures
<1>4. Verdict(KeyOf[c]) = "none"
  BY <1>3, UndecidedWhileUnderWay DEF Failed, UnderWay
<1>5. ASSUME NEW k \in Keys PROVE Verdict(k)' = Verdict(k)
  <2>1. \A d \in Calls : HasPaid(d) <=> HasPaid(d)' BY <1>1, <1>3 DEF HasPaid
  <2>2. \A d \in Calls : HasPaid(d) => call'[d].outcome = call[d].outcome
    BY <1>1, <1>3
  <2> QED BY <2>1, <2>2, SameVerdict DEF Failed
<1>6. Told(c) = "nothing" /\ Told(c)' = "error" BY <1>2 DEF Told, Failed
<1>7. \A d \in Calls : d # c => Told(d)' = Told(d) BY <1>1 DEF Told
<1> QED BY <1>4, <1>5, <1>6, <1>7 DEF Device!Fail, Failed

-----------------------------------------------------------------------------
(* The dispenser behind DeviceCommandRunner is a device that acts at most  *)
(* once under a key and tells every caller what it did: no piece leaves it *)
(* untold, and none is told of that did not leave it.                      *)
THEOREM DispenserKeepsItsWord == ASSUME ~Overlap PROVE DispenserSpec => KeepsItsWord
<1>1. DispenserInit => Device!Init
  <2> SUFFICES ASSUME DispenserInit PROVE Device!Init OBVIOUS
  <2>1. \A k \in Keys : Verdict(k) = "none"
    <3>1. \A k \in Keys : Paid(k) = {} BY DEF DispenserInit, RunnerInit, Paid
    <3>2. \A k \in Keys : remembered[k] = "none" BY DEF DispenserInit, RunnerInit
    <3> QED BY <3>1, <3>2, Zenon DEF Verdict
  <2>2. \A c \in Calls : Told(c) = "nothing" BY DEF DispenserInit, RunnerInit, Told
  <2>3. Stocked - stock = 0 BY StockedAssumption DEF DispenserInit
  <2> QED BY <2>1, <2>2, <2>3 DEF Device!Init
<1>2. ASSUME CommandInv, OneUnderWay, VerdictsOK, VerdictsOK',
             [DispenserNext]_dispenserVars
      PROVE [Device!Next]_(Device!deviceVars)
  <2>1. CallsOK BY <1>2 DEF CommandInv
  <2>2. CASE Quiet
    <3>1. \A k \in Keys : Verdict(k)' = Verdict(k)
      <4>1. \A d \in Calls : HasPaid(d) <=> HasPaid(d)' BY <2>2 DEF Quiet, HasPaid
      <4> QED BY <1>2, <2>2, <4>1, SameVerdict DEF Quiet
    <3>2. \A d \in Calls : Told(d)' = Told(d) BY <2>2 DEF Quiet, Told
    <3> QED BY <2>2, <3>1, <3>2 DEF Quiet, Device!deviceVars
  <2>3. ASSUME NEW c \in Calls, CallForms(c) PROVE [Device!Next]_(Device!deviceVars)
    <3>1. CASE Begins(c) \/ EndsUnmoved(c) \/ TriesAgain(c)
      BY <1>2, <2>1, <3>1, NothingSeen
    <3>2. CASE Replays(c)
      BY <1>2, <2>1, <3>2, TellsWhatIsRemembered DEF Device!Next
    <3>3. CASE EndsPaying(c)
      BY <1>2, <2>1, <3>3, PaysOnce, KeyOfAssumption DEF Device!Next
    <3>4. CASE Answered(c)
      BY <1>2, <2>1, <3>4, TellsOrRefuses DEF Device!Next
    <3>5. CASE Failed(c)
      BY <1>2, <2>1, <3>5, FailsUndecided DEF Device!Next
    <3> QED BY <2>3, <3>1, <3>2, <3>3, <3>4, <3>5 DEF CallForms
  <2> QED BY <1>2, <2>1, <2>2, <2>3, StepForms
<1>3. CommandInv /\ OneUnderWay => VerdictsOK BY VerdictMeaning
<1> QED BY <1>1, <1>2, <1>3, CommandInvariant, CallsAlone, PTL
       DEF DispenserSpec, KeepsItsWord, Device!Spec

-----------------------------------------------------------------------------
(* What is missing from the dispenser adds up, key by key, to what the     *)
(* device did under the keys.                                              *)
GivenUnder(k) == IF Verdict(k) \in Paying THEN Effect[k][Verdict(k)] ELSE 0
Given == [k \in Keys |-> GivenUnder(k)]
AddsUp == Stocked - stock = Total(Given, Keys)

LEMMA GivenTyped == \A k \in Keys : Given[k] \in Nat
<1>1. \A k \in Keys : Verdict(k) \in Paying => Effect[k][Verdict(k)] \in Nat BY EffectOK
<1> QED BY <1>1 DEF Given, GivenUnder

LEMMA DeviceStepAddsUp ==
  ASSUME IsFiniteSet(Keys), CallsOK, AddsUp, [Device!Next]_(Device!deviceVars)
  PROVE AddsUp'
<1> DEFINE now == Total(Given, Keys)
<1>1. PICK F : F = Given OBVIOUS
<1>2. PICK G : G = Given' OBVIOUS
<1>3. \A k \in Keys : F[k] \in Nat BY <1>1, GivenTyped
<1>4. ASSUME \A k \in Keys : Verdict(k)' = Verdict(k), Stocked - stock' = Stocked - stock
      PROVE AddsUp'
  <2>1. \A k \in Keys : GivenUnder(k)' = GivenUnder(k)
    BY <1>4 DEF GivenUnder
  <2>2. Given' = Given BY <2>1 DEF Given
  <2> QED BY <1>4, <2>2 DEF AddsUp
<1>5. CASE UNCHANGED Device!deviceVars
  BY <1>4, <1>5 DEF Device!deviceVars
<1>6. ASSUME NEW k \in Keys, NEW v \in Paying, Device!Act(k, v) PROVE AddsUp'
  <2>1. /\ Verdict(k) = "none" /\ Verdict(k)' = v
        /\ \A j \in Keys : j # k => Verdict(j)' = Verdict(j)
        /\ Stocked - stock' = Stocked - stock + Effect[k][v]
    BY <1>6 DEF Device!Act
  <2>2. F[k] = 0 /\ G[k] = Effect[k][v] /\ Effect[k][v] \in Nat
    <3>1. GivenUnder(k) = 0 BY <2>1 DEF GivenUnder, Paying
    <3>2. GivenUnder(k)' = Effect[k][v] BY <2>1 DEF GivenUnder
    <3> QED BY <1>1, <1>2, <3>1, <3>2, EffectOK DEF Given
  <2>3. \A j \in Keys : j # k => F[j] = G[j]
    <3>1. \A j \in Keys : j # k => GivenUnder(j)' = GivenUnder(j)
      BY <2>1 DEF GivenUnder
    <3> QED BY <1>1, <1>2, <3>1 DEF Given
  <2>4. \A j \in Keys : F[j] \in Nat /\ G[j] \in Nat BY <1>3, <2>2, <2>3
  <2>5. Total(F, Keys) \in Nat /\ Total(G, Keys) \in Nat
        /\ Total(G, Keys) + F[k] = Total(F, Keys) + G[k]
    BY <2>3, <2>4, TotalChanged
  <2>6. Total(G, Keys) = Total(F, Keys) + Effect[k][v] BY <2>2, <2>5
  <2>7. Stocked - stock = Total(F, Keys) BY <1>1 DEF AddsUp
  <2>8. Stocked - stock' = Total(G, Keys) BY <2>1, <2>6, <2>7
  <2> QED BY <1>2, <2>8 DEF AddsUp
<1>7. ASSUME NEW c \in Calls, NEW v \in Answers \ Paying, Device!Refuse(c, v) PROVE AddsUp'
  <2>1. /\ Verdict(KeyOf[c]) = "none" /\ Verdict(KeyOf[c])' = v
        /\ \A j \in Keys : j # KeyOf[c] => Verdict(j)' = Verdict(j)
        /\ Stocked - stock' = Stocked - stock
    BY <1>7, KeyOfAssumption DEF Device!Refuse
  <2>2. \A j \in Keys : GivenUnder(j)' = GivenUnder(j)
    BY <2>1 DEF GivenUnder, Paying
  <2>3. Given' = Given BY <2>2 DEF Given
  <2> QED BY <2>1, <2>3 DEF AddsUp
<1>8. ASSUME NEW c \in Calls, Device!Tell(c) \/ Device!Fail(c) PROVE AddsUp'
  BY <1>4, <1>8 DEF Device!Tell, Device!Fail
<1> QED BY <1>5, <1>6, <1>7, <1>8 DEF Device!Next

LEMMA PaidIsTotal ==
  ASSUME \A k \in Keys : PaidUnder(k) = Given[k]
  PROVE MapThenSumSet(PaidUnder, Keys) = Total(Given, Keys)
<1> DEFINE P(g) == g = [s \in SUBSET Keys |->
                          IF s = {} THEN 0 ELSE PaidUnder(Pick(s)) + g[s \ {Pick(s)}]]
           Q(g) == IsTotal(g, Given, Keys)
<1>1. MapThenSumSet(PaidUnder, Keys) = (CHOOSE g : P(g))[Keys]
  BY DEF MapThenSumSet, MapThenFoldSet, Pick
<1>2. ASSUME NEW g PROVE P(g) <=> Q(g)
  <2>1. \A s \in SUBSET Keys : s # {} => PaidUnder(Pick(s)) = Given[Pick(s)] BY Picked
  <2>2. [s \in SUBSET Keys |-> IF s = {} THEN 0 ELSE PaidUnder(Pick(s)) + g[s \ {Pick(s)}]]
        = [s \in SUBSET Keys |-> IF s = {} THEN 0 ELSE Given[Pick(s)] + g[s \ {Pick(s)}]]
    BY <2>1
  <2> QED BY <2>2 DEF IsTotal
<1> HIDE DEF P, Q
<1>3. (CHOOSE g : P(g)) = (CHOOSE g : Q(g)) BY <1>2
<1> QED BY <1>1, <1>3 DEF Q, Total

(* When no call is under way the pieces missing from the dispenser are     *)
(* those of the answers it remembers: no attempt, timeout or retry lets a  *)
(* piece out unaccounted for.                                              *)
THEOREM StockAlwaysMatches ==
  ASSUME ~Overlap, IsFiniteSet(Keys)
  PROVE DispenserSpec => []StockMatchesAnswers
<1>1. CommandInv /\ Device!Init => AddsUp
  <2> SUFFICES ASSUME CommandInv, Device!Init PROVE AddsUp OBVIOUS
  <2>1. \A k \in Keys : Verdict(k) = "none" BY DEF Device!Init
  <2>2. \A k \in Keys : Given[k] = 0 BY <2>1 DEF Given, GivenUnder, Paying
  <2>3. Total(Given, Keys) = 0 BY <2>2, TotalOfNothing
  <2> QED BY <2>3 DEF Device!Init, AddsUp
<1>2. ASSUME CommandInv, AddsUp, [Device!Next]_(Device!deviceVars) PROVE AddsUp'
  BY <1>2, DeviceStepAddsUp DEF CommandInv
<1>3. CommandInv /\ OneUnderWay /\ AddsUp => StockMatchesAnswers
  <2> SUFFICES ASSUME CommandInv, OneUnderWay, AddsUp,
                      \A c \in Calls : call[c].at \notin UnderWay
               PROVE stock = Stocked - MapThenSumSet(PaidUnder, Keys)
    BY DEF StockMatchesAnswers
  <2>1. ASSUME NEW k \in Keys PROVE PaidUnder(k) = Given[k]
    <3>1. Verdict(k) = remembered[k]
      BY VerdictMeaning DEF VerdictsOK, HasPaid, UnderWay
    <3> QED BY <3>1 DEF Given, GivenUnder, PaidUnder, Effect, Paying
  <2>2. MapThenSumSet(PaidUnder, Keys) = Total(Given, Keys) BY <2>1, PaidIsTotal
  <2>3. Stocked \in Nat /\ stock \in Int BY StockedAssumption DEF CommandInv, CallsOK
  <2> QED BY <2>2, <2>3 DEF AddsUp
<1> QED BY <1>1, <1>2, <1>3, CommandInvariant, CallsAlone, DispenserKeepsItsWord, PTL
       DEF KeepsItsWord, Device!Spec
=============================================================================
