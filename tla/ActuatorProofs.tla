---------------------------- MODULE ActuatorProofs ----------------------------
(***************************************************************************)
(* What a motor or window command does, for any number of calls, keys,     *)
(* attempts and faults, when calls with one key come one after another.    *)
(*                                                                         *)
(* A command that was performed is never retried, so it is the last thing  *)
(* under its key: either it is remembered, or the one call under way with  *)
(* that key has it in hand.                                                *)
(***************************************************************************)
EXTENDS SimulatedActuator, SumProofs

Outcomes == Failures \cup {"done", "none"}

CallRecords ==
  [at : UnderWay \cup {"new", "returned", "raised"}, attempt : Nat, outcome : Outcomes]

CallsOK ==
  /\ call \in [Calls -> CallRecords]
  /\ performed \in [Keys -> Nat]
  /\ remembered \in [Keys -> {"done", "none"}]
  /\ \A c \in Calls : call[c].at = "asleep" => call[c].outcome \in Failures

OneUnderWay ==
  \A c \in Calls :
    call[c].at \in UnderWay =>
      /\ remembered[KeyOf[c]] = "none"
      /\ \A d \in Calls : KeyOf[d] = KeyOf[c] /\ call[d].at \in UnderWay => d = c

(* The runner has not handled the end of the command yet.                  *)
HasPerformed(c) == call[c].at = "ended" /\ call[c].outcome = "done"

(* Whoever is told, or will be told, that it was done can rely on it.      *)
DoneIsPerformed ==
  /\ \A c \in Calls : HasPerformed(c) => performed[KeyOf[c]] = 1
  /\ \A k \in Keys : remembered[k] = "done" => performed[k] = 1
  /\ \A c \in Calls : call[c].at = "returned" =>
       call[c].outcome = "done" /\ remembered[KeyOf[c]] = "done"

(* What was performed is remembered, or about to be.                       *)
PerformedIsKnown ==
  \A k \in Keys :
    performed[k] # 0 =>
      /\ performed[k] = 1
      /\ remembered[k] = "done" \/ \E c \in Calls : KeyOf[c] = k /\ HasPerformed(c)

ActuatorInv == CallsOK /\ OneUnderWay /\ DoneIsPerformed /\ PerformedIsKnown

-----------------------------------------------------------------------------
(* What a step may do to the calls.                                        *)
Quiet == call' = call /\ remembered' = remembered /\ performed' = performed

Begins(c) ==
  /\ call[c].at = "new" /\ remembered[KeyOf[c]] = "none"
  /\ Overlap \/ \A d \in Calls : KeyOf[d] = KeyOf[c] => call[d].at \notin UnderWay
  /\ call' = [call EXCEPT ![c].at = "ready"]
  /\ remembered' = remembered /\ performed' = performed

Replays(c) ==
  /\ call[c].at = "new" /\ remembered[KeyOf[c]] # "none"
  /\ call' = [call EXCEPT ![c].at = "returned", ![c].outcome = remembered[KeyOf[c]]]
  /\ remembered' = remembered /\ performed' = performed

EndsUndone(c) ==
  /\ call[c].at \in {"ready", "asleep"}
  /\ \E a \in {"asleep", "ended"}, o \in Failures :
       call' = [call EXCEPT ![c].at = a, ![c].outcome = o]
  /\ remembered' = remembered /\ performed' = performed

EndsDone(c) ==
  /\ call[c].at = "ready"
  /\ call' = [call EXCEPT ![c].at = "ended", ![c].outcome = "done"]
  /\ performed' = [performed EXCEPT ![KeyOf[c]] = @ + 1]
  /\ remembered' = remembered

TriesAgain(c) ==
  /\ call[c].at = "ended" /\ call[c].outcome # "done"
  /\ call' = [call EXCEPT ![c].at = "ready", ![c].attempt = @ + 1]
  /\ remembered' = remembered /\ performed' = performed

Answered(c) ==
  /\ HasPerformed(c)
  /\ call' = [call EXCEPT ![c].at = "returned"]
  /\ remembered' = [remembered EXCEPT ![KeyOf[c]] = "done"]
  /\ performed' = performed

Failed(c) ==
  /\ call[c].at = "ended" /\ call[c].outcome \in Failures
  /\ call' = [call EXCEPT ![c].at = "raised"]
  /\ remembered' = remembered /\ performed' = performed

CallForms(c) ==
  \/ Begins(c) \/ Replays(c) \/ EndsUndone(c) \/ EndsDone(c)
  \/ TriesAgain(c) \/ Answered(c) \/ Failed(c)

(* A command that was done is not tried again.                             *)
LEMMA DoneIsFinal == ~MayRetry("done")
BY PolicyAssumption DEF MayRetry, IsRetryable, ResultFault, Answers, FailureFault

LEMMA RunnerForms ==
  ASSUME CallsOK, NEW c \in Calls, RunnerStep(c), UNCHANGED performed
  PROVE CallForms(c)
<1>1. CASE Issue(c)
  <2>1. CASE remembered[KeyOf[c]] = "none"
    <3>1. Begins(c) BY <1>1, <2>1 DEF Issue, Begins
    <3> QED BY <3>1 DEF CallForms
  <2>2. CASE remembered[KeyOf[c]] # "none"
    <3>1. Replays(c) BY <1>1, <2>2 DEF Issue, Replays
    <3> QED BY <3>1 DEF CallForms
  <2> QED BY <2>1, <2>2
<1>2. CASE WakesUp(c)
  <2>1. call' = [call EXCEPT ![c].at = "ended", ![c].outcome = call[c].outcome]
    BY <1>2 DEF WakesUp, CallsOK, CallRecords
  <2>2. EndsUndone(c) BY <1>2, <2>1 DEF WakesUp, EndsUndone, CallsOK
  <2> QED BY <2>2 DEF CallForms
<1>3. CASE TimesOut(c)
  <2>1. EndsUndone(c) BY <1>3 DEF TimesOut, End, EndsUndone, Failures
  <2> QED BY <2>1 DEF CallForms
<1>4. CASE Retries(c)
  <2>1. call[c].outcome # "done" BY <1>4, DoneIsFinal DEF Retries
  <2>2. TriesAgain(c) BY <1>4, <2>1 DEF Retries, TriesAgain
  <2> QED BY <2>2 DEF CallForms
<1>5. CASE Returns(c)
  <2>1. call[c].outcome = "done"
    BY <1>5 DEF Returns, CallsOK, CallRecords, Outcomes, Answers, Failures
  <2>2. Answered(c) BY <1>5, <2>1 DEF Returns, IsFinal, Answered, HasPerformed
  <2> QED BY <2>2 DEF CallForms
<1>6. CASE Raises(c)
  <2>1. Failed(c) BY <1>6 DEF Raises, IsFinal, Failed
  <2> QED BY <2>1 DEF CallForms
<1> QED BY <1>1, <1>2, <1>3, <1>4, <1>5, <1>6 DEF RunnerStep

LEMMA OperationForms ==
  ASSUME NEW c \in Calls, Operates(c) PROVE CallForms(c)
<1>1. CASE FailsFirst(c)
  <2>1. PICK i \in DOMAIN ActuatorCodes :
          /\ \/ call' = [call EXCEPT ![c].at = "asleep",
                                     ![c].outcome = PolicyFailure(ActuatorCodes[i])]
             \/ call' = [call EXCEPT ![c].at = "ended",
                                     ![c].outcome = PolicyFailure(ActuatorCodes[i])]
          /\ remembered' = remembered
    BY <1>1 DEF FailsFirst, PolicyFault, End
  <2>2. ActuatorCodes[i] \in
          {"command_timeout", "transient_command_failure", "ambiguous_physical_result"}
    BY DEF ActuatorCodes
  <2>3. PolicyFailure(ActuatorCodes[i]) \in Failures
    BY <2>2 DEF PolicyFailure, Failures
  <2>4. EndsUndone(c) BY <1>1, <2>1, <2>3 DEF FailsFirst, EndsUndone
  <2> QED BY <2>4 DEF CallForms
<1>2. CASE Breaks(c)
  <2>1. EndsUndone(c) BY <1>2 DEF Breaks, End, EndsUndone, Failures
  <2> QED BY <2>1 DEF CallForms
<1>3. CASE Performs(c)
  <2>1. EndsDone(c) BY <1>3 DEF Performs, End, EndsDone
  <2> QED BY <2>1 DEF CallForms
<1> QED BY <1>1, <1>2, <1>3 DEF Operates

LEMMA StepForms ==
  ASSUME CallsOK, [ActuatorNext]_actuatorVars
  PROVE Quiet \/ \E c \in Calls : CallForms(c)
<1>1. CASE \E c \in Calls : RunnerStep(c) /\ UNCHANGED performed BY <1>1, RunnerForms
<1>2. CASE \E c \in Calls : Operates(c) BY <1>2, OperationForms
<1>3. CASE ActuatorControls BY <1>3 DEF ActuatorControls, InjectFault, ClearFaults, Quiet
<1>4. CASE UNCHANGED actuatorVars BY <1>4 DEF actuatorVars, runnerVars, Quiet
<1> QED BY <1>1, <1>2, <1>3, <1>4 DEF ActuatorNext

-----------------------------------------------------------------------------
(* The invariant, one conjunct at a time, under each form of a step.       *)
LEMMA CallsStayOK ==
  ASSUME CallsOK, NEW c \in Calls, CallForms(c) PROVE CallsOK'
<1> USE KeyOfAssumption DEF CallsOK
<1> KeyOf[c] \in Keys OBVIOUS
<1>1. CASE Begins(c) BY <1>1 DEF Begins, UnderWay, CallRecords
<1>2. CASE Replays(c) BY <1>2 DEF Replays, Outcomes, CallRecords
<1>3. CASE EndsUndone(c)
  <2>1. PICK a \in {"asleep", "ended"}, o \in Failures :
          call' = [call EXCEPT ![c].at = a, ![c].outcome = o]
    BY <1>3 DEF EndsUndone
  <2>2. a \in UnderWay /\ o \in Outcomes BY DEF UnderWay, Outcomes
  <2>3. call' \in [Calls -> CallRecords] BY <2>1, <2>2 DEF CallRecords
  <2>4. ASSUME NEW d \in Calls, call'[d].at = "asleep" PROVE call'[d].outcome \in Failures
    BY <2>1, <2>4 DEF CallRecords
  <2> QED BY <1>3, <2>3, <2>4 DEF EndsUndone
<1>4. CASE EndsDone(c)
  <2>1. "ended" \in UnderWay /\ "done" \in Outcomes BY DEF UnderWay, Outcomes
  <2>2. call' \in [Calls -> CallRecords] BY <1>4, <2>1 DEF EndsDone, CallRecords
  <2>3. performed' \in [Keys -> Nat] BY <1>4 DEF EndsDone
  <2>4. ASSUME NEW d \in Calls, call'[d].at = "asleep" PROVE call'[d].outcome \in Failures
    BY <1>4, <2>4 DEF EndsDone, CallRecords
  <2> QED BY <1>4, <2>2, <2>3, <2>4 DEF EndsDone
<1>5. CASE TriesAgain(c) BY <1>5 DEF TriesAgain, UnderWay, CallRecords
<1>6. CASE Answered(c) BY <1>6 DEF Answered, CallRecords
<1>7. CASE Failed(c) BY <1>7 DEF Failed, CallRecords
<1> QED BY <1>1, <1>2, <1>3, <1>4, <1>5, <1>6, <1>7 DEF CallForms

LEMMA StaysAlone ==
  ASSUME ~Overlap, CallsOK, OneUnderWay, NEW c \in Calls, CallForms(c) PROVE OneUnderWay'
<1> SUFFICES ASSUME NEW d \in Calls, call'[d].at \in UnderWay
             PROVE /\ remembered'[KeyOf[d]] = "none"
                   /\ \A e \in Calls : KeyOf[e] = KeyOf[d] /\ call'[e].at \in UnderWay => e = d
  BY DEF OneUnderWay
<1> USE KeyOfAssumption DEF CallsOK, CallRecords, OneUnderWay, UnderWay
<1>1. CASE Begins(c) BY <1>1 DEF Begins
<1>2. CASE Replays(c) BY <1>2 DEF Replays
<1>3. CASE EndsUndone(c) BY <1>3 DEF EndsUndone
<1>4. CASE EndsDone(c) BY <1>4 DEF EndsDone
<1>5. CASE TriesAgain(c) BY <1>5 DEF TriesAgain
<1>6. CASE Answered(c) BY <1>6 DEF Answered, HasPerformed
<1>7. CASE Failed(c) BY <1>7 DEF Failed
<1> QED BY <1>1, <1>2, <1>3, <1>4, <1>5, <1>6, <1>7 DEF CallForms

(* Nothing was performed under the key of a call that has an attempt before it. *)
LEMMA ReadyIsFresh ==
  ASSUME OneUnderWay, PerformedIsKnown, NEW c \in Calls, call[c].at = "ready"
  PROVE performed[KeyOf[c]] = 0
<1>1. remembered[KeyOf[c]] = "none" BY DEF OneUnderWay, UnderWay
<1>2. \A d \in Calls : KeyOf[d] = KeyOf[c] => ~HasPerformed(d)
  BY DEF OneUnderWay, UnderWay, HasPerformed
<1> QED BY <1>1, <1>2, KeyOfAssumption DEF PerformedIsKnown

LEMMA StaysTrue ==
  ASSUME ActuatorInv, NEW c \in Calls, CallForms(c)
  PROVE DoneIsPerformed'
<1> USE KeyOfAssumption DEF ActuatorInv, CallsOK, CallRecords, DoneIsPerformed, HasPerformed
<1>1. CASE Begins(c) BY <1>1 DEF Begins
<1>2. CASE Replays(c) BY <1>2 DEF Replays
<1>3. CASE EndsUndone(c) BY <1>3 DEF EndsUndone, Failures
<1>4. CASE EndsDone(c)
  <2>1. performed[KeyOf[c]] = 0 BY <1>4, ReadyIsFresh DEF EndsDone
  <2>2. performed'[KeyOf[c]] = 1 BY <1>4, <2>1 DEF EndsDone
  <2> QED BY <1>4, <2>2 DEF EndsDone
<1>5. CASE TriesAgain(c) BY <1>5 DEF TriesAgain
<1>6. CASE Answered(c) BY <1>6 DEF Answered
<1>7. CASE Failed(c) BY <1>7 DEF Failed
<1> QED BY <1>1, <1>2, <1>3, <1>4, <1>5, <1>6, <1>7 DEF CallForms

LEMMA StaysKnown ==
  ASSUME ActuatorInv, NEW c \in Calls, CallForms(c)
  PROVE PerformedIsKnown'
<1> SUFFICES ASSUME NEW k \in Keys, performed'[k] # 0
             PROVE /\ performed'[k] = 1
                   /\ \/ remembered'[k] = "done"
                      \/ \E d \in Calls : KeyOf[d] = k /\ HasPerformed(d)'
  BY DEF PerformedIsKnown
<1> USE KeyOfAssumption DEF ActuatorInv, CallsOK, CallRecords, PerformedIsKnown, HasPerformed
<1>1. CASE Begins(c) BY <1>1 DEF Begins
<1>2. CASE Replays(c) BY <1>2 DEF Replays
<1>3. CASE EndsUndone(c) BY <1>3 DEF EndsUndone
<1>4. CASE EndsDone(c)
  <2>1. CASE k = KeyOf[c]
    <3>1. performed[k] = 0 BY <1>4, <2>1, ReadyIsFresh DEF EndsDone
    <3>2. performed'[k] = 1 BY <1>4, <2>1, <3>1 DEF EndsDone
    <3>3. HasPerformed(c)' BY <1>4 DEF EndsDone
    <3> QED BY <2>1, <3>2, <3>3
  <2>2. CASE k # KeyOf[c] BY <1>4, <2>2 DEF EndsDone
  <2> QED BY <2>1, <2>2
<1>5. CASE TriesAgain(c) BY <1>5 DEF TriesAgain
<1>6. CASE Answered(c) BY <1>6 DEF Answered
<1>7. CASE Failed(c) BY <1>7 DEF Failed, Failures
<1> QED BY <1>1, <1>2, <1>3, <1>4, <1>5, <1>6, <1>7 DEF CallForms

LEMMA ActuatorInvariant == ASSUME ~Overlap PROVE ActuatorSpec => []ActuatorInv
<1>1. ActuatorInit => ActuatorInv
  BY KeyOfAssumption
  DEF ActuatorInit, RunnerInit, ActuatorInv, CallsOK, CallRecords, Outcomes, OneUnderWay, UnderWay,
      DoneIsPerformed, PerformedIsKnown, HasPerformed
<1>2. ASSUME ActuatorInv, [ActuatorNext]_actuatorVars PROVE ActuatorInv'
  <2> CallsOK /\ OneUnderWay BY <1>2 DEF ActuatorInv
  <2>1. CASE Quiet
    BY <1>2, <2>1
    DEF Quiet, ActuatorInv, CallsOK, OneUnderWay, DoneIsPerformed, PerformedIsKnown,
        HasPerformed
  <2>2. CASE \E c \in Calls : CallForms(c)
    <3>1. PICK c \in Calls : CallForms(c) BY <2>2
    <3>2. CallsOK' BY <3>1, CallsStayOK
    <3>3. OneUnderWay' BY <3>1, StaysAlone
    <3>4. DoneIsPerformed' BY <1>2, <3>1, StaysTrue
    <3>5. PerformedIsKnown' BY <1>2, <3>1, StaysKnown
    <3> QED BY <3>2, <3>3, <3>4, <3>5 DEF ActuatorInv
  <2> QED BY <1>2, <2>1, <2>2, StepForms
<1> QED BY <1>1, <1>2, PTL DEF ActuatorSpec

-----------------------------------------------------------------------------
(* However often a motor or window command is tried again, or given again  *)
(* with its key, it is completed once (DeviceCommandRunner.run over        *)
(* MockMotorController and MockWindowController).                          *)
THEOREM CommandsPerformOnce == ASSUME ~Overlap PROVE ActuatorSpec => []PerformedOncePerKey
<1>1. ActuatorInv => PerformedOncePerKey
  <2> SUFFICES ASSUME ActuatorInv, NEW k \in Keys PROVE performed[k] <= 1
    BY DEF PerformedOncePerKey
  <2>1. performed[k] = 0 \/ performed[k] = 1 BY DEF ActuatorInv, PerformedIsKnown
  <2> QED BY <2>1
<1> QED BY <1>1, ActuatorInvariant, PTL

(* A caller is told that a command was done only after it was, also from   *)
(* memory.                                                                 *)
THEOREM DoneIsTrue == ASSUME ~Overlap PROVE ActuatorSpec => []DoneWasPerformed
<1>1. ActuatorInv => DoneWasPerformed
  <2> SUFFICES ASSUME ActuatorInv, NEW c \in Calls, call[c].at = "returned"
               PROVE call[c].outcome = "done" /\ performed[KeyOf[c]] > 0
    BY DEF DoneWasPerformed
  <2>1. call[c].outcome = "done" /\ remembered[KeyOf[c]] = "done"
    BY DEF ActuatorInv, DoneIsPerformed
  <2>2. performed[KeyOf[c]] = 1 BY <2>1, KeyOfAssumption DEF ActuatorInv, DoneIsPerformed
  <2> QED BY <2>1, <2>2
<1> QED BY <1>1, ActuatorInvariant, PTL

-----------------------------------------------------------------------------
(* What the callers and the ledger of commands see of a step.              *)
Done == MapThenSumSet(LAMBDA k : performed[k], Keys)

LEMMA DoneIsTotal ==
  ASSUME NEW F, F = performed
  PROVE Done = Total(F, Keys)
<1> DEFINE P(g) == g = [s \in SUBSET Keys |->
                          IF s = {} THEN 0 ELSE performed[Pick(s)] + g[s \ {Pick(s)}]]
           Q(g) == IsTotal(g, F, Keys)
<1>1. Done = (CHOOSE g : P(g))[Keys]
  BY DEF Done, MapThenSumSet, MapThenFoldSet, Pick
<1>2. \A g : P(g) <=> Q(g) BY DEF IsTotal
<1> HIDE DEF P, Q
<1>3. (CHOOSE g : P(g)) = (CHOOSE g : Q(g)) BY <1>2
<1> QED BY <1>1, <1>3 DEF Q, Total

LEMMA DoneIsTotalAfter ==
  ASSUME NEW F, F = performed'
  PROVE Done' = Total(F, Keys)
<1> DEFINE P(g) == g = [s \in SUBSET Keys |->
                          IF s = {} THEN 0 ELSE performed'[Pick(s)] + g[s \ {Pick(s)}]]
           Q(g) == IsTotal(g, F, Keys)
<1>1. Done' = (CHOOSE g : P(g))[Keys]
  BY DEF Done, MapThenSumSet, MapThenFoldSet, Pick
<1>2. \A g : P(g) <=> Q(g) BY DEF IsTotal
<1> HIDE DEF P, Q
<1>3. (CHOOSE g : P(g)) = (CHOOSE g : Q(g)) BY <1>2
<1> QED BY <1>1, <1>3 DEF Q, Total

LEMMA OneMoreDone ==
  ASSUME IsFiniteSet(Keys), CallsOK, NEW k \in Keys, performed[k] = 0,
         performed' = [performed EXCEPT ![k] = @ + 1]
  PROVE Done' = Done + 1
<1>1. PICK F : F = performed OBVIOUS
<1>2. PICK G : G = performed' OBVIOUS
<1>3. \A j \in Keys : F[j] \in Nat /\ G[j] \in Nat BY <1>1, <1>2 DEF CallsOK
<1>4. \A j \in Keys : j # k => F[j] = G[j] BY <1>1, <1>2 DEF CallsOK
<1>5. F[k] = 0 /\ G[k] = 1 BY <1>1, <1>2 DEF CallsOK
<1>6. /\ Total(F, Keys) \in Nat /\ Total(G, Keys) \in Nat
      /\ Total(G, Keys) + F[k] = Total(F, Keys) + G[k]
  BY <1>3, <1>4, TotalChanged
<1>7. Total(G, Keys) = Total(F, Keys) + 1 BY <1>5, <1>6
<1>8. Done = Total(F, Keys) BY <1>1, DoneIsTotal
<1>9. Done' = Total(G, Keys) BY <1>2, DoneIsTotalAfter
<1> QED BY <1>7, <1>8, <1>9

LEMMA NothingDone == ASSUME performed' = performed PROVE Done' = Done
<1>1. PICK F : F = performed OBVIOUS
<1>2. Done = Total(F, Keys) BY <1>1, DoneIsTotal
<1>3. Done' = Total(F, Keys) BY <1>1, DoneIsTotalAfter
<1> QED BY <1>2, <1>3

LEMMA FailedIsUndone ==
  ASSUME ActuatorInv, NEW c \in Calls, Failed(c)
  PROVE performed[KeyOf[c]] = 0
<1> CallsOK /\ OneUnderWay /\ PerformedIsKnown BY DEF ActuatorInv
<1>1. remembered[KeyOf[c]] = "none" BY DEF OneUnderWay, Failed, UnderWay
<1>2. ~ \E d \in Calls : KeyOf[d] = KeyOf[c] /\ HasPerformed(d)
  BY DEF OneUnderWay, Failed, HasPerformed, UnderWay, Failures
<1> QED BY <1>1, <1>2, KeyOfAssumption DEF PerformedIsKnown

LEMMA FormsImplement ==
  ASSUME IsFiniteSet(Keys), ActuatorInv, ActuatorInv', NEW c \in Calls, CallForms(c)
  PROVE [Device!Next]_(Device!deviceVars)
<1> KeyOf[c] \in Keys BY KeyOfAssumption
<1> CallsOK /\ OneUnderWay /\ DoneIsPerformed BY DEF ActuatorInv
<1>1. \A d \in Calls : d # c => Told(d)' = Told(d)
  <2>1. \A d \in Calls : d # c => call'[d] = call[d]
    BY DEF CallForms, Begins, Replays, EndsUndone, EndsDone, TriesAgain, Answered, Failed,
           CallsOK, CallRecords
  <2> QED BY <2>1 DEF Told
<1>2. ASSUME performed' = performed
      PROVE \A k \in Keys : Verdict(k)' = Verdict(k) /\ Done' = Done
  BY <1>2, NothingDone DEF Verdict
<1>3. CASE Begins(c) \/ EndsUndone(c) \/ TriesAgain(c)
  <2>1. performed' = performed BY <1>3 DEF Begins, EndsUndone, TriesAgain
  <2>2. Told(c)' = Told(c)
    BY <1>3 DEF Told, Begins, EndsUndone, TriesAgain, CallsOK, CallRecords
  <2> QED BY <1>1, <1>2, <2>1, <2>2 DEF Device!deviceVars, Done
<1>4. CASE Replays(c) \/ Answered(c)
  <2>1. performed' = performed BY <1>4 DEF Replays, Answered
  <2>2. Told(c) = "nothing" /\ Told(c)' = "done"
    BY <1>4 DEF Told, Replays, Answered, HasPerformed, CallsOK, CallRecords
  <2>3. Verdict(KeyOf[c]) = "done"
    <3>1. performed[KeyOf[c]] = 1
      BY <1>4 DEF Replays, Answered, CallsOK, DoneIsPerformed
    <3> QED BY <3>1 DEF Verdict
  <2>4. Device!Tell(c) BY <1>1, <1>2, <2>1, <2>2, <2>3 DEF Device!Tell, Done
  <2> QED BY <2>4 DEF Device!Next
<1>5. CASE EndsDone(c)
  <2>1. performed[KeyOf[c]] = 0 BY <1>5, ReadyIsFresh DEF EndsDone, ActuatorInv
  <2>2. Told(c)' = Told(c) BY <1>5 DEF Told, EndsDone, CallsOK, CallRecords
  <2>3. Done' = Done + 1 BY <1>5, <2>1, OneMoreDone DEF EndsDone
  <2>4. Verdict(KeyOf[c]) = "none" /\ Verdict(KeyOf[c])' = "done"
    BY <1>5, <2>1 DEF Verdict, EndsDone, CallsOK
  <2>5. \A k \in Keys : k # KeyOf[c] => Verdict(k)' = Verdict(k)
    BY <1>5 DEF Verdict, EndsDone, CallsOK
  <2>6. Device!Act(KeyOf[c], "done")
    BY <1>1, <2>2, <2>3, <2>4, <2>5 DEF Device!Act, Done
  <2> QED BY <2>6 DEF Device!Next
<1>6. CASE Failed(c)
  <2>1. performed' = performed BY <1>6 DEF Failed
  <2>2. Told(c) = "nothing" /\ Told(c)' = "error"
    BY <1>6 DEF Told, Failed, CallsOK, CallRecords
  <2>3. Verdict(KeyOf[c]) = "none" BY <1>6, FailedIsUndone DEF Verdict
  <2>4. Device!Fail(c) BY <1>1, <1>2, <2>1, <2>2, <2>3 DEF Device!Fail, Done
  <2> QED BY <2>4 DEF Device!Next
<1> QED BY <1>3, <1>4, <1>5, <1>6 DEF CallForms

(* The motor and the window behind DeviceCommandRunner are devices that    *)
(* act once under a key: each command is completed once, a caller is told  *)
(* so only after it was, and none is told of a failure once it was.        *)
THEOREM ActuatorKeepsItsWord ==
  ASSUME ~Overlap, IsFiniteSet(Keys)
  PROVE ActuatorSpec => KeepsItsWord
<1>1. ActuatorInit => Device!Init
  <2> SUFFICES ASSUME ActuatorInit PROVE Device!Init OBVIOUS
  <2>1. \A k \in Keys : Verdict(k) = "none" BY DEF ActuatorInit, Verdict
  <2>2. \A c \in Calls : Told(c) = "nothing" BY DEF ActuatorInit, RunnerInit, Told
  <2>3. \A k \in Keys : performed[k] = 0 BY DEF ActuatorInit
  <2>4. Done = 0
    <3>1. Total(performed, Keys) = 0 BY <2>3, TotalOfNothing
    <3> QED BY <3>1, DoneIsTotal
  <2> QED BY <2>1, <2>2, <2>4 DEF Device!Init, Done
<1>2. ASSUME ActuatorInv, ActuatorInv', [ActuatorNext]_actuatorVars
      PROVE [Device!Next]_(Device!deviceVars)
  <2>1. CASE Quiet
    BY <2>1, NothingDone DEF Quiet, Device!deviceVars, Verdict, Told, Done
  <2>2. CASE \E c \in Calls : CallForms(c) BY <1>2, <2>2, FormsImplement
  <2> QED BY <1>2, <2>1, <2>2, StepForms DEF ActuatorInv
<1> QED BY <1>1, <1>2, ActuatorInvariant, PTL DEF ActuatorSpec, KeepsItsWord, Device!Spec
=============================================================================
