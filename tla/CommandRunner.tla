---------------------------- MODULE CommandRunner ----------------------------
(***************************************************************************)
(* devices/command_policy.py: DeviceCommandRunner.run, the policy of       *)
(* attempts, timeouts and remembered answers through which every command   *)
(* of one device passes; and simulators/devices/base.py with               *)
(* simulators/faults.py, the faults a simulated device is told to have.    *)
(*                                                                         *)
(* Several calls may be under way at once.  A call gives way to the others *)
(* when an attempt starts, while its operation sleeps, and when wait_for   *)
(* hands the result of the operation back to the runner.                   *)
(***************************************************************************)
EXTENDS Naturals, Sequences

CONSTANTS
  Calls,          \* the calls made of the device
  Keys, KeyOf,    \* idempotency keys; the key of each call
  MaxAttempts,    \* DeviceCommandPolicy.retry_count + 1
  RetryableFaults, NonRetryableFaults,
  Overlap,        \* may calls with one key be under way at once?
  MaxInjected     \* bound: faults injected
ASSUME MaxAttemptsAssumption == MaxAttempts \in Nat \ {0}
ASSUME KeyOfAssumption == KeyOf \in [Calls -> Keys]
ASSUME OverlapAssumption == Overlap \in BOOLEAN
(* The default of non_retryable_faults and every configuration file.       *)
ASSUME PolicyAssumption ==
  "ambiguous_physical_result" \in NonRetryableFaults /\ "none" \notin RetryableFaults

VARIABLES
  health,    \* _health: the state, and the code of the fault it reports
  plans,     \* FaultInjector._plans
  injected,
  remembered, \* _idempotency_cache
  call,      \* each call's place in run(), its attempt, and what came of the operation
  moved      \* how often the operation of each call drove the hardware

runnerVars == <<health, plans, injected, remembered, call, moved>>

Answers == {"dispensed", "partial", "ambiguous", "unavailable", "insufficient", "done"}
\* "timed_out": wait_for gave up; the others are raised by the operation itself
Failures == {"timed_out", "timeout", "transient", "unreconciled", "adapter_error"}
InjectableFaults ==
  {"command_timeout", "transient_command_failure", "ambiguous_physical_result",
   "payout_unavailable", "partial_payout", "motor_fault"}
FaultCodes == InjectableFaults \cup {"command_retry_exhausted", "device_unavailable", "none"}
UnderWay == {"ready", "asleep", "ended"}

RunnerTypeOK ==
  /\ health \in [state : {"ready", "degraded", "fault"}, code : FaultCodes]
  /\ plans \in [InjectableFaults -> Seq([hits : Nat \ {0}, slow : BOOLEAN])]
  /\ injected \in Nat
  /\ remembered \in [Keys -> Answers \cup {"none"}]
  /\ call \in [Calls -> [at : UnderWay \cup {"new", "returned", "raised"},
                         attempt : 1 .. MaxAttempts,
                         outcome : Answers \cup Failures \cup {"none"}]]
  /\ moved \in [Calls -> Nat]

RunnerInit ==
  /\ health = [state |-> "ready", code |-> "none"]
  /\ plans = [f \in InjectableFaults |-> <<>>]
  /\ injected = 0
  /\ remembered = [k \in Keys |-> "none"]
  /\ call = [c \in Calls |-> [at |-> "new", attempt |-> 1, outcome |-> "none"]]
  /\ moved = [c \in Calls |-> 0]

-----------------------------------------------------------------------------
(* DeviceCommandPolicy.                                                    *)
IsRetryable(code) == code \in RetryableFaults \ NonRetryableFaults

(* The fault that an answer reports.  Too little change is not a fault.    *)
ResultFault(answer) ==
  CASE answer = "ambiguous" -> "ambiguous_physical_result"
    [] answer = "unavailable" -> "payout_unavailable"
    [] OTHER -> "none"

FailureFault(failure) ==
  CASE failure \in {"timed_out", "timeout"} -> "command_timeout"
    [] failure = "transient" -> "transient_command_failure"
    [] failure = "unreconciled" -> "ambiguous_physical_result"
    [] failure = "adapter_error" -> "device_unavailable"

(* Slip: whatever reports a fault is tried again.                          *)
MayRetryAnyFault(outcome) == outcome \in Failures \/ ResultFault(outcome) # "none"

(* An exception of the device says itself whether it may be retried; for   *)
(* answers and for the runner's own timeout the policy decides.  An error  *)
(* that is no DeviceCommandError is final.                                 *)
MayRetry(outcome) ==
  \/ /\ outcome \in {"timeout", "transient"}
     /\ FailureFault(outcome) \notin NonRetryableFaults
  \/ /\ outcome = "timed_out"
     /\ IsRetryable("command_timeout")
  \/ /\ outcome \in Answers
     /\ IsRetryable(ResultFault(outcome))

-----------------------------------------------------------------------------
(* The injector.  A plan sits in the queue of its code until its hits are  *)
(* used up; a slow plan makes the operation sleep before it fails.         *)
Pending(code) == plans[code] # <<>>

(* Slip: a plan whose hits are used up stays in the queue.                 *)
ConsumedUnpopped(code) ==
  [plans EXCEPT ![code] = <<[Head(@) EXCEPT !.hits = @ - 1]>> \o Tail(@)]

Consumed(code) ==
  LET plan == Head(plans[code])
  IN  [plans EXCEPT ![code] =
         IF plan.hits = 1 THEN Tail(@) ELSE <<[plan EXCEPT !.hits = @ - 1]>> \o Tail(@)]

InjectFault(code, plan) ==
  /\ injected < MaxInjected
  /\ injected' = injected + 1
  /\ plans' = [plans EXCEPT ![code] = Append(@, plan)]
  /\ UNCHANGED <<health, remembered, call, moved>>

ClearFaults ==
  /\ plans # [f \in InjectableFaults |-> <<>>] \/ health.code # "none"
  /\ plans' = [f \in InjectableFaults |-> <<>>]
  /\ health' = [state |-> "ready", code |-> "none"]
  /\ UNCHANGED <<injected, remembered, call, moved>>

-----------------------------------------------------------------------------
(* _heartbeat leaves the reported fault standing; _activate_fault replaces it. *)
Heartbeat(state) == health' = [health EXCEPT !.state = state]
ActivateFault(code) == health' = [state |-> "fault", code |-> code]

(* Slip: a remembered answer does not stop the command.                    *)
IssueForgetful(c) ==
  /\ call[c].at = "new"
  /\ Overlap \/ \A d \in Calls : KeyOf[d] = KeyOf[c] => call[d].at \notin UnderWay
  /\ call' = [call EXCEPT ![c].at = "ready"]
  /\ UNCHANGED <<health, plans, injected, remembered, moved>>

(* run() as far as the first attempt: the cache is looked at only here.    *)
Issue(c) ==
  /\ call[c].at = "new"
  /\ Overlap \/ \A d \in Calls : KeyOf[d] = KeyOf[c] => call[d].at \notin UnderWay
  /\ IF remembered[KeyOf[c]] = "none"
     THEN /\ call' = [call EXCEPT ![c].at = "ready"]
          /\ UNCHANGED health
     ELSE /\ call' = [call EXCEPT ![c].at = "returned", ![c].outcome = remembered[KeyOf[c]]]
          /\ Heartbeat("ready")
  /\ UNCHANGED <<plans, injected, remembered, moved>>

End(c, outcome) == call' = [call EXCEPT ![c].at = "ended", ![c].outcome = outcome]

PolicyFailure(code) ==
  CASE code = "command_timeout" -> "timeout"
    [] code = "transient_command_failure" -> "transient"
    [] code = "ambiguous_physical_result" -> "unreconciled"

(* _consume_policy_fault: the first planned fault among the codes ends the *)
(* operation before it moves anything - or, when the result is said to be  *)
(* ambiguous, nobody knows.                                                *)
PolicyFault(c, codes) ==
  \E i \in DOMAIN codes :
    /\ Pending(codes[i])
    /\ \A j \in 1 .. i - 1 : ~Pending(codes[j])
    /\ plans' = Consumed(codes[i])
    /\ IF Head(plans[codes[i]]).slow
       THEN call' = [call EXCEPT ![c].at = "asleep", ![c].outcome = PolicyFailure(codes[i])]
       ELSE End(c, PolicyFailure(codes[i]))
    /\ IF codes[i] = "ambiguous_physical_result"
       THEN moved' \in {moved, [moved EXCEPT ![c] = @ + 1]}
       ELSE UNCHANGED moved
    /\ UNCHANGED <<health, injected, remembered>>

NoPolicyFault(codes) == \A i \in DOMAIN codes : ~Pending(codes[i])

WakesUp(c) ==
  /\ call[c].at = "asleep"
  /\ call' = [call EXCEPT ![c].at = "ended"]
  /\ UNCHANGED <<health, plans, injected, remembered, moved>>

(* wait_for cancels the operation in its sleep.                            *)
TimesOut(c) ==
  /\ call[c].at = "asleep"
  /\ End(c, "timed_out")
  /\ UNCHANGED <<health, plans, injected, remembered, moved>>

-----------------------------------------------------------------------------
(* What the runner does with the outcome of an attempt.                    *)
Retries(c) ==
  /\ call[c].at = "ended"
  /\ MayRetry(call[c].outcome) /\ call[c].attempt < MaxAttempts
  /\ call' = [call EXCEPT ![c].at = "ready", ![c].attempt = @ + 1]
  /\ Heartbeat("degraded")
  /\ UNCHANGED <<plans, injected, remembered, moved>>

(* Slip: the last attempt counts as one that may be retried.               *)
IsFinalOffByOne(c) ==
  /\ call[c].at = "ended"
  /\ ~(MayRetry(call[c].outcome) /\ call[c].attempt <= MaxAttempts)

IsFinal(c) ==
  /\ call[c].at = "ended"
  /\ ~(MayRetry(call[c].outcome) /\ call[c].attempt < MaxAttempts)

(* Slip: only an answer without a fault is remembered.                     *)
ReturnsRememberingSuccess(c) ==
  /\ IsFinal(c) /\ call[c].outcome \in Answers
  /\ IF ResultFault(call[c].outcome) = "none"
     THEN /\ Heartbeat("ready")
          /\ remembered' = [remembered EXCEPT ![KeyOf[c]] = call[c].outcome]
     ELSE /\ ActivateFault(ResultFault(call[c].outcome))
          /\ UNCHANGED remembered
  /\ call' = [call EXCEPT ![c].at = "returned"]
  /\ UNCHANGED <<plans, injected, moved>>

(* Every answer is remembered.  An ambiguous one activates the same fault  *)
(* whether or not the policy asks for a manual review.                     *)
Returns(c) ==
  /\ IsFinal(c) /\ call[c].outcome \in Answers
  /\ IF ResultFault(call[c].outcome) = "none"
     THEN Heartbeat("ready")
     ELSE ActivateFault(ResultFault(call[c].outcome))
  /\ remembered' = [remembered EXCEPT ![KeyOf[c]] = call[c].outcome]
  /\ call' = [call EXCEPT ![c].at = "returned"]
  /\ UNCHANGED <<plans, injected, moved>>

(* A failure is not remembered.  With retries configured every failure of  *)
(* a command is reported as an exhausted retry, also one never retried.    *)
Raises(c) ==
  /\ IsFinal(c) /\ call[c].outcome \in Failures
  /\ ActivateFault(IF MaxAttempts > 1 /\ call[c].outcome # "adapter_error"
                   THEN "command_retry_exhausted" ELSE FailureFault(call[c].outcome))
  /\ call' = [call EXCEPT ![c].at = "raised"]
  /\ UNCHANGED <<plans, injected, remembered, moved>>

RunnerStep(c) ==
  Issue(c) \/ WakesUp(c) \/ TimesOut(c) \/ Retries(c) \/ Returns(c) \/ Raises(c)

Settled(c) == call[c].at \in {"returned", "raised"}
=============================================================================
