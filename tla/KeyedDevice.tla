------------------------------ MODULE KeyedDevice ------------------------------
(***************************************************************************)
(* What a device promises to those who name their commands by a key, as    *)
(* devices/contracts.py and devices/command_policy.py have it: under one   *)
(* key it acts at most once; what it did then is its verdict, and whoever  *)
(* is answered under the key is told that verdict; a call that fails       *)
(* before there is a verdict has had no effect, and leaves the key free.   *)
(*                                                                         *)
(* Nothing of attempts, timeouts, faults or the cache is to be seen here.  *)
(***************************************************************************)
EXTENDS Naturals

CONSTANTS
  Calls, Keys, KeyOf,
  Answers,
  Acts,     \* those of the answers that say that the device acted
  Effect    \* how much it did then: [Keys -> [Acts -> Nat]]

VARIABLES
  verdict,  \* what the device did, or refused to do, under each key
  told,     \* what each caller was told
  given     \* all that the device has given

deviceVars == <<verdict, told, given>>

Init ==
  /\ verdict = [k \in Keys |-> "none"]
  /\ told = [c \in Calls |-> "nothing"]
  /\ given = 0

(* The device acts, before anyone is told.                                 *)
Act(k, v) ==
  /\ verdict[k] = "none"
  /\ verdict' = [verdict EXCEPT ![k] = v]
  /\ given' = given + Effect[k][v]
  /\ UNCHANGED told

(* It refuses; the refusal is final.                                       *)
Refuse(c, v) ==
  /\ verdict[KeyOf[c]] = "none" /\ told[c] = "nothing"
  /\ verdict' = [verdict EXCEPT ![KeyOf[c]] = v]
  /\ told' = [told EXCEPT ![c] = v]
  /\ UNCHANGED given

Tell(c) ==
  /\ verdict[KeyOf[c]] # "none" /\ told[c] = "nothing"
  /\ told' = [told EXCEPT ![c] = verdict[KeyOf[c]]]
  /\ UNCHANGED <<verdict, given>>

Fail(c) ==
  /\ verdict[KeyOf[c]] = "none" /\ told[c] = "nothing"
  /\ told' = [told EXCEPT ![c] = "error"]
  /\ UNCHANGED <<verdict, given>>

Next ==
  \/ \E k \in Keys, v \in Acts : Act(k, v)
  \/ \E c \in Calls, v \in Answers \ Acts : Refuse(c, v)
  \/ \E c \in Calls : Tell(c) \/ Fail(c)

Spec == Init /\ [][Next]_deviceVars
=============================================================================
