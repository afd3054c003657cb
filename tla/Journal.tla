------------------------------- MODULE Journal -------------------------------
(***************************************************************************)
(* The durable journal of the commands sent to devices (app/journal.py,    *)
(* infrastructure/persistence/journal.py), as operators on a record: an    *)
(* intent is written before a command is sent and an outcome when it has   *)
(* been answered, whatever the answer.  Both carry the transaction and the *)
(* logical step as their key, and a key is written once: the intent of a   *)
(* command that is sent again is ignored.                                  *)
(***************************************************************************)
EXTENDS SaleTransaction, Sequences, SequencesExt

(* The commands the orchestrators journal, named for their logical step.   *)
ManualReviewSteps ==
  {"change", "refund", "vend", "open", "pickup_close", "timeout_close"}
Steps == ManualReviewSteps \cup {"enable", "disable", "cancel_disable"}

EmptyJournal == [intents |-> <<>>, outcomes |-> {}]

RecordIntent(j, entry) ==
  IF Contains(j.intents, entry) THEN j ELSE [j EXCEPT !.intents = Append(@, entry)]
RecordOutcome(j, entry) == [j EXCEPT !.outcomes = @ \cup {entry}]

(* Where in the journal the intents without an outcome are.                *)
UnresolvedIntents(j) == {i \in DOMAIN j.intents : j.intents[i] \notin j.outcomes}

(* Slip: an unresolved motion is taken for an unresolved switch.           *)
MarkUnresolvedLightly(x, step) == [x EXCEPT !.recovery_status = "pending"]

(* RecoveryManager._mark_unresolved_intent.                                *)
MarkUnresolved(x, step) ==
  IF step \in ManualReviewSteps
  THEN MarkAmbiguous(x)
  ELSE [x EXCEPT !.recovery_status = "pending"]

(* A row read back and marked by its own unresolved intents, oldest first: *)
(* what remains of the marks is the last one that asks for a review and    *)
(* the last one of all.                                                    *)
Remembered(x, row, j) ==
  LET own == {i \in UnresolvedIntents(j) : j.intents[i].tx = x}
      grave == {i \in own : j.intents[i].step \in ManualReviewSteps}
      MarkedLast(record, marks) ==
        IF marks = {} THEN record ELSE MarkUnresolved(record, j.intents[Max(marks)].step)
  IN  MarkedLast(MarkedLast(row, grave), own)
=============================================================================
