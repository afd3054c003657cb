----------------------------- MODULE EventLoop -----------------------------
(***************************************************************************)
(* The order in which asyncio goes on with the tasks that wait for the     *)
(* handlers of an event (EventBus.publish, event_bus.py) or, started by a  *)
(* press of a button (kiosk_window.py), for their first turn.              *)
(*                                                                         *)
(* publish gathers one task per handler.  No handler of the kiosk waits    *)
(* for anything, except the one that vends (VendAuthorized), so a publish  *)
(* takes the same few rounds of the loop whichever event it is, and the    *)
(* publishers go on in the order in which they published.  A press waits   *)
(* one round: behind the handlers of the events published before it, ahead *)
(* of those of the events published after it.                              *)
(***************************************************************************)
EXTENDS KioskState, SequencesExt

ASSUME TasksAssumption ==
  /\ "loop" \notin Clicks \cup Transactions
  /\ Clicks \cap Transactions = {}

VARIABLE ready  \* the tasks inside a publish and the pending presses, in the
                \* order of their publishing and pressing

Tasks == {"loop"} \cup Clicks \cup Transactions

PublishLabels ==
  {"device_event", "amount_updated", "payment_confirmed", "change_requested",
   "vend_authorized", "product_dispensed",
   "purchase_started", "reserve_created", "refund_requested", "refund_dispensed",
   "purchase_cancelled", "completed", "recovering",
   "elapsed"}

Label(t) ==
  CASE t = "loop" -> loop.label
    [] t \in Clicks -> clicks[t].label
    [] t \in Transactions -> timers[t]

(* In the queue: inside a publish, or pressed.                             *)
Enqueued(t) == Label(t) \in PublishLabels \cup {"pressed"}

(* The handler of vend_authorized starts one round after the publish, and  *)
(* a press is handled one round after it was made: neither need wait for   *)
(* tasks whose handlers have run but that have not gone on yet.            *)
OneRound(t) == Label(t) \in {"vend_authorized", "pressed"}

(* Slip: the loop takes whatever is ready.                                 *)
MayGoOnInAnyOrder(t) == TRUE

MayGoOn(t) ==
  \/ Head(ready) = t
  \/ OneRound(t) /\ Head(SelectSeq(ready, OneRound)) = t

Moves(t) == Label(t)' # Label(t)

(* The queue once task t has gone on: it leaves the queue if it was in it, *)
(* and one that publishes or is pressed joins the end.                     *)
Rescheduled(t) ==
  LET rest == IF Enqueued(t) THEN RemoveFirst(ready, t) ELSE ready
  IN  IF Enqueued(t)' THEN Append(rest, t) ELSE rest

(* Constrains a step: at most one task goes on, and one that leaves the    *)
(* queue takes its turn.                                                   *)
Scheduled ==
  \/ /\ \A t \in Tasks : ~Moves(t)
     /\ ready' = ready
  \/ \E t \in Tasks :
       /\ Moves(t) /\ \A u \in Tasks \ {t} : ~Moves(u)
       /\ Enqueued(t) => MayGoOn(t)
       /\ ready' = Rescheduled(t)
=============================================================================
