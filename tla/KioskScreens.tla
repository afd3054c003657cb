---------------------------- MODULE KioskScreens ----------------------------
(***************************************************************************)
(* The kiosk's screens: KioskPresenter with its navigation and session,    *)
(* the buttons of the window, and as much of the application as the        *)
(* screens react to (a sale's events, service mode, recovery and the       *)
(* health monitor's polls).                                                *)
(*                                                                         *)
(* What the asyncio loop has to do for the screens stands in one queue, in *)
(* the order in which it became ready: the task of a pressed button, the   *)
(* presenter's handler of a published event, the rest of a click that      *)
(* waited for its event.  A button may therefore be handled when another   *)
(* screen is shown.  Clicks that wait for a device are in `waiting`.       *)
(***************************************************************************)
EXTENDS Naturals, Sequences, SequencesExt, FiniteSets

CONSTANT
  Scopes      \* what a behaviour may contain: a set of records with the fields
              \*   buttons  the buttons that are pressed
              \*   ready    what may wait for its turn when something new comes
              \*   waiting  the clicks of one kind that wait for a device
              \*   history  the screens that back can return to
              \*   mishaps  the failures, opened doors, elapsed deadlines, unsafe
              \*            sales and recoveries

ASSUME ScopesAssumption ==
  \A s \in Scopes :
    s.ready \in Nat /\ s.waiting \in Nat /\ s.history \in Nat /\ s.mishaps \in Nat

CustomerScreens ==
  {"home", "catalog", "product_details", "payment", "exact_change", "no_change",
   "dispensing", "pickup"}
StaffScreens == {"service", "diagnostics"}
NoticeScreens == {"error", "sales_blocked", "restricted"}
Screens == CustomerScreens \cup StaffScreens \cup NoticeScreens

(* The buttons a presenter gives its screens; of the simulator's actions    *)
(* the service screen offers, three stand for all.                         *)
StatusButtons(screen) ==
  CASE screen \in {"exact_change", "no_change"} -> {"show_catalog", "open_service"}
    [] screen = "sales_blocked" -> {"open_service"}
    [] screen \in {"error", "restricted"} -> {"show_home", "open_service"}
    [] screen = "pickup" -> {"confirm_pickup"}
    [] OTHER -> {}
CatalogButtons(screen) ==
  CASE screen \in {"home", "catalog"} -> {"show_product_details", "open_service"}
    [] screen = "product_details" -> {"back", "start_cash_checkout"}
    [] OTHER -> {}
PaymentButtons(screen) ==
  IF screen = "payment" THEN {"cancel_purchase", "insert_bill"} ELSE {}
ServiceButtons(screen) ==
  CASE screen = "service" ->
         {"show_diagnostics", "exit_service", "inject_fault", "clear_simulator_faults"}
    [] screen = "diagnostics" -> {"back", "recover_transaction"}
    [] OTHER -> {}
Buttons(screen) ==
  StatusButtons(screen) \cup CatalogButtons(screen) \cup PaymentButtons(screen)
    \cup ServiceButtons(screen)
AllButtons == UNION {Buttons(s) : s \in Screens}

DeviceClicks == {"start_cash_checkout", "cancel_purchase", "confirm_pickup"}

(* The phase of the one transaction the screens are about.  "stalled": it  *)
(* waits for nothing any more and nobody has paid; "doubt": an operator's. *)
Sales == {"none", "starting", "paying", "vending", "waiting", "closing", "stalled",
          "doubt"}
(* "SALE" stands for all states of a sale.                                 *)
MachineStates == {"IDLE", "SALE", "FAULT", "RECOVERY_PENDING", "SERVICE_MODE"}

VARIABLES
  scope,      \* the bounds of this behaviour: one of Scopes
  nav,        \* NavigationState: the current screen and the history
  session,    \* KioskSessionState has an active transaction
  shown,      \* the screen the window shows
  ready,      \* what the event loop will run next
  waiting,    \* how many clicks wait for a device
  sale,       \* the transaction's phase
  machine,    \* MachineStatus
  faulted,    \* a device reports FAULT
  doorOpen,   \* the service door is open
  mishaps     \* how many there have been

view == <<nav, session, shown>>
application == <<waiting, sale, machine, faulted, doorOpen, mishaps>>
screenVars == <<view, ready, application>>

Init ==
  /\ scope \in Scopes
  /\ nav = [current |-> "home", history |-> <<>>] /\ session = FALSE /\ shown = "home"
  /\ ready = <<>> /\ waiting = [c \in DeviceClicks |-> 0] /\ sale = "none"
  /\ machine = [machine_state |-> "IDLE", service_mode |-> FALSE,
                exact_change_only |-> FALSE, sale_blockers |-> {}]
  /\ faulted = FALSE /\ doorOpen = FALSE /\ mishaps = 0

Mishap == mishaps < scope.mishaps /\ mishaps' = mishaps + 1

(* ----------------------- Navigation and rendering ---------------------- *)

GoTo(screen) ==
  IF nav.current = screen THEN nav
  ELSE [current |-> screen, history |-> Append(nav.history, nav.current)]

(* Slip: leaving service mode goes home like any other step.               *)
HomeKeepingHistory == GoTo("home")

Home == [current |-> "home", history |-> <<>>]
Back ==
  IF nav.history = <<>> THEN nav
  ELSE [current |-> Last(nav.history), history |-> Front(nav.history)]

(* The screen _build_current_render makes of the current one.              *)
Rendered(current) ==
  LET forCustomers == current \notin StaffScreens \cup {"error", "restricted"}
      recovering == \/ machine.machine_state = "RECOVERY_PENDING"
                    \/ "recovery_pending" \in machine.sale_blockers
  IN  IF forCustomers /\ recovering THEN "restricted"
      ELSE IF forCustomers /\ machine.sale_blockers # {} THEN "sales_blocked"
      ELSE IF current = "home" /\ machine.exact_change_only THEN "exact_change"
      ELSE IF current = "payment" /\ sale = "none" THEN "error"
      ELSE current

Show(n) ==
  /\ nav' = n /\ shown' = Rendered(n.current)

(* The loop runs what is at the head of the queue; `next` becomes ready.   *)
Turn(item, next) ==
  /\ ready # <<>> /\ Head(ready) = item
  /\ ready' = Tail(ready) \o next

Publish(events) == ready' = ready \o events
Free == Len(ready) < scope.ready

(* Bounds on the history, which the code lets grow: nothing is begun that  *)
(* may lengthen it any more; and two conditions that show their screens in *)
(* turn do so until it has Alternations more.                              *)
Alternations == 8
Room == Len(nav.history) <= scope.history
Awaited(event) == Contains(ready, event)

Stopped(state, reasons) ==
  [machine EXCEPT !.machine_state = state, !.sale_blockers = @ \cup reasons]

(* ------------------------------- Presses ------------------------------- *)

Press ==
  /\ Free /\ Room
  /\ \E button \in Buttons(shown) \cap scope.buttons :
       /\ button \in DeviceClicks =>
            waiting[button] + Cardinality({i \in DOMAIN ready : ready[i] = button})
              < scope.waiting
       /\ button = "recover_transaction" =>
            sale \notin {"none", "starting"} /\ mishaps < scope.mishaps
       /\ Publish(<<button>>)
  /\ UNCHANGED <<view, application>>

ShowHome ==
  /\ Turn("show_home", <<>>)
  /\ session' = FALSE /\ Show(Home)
  /\ UNCHANGED application

(* The clicks that only lead to a screen.                                  *)
Walk ==
  /\ \/ Turn("show_catalog", <<>>) /\ Show(GoTo("catalog"))
     \/ Turn("show_product_details", <<>>) /\ Show(GoTo("product_details"))
     \/ Turn("show_diagnostics", <<>>) /\ Show(GoTo("diagnostics"))
     \/ Turn("back", <<>>) /\ Show(Back)
  /\ UNCHANGED <<session, application>>

(* A simulated bill, which a validator that does not accept refuses        *)
(* without a word, and an injected fault, which only strikes when the      *)
(* device is used: the screen is shown anew.                               *)
Simulate ==
  /\ \/ Turn("insert_bill", <<"simulator_bill_inserted">>)
     \/ Turn("insert_bill", <<>>)
     \/ Turn("inject_fault", <<"simulator_action_applied">>)
  /\ UNCHANGED <<view, application>>

(* A click whose command waits for a device.  Cancelling without a         *)
(* transaction shows the catalog, confirming without one shows home.       *)
Command(click) ==
  /\ click \in DeviceClicks
  /\ IF click = "start_cash_checkout" \/ session
     THEN /\ Turn(click, <<>>)
          /\ waiting' = [waiting EXCEPT ![click] = @ + 1]
          /\ UNCHANGED <<nav, session, shown>>
     ELSE /\ Turn(click, <<>>)
          /\ IF click = "cancel_purchase" THEN Show(GoTo("catalog")) ELSE Show(Home)
          /\ session' = FALSE
          /\ UNCHANGED waiting
  /\ UNCHANGED <<sale, machine, faulted, doorOpen, mishaps>>

EnterServiceMode ==
  /\ Turn("open_service", <<"service_mode_entered">>)
  /\ machine' = [machine EXCEPT !.machine_state = "SERVICE_MODE", !.service_mode = TRUE]
  /\ UNCHANGED <<view, waiting, sale, faulted, doorOpen, mishaps>>

ExitServiceMode ==
  /\ Turn("exit_service", <<"service_mode_exited">>)
  /\ machine' = [machine EXCEPT !.machine_state = "IDLE", !.service_mode = FALSE]
  /\ UNCHANGED <<view, waiting, sale, faulted, doorOpen, mishaps>>

(* The plan is assessed before the event; an unpaid sale is cancelled      *)
(* after it.  A settled one stops the machine all the same.                *)
RecoverTransaction ==
  /\ Turn("recover_transaction",
          IF sale \in {"paying", "stalled"}
          THEN <<"recovery_started_safely">> ELSE <<"recovery_started">>)
  /\ machine' = Stopped("RECOVERY_PENDING", {"recovery_pending"})
  /\ Mishap
  /\ UNCHANGED <<view, waiting, sale, faulted, doorOpen>>
RecoverAsCancelled ==
  /\ Turn("cancel_safe", <<"recovery_completed">>)
  /\ sale' = "none"
  /\ machine' = [machine EXCEPT !.machine_state = "IDLE",
                                !.sale_blockers = @ \ {"recovery_pending"}]
  /\ UNCHANGED <<view, waiting, faulted, doorOpen, mishaps>>

(* The devices are asked for their health, and the screen is shown anew.   *)
ClearSimulatorFaults ==
  /\ Turn("clear_simulator_faults", <<"simulator_action_applied">>)
  /\ faulted' = FALSE
  /\ UNCHANGED <<view, waiting, sale, machine, doorOpen, mishaps>>

(* -------------------------------- Events ------------------------------- *)

LoopEvents ==
  {"cash_amount_updated", "payment_confirmed", "product_dispensed",
   "delivery_window_opened"}
OtherEvents ==
  {"transaction_completed", "transaction_cancelled", "service_mode_entered",
   "service_mode_exited", "machine_faulted", "service_door_opened",
   "recovery_started", "recovery_started_safely", "recovery_completed",
   "manual_review_required", "pickup_timeout_elapsed", "refund_failed",
   "simulator_action_applied", "simulator_bill_inserted"}

(* Where the presenter goes on an event; the others show the screen anew.  *)
Destination(event) ==
  CASE event = "cash_amount_updated" -> GoTo("payment")
    [] event \in {"payment_confirmed", "product_dispensed"} -> GoTo("dispensing")
    [] event = "delivery_window_opened" -> GoTo("pickup")
    [] event \in {"transaction_completed", "transaction_cancelled"} -> Home
    [] event = "machine_faulted" -> GoTo("error")
    [] event = "service_door_opened" -> GoTo("sales_blocked")
    [] event \in {"recovery_started", "recovery_started_safely",
                  "manual_review_required", "pickup_timeout_elapsed"} -> GoTo("restricted")
    [] OTHER -> nav

(* What the click that waited for its event does next.                     *)
Continuation(event) ==
  CASE event \in {"transaction_completed", "transaction_cancelled",
                  "service_mode_exited"} -> <<"show_home">>
    [] event = "service_mode_entered" -> <<"go_to_service">>
    [] event \in {"recovery_started", "recovery_completed"} -> <<"go_to_restricted">>
    [] event = "recovery_started_safely" -> <<"cancel_safe">>
    [] event = "refund_failed" -> <<"go_to_error">>
    [] OTHER -> <<>>

HandleDomainEvent(event) ==
  /\ Turn(event, Continuation(event))
  /\ Show(Destination(event))
  /\ session' = (session /\ event \notin {"transaction_completed", "transaction_cancelled"})
  /\ UNCHANGED application

(* The screens that end a click.                                           *)
Return ==
  /\ \/ Turn("go_to_payment", <<>>) /\ Show(GoTo("payment")) /\ session' = TRUE
     \/ Turn("go_to_no_change", <<>>) /\ Show(GoTo("no_change")) /\ UNCHANGED session
     \/ Turn("go_to_error", <<>>) /\ Show(GoTo("error")) /\ UNCHANGED session
     \/ Turn("go_to_service", <<>>) /\ Show(GoTo("service")) /\ UNCHANGED session
     \/ Turn("go_to_restricted", <<>>) /\ Show(GoTo("restricted")) /\ UNCHANGED session
  /\ UNCHANGED application

(* ------------------------------- The sale ------------------------------ *)

Selling == machine.machine_state = "SALE"
MayStart == sale = "none" /\ machine.machine_state = "IDLE" /\ machine.sale_blockers = {}
Answered(click) ==
  /\ Free /\ waiting[click] > 0
  /\ waiting' = [waiting EXCEPT ![click] = @ - 1]

(* One checkout starts the transaction and goes on to switch the validator *)
(* on; the others are refused.                                             *)
PurchaseStarts ==
  /\ waiting["start_cash_checkout"] > 0 /\ MayStart
  /\ sale' = "starting"
  /\ machine' = [machine EXCEPT !.machine_state = "SALE"]
  /\ UNCHANGED <<view, ready, waiting, faulted, doorOpen, mishaps>>
CheckoutRefused ==
  /\ ~MayStart
  /\ sale = "starting" => waiting["start_cash_checkout"] > 1
  /\ Answered("start_cash_checkout") /\ Publish(<<"go_to_error">>)
  /\ UNCHANGED <<view, sale, machine, faulted, doorOpen, mishaps>>
CheckoutEnds ==
  /\ sale = "starting" /\ Answered("start_cash_checkout")
  /\ \/ /\ sale' = "paying" /\ Publish(<<"go_to_payment">>)
        /\ machine' = [machine EXCEPT !.exact_change_only = FALSE]
        /\ UNCHANGED <<faulted, mishaps>>
     \/ /\ sale' = "stalled" /\ Publish(<<"go_to_no_change">>) /\ Mishap
        /\ machine' = [machine EXCEPT !.exact_change_only = TRUE]
        /\ UNCHANGED faulted
     \/ /\ sale' = "doubt" /\ Publish(<<"go_to_error">>) /\ Mishap
        /\ machine' = Stopped("FAULT", {"validator_fault"})
        /\ faulted' = TRUE
  /\ UNCHANGED <<view, doorOpen>>

(* The switch or the refund may fail; a transaction that has gone on, or   *)
(* whose machine has been taken away from it, refuses.                     *)
CancelEnds ==
  /\ Answered("cancel_purchase")
  /\ \/ /\ sale = "paying" /\ Selling
        /\ sale' = "none" /\ machine' = [machine EXCEPT !.machine_state = "IDLE"]
        /\ Publish(<<"transaction_cancelled">>) /\ UNCHANGED <<faulted, mishaps>>
     \/ /\ sale = "paying" /\ Mishap
        /\ sale' = "doubt" /\ faulted' = TRUE
        /\ machine' = Stopped("RECOVERY_PENDING", {})
        /\ ready' \in {ready, Append(ready, "refund_failed")}
     \/ /\ ~(sale = "paying" /\ Selling)
        /\ sale' = IF sale = "paying" THEN "none" ELSE sale
        /\ Publish(<<"go_to_error">>) /\ UNCHANGED <<machine, faulted, mishaps>>
  /\ UNCHANGED <<view, doorOpen>>
PickupEnds ==
  /\ Answered("confirm_pickup")
  /\ \/ /\ sale = "waiting" /\ Selling
        /\ sale' = "none" /\ machine' = [machine EXCEPT !.machine_state = "IDLE"]
        /\ Publish(<<"transaction_completed">>) /\ UNCHANGED <<faulted, mishaps>>
     \/ /\ sale = "waiting" /\ Selling /\ Mishap
        /\ sale' = "doubt" /\ faulted' = TRUE /\ UNCHANGED <<machine, ready>>
     \/ /\ ~(sale = "waiting" /\ Selling)
        /\ sale' = IF sale = "waiting" THEN "doubt" ELSE sale
        /\ Publish(<<"go_to_error">>) /\ UNCHANGED <<machine, faulted, mishaps>>
  /\ UNCHANGED <<view, doorOpen>>

(* The validator loop awaits each event it publishes.                      *)
LoopIsFree == Free /\ \A e \in LoopEvents : ~Awaited(e)

BillStacked ==
  /\ LoopIsFree /\ Room /\ sale = "paying"
  /\ Publish(<<"cash_amount_updated">>)
  /\ UNCHANGED <<view, application>>
PaymentConfirmed ==
  /\ LoopIsFree /\ sale = "paying"
  /\ IF Selling THEN sale' = "vending" /\ Publish(<<"payment_confirmed">>)
     ELSE sale' = "doubt" /\ UNCHANGED ready
  /\ UNCHANGED <<view, waiting, machine, faulted, doorOpen, mishaps>>
(* Also the change dispensed, and the requests for both.                   *)
ProductDispensed ==
  /\ LoopIsFree /\ Room /\ sale = "vending"
  /\ Publish(<<"product_dispensed">>)
  /\ UNCHANGED <<view, application>>

(* The window opens; or a device fails and leaves its FAULT behind; or the *)
(* machine has left the sale and refuses its next transition.  Only the    *)
(* first publishes an event.                                               *)
DispensingEnds ==
  /\ LoopIsFree /\ sale = "vending"
  /\ \/ /\ Selling /\ sale' = "waiting"
        /\ Publish(<<"delivery_window_opened">>) /\ UNCHANGED <<machine, faulted, mishaps>>
     \/ /\ Selling /\ Mishap /\ sale' = "doubt" /\ faulted' = TRUE
        /\ \E s \in {"FAULT", "RECOVERY_PENDING"} : machine' = Stopped(s, {})
        /\ UNCHANGED ready
     \/ ~Selling /\ sale' = "doubt" /\ UNCHANGED <<machine, faulted, mishaps, ready>>
  /\ UNCHANGED <<view, waiting, doorOpen>>

(* A fault of the validator itself.                                        *)
ValidatorFails ==
  /\ LoopIsFree /\ sale = "paying" /\ Mishap
  /\ sale' = "doubt" /\ faulted' = TRUE
  /\ machine' = IF Selling THEN Stopped("FAULT", {"validator_fault"})
                ELSE [machine EXCEPT !.sale_blockers = @ \cup {"validator_fault"}]
  /\ UNCHANGED <<view, ready, waiting, doorOpen>>

PickupTimeoutElapsed ==
  /\ Free /\ sale = "waiting" /\ Mishap
  /\ sale' = "closing" /\ Publish(<<"pickup_timeout_elapsed">>)
  /\ UNCHANGED <<view, waiting, machine, faulted, doorOpen>>
TimeoutCloses ==
  /\ Free /\ sale = "closing" /\ ~Awaited("pickup_timeout_elapsed")
  /\ sale' = "doubt"
  /\ \/ /\ machine' = Stopped("RECOVERY_PENDING", {"recovery_pending"})
        /\ Publish(<<"manual_review_required">>) /\ UNCHANGED <<faulted, mishaps>>
     \/ /\ machine' = Stopped("FAULT", {"delivery_window_fault"})
        /\ faulted' = TRUE /\ Publish(<<"machine_faulted">>) /\ Mishap
  /\ UNCHANGED <<view, waiting, doorOpen>>

(* ------------------------------ Supervision ---------------------------- *)

DoorMoves ==
  /\ doorOpen' = ~doorOpen
  /\ IF doorOpen THEN UNCHANGED mishaps ELSE Mishap
  /\ UNCHANGED <<view, ready, waiting, sale, machine, faulted>>

(* Slip: a condition blocks sales but is not announced.                    *)
PollQuietly(bad, reason, event) ==
  /\ Free /\ ~Awaited(event) /\ Len(nav.history) < scope.history + Alternations
  /\ machine' = [machine EXCEPT !.sale_blockers =
                   IF bad THEN @ \cup {reason} ELSE @ \ {reason}]
  /\ UNCHANGED <<view, ready, waiting, sale, faulted, doorOpen, mishaps>>

(* A part of poll_once: a condition that is bad blocks sales and is        *)
(* announced; one that is good only takes its blocker away.  The next poll *)
(* comes when the event has been handled.                                  *)
Poll(bad, reason, event) ==
  /\ Free /\ ~Awaited(event) /\ Len(nav.history) < scope.history + Alternations
  /\ IF bad
     THEN /\ machine' = [machine EXCEPT !.sale_blockers = @ \cup {reason}]
          /\ Publish(<<event>>)
     ELSE /\ machine' = [machine EXCEPT !.sale_blockers = @ \ {reason}]
          /\ UNCHANGED ready
  /\ UNCHANGED <<view, waiting, sale, faulted, doorOpen, mishaps>>
PollFaults == Poll(faulted, "device_fault", "machine_faulted")
PollDoor == Poll(doorOpen, "service_door_open", "service_door_opened")

(* ------------------------------------------------------------------------*)

Run ==
  \/ ShowHome \/ Walk \/ Return \/ Simulate
  \/ \E click \in DeviceClicks : Command(click)
  \/ EnterServiceMode \/ ExitServiceMode
  \/ RecoverTransaction \/ RecoverAsCancelled \/ ClearSimulatorFaults
  \/ \E event \in LoopEvents \cup OtherEvents : HandleDomainEvent(event)

SaleStep ==
  \/ PurchaseStarts \/ CheckoutRefused \/ CheckoutEnds \/ CancelEnds \/ PickupEnds
  \/ BillStacked \/ PaymentConfirmed \/ ProductDispensed \/ DispensingEnds
  \/ ValidatorFails \/ PickupTimeoutElapsed \/ TimeoutCloses

Next ==
  /\ Press \/ Run \/ SaleStep \/ DoorMoves \/ PollFaults \/ PollDoor
  /\ UNCHANGED scope

Spec == Init /\ [][Next]_<<scope, screenVars>>

(* The event loop runs what is ready, the health loop polls and the motor  *)
(* ends; nobody owes a press, a bill or a deadline.                        *)
Fairness ==
  /\ WF_screenVars(Run)
  /\ SF_screenVars(PollFaults) /\ SF_screenVars(PollDoor)
  /\ SF_screenVars(DispensingEnds)
FairSpec == Spec /\ Fairness

(* ------------------------------ Properties ----------------------------- *)

TypeOK ==
  /\ nav \in [current : Screens, history : Seq(Screens)]
  /\ session \in BOOLEAN /\ shown \in Screens /\ sale \in Sales
  /\ waiting \in [DeviceClicks -> Nat]

(* Nobody but a technician sees the service screen: whatever is pressed    *)
(* twice, and whichever event comes between, back never leads to it once   *)
(* service mode has been left.                                             *)
ServiceScreenNeedsServiceMode ==
  shown = "service" =>
    machine.service_mode \/ Awaited("service_mode_exited") \/ Awaited("show_home")

(* A condition that stops sales comes to the customer's screen.            *)
BlockersReachTheScreen ==
  machine.sale_blockers # {} /\ shown \in CustomerScreens
    ~> machine.sale_blockers = {} \/ shown \notin CustomerScreens

(* The dispensing screen has no button: while the machine is in the sale,  *)
(* something takes it away.                                                *)
DispensingScreenEnds ==
  shown = "dispensing" /\ sale = "vending" /\ Selling ~> shown # "dispensing"
=============================================================================
