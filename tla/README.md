# Formal verification of the flower vending kiosk

This directory holds TLA+ specifications of the kiosk program in
`src/src/flower_vending`, the TLC configurations that model-check them on small
instances, and theorems about them that TLAPS proves for every value of the
constants. `PROJECT.json` indexes it: components, runs, the source lines behind
every definition, findings, hazards and theorems.

## 1. The system

A kiosk sells flowers for cash. One Python process runs one asyncio event loop.
In it live the coordinators of the application, the device drivers (simulated
ones, or the DBV-300-SD bill validator), the Qt screens (through a loop that
turns with asyncio), the journal and the SQLite persistence.

| Component | State it keeps | Operations | Talks to | What is hard | What makes it correct |
|---|---|---|---|---|---|
| State machine (`app/fsm`) | current state, history | `transition`, `can_transition`, `force_state` | every coordinator | several tasks drive it, each at its own pace | an illegal transition changes nothing |
| Machine status (`domain/entities/machine_status.py`, `machine_status_service.py`) | machine state as last projected, service mode, exact change only, sale blockers, permissions | `set_machine_state`, `block_sales`, `unblock_sales`, ... | read by `start_purchase` and `start_cash_session` | a second copy of the machine state | an unsafe machine permits no sale |
| Transaction and payment session (`domain/entities/transaction.py`) | money accepted, change due, a status for payment, payout, dispense, delivery and recovery | the `mark_...`, `confirm_...`, `cancel` methods | written by five coordinators | most methods have no guard: order is the callers' business | a completed sale kept exactly its price and delivered once |
| Transaction coordinator | the transactions, the active one | create, clear, `unresolved_transactions` | all coordinators | the active transaction outlives a failed click | one active transaction |
| Change manager and money inventory (`payments`) | pieces accounted for, pieces reserved, drift flag; physical pieces in the dispenser | `assess_sale`, `reserve`, `finalize_reserve`, `dispense`, `release`, `dispense_refund` | payment coordinator, dispenser | a reserve may be released twice; the dispenser may stop half way | no change is promised twice; a wrong account stops sales |
| Payment coordinator | none of its own | `start_cash_session`, `process_validator_event`, `complete_payment`, `cancel_purchase` | change manager, validator, FSM, bus | every device command is a wait in which anything else runs | a payment is confirmed once, refunded once, never lost |
| Vending controller | slot stock | `start_purchase`, `handle_vend_authorized`, `confirm_pickup`, `cancel_purchase` | motor, window, inventory service | the vend runs inside the publish of an event, in the validator loop | the motor runs once per sale; the window closes |
| Pickup timeout coordinator | deadlines | poll, `force_timeout_now` | window, FSM | races with the pickup click | the window does not stay open |
| Recovery manager, service mode, health monitor | sale blockers | `recover_transaction`, enter and exit, `poll_once` | FSM, status, transactions | act on a sale that may still be going on | no sale while integrity is in doubt |
| Event bus | handlers | `publish` | everybody | `gather` with one task per handler; who goes on first? | publishers go on in order |
| Validator loop (`app/bootstrap.py`) | a task | read an event, process it | payment coordinator | no exception handler: the first error ends it | |
| Kiosk presenter and window (`ui`) | screen, session | clicks, event handlers | command bus | each click is a task of its own; no click waits for another | |
| Device command runner (`devices/command_policy.py`) | idempotency cache | execute with timeout and retry | devices | an answer from the cache; a retry that acts twice | at most one effect per key |
| Journal and persistence (`app/journal.py`, `infrastructure/persistence`) | intents and outcomes under their keys; rows of transactions, money inventory, products, slots | `record_intent`, `record_outcome`, `save`, `delete_all`, the lists a start reads | orchestrators, the persistence projector, the start | each statement commits by itself; a repeated key is ignored; a write may fail | what a restart reads agrees with what the devices did, or is marked doubtful |
| Runtime bootstrap and restart (`runtime/bootstrap.py`) | none but the process | seeding, loading, `start`, `stop`, `_restore_runtime_state`, the projector | everybody | the program may end between any two statements | a restart refuses nothing, forgets nothing, and does not sell while a sale is open |
| DBV-300-SD adapter (`devices/dbv300sd`) | port, event queue, poll task, health, `_acceptance_enabled` | `start`, `stop`, `enable`, `disable`, `read_event`, `_poll_loop` | validator loop, health monitor | poll and commands share a port without a lock; a poll that gives up ends its task | a bill the device holds is fetched; a silent validator is noticed |
| Core runtime (`app/bootstrap.py`, `watchdog`) | loop tasks, armed watchdog, runtime failure | `start_runtime`, `stop_runtime`, three loops | devices, coordinators | a start or a stop that fails half way | no loop runs unwatched, no watchdog waits for loops that are gone |
| Inventory service and catalog (`app/services/inventory_service.py`, `ui/views/screens.py`) | products and slots in memory; tiles, category, selection | `ensure_selection`, `mark_vended`, `bind`, touches | vending controller, presenter | what is shown was true when it was drawn | what is bought is what is shown |
| Command bus, configuration, logging, CLI, scenarios | none that matters here | | | | |

### How a sale runs

A *checkout* click reads the inventory sensor, creates the transaction, walks the
FSM to `WAITING_FOR_PAYMENT`, reserves the worst-case change and enables the
validator. The *validator loop* credits each stacked bill; when the price is
covered it disables the validator, confirms the payment, replaces the worst-case
reserve by the exact change, pays the change and publishes `vend_authorized`;
the handler of that event - still inside the validator loop - runs the motor,
opens the window and leaves the machine waiting for the customer. A *pickup*
click, or the *pickup deadline*, closes the window and ends the sale.

## 2. How the code is modelled

**One action is one segment between two awaits.** The event loop never
interrupts a task between awaits. The place where a task waits is its label
(`loop.label`, `clicks[c].label`, `timers[x]`), and an action does everything
its code does from that wait to the next one: guards, early returns, exception
paths, projections of the status, what the presenter does on an event published
there. A method that raises has a predicate `...Returns`; what the caller's
`except` clauses do is part of the action. An exception that reaches the
validator loop moves it to the label `"dead"`, where it stays.

**Device commands** end, fail or time out. A failed command may still have had
its effect (`validator' \in {validator, ...}`, `PartsOf(plan)`, `MotorRuns \/
UNCHANGED vends`). The number of failures is bounded by `MaxFailures`.

**The order of the event loop** (module `EventLoop`). `EventBus.publish` gathers one
task per handler. No handler waits for anything, except `handle_vend_authorized`,
so every publish takes the same few rounds of the event loop, and tasks that
wait in a publish go on in the order in which they published. `ready` is that
order, and `Scheduled` restricts every step of the kiosk to it. The vend handler
and a pressed button start one round after their publish or press and may overtake tasks
whose handlers have run (`OneRound`, `MayGoOn`). Without this
order the model would have runs in which an event handler of no length takes
arbitrarily long, among them one with a second vend that the program cannot do.

**Presses.** A press of a button becomes a task (`kiosk_window.py:139`), and
`KioskPresenter.confirm_pickup` looks at no screen. The press of the pickup button
(`PickupPress`, made on the pickup screen) and its handling (`PickupClick`) are therefore
two actions. In between the deadline may pass, the window may close, the sale may end, and other
presses may be handled; and the deadline's own publish leaves room for a press, too. Both may
then close the window of one sale and both write its outcome. The other buttons of the kiosk
model are pressed and handled in one action: checkout and cancel check what they find and then wait
for a device at once, a wait of any length that covers the time in the queue; service mode and
recovery can start at any point of a sale as it is, because an error shown over an open sale
(a second tap on *pay*) leads to their buttons. What a queued press
does to the *screens* is the business of `KioskScreens`, where every press waits for its turn.

**Abstractions.** Identities, pieces of change and amounts are small sets; a plan
or a reserve is a function from denominations to counts. Prices and names,
correlation ids, payloads, the FSM history, logging, UI texts and journal records
are left out here. `allow_cash_sales` and `allow_vending` are always assigned together and
are one field. `MoneyInventory.exact_change_only` is never assigned. Validator
events other than a stacked bill and a fault change no state. The idempotency
cache of the command runner matters for the keys that repeat: `answered` keeps
them for the disable command of a transaction (its correlation id is that of the
transaction) and for its refund; the vend, change and open commands never repeat
for a transaction, and cancel and pickup clicks have fresh correlation ids. Time
is abstracted: a pickup deadline may pass whenever the transaction waits.
`plan_change` and the worst-case change are given by what they return (the
greediest exact plan; the largest reachable overpayment), not by their loops.

**The command runner** is modelled apart from the kiosk, for one device and
calls that anybody makes of it. A call's place in `run()` is `call[c].at`: it
gives way to other calls when an attempt starts (`wait_for` makes the operation
a task on the oldest Python the project supports), while the operation sleeps in an
injected delay, and when the outcome returns to the runner. `moved` counts how
often the operation of a call drove the hardware; it is a history of the model,
not a variable of the code. `Overlap` says whether calls with one key may be
under way together: in the kiosk only two cancel clicks of one transaction
(`<transaction>:refund`) do that. A fault plan is the number of its hits and whether it
delays the operation; whether the delay is longer than the timeout is left open, so
a sleeping call may wake up or time out. Fault details, messages and heartbeat times
are left out, and `require_manual_review_on_ambiguous_result` makes no difference to
what is left: with and without it an ambiguous answer activates the fault
and is remembered.

**Crashes** (`DurableKiosk`). A crash may come between any two steps. What a device was
doing then is done wholly, partly or not at all (`CommandsCut`); the disk has what was
written, and of the write under way any part (`DiskAtTheEnd`: every statement
commits by itself); an orderly stop writes everything. `Restart` is the next start,
as far as the machine serves again; a crash during it changes nothing, because it
writes only what the next one would write again. Devices
outlive the program, except that a simulated dispenser is filled from the restored
accounts and a simulated window is closed; both are allowed. The events of
the bus are written by the projector in the order of their publication, and a
task that waits in a publish goes on after the write (`unwritten`, `MayMove`).
A click or a technician comes after the writes of the events that are already
published, since their handlers are ahead in the loop's queue; a device's answer may be
in the queue before them. Writes fail only for events that a task waits for;
a failing write of `vend_authorized` itself is left out.

**Screens** (`KioskScreens`). Each press is a task: a command that waits for a
device is in `waiting`, everything else runs when its turn in `ready` comes, so a
second press, an event or a health poll may have replaced the screen it was
made on. The sale and the machine are reduced to what the presenter reads.
Each initial state carries a *scope*: which buttons may be pressed, how many tasks are ready or
wait, how long the back history may get, how many mishaps happen.

**The validator's poll and the loops** (`ValidatorAdapter`, `Supervision`). Here an
action is a step between two awaits of *one* coroutine: the poll task, the
holder of a command, the start or stop of the runtime, the health
loop or the validator loop. A call to the device may fail once in a behaviour
(`MaxFaults`), whichever call it is. Retries inside a command are one call; the fallback
disable after a fault has no failure of its own. The sale is a counter of what started (`sales`).

**The shop** (`Storefront`). The tables are functions from keys to rows, and the
seeding is the sequence of its statements (`todo`): one action each, with a crash
allowed between any two. The catalog panel is a record of tiles, category and
selection; tasks of the event loop are a queue as on the other screens, here with the
offer they were made for. `back` may lead to any screen that has a history, a
superset of what navigation allows; a notice may take the place of any screen.

## 3. Modules

| Module | Models | State and actions |
|---|---|---|
| `MachineFSM` | `app/fsm` | the transition table read backwards (`Predecessors`), `CanTransition`, `TransitionReturns` |
| `MachineStatus` | machine status and its service | records and the operations on them |
| `ChangeManager` | money inventory, planning and assessment | `Available`, `Reserve`, `Release`, `Consume`, `ChangePlans`, `SaleSupported` |
| `SaleTransaction` | transaction, payment session | one operator per method |
| `KioskState` | the state tasks share | all variables but one, the types, `Init`, shared effects |
| `EventLoop` | `event_bus.py`, the tasks of presses and asyncio | `ready`, `OneRound`, `MayGoOn`, `Scheduled` |
| `PaymentCoordinator` | `payment_coordinator.py`, awaits of `change_manager.py`, validator, validator loop | bills, the loop from a bill to the change, cash session and cancel clicks |
| `VendingController` | `vending_controller.py`, slot, motor, window | checkout clicks, the vend, pickup presses and their handling |
| `PickupTimeout` | `pickup_timeout_coordinator.py` | `DeadlinePasses`, `CloseOnTimeout`, ... |
| `OperatorDesk` | service mode, recovery manager, health conditions, ways out of a notice | `EnterServiceMode`, `RecoverClick`, `HealthPoll`, ... |
| `VendingMachine` | the kiosk in memory | composes the above: `Next`, fairness, properties |
| `Journal` | `app/journal.py`, the SQLite journal, what a start makes of it | `RecordIntent`, `RecordOutcome`, `UnresolvedIntents`, `Remembered` |
| `DurableKiosk` | the kiosk with its disk: projector, database errors, crash, restart | EXTENDS `VendingMachine` and `Journal`; `DurableStep` is a step of the kiosk with what it writes; `Projected`, `WriteFails`, `Restart` |
| `KioskScreens` | `kiosk_presenter.py`, `navigation.py`, `session.py`, the main window's tasks | `nav`, `shown`, `ready`, `waiting`; one action per press and per event handler |
| `Storefront` | catalog tables and seeding, `inventory_service.py`, catalog and product screens | `SaveProduct` ... `DeleteProducts`, `Open`, `End`; `Touch`, `Press`, `ShowProductDetails`, ... |
| `ValidatorAdapter` | `devices/dbv300sd/adapter.py` | the port, the poll task, commands, events, health |
| `Supervision` | `app/bootstrap.py`, `watchdog`, `health_monitor.py`, the runtime's start and stop | EXTENDS `ValidatorAdapter`; the loops around it |
| `CommandRunner` | `devices/command_policy.py`, `DeviceCommandPolicy`, `simulators/devices/base.py`, `simulators/faults.py` | cache, calls, health and fault plans of one device; `Issue`, `PolicyFault`, `TimesOut`, `Retries`, `Returns`, `Raises`, ... |
| `SimulatedDispenser` | `mock_change_dispenser.py` over the runner | `stock`; one action per way `_dispense_once` ends |
| `SimulatedActuator` | `mock_motor_controller.py`, `mock_window_controller.py` over the runner | `performed`; `FailsFirst`, `Breaks`, `Performs` |
| `KeyedDevice` | (abstract) what a device promises under an idempotency key | `verdict`, `told`, `given`; `Act`, `Refuse`, `Tell`, `Fail` |
| `MC...` | | constants, symmetry and scopes for TLC |
| `KioskProofs` | | theorems about `VendingMachine`: status, types, the motor; money, stages of a sale, books, exact sales |
| `DurableProofs` | | theorems about `DurableKiosk`: restored sales, the motor, the payments, the books and the commands in the journal across restarts |
| `DispenserProofs`, `ActuatorProofs`, `SupervisionProofs`, `StorefrontProofs`, `ScreensProofs` | | theorems about the other components |
| `SumProofs` | | lemmas on sums over finite sets and sequences |

The component modules of the kiosk EXTEND `KioskState` because they are handlers over shared
objects, not processes with channels; `VendingMachine` conjoins their steps with
the scheduling of `EventLoop`, and `DurableKiosk` conjoins its steps with what they
write. Operators under a comment that begins with `Slip`
are plausible mistakes in the operation that follows them. Nothing uses them; each
is substituted for that operation, to see that a property notices.

`Operations` says which parts of the environment a run includes. `"late bill"`
stands for customers who go on inserting bills after the price is covered, in the
time the validator takes to be switched off; without it customers watch the
screen.


## 4. What TLC checks

In the kiosk the price is 3, bills are worth 2 and 3, the dispenser has two pieces of 1 and
one of 2. These are the smallest numbers with every kind of payment: exact (3),
overpaid by one or two (2+2, 2+3), with one or two pieces of change, and with a
dispenser that cannot serve a third sale. Two transactions are enough for a sale
that meets the remains of an earlier one, since only one can be active; two click
tasks for any overlap of a click with another one. Deadlock is not checked: nobody
owes the kiosk a bill or a click.

| Run | Environment | Shows |
|---|---|---|
| `Sales` | two clicks at a time, two sales until the change runs out, deadlines, fair scheduling | `CompletedExactly`: a completed sale handed over one product and kept exactly the price. `IdleWindowClosed`: pickup presses and the deadline, one after another or both closing at once, never leave an idle machine with an open window. `PressKeepsItsSale`: a press is handled while its sale is the session or nobody has one. `PaymentSettles`: a confirmed payment whose flower is not picked up yet ends in a pickup, a timed-out pickup or a state an operator is called to (a second press may mark a sale that has ended as closing once more, see below). `WindowCloses` |
| `DeviceFailures` | late bills, one failure of any device | `GivesAtMostWhatItTook`, `ReservesAreHeld`, `MismatchStopsSales`, `DeliveredIsFinal` |
| `WholeMachine` | every operation, one click at a time, one failure | `TypeOK`, `UnsafeStateBlocksSales`, `ReservedIsCovered` |
| `OverlappingClicks` | two clicks at a time of every kind, late bills, a health condition | `AtMostOneVend` |
| `Restart` | a crash or stop at any moment, one database error, two sales, service mode, recovery | `RestoredSaleBlocksSales`: an open sale of an earlier life blocks new ones, until one that came back with it is cancelled. `BooksBalance`: the pieces the books miss are the pieces that were paid, or the machine does not sell. `NothingLeavesUnrecorded`: no product leaves before the payment is on the disk. `InterruptedCommandsAreReviewed`: a sale whose motor, payout or window command the end of the program cut short is restored as ambiguous, and sales stop. `WaitingSaleTimesOut` |
| `Payouts` | three payouts under two keys, one after another, two fault plans of up to two hits, one retry, a policy that also retries an unavailable payout, two pieces in stock | `DrivenOncePerCall`, `DrivenOncePerKey`, `RaisedCallPaysNothing`, `UnknownPayoutIsFinal`, `StockMatchesAnswers`, `DispenserTypeOK`; `EveryCallSettles` under weak fairness of each call; `KeepsItsWord`: the dispenser implements `KeyedDevice` |
| `Motions` | three commands under two keys, one after another, two fault plans, one retry | `PerformedOncePerKey`, `DoneWasPerformed`; `KeepsItsWord`: motor and window implement `KeyedDevice` |
| `Supervision` | start, arm, loops, stop; one call that fails or one poll that gives up; one bill; one sale; the door | `PortBelongsToAdapter`: an open port has a poll task or somebody who handles it. `LoopsAreWatched`: the watchdog is armed only for loops that run. `SilentValidatorIsNoticed`, `BillIsReported`, `OpenDoorBlocksSales` |
| `Screens` | five scopes: a technician or a customer who presses twice, every button with one mishap, a customer with two, an operator who recovers the sale of a customer without change | `ServiceScreenNeedsServiceMode`, `BlockersReachTheScreen`, `DispensingScreenEnds` |
| `Catalog` | three lives of the program, two of which may end while the catalog is seeded; a legacy catalog and two configurations; two waiting tasks | `SeedingSurvivesCrashes`: no start of any life refuses the rows an earlier one left. `SelectionIsShown`: the buttons of the panel act on the tile that is shown as selected. `OffersAreInStock` |

In the device runs two keys tell "the same command" from "another one", and two fault
plans of two hits exhaust a policy of one retry and leave a fault for the next
call. Requests are for two pieces and for one, because a partial payout of one piece
is an error of its own.

Each property of the kiosk holds in the environment of its run, and the choice of the
environments says something about the code. A sale that is *cancelled* while its payment is being
confirmed, or that is *recovered* or visited by *service mode* while a click still
works on it, breaks most of the others: with cancel clicks, for one, a refund may be
paid for a sale that is also delivered, and reserves are released twice.
`AtMostOneVend`, the type invariant and the status gate survive everything the
model has, on a machine that may owe change; section 5 says for which environments each
property is proved.

### An abstract specification

`KeyedDevice` is what the orchestrators rely on when they give a command a key:
under one key the device acts at most once and settles on one verdict
(`Act`, `Refuse`), every answer told under that key is that verdict (`Tell`), and a
call that fails without a verdict (`Fail`) has acted on nothing. `SimulatedDispenser` and
`SimulatedActuator`, each over `CommandRunner`, implement it under these mappings:

* the verdict of a key is what the runner remembers, or, between the payout and the return,
  the outcome of the attempt that paid;
* for motor and window it is whether the motion was performed. They *raise* an
  ambiguous motion instead of returning it, and an exception is not remembered: such
  a motion may have moved something, and the promise covers it only as "not performed".

Both need calls of one key one after another (`~Overlap`). `DeviceCommandRunner.run`
looks into its memory once, before the first attempt: of two overlapping refunds
with one key one may end ambiguous and the other still pay. In the kiosk only two cancel
clicks of one transaction do that.

### What a restart finds

`Restart` has no device failures and no cancel clicks, and one crash; each of these
bounds stands for something the code does not survive:

* A device failure that is retried repeats the journal key of its command, and the
  second record is ignored (`RetryIsNotJournalled`). A crash during the second command
  is therefore not reviewed. A second life may repeat a key of the first in the
  same way.
* A cancelled sale whose refund is paid when the program ends, before the row is written,
  is restored as if nothing had been refunded.
* A failure to disable the validator marks the transaction ambiguous in memory only;
  a restart forgets the mark. A crash during the close of a timed-out pickup leaves
  the transaction ambiguous and the window open.
* No operation of the program resolves a transaction in manual review. One with an open
  intent that is not for review blocks again at every start. A `cancel_safe` recovery
  keeps both the reserve and the cash.
* The row of the machine status is written and never read. Health events are left
  out of the writes: their rows are not read either.
* The order of the restored transactions decides which one is active; the model
  leaves it open.

### What the screens show

`SALES_BLOCKED` never goes away by itself. A health event takes the service screen
from a technician at each poll while the condition stands
(`phase-08-ui.md:128` keeps the service screen available). `show_home` during a sale drops the
session, a second tap on *pay* shows an error over an open sale, a
blocker takes the place of the pickup screen, and entering service mode during a vend
ends the validator loop without a word - which is why `DispensingScreenEnds` speaks of a machine
that is still in the sale (`Selling`). The back history grows without bound: in the model
nothing begins that may lengthen it beyond the room of its scope, and two conditions
that show their screens in turn do so until it has `Alternations` (8) entries more. A simulated bill that is refused raises where nobody looks. The critical
temperature is one condition with the door.

### What the watchdog sees

One life of the process. The poll task and the commands share the port without a lock.
A poll that gives up puts the health to `FAULT`, publishes `validator_fault` only when a
transaction is active, and ends; a sale that starts before the next health poll
enables the acceptance again, and its bills are never fetched. `SilentValidatorIsNoticed`
therefore speaks of both cases: without a sale the health loop blocks sales; with one,
the fault is either noticed or met by a sale that had started. Acceptance commands use the correlation
id as key, so a repeated one is answered from memory. `_acceptance_enabled` is never
read. The protocols for real hardware raise at once, so that a production start fails, and a start of the
environment that fails half way leaves the devices started. A `stop`
that raises leaves `_started` true. The watchdog does not notice the death of the
validator loop. A second start in one process would find `arm` and `disarm` in the
cache; nobody does it. A failure of the fallback disable costs no fault of the bound.

### What the shop offers

A start that ends after the first product is saved leaves a catalog that the next one
takes for complete (`runtime/bootstrap.py:739`). Slots refill in memory at each start:
the quantity of a slot is seeded and never written again (`vending_controller.py:201`;
`phase-07-persistence-config.md:94` and `project-documentation.md:252` list inventory
among what is persisted). `session.select` also names the product on the dispensing and
pickup screens, so that *pay* for A, *back* and *buy* B shows the name of B while A is
vended. The details of a slot that has just sold out raise where nobody looks, and the
old screen stays. A press that waits in the queue pays for the product it was drawn for,
even when the panel shows another by then. The bounds: three lives (a crash of a crash's
successor), two waiting tasks, a legacy catalog and a catalog in which two slots share a product.

### Disagreements between documents and code

Each of these runs checks one promise of the documents, and TLC finds a
counterexample that is a run of the program; `PROJECT.json` quotes the sentences.

| Run | Promise | What happens |
|---|---|---|
| `CancelAfterPayment` | stacked cash is refunded before a purchase counts as cancelled | the payment is confirmed while the cancel click waits for the disable command; it is cancelled without refund and without product |
| `RetryIsNotJournalled` | critical hardware steps are journalled before they run (ADR-0002) | the window fails to close, the customer clicks again, the second close has the same journal key: `INSERT OR IGNORE` keeps the old intent, and its outcome |

More of them, without a run of their own:

* Two overlapping cancel clicks each ask for the refund (`payment_coordinator.py:269`;
  `project-documentation.md:129` has cash never paid back twice). The theorem `CallsDriveOnce`
  says how far the runner helps: each call pays at most once.
* A bill that meets a cancelled session is credited to nobody, and its exception ends
  the validator loop (`payment_coordinator.py:123`; `phase-03-domain-fsm.md:1184`).
* A bill stacked before the validator is off is credited after the sale and confirms
  it again, with another change due (`payment_coordinator.py:142`; `phase-03-domain-fsm.md:883`).
* A failed close, then a pickup click that succeeds: the machine sells, the transaction is
  unresolved (`vending_controller.py:117`; `phase-03-domain-fsm.md:1265`).
* A second `confirm_pickup` finds the machine in `CLOSING_DELIVERY_WINDOW`, where the
  transition to the same state is a no-op, and sends a second close
  (`phase-03-domain-fsm.md:1063` promises one sequence).
* A second press that waits in the queue while the first click completes the sale marks the
  completed record as closing its window before the transition is refused
  (`vending_controller.py:106`). Nothing completes the record again; when the press comes before
  the handlers of `transaction_completed` it is saved so, and a restart brings the delivered sale back.
* A click may complete the sale while the deadline's close of the same window still runs, and the
  next sale may begin. A crash then brings both back, and the recovery of one lifts the
  blocker of both (`recovery_manager.py:137`; `phase-03-domain-fsm.md:258` has an unresolved
  recovery keep the machine out of sale mode). `RestoredSaleBlocksSales` says what is left of it.

### Fairness

`Fairness` is weak fairness of the steps of the validator loop, of each click in
progress and of each pickup deadline, each under the scheduling. The code
justifies it: the event loop runs every task that is ready; a device command ends
or its timeout does (`command_policy.py`); the deadline poll runs in a loop of its
own until the runtime stops. The whole loop (or click) has one condition rather
than one per action because a task has one program counter, and how it goes on
(success or failure) is not its choice. Nothing obliges a customer to insert a bill
or to click, or an operator to act. The liveness properties of `Sales` hold without late
bills and cancels; with them the validator loop may die with a paid sale in hand,
and nothing starts it again.

* `DurableFairness` is the same for the kiosk with its disk, and the projector's write ends.
* `FairDispenserSpec` is weak fairness of each call that is under way; nobody is
  obliged to make a call.
* `Supervision`: weak fairness of the runtime's start and stop, the health loop,
  the validator loop, the holder of an adapter command, the poll task, and the end of each
  command. Faults, bills, sales and doors are nobody's duty.
* `Screens`: weak fairness of the task that is first in the event loop; strong fairness of
  the two halves of the health poll and of the end of a vend, because each needs
  room among the ready tasks, which the bound of the scope takes away and gives
  back and the program always has. Presses, bills and mishaps are free.

## 5. What TLAPS proves

The theorems about the kiosk assume `ChangeAssumption` (finite sets of positive denominations and
bills, a positive price) and `KioskAssumption` (`NoTx` is no transaction, the
dispenser starts with pieces, the bounds are numbers); TLC evaluates both on every
run, as it does `TasksAssumption` (clicks, transactions and the loop are different tasks).
They hold for any sets of transactions and clicks, any dispenser and any
bounds; which operations they include is said of each.

The kiosk in memory, in `KioskProofs`:

* `UnsafeStatesBlockSales`: `Spec => []UnsafeStateBlocksSales`.
  The property is not inductive: a step that changes a blocker recomputes the
  permission from the machine state that the *status* remembers. `StatusFollows`
  adds that this memory is the state of the FSM - except at `COMPLETED`, which
  `confirm_pickup` enters without telling the status - and that the permission is the one
  the projection would compute. Every action is shown to be one of four ways to
  treat the pair (`MachineStep`): keep it, project a state, refresh the permission,
  or complete unprojected; the invariant is then checked against four cases
  instead of fifty.
* `TypeAlwaysOK`: `Spec => []TypeOK`. Types here are number ranges that
  matter: reserved pieces, pieces in the dispenser, pieces paid out and stock are never
  negative, and so is no change due. The invariant is strengthened by "a
  task that is in the middle of a purchase has a transaction", because its steps
  read that transaction's record. Lemmas say what the operators on counts,
  inventories and transaction records preserve; there is one step per action.
* `MotorRunsOnce`: `Spec => []AtMostOneVend`, with every operation: late bills,
  cancels, recoveries, service mode, failures. What would break it is a bill that
  reaches the loop after its sale was vended: it is credited, the payment is confirmed
  again, and the motor would run if the machine were accepting cash for the next
  customer by then. It is not, because of the order of the event loop's queue, and `VendInv` is
  about that order: whoever publishes is in `ready` once (`QueueOK`); a late bill is in
  front of the click that is opening the next session (`LateBills`), and of two
  clicks that open sessions the one with the active transaction comes last
  (`OpeningClicks`); a vended transaction has had its disable command answered
  (`VendedOnce`), so that the step after it does not wait. `Forms` are the
  ten things a step can do to all this. The hypothesis is `WorstCaseChange > 0`:
  some payment calls for change. Every configuration in the repository has
  such prices (249000 with bills of 50000 and more). Where none does,
  `start_cash_session` skips the publish of the reserve (`payment_coordinator.py:47`), the next
  session may open before the late bill is read, and TLC finds two motor
  runs.

Its money, in the second half of `KioskProofs`. None of these includes *cancel*, since two cancel clicks refund
the same bills twice (section 4); all need `WorstCaseChange > 0` as above.

* `NobodyGetsMore` (`GivesAtMostWhatItTook`), `ReservesAlwaysHeld`
  (`ReservesAreHeld`), `ReservesAlwaysCovered` (`ReservedIsCovered`), with late bills,
  recoveries, service mode and failures. `MoneyInv` says how far a
  payout has got: pieces were paid only for a transaction that was vended or is about to
  be, or the loop is dead; a confirmed payment covers price and change, holds a reserve
  of exactly that value while the change is under way, and paid at most that when the
  motor is reached; a click that opens a session works on a transaction that holds
  nothing. The reserves are a sum over the transactions: a step changes one
  summand (`ReservesAdd`).
* `IdleWindowAlwaysClosed` and `DeliveredStaysFinal`, without *service*: exiting service mode
  forces `IDLE` from any state (`service_mode_coordinator.py:51`), also with an open
  window. `StageInv`: one sale at a time is between payment and window, and the state
  machine tells which stage it has reached, or has stopped (`OneSale`); what was served was vended; an
  open window means a state that awaits the pickup, or a stopped one; and a click that is
  publishing the completion of its sale leaves the kiosk before anybody gets a
  session (`CompletingFirst`, again from the order of the queue). Of a press that waits the invariant
  knows only that its sale exists (`SessionsKnown`). That is enough: a press that is not refused
  meets a machine that awaits a pickup, where every sale that exists was vended, and
  takes it to the same stage as another press or the deadline (`PicksUp`), so that
  pickups and a deadline that close one window together are steps between the same
  stages, whichever comes last.
* `MismatchAlwaysStops` (`MismatchStopsSales`), without *service*: books and dispenser differ only after a
  payout that failed, which left the machine in a state that nothing but a
  completing click leaves - and `MismatchStops` says that there is none.
* `CompletedSalesAreExact` (`CompletedExactly`), without *service* and *late bill*.
  `QueueFits` is about the bills on their way, in the validator's queue and in the
  loop's hand: all but the last of them do not cover the price, so that nothing is
  left when the price is reached. Then what was accepted is the price and the change
  (`KeepsPrice`), and a completed record is one whose window closed
  behind a product (`CompletedAreClosed`).

`VendInv`, `MoneyInv`, `StageInv`, `MismatchStops` and `ExactInv` were checked with TLC as
invariants on the instances of section 4 before they were proved.

The kiosk with its disk, in `DurableProofs`, for any number of crashes and database errors and,
but for the books, with any device failures. `BooksOK` extends the types to the saved rows and the saved
inventory; a crash that cuts several payouts at once needs the sums of `SumProofs`.

* `RestoredSalesBlockSales` (`RestoredSaleBlocksSales`) and `RestoredMachinesStandStill`, with every
  operation but *recover*. `Frozen` is the invariant: after a restart that brought something
  back the blocker is set, nobody has a sale in his hands, the validator takes no bills, and
  each restored sale is unsettled both in memory and on disk, so that the next restart
  brings it back. The only thing that can still happen to such a sale is that its
  window is closed; service mode comes and goes without touching the blocker.
  With *recover* all recoveries share one blocker: where two open sales came back together, which
  takes a close that outlives its sale or two checkouts that overlap a recovery, the recovery of one
  unblocks sales while the other is open. The property says so (`\E y \in restored`); without
  *recover* that part of it is never needed. The run `Restart` has *recover* and one click.
* `MotorRunsOnceAcrossRestarts`: `AtMostOneVend` for all lives of the program together, with
  every operation but *recover*, and `WorstCaseChange > 0` as above. `VendInv`
  holds of one life, and begins afresh when a start brings nothing back
  (`LifeHolds`); when it does bring something back, the machine is frozen. What links two lives is
  the disk: a transaction whose motor has run has a row (`VendedSaved`), so no new
  transaction gets its identity. The loop is vending only with the row written or the
  write still to come (`VendAwaitsRow`), and in the second case it may not move and a crash cannot
  have sent the command.
* `VendedSalesAreRecorded` (`NothingLeavesUnrecorded`), with every operation but *cancel*. The same
  argument needs more when the row has to say that the sale was *paid*, because later
  writes replace it by what is then in memory. `PaidInv` says who may still take a payment
  back: a recovery whose click was let in while the sale was unpaid. `RecoveryInTime` follows it to
  its end: it published before the loop confirmed the payment, so in the queue it is in front
  of the loop, and has cancelled the payment before the loop plans the change; and
  the loop does not vend for a payment that is not confirmed.
* `BooksAlwaysBalance` (`BooksBalance`), with `MaxFailures = 0` and every operation but *cancel*
  and *recover*; writes fail, and payouts are cut at any piece. In memory the payout is booked with
  the answer; on disk the books are behind from the payout to the next write. A
  crash in between is harmless only if the start finds the sale that was paid
  for unsettled, and `BooksInv` says why it does: the sale has a row (`ChangeOnDisk`: the loop pays only
  when the write of its request is through), its motor has not run (`Behind`), and without the
  motor nothing was handed over, in memory or in any row (`HandingInv`, `RowsHanded`), while every
  final state of a row comes after the handing over. `HandingInv` follows the sale
  through loop, clicks, timers and screen, because each of them may settle one. With failures,
  two clicks and *service* the property fails, as TLC shows: a payout command that raises
  tells neither books nor row, and leaving service mode makes the machine sell again.
* `LoopCommandsAlwaysJournalled` and `InterruptedLoopCommandsAlwaysReviewed`: what
  `InterruptedCommandsAreReviewed` says, for the commands of the loop, with any number of
  crashes and failures and every operation but *recover*. The journal keeps the first record
  of a key, so that a command is reviewed only if its key is new. `JournalInv` says why it is: the loop
  works on a sale once and never goes back to a command it has an answer for
  (`AnsweredBehind`), and in another life the identity is not used again, because a sale is on
  disk before its payment session opens and the journal knows only keys of sales on
  disk (`SalesOnDisk`, `KeysOnDisk`). `IntentsMade` adds that the intent of the command under way
  has been made.

The other components:

* `DispenserProofs`, for any number of calls, keys, attempts and injected faults. The
  assumptions: the policy lists `ambiguous_physical_result` as not retryable (the
  default and every configuration file) and every request is for at least one piece.
  `StepForms` reduces each step to one of seven things that can happen to a call.
  The invariant `CommandInv` says that a call that has driven the hardware has
  ended with an answer that is never retried, or has returned it, and that a returned
  answer is remembered: retries come only before a motion. From it follow
  `CallsDriveOnce` (`DrivenOncePerCall`) and `RaisingPaysNothing`. Where calls with one
  key do not overlap (`~Overlap`), `OneUnderWay` adds that a call under way is the
  only one with its key and has no answer yet, which gives `KeysDriveOnce`
  (`DrivenOncePerKey`) and `UnknownPayoutStays`; both fail without that
  hypothesis. `DispenserTypeAlwaysOK` bounds attempts and stock
  and keeps fault plans well formed.
  From the same invariants: `KeysAnswerOnce` (two callers of a key are told the same; `KeepsItsWord`
  includes it, so no run checks it apart), because a
  returned answer is the remembered one (`ReturnedIsRemembered`);
  `DispenserKeepsItsWord`, the refinement: initial states map to initial states, and
  each step of the dispenser is a step of `KeyedDevice` or changes nothing it
  speaks of; and `StockAlwaysMatches` (`StockMatchesAnswers`): what `KeyedDevice` has given is the sum
  of what left under each key (`AddsUp`), a sum of which a step changes one summand.
* `ActuatorProofs`, the same for motor and window: `CommandsPerformOnce`
  (`PerformedOncePerKey`) and `DoneIsTrue` (`DoneWasPerformed`), both with `~Overlap`.
  The invariant says that what was performed is remembered or is about to be, by the
  one call under way with that key (`PerformedIsKnown`), so that a call with an attempt
  before it finds nothing performed; and `done` is not a fault that any policy retries.
  `ActuatorKeepsItsWord` is the refinement, where what was given is again a sum
  over the keys.
* `SumProofs`. The sums of the models are recursive functions on the subsets of a finite set.
  That such a function exists and adds what it should is proved without an
  induction rule: if it failed for some set, it would for a smallest one, and there is
  one because cardinalities are natural numbers.
* `SupervisionProofs`, for any configuration of the adapter and any number of failing calls:
  `PortAlwaysOwned` and `LoopsAlwaysWatched`. Neither property is inductive. `HolderOK` has a
  claim on port, poll task and `_started` for each place where the holder of the lock may
  wait: what a failed start or stop leaves behind depends on how far it came, and
  `_started` with a closed port, which a `stop` that raises leaves, is one of the
  states. `PhaseOK` says that the loops run in two phases of the runtime only, in which
  nobody takes the lock.
* `StorefrontProofs`, for any configurations, legacy catalog and numbers of lives and
  waiting tasks; `StorefrontAssumption` says that slots are numbers, that a configuration
  sells something, and what its items are. `ShopInv` is inductive: types, `SelectionIsShown` and
  `OffersAreInStock` together (an offer is drawn from what is in stock, and when a vend
  takes a piece the event that redraws the screen is on its way). The smallest slot of a product exists
  because the natural numbers are well-founded. `SeedingAlwaysSurvives` rests on
  `SeedInv`: in what is left of the seeding a slot comes after its product, a product is deleted only
  when no slot refers to it, only configured items are saved (`TodoOK`); and there
  are products of the legacy catalog only until the statement that deletes them (`LegacyOK`).
* `ScreensProofs`, for any queue, history and number of presses and mishaps:
  `CustomersStayOut` (`ServiceScreenNeedsServiceMode`). Not inductive, because `back` goes to
  screens of long ago and an entry may still wait for its turn when the mode has been left
  again. `WayHome` says that in the queue every step that leads to the service
  screen is followed by one that leads home, and that what leads home is still awaited
  while the service screen is shown or in the history.

Only model-checked: everything about liveness (not in the prover's reach); of
`InterruptedCommandsAreReviewed` of `Restart` the part about the window commands of clicks
and timers (for the motor, payout and window commands of the loop it is proved), which
needs one customer's click at a time: two overlapping pickup clicks share one key; and `RestoredSaleBlocksSales` and
`BooksBalance` with recoveries; `ReservedIsCovered` with cancel clicks, which
`WholeMachine` has. That `ChangePlans` and `WorstCaseChange` are what the
loops of `plan_change` compute is neither proved nor checked.

## 6. What is not modelled

* Retries inside the kiosk model: the default retry count is 0, and the
  kiosk sees an answer, an error or a timeout; `CommandRunner` says what is behind
  them. A `physical_state_mismatch` reconciliation, which no device reports; `home`
  and `stop_motion` of the motor, which nobody calls.
* The bytes and the transport of the DBV-300-SD protocol: the repository defers
  them, and `ValidatorAdapter` models them as calls that answer or fail. The escrow commands
  are sent by nobody.
* Tables that are written and not read back: events, faults, settings, machine
  status; and the reports over them. A failing write of `vend_authorized`.
* More than one product in a purchase: the UI checks out one product.
* Command bus, configuration, logging, CLI: no state of their own. Scenarios and the
  harness drive tests.

## 7. Plan

Done: the sale core, the command runner, journal and restart, the screens, the validator
adapter with the loops around it, the catalog; an abstract specification of a keyed
command and its refinement. Left, most important first:

1. `SaleSpec`: what a sale promises (take, confirm, deliver or refund, settle) as
   an abstract specification, and `VendingMachine` without cancels shown to
   implement it.
2. `ChangeAlgorithm` (TLC only, recursive): the backtracking of `plan_change` and the
   work list of the worst case against `ChangePlans` and `WorstCaseChange`.
