---------------------------- MODULE Supervision ----------------------------
(***************************************************************************)
(* The life of the process around the sales: the runtime starts the        *)
(* devices, polls their health, arms the watchdog and spawns its loops,    *)
(* and stops them in the opposite order (runtime/bootstrap.py,             *)
(* app/bootstrap.py).  The validator loop takes the adapter's events, the  *)
(* health loop keeps the sale blockers up to date and kicks the watchdog.  *)
(*                                                                         *)
(* Of a sale only whether one is open matters here: VendingMachine has the *)
(* rest.  A publish fails when a handler it waits for fails.               *)
(***************************************************************************)
EXTENDS ValidatorAdapter

CONSTANT MaxSales  \* bound on the sales that start

ASSUME SupervisionAssumption == MaxSales \in Nat

VARIABLES
  runtime,   \* how far the process has started or stopped
  bills,     \* what the validator loop waits for, and what it knew before
  checks,    \* what the health loop waits for
  blockers,  \* sale_blockers of the machine status
  sale,      \* a transaction is active
  sales,     \* how many have been
  door,      \* the service door is open
  armed      \* the watchdog is armed

runtimeVars == <<runtime, armed>>
watchedVars == <<blockers, door>>
saleVars == <<sale, sales>>
vars == <<adapterVars, runtime, bills, checks, blockers, sale, sales, door, armed>>

None == [label |-> "none"]
Reading == [label |-> "reading"]
Publishing(event) == [label |-> "publishing", event |-> event, sale |-> sale]

Alive(loop) == loop \notin {"none", "dead"}
BillsAlive == Alive(bills.label)
ChecksAlive == runtime \in {"running", "stopping"} /\ Alive(checks)

Init ==
  /\ AdapterInit
  /\ runtime = "off" /\ bills = None /\ checks = "none" /\ blockers = {}
  /\ sale = FALSE /\ sales = 0 /\ door \in BOOLEAN /\ armed = FALSE

(* ------------------------------- starting ------------------------------ *)

StartDevices ==
  /\ runtime = "off"
  /\ Start /\ runtime' = "starting_devices"
  /\ UNCHANGED <<bills, checks, watchedVars, saleVars, armed>>

(* The other devices start when the validator has; one that fails leaves   *)
(* the validator started.                                                  *)
DevicesStarted ==
  /\ runtime = "starting_devices" /\ lock = "free"
  /\ \/ started /\ runtime' = "starting" /\ checks' = "polling" /\ UNCHANGED faults
     \/ started /\ runtime' = "failed" /\ Fault /\ UNCHANGED checks
     \/ ~started /\ runtime' = "failed" /\ UNCHANGED <<checks, faults>>
  /\ UNCHANGED <<holderVars, pollVars, switching, answered, bills, watchedVars, saleVars,
                 armed>>

(* ---------------------------- the health loop -------------------------- *)

(* Slip: a poll that reported a fault is over.                             *)
CheckDoorOnlyIfHealthy(blocked) ==
  LET opened == door /\ checks = "polling"
  IN  /\ blockers' = IF opened THEN blocked \cup {"service_door_open"}
                     ELSE IF checks = "polling" THEN blocked \ {"service_door_open"}
                     ELSE blocked
      /\ checks' = IF opened THEN "door" ELSE "polled"

CheckDoor(blocked) ==
  /\ blockers' = IF door THEN blocked \cup {"service_door_open"}
                 ELSE blocked \ {"service_door_open"}
  /\ checks' = IF door THEN "door" ELSE "polled"

(* poll_once up to its first event.                                        *)
CheckDevices ==
  /\ checks = "polling"
  /\ IF health = "FAULT"
     THEN blockers' = blockers \cup {"device_fault"} /\ checks' = "fault"
     ELSE CheckDoor(blockers \ {"device_fault"})
  /\ UNCHANGED <<adapterVars, runtimeVars, bills, saleVars, door>>

FaultPublished ==
  /\ checks = "fault"
  /\ CheckDoor(blockers)
  /\ UNCHANGED <<adapterVars, runtimeVars, bills, saleVars, door>>

DoorPublished ==
  /\ checks = "door"
  /\ checks' = "polled"
  /\ UNCHANGED <<adapterVars, runtimeVars, bills, watchedVars, saleVars>>

(* Nobody but the harness looks at what ended a loop.                      *)
CheckFails ==
  /\ checks \in {"fault", "door", "polled"} /\ Fault
  /\ checks' = "dead"
  /\ runtime' = IF runtime = "starting" THEN "failed" ELSE runtime
  /\ UNCHANGED <<holderVars, pollVars, switching, answered, armed, bills, watchedVars,
                 saleVars>>

Arm ==
  /\ checks = "polled" /\ runtime = "starting"
  /\ armed' = TRUE /\ runtime' = "running"
  /\ bills' = Reading /\ checks' = "waiting"
  /\ UNCHANGED <<adapterVars, watchedVars, saleVars>>

Kick ==
  /\ checks = "polled" /\ runtime # "starting"
  /\ checks' = "waiting"
  /\ UNCHANGED <<adapterVars, runtimeVars, bills, watchedVars, saleVars>>

PollHealth ==
  /\ checks = "waiting" /\ runtime = "running"
  /\ checks' = "polling"
  /\ UNCHANGED <<adapterVars, runtimeVars, bills, watchedVars, saleVars>>

(* --------------------------- the validator loop ------------------------ *)

ReadEvent ==
  /\ bills = Reading /\ events # <<>> /\ runtime = "running"
  /\ events' = Tail(events) /\ bills' = Publishing(Head(events))
  /\ UNCHANGED <<holderVars, poll, health, switching, answered, device, faults,
                 runtimeVars, checks, watchedVars, saleVars>>

(* process_validator_event after its first event.  A fault during a sale   *)
(* always ends the loop; what a bill does then is up to the sale, and may. *)
EventProcessed ==
  /\ bills.label = "publishing"
  /\ \/ /\ ~(bills.sale /\ bills.event = "validator_fault")
        /\ bills' = Reading /\ UNCHANGED <<blockers, faults>>
     \/ /\ bills.sale /\ bills.event = "validator_fault"
        /\ blockers' = blockers \cup {"validator_fault"}
        /\ bills' = [label |-> "dead"] /\ UNCHANGED faults
     \/ Fault /\ bills' = [label |-> "dead"] /\ UNCHANGED blockers
  /\ UNCHANGED <<holderVars, pollVars, switching, answered, runtimeVars, checks, door,
                 saleVars>>

(* ------------------------------- stopping ------------------------------ *)

StopRuntime ==
  /\ runtime = "running"
  /\ runtime' = "stopping"
  /\ UNCHANGED <<adapterVars, bills, checks, watchedVars, saleVars, armed>>

(* A cancelled loop ends where it waits, which is any of its labels but    *)
(* the two that stand between two statements.                              *)
BillsEnd ==
  /\ runtime = "stopping" /\ BillsAlive
  /\ bills' = None
  /\ UNCHANGED <<adapterVars, runtimeVars, checks, watchedVars, saleVars>>
ChecksEnd ==
  /\ runtime = "stopping" /\ checks \in {"waiting", "fault", "door", "polled"}
  /\ checks' = "none"
  /\ UNCHANGED <<adapterVars, runtimeVars, bills, watchedVars, saleVars>>

(* Slip: nobody waits for the cancelled loops.                             *)
DisarmAtOnce ==
  /\ runtime = "stopping"
  /\ runtime' = "disarmed"
  /\ \/ armed' = FALSE /\ UNCHANGED faults
     \/ UNCHANGED armed /\ Fault
  /\ UNCHANGED <<holderVars, pollVars, switching, answered, bills, checks, watchedVars,
                 saleVars>>

(* A watchdog that cannot be disarmed does not stop the others.            *)
Disarm ==
  /\ runtime = "stopping" /\ ~BillsAlive /\ ~Alive(checks)
  /\ runtime' = "disarmed"
  /\ \/ armed' = FALSE /\ UNCHANGED faults
     \/ UNCHANGED armed /\ Fault
  /\ UNCHANGED <<holderVars, pollVars, switching, answered, bills, checks, watchedVars,
                 saleVars>>

StopDevices ==
  /\ runtime = "disarmed"
  /\ Stop /\ runtime' = "stopping_devices"
  /\ UNCHANGED <<bills, checks, watchedVars, saleVars, armed>>

DevicesStopped ==
  /\ runtime = "stopping_devices" /\ lock = "free"
  /\ runtime' = "over"
  /\ UNCHANGED <<adapterVars, bills, checks, watchedVars, saleVars, armed>>

(* ------------------------------ environment ---------------------------- *)

SaleStarts ==
  /\ runtime = "running" /\ ~sale /\ blockers = {} /\ sales < MaxSales
  /\ sale' = TRUE /\ sales' = sales + 1 /\ answered' = {}
  /\ UNCHANGED <<holderVars, pollVars, switching, faults, runtimeVars, device, bills,
                 checks, watchedVars>>
SaleEnds ==
  /\ sale /\ switching = {}
  /\ sale' = FALSE
  /\ UNCHANGED <<adapterVars, runtimeVars, bills, checks, watchedVars, sales>>
DoorMoves ==
  /\ door' = ~door
  /\ UNCHANGED <<adapterVars, runtimeVars, bills, checks, blockers, saleVars>>

(* ------------------------------------------------------------------------*)

RuntimeStep ==
  \/ DevicesStarted \/ Arm \/ BillsEnd \/ ChecksEnd \/ Disarm \/ StopDevices
  \/ DevicesStopped
ChecksStep ==
  CheckDevices \/ FaultPublished \/ DoorPublished \/ CheckFails \/ Kick \/ PollHealth
BillsStep == ReadEvent \/ EventProcessed
Surroundings == <<runtimeVars, bills, checks, watchedVars, saleVars>>

Next ==
  \/ StartDevices \/ RuntimeStep \/ ChecksStep \/ BillsStep \/ StopRuntime
  \/ SaleStarts \/ SaleEnds \/ DoorMoves
  \/ /\ HolderGoesOn \/ PollTask \/ BillStacked
     /\ UNCHANGED Surroundings
  \/ \E on \in BOOLEAN :
       /\ (sale /\ Switch(on)) \/ Switched(on) \/ SwitchFails(on)
       /\ UNCHANGED Surroundings

(* The event loop runs every task that can go on; calls to the device end, *)
(* with an answer or a timeout.  Nobody owes the kiosk a sale or a stop.   *)
Fairness ==
  /\ WF_vars(RuntimeStep) /\ WF_vars(ChecksStep) /\ WF_vars(BillsStep)
  /\ WF_vars(HolderGoesOn /\ UNCHANGED Surroundings)
  /\ WF_vars(PollTask /\ UNCHANGED Surroundings)
  /\ \A on \in BOOLEAN :
       WF_vars((Switched(on) \/ SwitchFails(on)) /\ UNCHANGED Surroundings)

Spec == Init /\ [][Next]_vars
FairSpec == Spec /\ Fairness

(* ------------------------------ properties ----------------------------- *)

(* The validator's port belongs to a started adapter: a poll is under way  *)
(* only on an open port, and an adapter that is not started and that       *)
(* nobody is starting or stopping has let go of port and poll task,        *)
(* whichever call failed (start and stop, adapter.py).                     *)
PortBelongsToAdapter ==
  /\ poll \in Polling => port = "open"
  /\ lock = "free" /\ ~started => port = "closed" /\ poll = "none"

(* The loops of the runtime live between the start of the devices and      *)
(* their stop, under an armed watchdog (start_runtime, stop_runtime).      *)
LoopsAreWatched ==
  BillsAlive \/ ChecksAlive => started /\ armed /\ lock = "free"

(* A poll task that gave the validator up is noticed though its event finds *)
(* no sale to fail: sales become blocked, unless one starts first (its     *)
(* commands mark the device as ready again), the health loop is dead, or   *)
(* the kiosk stops (_poll_loop, adapter.py; poll_once, health_monitor.py). *)
SilentValidatorIsNoticed ==
  poll = "ended" /\ sales = 0 ~>
    \/ blockers \cap {"device_fault", "validator_fault"} # {}
    \/ sales > 0 \/ runtime # "running" \/ checks = "dead"

(* The poll task outlives every failing call: a bill the device holds is   *)
(* fetched, unless the task was cancelled or found a validator that is not *)
(* confirmed (_poll_loop and _handle_fault, adapter.py).                   *)
BillIsReported == device.bill ~> ~device.bill \/ poll \in {"none", "ended"}

(* An open service door stops sales, whatever else the same poll found     *)
(* (poll_once, health_monitor.py).                                         *)
OpenDoorBlocksSales ==
  door /\ runtime = "running" ~>
    \/ "service_door_open" \in blockers
    \/ ~door \/ runtime # "running" \/ checks = "dead"
=============================================================================
