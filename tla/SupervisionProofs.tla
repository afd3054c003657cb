-------------------------- MODULE SupervisionProofs --------------------------
(***************************************************************************)
(* The two safety properties of Supervision, for any configuration of the  *)
(* adapter and any number of failing calls, events and sales.              *)
(*                                                                         *)
(* Each place where the holder of the adapter's lock may wait has its own  *)
(* claim on port, poll task and _started; each phase of the runtime has    *)
(* its own claim on the loops and the watchdog, and leaves the lock alone  *)
(* as long as a loop may run.                                              *)
(***************************************************************************)
EXTENDS Supervision, TLAPS

(* A poll task belongs to a started adapter with an open port; a port that *)
(* is open while nobody holds the lock belongs to a started adapter.  The  *)
(* converse fails: a stop that raises closes the port and leaves _started. *)
HolderOK ==
  /\ poll # "none" => port = "open" /\ started /\ lock \in {"free", "cancel"}
  /\ lock = "free" => (port = "open" => started) /\ (port = "open" \/ port = "closed")
  /\ lock = "open" => port = "closed" /\ ~started
  /\ lock \in {"initialize", "switch_off"} => port = "open" /\ ~started
  /\ lock = "cancel" => port = "open" /\ started
  /\ lock \in {"shut_down", "close"} => port = "open"
  /\ lock \in {"free", "open", "initialize", "switch_off", "cancel", "shut_down", "close"}
  /\ started \in BOOLEAN

(* While the loops may run nobody takes the lock.                          *)
PhaseOK ==
  /\ runtime = "starting" => started /\ lock = "free"
  /\ runtime \in {"running", "stopping"} => started /\ lock = "free" /\ armed
  /\ BillsAlive => runtime \in {"running", "stopping"}

SupervisionInv == HolderOK /\ PhaseOK

-----------------------------------------------------------------------------
(* The holder of the lock and the poll task.                               *)
LEMMA HolderStaysOK ==
  ASSUME HolderOK, HolderGoesOn PROVE HolderOK' /\ lock # "free"
<1> USE DEF HolderOK, holderVars, pollVars
<1>1. CASE Opened BY <1>1 DEF Opened
<1>2. CASE OpenFails BY <1>2 DEF OpenFails
<1>3. CASE Initialized BY <1>3 DEF Initialized, StartCompletes
<1>4. CASE SwitchedOff BY <1>4 DEF SwitchedOff, StartCompletes
<1>5. CASE StartFails BY <1>5 DEF StartFails
<1>6. CASE PollCancelled BY <1>6 DEF PollCancelled, ShutDown, Stopped
<1>7. CASE ProtocolShutDown BY <1>7 DEF ProtocolShutDown
<1>8. CASE PortClosed BY <1>8 DEF PortClosed, Stopped
<1> QED BY <1>1, <1>2, <1>3, <1>4, <1>5, <1>6, <1>7, <1>8 DEF HolderGoesOn

(* The poll task never comes to life by itself, and touches neither port   *)
(* nor lock.                                                               *)
LEMMA PollStaysOK ==
  ASSUME HolderOK, PollTask PROVE HolderOK' /\ UNCHANGED holderVars
<1> USE DEF HolderOK, holderVars
<1>1. CASE PollAnswered BY <1>1 DEF PollAnswered
<1>2. CASE PollFails BY <1>2 DEF PollFails, HandleFault
<1>3. CASE FellBack BY <1>3 DEF FellBack
<1>4. CASE PollAgain BY <1>4 DEF PollAgain
<1> QED BY <1>1, <1>2, <1>3, <1>4 DEF PollTask

LEMMA CommandsLeaveHolder ==
  ASSUME BillStacked \/ \E on \in BOOLEAN : Switch(on) \/ Switched(on) \/ SwitchFails(on)
  PROVE UNCHANGED <<holderVars, poll>>
<1>1. CASE BillStacked BY <1>1 DEF BillStacked
<1>2. ASSUME NEW on \in BOOLEAN, Switch(on) \/ Switched(on) \/ SwitchFails(on)
      PROVE UNCHANGED <<holderVars, poll>>
  BY <1>2 DEF Switch, Switched, SwitchFails
<1> QED BY <1>1, <1>2

-----------------------------------------------------------------------------
(* Steps of the runtime and of its loops.  Those that only move the loops  *)
(* keep the adapter as it is.                                              *)
KeepsAdapter == UNCHANGED <<holderVars, poll>>

LEMMA HolderKept == ASSUME HolderOK, KeepsAdapter PROVE HolderOK'
BY DEF HolderOK, KeepsAdapter, holderVars

LEMMA ChecksStayOK == ASSUME PhaseOK, ChecksStep PROVE PhaseOK' /\ KeepsAdapter
<1> USE DEF PhaseOK, KeepsAdapter, adapterVars, holderVars, pollVars, runtimeVars, BillsAlive
<1>1. CASE CheckDevices BY <1>1 DEF CheckDevices
<1>2. CASE FaultPublished BY <1>2 DEF FaultPublished
<1>3. CASE DoorPublished BY <1>3 DEF DoorPublished
<1>4. CASE CheckFails BY <1>4 DEF CheckFails
<1>5. CASE Kick BY <1>5 DEF Kick
<1>6. CASE PollHealth BY <1>6 DEF PollHealth
<1> QED BY <1>1, <1>2, <1>3, <1>4, <1>5, <1>6 DEF ChecksStep

LEMMA BillsStayOK == ASSUME PhaseOK, BillsStep PROVE PhaseOK' /\ KeepsAdapter
<1> USE DEF PhaseOK, KeepsAdapter, holderVars, pollVars, runtimeVars, BillsAlive, Alive,
            Reading, Publishing
<1>1. CASE ReadEvent BY <1>1 DEF ReadEvent
<1>2. CASE EventProcessed BY <1>2 DEF EventProcessed
<1> QED BY <1>1, <1>2 DEF BillsStep

LEMMA RuntimeStaysOK == ASSUME SupervisionInv, RuntimeStep PROVE SupervisionInv'
<1> HolderOK /\ PhaseOK BY DEF SupervisionInv
<1> USE DEF PhaseOK, BillsAlive, Alive, adapterVars, holderVars, pollVars, runtimeVars
<1>1. CASE DevicesStarted
  <2>1. HolderOK' BY <1>1, HolderKept DEF DevicesStarted, KeepsAdapter
  <2>2. PhaseOK' BY <1>1 DEF DevicesStarted
  <2> QED BY <2>1, <2>2 DEF SupervisionInv
<1>2. CASE Arm
  <2>1. HolderOK' BY <1>2, HolderKept DEF Arm, KeepsAdapter
  <2>2. PhaseOK' BY <1>2 DEF Arm
  <2> QED BY <2>1, <2>2 DEF SupervisionInv
<1>3. CASE BillsEnd
  <2>1. HolderOK' BY <1>3, HolderKept DEF BillsEnd, KeepsAdapter
  <2>2. PhaseOK' BY <1>3 DEF BillsEnd, None
  <2> QED BY <2>1, <2>2 DEF SupervisionInv
<1>4. CASE ChecksEnd
  <2>1. HolderOK' BY <1>4, HolderKept DEF ChecksEnd, KeepsAdapter
  <2>2. PhaseOK' BY <1>4 DEF ChecksEnd
  <2> QED BY <2>1, <2>2 DEF SupervisionInv
<1>5. CASE Disarm
  <2>1. HolderOK' BY <1>5, HolderKept DEF Disarm, KeepsAdapter
  <2>2. PhaseOK' BY <1>5 DEF Disarm
  <2> QED BY <2>1, <2>2 DEF SupervisionInv
<1>6. CASE StopDevices
  <2>1. HolderOK' BY <1>6 DEF StopDevices, Stop, ShutDown, Stopped, HolderOK
  <2>2. PhaseOK' BY <1>6 DEF StopDevices
  <2> QED BY <2>1, <2>2 DEF SupervisionInv
<1>7. CASE DevicesStopped
  <2>1. HolderOK' BY <1>7, HolderKept DEF DevicesStopped, KeepsAdapter
  <2>2. PhaseOK' BY <1>7 DEF DevicesStopped
  <2> QED BY <2>1, <2>2 DEF SupervisionInv
<1> QED BY <1>1, <1>2, <1>3, <1>4, <1>5, <1>6, <1>7 DEF RuntimeStep

LEMMA DevicesStart == ASSUME SupervisionInv, StartDevices PROVE SupervisionInv'
<1>1. HolderOK' BY DEF SupervisionInv, HolderOK, StartDevices, Start
<1>2. PhaseOK' BY DEF SupervisionInv, PhaseOK, StartDevices, BillsAlive
<1> QED BY <1>1, <1>2 DEF SupervisionInv

LEMMA SurroundingsStayOK ==
  ASSUME SupervisionInv, StopRuntime \/ SaleStarts \/ SaleEnds \/ DoorMoves
  PROVE SupervisionInv'
<1> HolderOK /\ PhaseOK BY DEF SupervisionInv
<1>1. KeepsAdapter
  BY DEF StopRuntime, SaleStarts, SaleEnds, DoorMoves, KeepsAdapter, adapterVars,
         holderVars, pollVars
<1>2. PhaseOK'
  <2> USE DEF PhaseOK, BillsAlive, adapterVars, holderVars, runtimeVars
  <2>1. CASE StopRuntime BY <2>1 DEF StopRuntime
  <2>2. CASE SaleStarts BY <2>2 DEF SaleStarts
  <2>3. CASE SaleEnds BY <2>3 DEF SaleEnds
  <2>4. CASE DoorMoves BY <2>4 DEF DoorMoves
  <2> QED BY <2>1, <2>2, <2>3, <2>4
<1> QED BY <1>1, <1>2, HolderKept DEF SupervisionInv

(* A step of the adapter: one that holds the lock is not there while loops run. *)
LEMMA AdapterStaysOK ==
  ASSUME SupervisionInv, UNCHANGED Surroundings,
         \/ HolderGoesOn \/ PollTask \/ BillStacked
         \/ \E on \in BOOLEAN : Switch(on) \/ Switched(on) \/ SwitchFails(on)
  PROVE SupervisionInv'
<1> HolderOK /\ PhaseOK BY DEF SupervisionInv
<1> USE DEF PhaseOK, Surroundings, runtimeVars, BillsAlive
<1>1. CASE HolderGoesOn
  <2>1. HolderOK' /\ lock # "free" BY <1>1, HolderStaysOK
  <2>2. PhaseOK' BY <2>1
  <2> QED BY <2>1, <2>2 DEF SupervisionInv
<1>2. CASE PollTask
  <2>1. HolderOK' /\ UNCHANGED holderVars BY <1>2, PollStaysOK
  <2>2. PhaseOK' BY <2>1 DEF holderVars
  <2> QED BY <2>1, <2>2 DEF SupervisionInv
<1>3. CASE BillStacked \/ \E on \in BOOLEAN : Switch(on) \/ Switched(on) \/ SwitchFails(on)
  <2>1. KeepsAdapter BY <1>3, CommandsLeaveHolder DEF KeepsAdapter
  <2>2. PhaseOK' BY <2>1 DEF KeepsAdapter, holderVars
  <2> QED BY <2>1, <2>2, HolderKept DEF SupervisionInv
<1> QED BY <1>1, <1>2, <1>3

LEMMA SupervisionInvariant == Spec => []SupervisionInv
<1>1. ASSUME Init PROVE SupervisionInv
  <2>1. HolderOK BY <1>1 DEF Init, AdapterInit, HolderOK
  <2>2. runtime = "off" /\ bills = None BY <1>1 DEF Init
  <2>3. ~BillsAlive BY <2>2 DEF BillsAlive, Alive, None
  <2> QED BY <2>1, <2>2, <2>3 DEF SupervisionInv, PhaseOK
<1>2. ASSUME SupervisionInv, [Next]_vars PROVE SupervisionInv'
  <2> HolderOK /\ PhaseOK BY <1>2 DEF SupervisionInv
  <2>1. CASE StartDevices BY <1>2, <2>1, DevicesStart
  <2>2. CASE RuntimeStep BY <1>2, <2>2, RuntimeStaysOK
  <2>3. CASE ChecksStep BY <2>3, ChecksStayOK, HolderKept DEF SupervisionInv
  <2>4. CASE BillsStep BY <2>4, BillsStayOK, HolderKept DEF SupervisionInv
  <2>5. CASE StopRuntime \/ SaleStarts \/ SaleEnds \/ DoorMoves
    BY <1>2, <2>5, SurroundingsStayOK
  <2>6. CASE /\ HolderGoesOn \/ PollTask \/ BillStacked
             /\ UNCHANGED Surroundings
    BY <1>2, <2>6, AdapterStaysOK
  <2>7. CASE \E on \in BOOLEAN :
               /\ (sale /\ Switch(on)) \/ Switched(on) \/ SwitchFails(on)
               /\ UNCHANGED Surroundings
    BY <1>2, <2>7, AdapterStaysOK
  <2>8. CASE UNCHANGED vars
    BY <2>8 DEF vars, adapterVars, SupervisionInv, HolderOK, PhaseOK, BillsAlive
  <2> QED BY <1>2, <2>1, <2>2, <2>3, <2>4, <2>5, <2>6, <2>7, <2>8 DEF Next
<1> QED BY <1>1, <1>2, PTL DEF Spec

-----------------------------------------------------------------------------
(* Whichever call of start or stop fails, a poll is under way only on an   *)
(* open port, and an adapter that is not started has let go of port and    *)
(* poll task (DBV300SDValidator.start and stop).                           *)
THEOREM PortAlwaysOwned == Spec => []PortBelongsToAdapter
<1>1. SupervisionInv => PortBelongsToAdapter
  BY DEF SupervisionInv, HolderOK, PortBelongsToAdapter, Polling
<1> QED BY <1>1, SupervisionInvariant, PTL

(* No loop of the runtime outlives the watchdog that was armed for it, or  *)
(* the devices it works with (start_runtime and stop_runtime).             *)
THEOREM LoopsAlwaysWatched == Spec => []LoopsAreWatched
<1>1. SupervisionInv => LoopsAreWatched
  BY DEF SupervisionInv, PhaseOK, LoopsAreWatched, ChecksAlive
<1> QED BY <1>1, SupervisionInvariant, PTL
=============================================================================
