-------------------------- MODULE ValidatorAdapter -------------------------
(***************************************************************************)
(* DBV300SDValidator: the life cycle of the adapter under its lock, the    *)
(* task that polls the device, and the commands that switch acceptance,    *)
(* which take no lock.  The protocol and the serial port are external: any *)
(* of their calls may fail, and a poll may find that the hardware is not   *)
(* confirmed (what every protocol of the repository reports so far).       *)
(*                                                                         *)
(* The device keeps a stacked bill until a poll has fetched it.            *)
(***************************************************************************)
EXTENDS Naturals, Sequences

CONSTANTS
  StartupDisableAcceptance,  \* startup_disable_acceptance of the configuration
  FallbackDisableOnFault,    \* fallback_disable_on_fault
  MaxFaults,                 \* bound on the calls that fail
  MaxEvents                  \* bound on the events that wait when a command is made

ASSUME AdapterAssumption ==
  /\ StartupDisableAcceptance \in BOOLEAN /\ FallbackDisableOnFault \in BOOLEAN
  /\ MaxFaults \in Nat /\ MaxEvents \in Nat

VARIABLES
  lock,      \* what the holder of the adapter's lock waits for, or "free"
  raising,   \* the holder will raise when the port is closed
  started,   \* _started
  port,      \* "open" or "closed"
  poll,      \* what the poll task waits for
  health,    \* the state in _health
  events,    \* the queue the application reads
  switching, \* the acceptance commands under way: TRUE to enable, FALSE to disable
  answered,  \* the commands of this sale that have been answered
  device,    \* the validator itself: whether it accepts, and a bill not fetched yet
  faults     \* how many calls have failed

adapterVars ==
  <<lock, raising, started, port, poll, health, events, switching, answered, device,
    faults>>
pollVars == <<poll, health, events, device>>
holderVars == <<lock, raising, started, port>>

Polling == {"answer", "fallback", "last_fallback", "interval"}
Healths == {"UNKNOWN", "INITIALIZING", "READY", "DISABLED", "FAULT"}

AdapterInit ==
  /\ lock = "free" /\ raising = FALSE /\ started = FALSE /\ port = "closed"
  /\ poll = "none" /\ health = "UNKNOWN" /\ events = <<>> /\ switching = {} /\ answered = {}
  /\ device = [accepting |-> FALSE, bill |-> FALSE] /\ faults = 0

Fault == faults < MaxFaults /\ faults' = faults + 1

(* -------------------------------- start -------------------------------- *)

Start ==
  /\ lock = "free" /\ ~started
  /\ lock' = "open" /\ raising' = FALSE /\ health' = "INITIALIZING"
  /\ UNCHANGED <<started, port, poll, events, switching, answered, device, faults>>

Opened ==
  /\ lock = "open"
  /\ lock' = "initialize" /\ port' = "open"
  /\ UNCHANGED <<raising, started, pollVars, switching, answered, faults>>
OpenFails ==
  /\ lock = "open" /\ Fault
  /\ lock' = "free" /\ raising' = TRUE
  /\ UNCHANGED <<started, port, pollVars, switching, answered>>

(* The poll task is created last, when nothing can fail any more.          *)
StartCompletes ==
  /\ lock' = "free" /\ started' = TRUE /\ poll' = "answer" /\ health' = "READY"
Initialized ==
  /\ lock = "initialize"
  /\ IF StartupDisableAcceptance
     THEN lock' = "switch_off" /\ UNCHANGED <<started, poll, health>>
     ELSE StartCompletes
  /\ UNCHANGED <<raising, port, events, switching, answered, device, faults>>
SwitchedOff ==
  /\ lock = "switch_off"
  /\ device' = [device EXCEPT !.accepting = FALSE] /\ StartCompletes
  /\ UNCHANGED <<raising, port, events, switching, answered, faults>>
(* Slip: a start that fails raises at once.                                *)
StartFailsAtOnce ==
  /\ lock \in {"initialize", "switch_off"} /\ Fault
  /\ lock' = "free" /\ raising' = TRUE /\ health' = "FAULT"
  /\ UNCHANGED <<started, port, poll, events, switching, answered, device>>

StartFails ==
  /\ lock \in {"initialize", "switch_off"} /\ Fault
  /\ lock' = "shut_down" /\ raising' = TRUE /\ health' = "FAULT"
  /\ UNCHANGED <<started, port, poll, events, switching, answered, device>>

(* --------------------------- stop and shutdown ------------------------- *)

(* A port that is closed already is left alone.                            *)
Stopped ==
  /\ lock' = "free" /\ started' = FALSE /\ health' = "DISABLED"
ShutDown ==
  IF port = "open" THEN lock' = "shut_down" /\ UNCHANGED <<started, health>> ELSE Stopped

Stop ==
  /\ lock = "free"
  /\ raising' = FALSE
  /\ IF poll = "none" THEN ShutDown
     ELSE lock' = "cancel" /\ UNCHANGED <<started, health>>
  /\ UNCHANGED <<port, poll, events, switching, answered, device, faults>>

(* The cancelled task ends where it waits.  A bill whose report is being   *)
(* read then is lost; one that was read is in the queue.                   *)
PollCancelled ==
  /\ lock = "cancel"
  /\ poll' = "none" /\ ShutDown
  /\ \/ UNCHANGED device
     \/ poll = "answer" /\ device' = [device EXCEPT !.bill = FALSE]
  /\ UNCHANGED <<raising, port, events, switching, answered, faults>>

ProtocolShutDown ==
  /\ lock = "shut_down"
  /\ lock' = "close"
  /\ \/ UNCHANGED <<raising, faults>>
     \/ raising' = TRUE /\ Fault
  /\ UNCHANGED <<started, port, pollVars, switching, answered>>

(* The transport forgets its port even when closing fails.                 *)
PortClosed ==
  /\ lock = "close"
  /\ port' = "closed"
  /\ \/ ~raising /\ Stopped /\ UNCHANGED <<raising, faults>>
     \/ raising /\ lock' = "free" /\ UNCHANGED <<raising, started, health, faults>>
     \/ raising' = TRUE /\ lock' = "free" /\ Fault /\ UNCHANGED <<started, health>>
  /\ UNCHANGED <<poll, events, switching, answered, device>>

(* --------------------------------- polls ------------------------------- *)

PollAnswered ==
  /\ poll = "answer"
  /\ poll' = "interval" /\ health' = "READY"
  /\ events' = IF device.bill THEN Append(events, "bill") ELSE events
  /\ device' = [device EXCEPT !.bill = FALSE]
  /\ UNCHANGED <<holderVars, switching, answered, faults>>

(* Slip: only the event tells of the fault.                                *)
HandleFaultUnmarked(next) ==
  /\ UNCHANGED health /\ events' = Append(events, "validator_fault") /\ poll' = next

HandleFault(next) ==
  /\ health' = "FAULT" /\ events' = Append(events, "validator_fault") /\ poll' = next

PollFails ==
  /\ poll = "answer" /\ Fault
  /\ \/ HandleFault(IF FallbackDisableOnFault THEN "fallback" ELSE "interval")
     \/ HandleFault(IF FallbackDisableOnFault THEN "last_fallback" ELSE "ended")
  /\ UNCHANGED <<holderVars, switching, answered, device>>

(* Slip: a fallback that fails ends the task.                              *)
FellBackUnguarded ==
  /\ poll \in {"fallback", "last_fallback"}
  /\ \/ /\ device' = [device EXCEPT !.accepting = FALSE]
        /\ poll' = IF poll = "fallback" THEN "interval" ELSE "ended"
     \/ UNCHANGED device /\ poll' = "crashed"
  /\ UNCHANGED <<holderVars, health, events, switching, answered, faults>>

(* What made the poll fail may make the fallback fail as well.             *)
FellBack ==
  /\ poll \in {"fallback", "last_fallback"}
  /\ poll' = IF poll = "fallback" THEN "interval" ELSE "ended"
  /\ \/ device' = [device EXCEPT !.accepting = FALSE]
     \/ UNCHANGED device
  /\ UNCHANGED <<holderVars, health, events, switching, answered, faults>>

PollAgain ==
  /\ poll = "interval"
  /\ poll' = "answer"
  /\ UNCHANGED <<holderVars, health, events, switching, answered, device, faults>>

(* ------------------------------- Commands ------------------------------ *)

(* A command carries the correlation of its sale as its key: one that was  *)
(* answered before is not sent again (DeviceCommandRunner.run).            *)
Switch(on) ==
  /\ started /\ on \notin switching /\ Len(events) < MaxEvents
  /\ IF on \in answered THEN health' = "READY" /\ UNCHANGED switching
     ELSE switching' = switching \cup {on} /\ UNCHANGED health
  /\ UNCHANGED <<holderVars, poll, events, answered, device, faults>>
Switched(on) ==
  /\ on \in switching /\ port = "open"
  /\ switching' = switching \ {on} /\ answered' = answered \cup {on}
  /\ device' = [device EXCEPT !.accepting = on]
  /\ health' = IF on THEN "READY" ELSE "DISABLED"
  /\ events' = IF on THEN events ELSE Append(events, "validator_disabled")
  /\ UNCHANGED <<holderVars, poll, faults>>
(* A command that fails on an open port may have reached the device.       *)
SwitchFails(on) ==
  /\ on \in switching
  /\ switching' = switching \ {on} /\ health' = "FAULT"
  /\ IF port = "closed" THEN UNCHANGED <<device, faults>>
     ELSE /\ Fault
          /\ \E accepting \in {device.accepting, on} :
               device' = [device EXCEPT !.accepting = accepting]
  /\ UNCHANGED <<holderVars, poll, events, answered>>

(* ------------------------------ The device ----------------------------- *)

BillStacked ==
  /\ device.accepting /\ ~device.bill /\ Len(events) < MaxEvents
  /\ device' = [device EXCEPT !.bill = TRUE]
  /\ UNCHANGED <<holderVars, poll, health, events, switching, answered, faults>>

(* ------------------------------------------------------------------------*)

HolderGoesOn ==
  \/ Opened \/ OpenFails \/ Initialized \/ SwitchedOff \/ StartFails
  \/ PollCancelled \/ ProtocolShutDown \/ PortClosed
PollTask == PollAnswered \/ PollFails \/ FellBack \/ PollAgain
AdapterStep ==
  \/ HolderGoesOn \/ PollTask \/ BillStacked
  \/ \E on \in BOOLEAN : Switch(on) \/ Switched(on) \/ SwitchFails(on)
=============================================================================
