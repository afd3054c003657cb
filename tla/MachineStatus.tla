---------------------------- MODULE MachineStatus ----------------------------
(***************************************************************************)
(* The status projection that gates sales: domain/entities/                *)
(* machine_status.py and app/services/machine_status_service.py.           *)
(* allow_cash_sales and allow_vending are always assigned together, so one *)
(* field stands for both.                                                  *)
(***************************************************************************)
EXTENDS MachineFSM

(* Reasons a sale may be blocked for: by the coordinators, and by the      *)
(* health monitor.                                                         *)
HealthBlockers == {"device_fault", "service_door_open", "critical_temperature"}
Blockers == HealthBlockers \cup {"validator_fault", "delivery_window_fault", "recovery_pending"}

StatusRecords ==
  [machine_state : MachineStates, service_mode : BOOLEAN, exact_change_only : BOOLEAN,
   sale_blockers : SUBSET Blockers, allow_cash_sales : BOOLEAN]

PermittedIgnoringState(st) == st.sale_blockers = {} /\ ~st.service_mode

Permitted(st) ==
  /\ st.sale_blockers = {}
  /\ ~st.service_mode
  /\ st.machine_state \notin UnsafeStates

(* Slip: the projection forgets the machine state.                         *)
RefreshPermissionsIgnoringState(st) ==
  [st EXCEPT !.allow_cash_sales = PermittedIgnoringState(st)]

RefreshPermissions(st) == [st EXCEPT !.allow_cash_sales = Permitted(st)]

SetMachineState(st, s) == RefreshPermissions([st EXCEPT !.machine_state = s])
SetServiceMode(st, enabled) == RefreshPermissions([st EXCEPT !.service_mode = enabled])
SetExactChangeOnly(st, enabled) ==
  RefreshPermissions([st EXCEPT !.exact_change_only = enabled])
BlockSales(st, reason) ==
  RefreshPermissions([st EXCEPT !.sale_blockers = @ \cup {reason}])
UnblockSales(st, reason) ==
  RefreshPermissions([st EXCEPT !.sale_blockers = @ \ {reason}])

(* ensure_sales_allowed returns.                                           *)
SalesAllowed(st) == st.allow_cash_sales /\ st.sale_blockers = {}
=============================================================================
