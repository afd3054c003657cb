--------------------------- MODULE MCKioskScreens --------------------------
(***************************************************************************)
(* The behaviours KioskScreens is checked in: a technician, and a customer *)
(* who press twice before the loop gets to it; every button and a mishap;  *)
(* a customer with two mishaps; and an operator who recovers the sale of a *)
(* customer who could not be given change.                                 *)
(***************************************************************************)
EXTENDS KioskScreens

CustomerButtons ==
  {"show_product_details", "start_cash_checkout", "cancel_purchase", "confirm_pickup"}

MCScopes ==
  { [ready |-> 2, waiting |-> 1, history |-> 3, mishaps |-> 1,
     buttons |-> {"open_service", "exit_service", "show_product_details",
                  "show_diagnostics", "back"}],
    [ready |-> 2, waiting |-> 2, history |-> 3, mishaps |-> 0,
     buttons |-> CustomerButtons],
    [ready |-> 1, waiting |-> 1, history |-> 4, mishaps |-> 1,
     buttons |-> AllButtons],
    [ready |-> 1, waiting |-> 1, history |-> 4, mishaps |-> 2,
     buttons |-> CustomerButtons],
    [ready |-> 1, waiting |-> 1, history |-> 4, mishaps |-> 2,
     buttons |-> {"show_product_details", "start_cash_checkout", "open_service",
                  "show_diagnostics", "recover_transaction"}] }
=============================================================================
