--------------------------- MODULE MCDurableKiosk ---------------------------
(***************************************************************************)
(* Small instances of DurableKiosk for TLC.                                *)
(***************************************************************************)
EXTENDS DurableKiosk, TLC

MCDenominations == {1, 2}
MCBillValues == {2, 3}
MCInitialChange == (1 :> 2) @@ (2 :> 1)
=============================================================================
