-------------------------- MODULE MCVendingMachine --------------------------
(***************************************************************************)
(* Small instances of VendingMachine for TLC.                              *)
(***************************************************************************)
EXTENDS VendingMachine, TLC

(* Two denominations, bills that overpay a price of three.                 *)
MCDenominations == {1, 2}
MCBillValues == {2, 3}
MCInitialChange == (1 :> 2) @@ (2 :> 1)

IdentitySymmetry == Permutations(Transactions) \cup Permutations(Clicks)
=============================================================================
