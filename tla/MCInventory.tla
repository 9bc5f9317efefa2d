----------------------------- MODULE MCInventory -----------------------------
(* A small instance of Inventory.                                             *)
EXTENDS Inventory

CONSTANTS r1, r2, r3, m1, m2
=============================================================================
