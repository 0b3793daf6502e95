---------------------------- MODULE MCInventory ----------------------------
(***************************************************************************)
(* Small instances of Inventory for TLC: a few holds on one room night.    *)
(* Requests that span room nights are checked in MCGroupBlocks.            *)
(***************************************************************************)
EXTENDS Inventory

CONSTANTS k1, h1, h2, h3

Holds == {h1, h2, h3}
OneKey == {k1}
=============================================================================
