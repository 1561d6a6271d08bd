---------------------------- MODULE MCDurability ----------------------------
(* Small instances of Durability for TLC.                                  *)
EXTENDS Durability
=============================================================================
