---------------------------- MODULE MCCompaction ----------------------------
(* Small instances of Compaction for TLC.                                  *)
EXTENDS Compaction

(* Disjoint and overlapping key ranges, several versions of a key.         *)
MixedMemtables == {<<1>>, <<2, 2>>, <<3, 1>>}

(* Overwrites of two keys.                                                 *)
Overwrites == {<<1, 2>>, <<1, 1>>}
=============================================================================
