---------------------------- MODULE MCWritePath ----------------------------
(* Small instances of WritePath for TLC.                                   *)
EXTENDS WritePath, TLC

CONSTANTS a, b, w1, w2, w3

put(k) == [key |-> k, val |-> "data"]
del(k) == [key |-> k, val |-> "tomb"]
putNil(k) == [key |-> k, val |-> "nil"]

TwoKeys == {a, b}

(* A single Put or Delete, and a two-operation batch.                      *)
MCBatches == {<<put(a)>>, <<del(b)>>, <<put(a), put(b)>>}

(* Batches of the liveness runs: every call is one Put.                    *)
OnePut == {<<put(a)>>}

WriterSymmetry == Permutations(Writers)
=============================================================================
