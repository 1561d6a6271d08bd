----------------------------- MODULE MCReadPath -----------------------------
(* Small instances of ReadPath for TLC.                                    *)
EXTENDS ReadPath, TLC

CONSTANTS a, b, w1, w2, r1, r2, s1

put(k) == [key |-> k, val |-> "data"]
putNil(k) == [key |-> k, val |-> "nil"]

(* A Put, and a batch whose second operation overwrites or follows it.     *)
MCBatches == {<<put(a)>>, <<put(a), put(b)>>}

OnePut == {<<put(a)>>}

TwoPuts == {<<put(a)>>, <<put(b)>>}

(* Put(k, nil): a legal call with an empty value.                          *)
NilPut == {<<putNil(a)>>}

Symmetry == Permutations(Writers) \cup Permutations(Readers)
=============================================================================
