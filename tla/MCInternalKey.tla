--------------------------- MODULE MCInternalKey ---------------------------
(* Small instances of InternalKey for TLC.  Byte 2 stands for 0xFF.        *)
EXTENDS InternalKey

(* No key is a prefix of another; lengths differ.                          *)
PrefixFree == {<<0>>, <<1, 2>>, <<2, 1>>, <<2, 2>>}
SomePrefixes == {<<1>>, <<2>>, <<2, 2>>, <<1, 2>>}

(* One key is a prefix of the other.                                       *)
Nested == {<<0>>, <<0, 1>>}
NestedPrefixes == {<<0>>, <<0, 1>>}

(* The empty key, which the embedded API accepts.                          *)
EmptyKey == {<< >>}
=============================================================================
