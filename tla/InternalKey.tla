---------------------------- MODULE InternalKey ----------------------------
(***************************************************************************)
(* How versions are found: internal keys (package kv), the order of the    *)
(* memtable's skip list, the blocks of an SSTable, point lookups, range    *)
(* scans, the merge and the snapshot iterators, at the level of bytes.     *)
(*                                                                         *)
(* A byte is a number below Base, so Base - 1 stands for 0xFF; SeqSize     *)
(* stands for the 8 bytes of the inverted sequence number.  The sequence   *)
(* numbers in use stay below Base^(SeqSize - 1), as they stay below 2^56   *)
(* in any real database: the first byte of an inverted sequence number is  *)
(* always Base - 1.  Values play no part and are left out.                 *)
(***************************************************************************)
EXTENDS Integers, Sequences, FiniteSets

CONSTANTS
    Base,          \* number of byte values
    SeqSize,       \* bytes of a sequence number
    UserKeys,      \* the user keys in use
    Prefixes,      \* the prefixes ScanPrefix is called with
    BlockEntries,  \* entries that fit in a block
    MaxPuts        \* bound: number of Puts

Bytes == 0..Base - 1
MaxSeqNum == Base ^ SeqSize - 1

ASSUME ShapeAssumption ==
    /\ Base \in Nat \ {0, 1} /\ SeqSize \in Nat \ {0} /\ BlockEntries \in Nat \ {0}
    /\ UserKeys \subseteq Seq(Bytes) /\ Prefixes \subseteq Seq(Bytes)
    /\ MaxPuts < Base ^ (SeqSize - 1)

VARIABLES
    list,     \* the active memtable's skip list at level 0: internal keys
    tables,   \* SSTables, newest first; a table is a sequence of blocks
    nextSeq,
    log       \* ghost: every <<user key, seq>> written

vars == <<list, tables, nextSeq, log>>

-----------------------------------------------------------------------------
(* Package kv.                                                             *)

BigEndian(n) == [i \in 1..SeqSize |-> (n \div Base ^ (SeqSize - i)) % Base]

MakeInternalKey(userKey, seq) == userKey \o BigEndian(MaxSeqNum - seq)

UserKey(ikey) ==
    IF Len(ikey) <= SeqSize THEN << >> ELSE SubSeq(ikey, 1, Len(ikey) - SeqSize)

SeqNum(ikey) ==
    LET b == Len(ikey) - SeqSize
        value[i \in 0..SeqSize] == IF i = 0 THEN 0 ELSE value[i - 1] * Base + ikey[b + i]
    IN  MaxSeqNum - value[SeqSize]

MakeSearchKey(userKey) == MakeInternalKey(userKey, MaxSeqNum)

(* bytes.Compare(a, b) < 0.                                                *)
Before(a, b) ==
    \/ Len(a) < Len(b) /\ SubSeq(b, 1, Len(a)) = a
    \/ \E i \in DOMAIN a \cap DOMAIN b :
          a[i] < b[i] /\ SubSeq(a, 1, i - 1) = SubSeq(b, 1, i - 1)

-----------------------------------------------------------------------------
(* The memtable.                                                           *)

(* Index of the first node >= target, Len + 1 if there is none.            *)
FindGreaterOrEqual(keys, target) ==
    CHOOSE i \in 1..Len(keys) + 1 :
        /\ \A j \in 1..i - 1 : Before(keys[j], target)
        /\ i <= Len(keys) => ~Before(keys[i], target)

(* Mutant: the new node is linked behind its successor.                    *)
InsertAfter(keys, i, key) ==
    IF i > Len(keys) THEN Append(keys, key)
    ELSE SubSeq(keys, 1, i) \o <<key>> \o SubSeq(keys, i + 1, Len(keys))

(* SkipList.Put links the node before the first one that is not smaller.   *)
InsertAt(keys, i, key) == SubSeq(keys, 1, i - 1) \o <<key>> \o SubSeq(keys, i, Len(keys))

NotFound == -1

(* The walk of GetAt from an index: over the versions of userKey, to the   *)
(* first one visible at maxSeq.                                            *)
WalkVersions(keys, from, userKey, maxSeq) ==
    LET run == {i \in from..Len(keys) : \A j \in from..i : UserKey(keys[j]) = userKey}
        hits == {i \in run : SeqNum(keys[i]) <= maxSeq}
    IN  IF hits = {} THEN NotFound
        ELSE SeqNum(keys[CHOOSE i \in hits : \A j \in hits : i <= j])

SkipListGetAt(keys, userKey, maxSeq) ==
    WalkVersions(keys, FindGreaterOrEqual(keys, MakeSearchKey(userKey)), userKey, maxSeq)

(* Bounds of a range scan: user keys, or NoBound for nil.                  *)
NoBound == <<-1>>

(* ScanRange of the skip list; the iterator stops at the end key.          *)
SkipListScanRange(keys, start, end) ==
    LET from == IF start = NoBound THEN 1
                ELSE FindGreaterOrEqual(keys, MakeSearchKey(start))
        to == IF end = NoBound THEN Len(keys) + 1
              ELSE FindGreaterOrEqual(keys, MakeSearchKey(end))
    IN  SubSeq(keys, from, to - 1)

-----------------------------------------------------------------------------
(* SSTables.                                                               *)

(* Builder: a block is flushed when the next entry does not fit.           *)
BuildBlocks(keys) ==
    LET count == (Len(keys) + BlockEntries - 1) \div BlockEntries
        upTo(i) == IF i * BlockEntries < Len(keys) THEN i * BlockEntries ELSE Len(keys)
    IN  [i \in 1..count |-> SubSeq(keys, (i - 1) * BlockEntries + 1, upTo(i))]

LastKey(block) == block[Len(block)]

(* Block.GetAt: binary search for the first entry >= the search key.       *)
BlockSearch(block, target) ==
    LET n == Len(block)
        low[lo \in 0..n, hi \in 0..n] ==
            IF lo >= hi THEN lo
            ELSE LET mid == lo + (hi - lo) \div 2 IN
                 IF Before(block[mid + 1], target) THEN low[mid + 1, hi] ELSE low[lo, mid]
    IN  low[0, n] + 1

BlockGetAt(block, userKey, maxSeq) ==
    WalkVersions(block, BlockSearch(block, MakeSearchKey(userKey)), userKey, maxSeq)

(* findBlock: the first block whose last key is >= target; one past the    *)
(* last block stands for -1.                                               *)
FindBlock(blocks, target) ==
    LET n == Len(blocks)
        low[lo \in 0..n, hi \in -1..n] ==
            IF lo > hi THEN lo
            ELSE LET mid == lo + (hi - lo) \div 2 IN
                 IF Before(LastKey(blocks[mid + 1]), target)
                 THEN low[mid + 1, hi] ELSE low[lo, mid - 1]
    IN  low[0, n - 1] + 1

(* Mutant: only the block that findBlock names is searched.                *)
ReaderGetAtOneBlock(blocks, userKey, maxSeq) ==
    LET b == FindBlock(blocks, MakeSearchKey(userKey)) IN
    IF b > Len(blocks) THEN NotFound ELSE BlockGetAt(blocks[b], userKey, maxSeq)

(* Reader.GetAt: the versions of a key may spill into the next block.  The *)
(* bloom filter has no false negatives and is left out.                    *)
ReaderGetAt(blocks, userKey, maxSeq) ==
    LET n == Len(blocks)
        get[b \in 1..n + 1] ==
            IF b > n THEN NotFound
            ELSE LET hit == BlockGetAt(blocks[b], userKey, maxSeq) IN
                 IF hit # NotFound \/ UserKey(LastKey(blocks[b])) # userKey
                 THEN hit ELSE get[b + 1]
    IN  get[FindBlock(blocks, MakeSearchKey(userKey))]

Flatten(blocks) ==
    LET upTo[i \in 0..Len(blocks)] == IF i = 0 THEN << >> ELSE upTo[i - 1] \o blocks[i]
    IN  upTo[Len(blocks)]


(* SSTableIterator: seekToStart skips entries before the start key from    *)
(* the block on; the first entry at or past the end key stops it.          *)
ReaderScanRange(blocks, start, end) ==
    LET block == IF start = NoBound THEN 1 ELSE FindBlock(blocks, MakeSearchKey(start))
        keys == Flatten(SubSeq(blocks, block, Len(blocks)))
        from == IF start = NoBound THEN 1
                ELSE FindGreaterOrEqual(keys, MakeSearchKey(start))
        stop == {i \in from..Len(keys) :
                    end # NoBound /\ ~Before(keys[i], MakeSearchKey(end))}
        past == IF stop = {} THEN Len(keys) + 1 ELSE CHOOSE i \in stop : \A j \in stop : i <= j
    IN  SubSeq(keys, from, past - 1)

-----------------------------------------------------------------------------
(* Iterators.                                                              *)

(* MergeIterator: pop the smallest head, the lower index on a tie.         *)
Merge(iters) ==
    LET pending(pos) == {i \in DOMAIN iters : pos[i] <= Len(iters[i])}
        head(pos, i) == iters[i][pos[i]]
        Least(pos) == CHOOSE i \in pending(pos) : \A j \in pending(pos) :
            Before(head(pos, i), head(pos, j)) \/ (head(pos, i) = head(pos, j) /\ i <= j)
        RECURSIVE Drain(_)
        Drain(pos) ==
            IF pending(pos) = {} THEN << >>
            ELSE LET i == Least(pos)
                 IN  <<head(pos, i)>> \o Drain([pos EXCEPT ![i] = @ + 1])
    IN  Drain([i \in DOMAIN iters |-> 1])

(* SnapshotIterator: lastUserKey starts as nil, and appending an empty key *)
(* to nil leaves nil.                                                      *)
Snapshot(keys, maxSeq) ==
    LET RECURSIVE Advance(_, _)
        Advance(i, last) ==
            IF i > Len(keys) THEN << >>
            ELSE LET user == UserKey(keys[i]) IN
                 IF SeqNum(keys[i]) > maxSeq \/ user = last THEN Advance(i + 1, last)
                 ELSE <<keys[i]>>
                      \o Advance(i + 1, IF user = << >> /\ last = NoBound THEN NoBound ELSE user)
    IN  Advance(1, NoBound)

(* DB.getAt over the memtable and the tables; DB.ScanRange at maxSeq.      *)
Get(userKey, maxSeq) ==
    LET src == <<SkipListGetAt(list, userKey, maxSeq)>>
               \o [i \in DOMAIN tables |-> ReaderGetAt(tables[i], userKey, maxSeq)]
        hits == {i \in DOMAIN src : src[i] # NotFound}
    IN  IF hits = {} THEN NotFound ELSE src[CHOOSE i \in hits : \A j \in hits : i <= j]

ScanRange(start, end, maxSeq) ==
    Snapshot(Merge(<<SkipListScanRange(list, start, end)>>
                   \o [i \in DOMAIN tables |-> ReaderScanRange(tables[i], start, end)]),
             maxSeq)


(* prefixSuccessor: increment the last byte below 0xFF and cut behind it.  *)
PrefixSuccessor(prefix) ==
    LET below == {i \in DOMAIN prefix : prefix[i] < Base - 1}
        i == CHOOSE j \in below : \A m \in below : m <= j
    IN  IF below = {} THEN NoBound ELSE SubSeq([prefix EXCEPT ![i] = @ + 1], 1, i)

ScanPrefix(prefix, maxSeq) == ScanRange(prefix, PrefixSuccessor(prefix), maxSeq)

-----------------------------------------------------------------------------

Init == list = << >> /\ tables = << >> /\ nextSeq = 0 /\ log = {}

(* SkipList.Put behind the next sequence number.                           *)
Put(userKey) ==
    /\ nextSeq < MaxPuts
    /\ nextSeq' = nextSeq + 1
    /\ LET key == MakeInternalKey(userKey, nextSeq + 1)
       IN  list' = InsertAt(list, FindGreaterOrEqual(list, key), key)
    /\ log' = log \cup {<<userKey, nextSeq + 1>>}
    /\ UNCHANGED tables

(* A flush builds a table from the memtable in its order.                  *)
Flush ==
    /\ list # << >>
    /\ tables' = <<BuildBlocks(list)>> \o tables
    /\ list' = << >>
    /\ UNCHANGED <<nextSeq, log>>

Next == Flush \/ \E k \in UserKeys : Put(k)

Spec == Init /\ [][Next]_vars

-----------------------------------------------------------------------------
(* Properties.                                                             *)

(* Reference: the newest version of a key as of seq.                       *)
Newest(userKey, seq) ==
    LET S == {e[2] : e \in {x \in log : x[1] = userKey /\ x[2] <= seq}}
    IN  IF S = {} THEN NotFound ELSE CHOOSE s \in S : \A t \in S : t <= s

InRange(k, start, end) ==
    (start = NoBound \/ ~Before(k, start)) /\ (end = NoBound \/ Before(k, end))

(* A scan yields each key of K with a visible version once, with its       *)
(* newest visible version, in ascending order of user keys.                *)
Yields(rows, K, seq) ==
    /\ {<<UserKey(rows[i]), SeqNum(rows[i])>> : i \in DOMAIN rows}
       = {<<k, Newest(k, seq)>> : k \in {x \in K : Newest(x, seq) # NotFound}}
    /\ \A i, j \in DOMAIN rows : i < j => Before(UserKey(rows[i]), UserKey(rows[j]))

(* A point lookup finds the newest version as of every sequence number, in *)
(* the skip list and through the blocks of every table, wherever block     *)
(* boundaries separate the versions of a key.                              *)
GetFindsNewest ==
    \A k \in UserKeys, s \in 0..nextSeq : Get(k, s) = Newest(k, s)



(* A snapshot scan yields one version of a key at most.                    *)
OneVersionPerKey ==
    LET rows == ScanRange(NoBound, NoBound, nextSeq) IN
    \A i, j \in DOMAIN rows : UserKey(rows[i]) = UserKey(rows[j]) => i = j

(* Builder.Add is handed strictly ascending keys: no flush is refused with *)
(* "keys not in sorted order".                                             *)
ListSorted == \A i, j \in DOMAIN list : i < j => Before(list[i], list[j])

=============================================================================
