----------------------------- MODULE Durability -----------------------------
(***************************************************************************)
(* What survives a crash: the write-ahead log (package wal), the SSTable   *)
(* files, the manifest log (package manifest), the order in which flush    *)
(* and compaction touch them, and recovery (db.Open and db.recover).       *)
(*                                                                         *)
(* A version is its sequence number: every write goes to one key, so that  *)
(* all tables overlap.  Synced data survives a crash; a crash or a failed  *)
(* write may leave a torn record at the end of a log.  Renames and the     *)
(* creation of files are durable.                                          *)
(***************************************************************************)
EXTENDS Integers, Sequences, FiniteSets

CONSTANTS
    MemtableSize,         \* entries at which the memtable rotates
    L0CompactionTrigger,  \* L0 tables that start a compaction
    Compacting,           \* whether the compaction goroutine runs
    Torn,                 \* whether a crash may tear the record being written
    BatchSizes,           \* how many versions a write may carry
    MaxWrites,            \* bound: writes
    MaxCrashes,           \* bound: restarts
    MaxFaults             \* bound: WAL appends that fail

ASSUME BoundsAssumption ==
    /\ MemtableSize \in Nat \ {0} /\ L0CompactionTrigger \in Nat \ {0}
    /\ Compacting \in BOOLEAN /\ Torn \in BOOLEAN
    /\ BatchSizes \subseteq Nat \ {0}

VARIABLES
    \* on disk
    wals,       \* WAL files: ID -> records, each a set of versions or TornRecord
    ssts,       \* SSTable files: ID -> versions
    manifest,   \* records of the manifest log
    \* in memory
    up,         \* "up", "closing", "down", or "failed": Open returned an error
    active,     \* the active memtable [id, ents]
    immutables, \* newest first
    l0,         \* table handles [id, ents], newest first
    l1,         \* handles of the level below
    nextSeq, nextMemID,
    flushCh, compactCh, \* one-slot signals to the two background goroutines
    fpc,        \* the flush goroutine
    fmt,        \* the memtable it flushes
    cpc,        \* the compaction goroutine
    cin,        \* its inputs, handles
    cleft,      \* inputs whose removal is not yet in the manifest
    cout,       \* its output, a handle
    \* bookkeeping
    writes, crashes, faults,
    acked,      \* ghost: versions whose write returned nil
    scarred,    \* ghost: a torn record is, or was, in the middle of a log
    sound       \* ghost: no crash hit a scarred log or cut a compaction's
                \* manifest update in two

diskVars == <<wals, ssts, manifest>>
memVars == <<active, immutables, l0, l1, nextSeq, nextMemID>>
flushVars == <<fpc, fmt>>
compactVars == <<cpc, cin, cleft, cout>>
bgVars == <<flushCh, compactCh, flushVars, compactVars>>
boundVars == <<writes, crashes, faults, acked, scarred, sound>>
vars == <<diskVars, up, memVars, bgVars, boundVars>>

TornRecord == {-1}
NoTable == [id |-> 0, ents |-> {}]
Nothing == [x \in {} |-> {}]

-----------------------------------------------------------------------------
(* Files and logs.                                                         *)

Put(f, k, v) == [x \in DOMAIN f \cup {k} |-> IF x = k THEN v ELSE f[x]]
Drop(f, S) == [x \in DOMAIN f \ S |-> f[x]]
Elements(s) == {s[i] : i \in DOMAIN s}
IdsOf(handles) == {h.id : h \in Elements(handles)}

Add(id, level) == [type |-> "add", id |-> id, level |-> level]
Remove(id) == [type |-> "remove", id |-> id]
NextIDs(mem, seq) == [type |-> "ids", mem |-> mem, seq |-> seq]
TornManifest == [type |-> "torn"]

(* Records before the first one that does not decode.                      *)
Valid(records, torn) ==
    LET bad == {i \in DOMAIN records : records[i] = torn}
    IN  IF bad = {} THEN records
        ELSE SubSeq(records, 1, (CHOOSE i \in bad : \A j \in bad : i <= j) - 1)

(* manifest.applyRecord over the log: the level of each table.             *)
Replay(records) ==
    LET f[i \in 0..Len(records)] ==
            IF i = 0 THEN [tables |-> Nothing, mem |-> 0, seq |-> 0]
            ELSE LET r == records[i] IN
                 CASE r.type = "add" -> [f[i - 1] EXCEPT !.tables = Put(@, r.id, r.level)]
                   [] r.type = "remove" -> [f[i - 1] EXCEPT !.tables = Drop(@, {r.id})]
                   [] r.type = "ids" -> [f[i - 1] EXCEPT !.mem = r.mem, !.seq = r.seq]
    IN  f[Len(records)]

(* A set of numbers as a descending sequence.                              *)
Descending(S) ==
    [i \in 1..Cardinality(S) |-> CHOOSE x \in S : Cardinality({y \in S : y > x}) = i - 1]

Max(S) == CHOOSE x \in S : \A y \in S : x >= y

(* Handles in the order of their first key: all hold the same key, and its *)
(* newest version sorts first.                                             *)
SortByFirstKey(handles) ==
    LET Before(h, k) == \/ Max(h.ents) > Max(k.ents)
                        \/ Max(h.ents) = Max(k.ents) /\ h.id < k.id
    IN  [i \in 1..Cardinality(handles) |->
            CHOOSE h \in handles : Cardinality({k \in handles : Before(k, h)}) = i - 1]

-----------------------------------------------------------------------------
(* Open: an empty directory, or what the last run left.                    *)

Init ==
    /\ wals = Nothing /\ ssts = Nothing /\ manifest = <<>>
    /\ up = "down"
    /\ active = NoTable /\ immutables = <<>> /\ l0 = <<>> /\ l1 = <<>>
    /\ nextSeq = 0 /\ nextMemID = 0
    /\ flushCh = FALSE /\ compactCh = FALSE
    /\ fpc = "idle" /\ fmt = NoTable
    /\ cpc = "idle" /\ cin = <<>> /\ cleft = <<>> /\ cout = NoTable
    /\ writes = 0 /\ crashes = 0 /\ faults = 0
    /\ acked = {} /\ scarred = FALSE /\ sound = TRUE

(* wal.Recover: the versions of the records before a torn one.             *)
RecoverWAL(id) == UNION Elements(Valid(wals[id], TornRecord))

(* The memtables of the WAL files, newest first, as db.recover orders them.*)
MemtablesOf(ids) == [i \in DOMAIN ids |-> [id |-> ids[i], ents |-> RecoverWAL(ids[i])]]
MemtablesOldestFirst ==
    LET ids == Descending(DOMAIN wals)
    IN  MemtablesOf([i \in DOMAIN ids |-> ids[Len(ids) + 1 - i]])
RecoveredMemtables == MemtablesOf(Descending(DOMAIN wals))

Handle(id) == [id |-> id, ents |-> ssts[id]]

(* state.NextSeq raised to the largest sequence number replayed.           *)
SeqOfManifest(state, mems) == state.seq
RecoveredSeq(state, mems) ==
    Max({state.seq} \cup UNION {mt.ents : mt \in Elements(mems)})

(* newMemtable: the next ID and its empty WAL file.                        *)
FirstMemtableWith(id, w) ==
    /\ active' = [id |-> id, ents |-> {}]
    /\ immutables' = <<>>
    /\ nextMemID' = id
    /\ wals' = w
FirstMemtableUnlogged(id) == FirstMemtableWith(id, wals)
FirstMemtable(id) == FirstMemtableWith(id, Put(wals, id, <<>>))

OpenWith(mems, state, seq) ==
    LET tables == DOMAIN state.tables
        upper == Descending({id \in tables : state.tables[id] = 0})
        memID == Max({state.mem} \cup IdsOf(mems))
    IN  IF tables \subseteq DOMAIN ssts
        THEN /\ up' = "up"
             /\ l0' = [i \in DOMAIN upper |-> Handle(upper[i])]
             /\ l1' = SortByFirstKey({Handle(id) : id \in {t \in tables : state.tables[t] = 1}})
             /\ nextSeq' = seq
             /\ IF mems = <<>>
                THEN FirstMemtable(memID + 1)
                ELSE /\ active' = Head(mems)
                     /\ immutables' = Tail(mems)
                     /\ nextMemID' = memID
                     /\ wals' = wals
             /\ manifest' = IF manifest = <<>> THEN <<NextIDs(0, 0)>> ELSE manifest
             /\ UNCHANGED <<ssts, bgVars, boundVars>>
        ELSE /\ up' = "failed"
             /\ UNCHANGED <<diskVars, memVars, bgVars, boundVars>>

(* Open and recover; the first Open creates the manifest.  A torn tail is  *)
(* skipped, and left in the file.                                          *)
Open ==
    /\ up = "down"
    /\ LET state == Replay(Valid(manifest, TornManifest))
           mems == RecoveredMemtables
       IN  OpenWith(mems, state, RecoveredSeq(state, mems))

-----------------------------------------------------------------------------
(* Writes.                                                                 *)

(* newMemtable and the rest of rotateMemtable, after the write made the    *)
(* active memtable mt and the WAL files w.                                 *)
Rotate(mt, w) ==
    /\ immutables' = <<mt>> \o immutables
    /\ nextMemID' = nextMemID + 1
    /\ active' = [id |-> nextMemID + 1, ents |-> {}]
    /\ wals' = Put(w, nextMemID + 1, <<>>)
    /\ flushCh' = TRUE

(* Put, Delete or a batch: one record, appended and synced, then the       *)
(* memtable, then perhaps a rotation.                                      *)
Write ==
    /\ up = "up"
    /\ writes < MaxWrites
    /\ \E n \in BatchSizes :
         LET new == (nextSeq + 1)..(nextSeq + n)
             mt == [active EXCEPT !.ents = @ \cup new]
             w == [wals EXCEPT ![active.id] = Append(@, new)]
         IN  /\ nextSeq' = nextSeq + n
             /\ acked' = acked \cup new
             /\ IF Cardinality(mt.ents) >= MemtableSize
                THEN Rotate(mt, w)
                ELSE /\ active' = mt /\ wals' = w
                     /\ UNCHANGED <<immutables, nextMemID, flushCh>>
    /\ writes' = writes + 1
    /\ UNCHANGED <<ssts, manifest, up, l0, l1, compactCh, flushVars, compactVars,
                   crashes, faults, scarred, sound>>

(* The append fails half way: the caller gets the error and the same WAL   *)
(* stays in use.                                                           *)
WriteFails ==
    /\ up = "up"
    /\ writes < MaxWrites /\ faults < MaxFaults
    /\ wals' = [wals EXCEPT ![active.id] = Append(@, TornRecord)]
    /\ nextSeq' = nextSeq + 1
    /\ writes' = writes + 1 /\ faults' = faults + 1
    /\ scarred' = TRUE
    /\ UNCHANGED <<ssts, manifest, up, active, immutables, l0, l1, nextMemID, bgVars,
                   crashes, acked, sound>>

-----------------------------------------------------------------------------
(* The flush goroutine.                                                    *)

Running == up \in {"up", "closing"}

FlushWakeup ==
    /\ Running /\ fpc = "idle"
    /\ flushCh \/ (up = "closing" /\ immutables # <<>>)
    /\ flushCh' = FALSE
    /\ fpc' = "loop"
    /\ UNCHANGED <<diskVars, up, memVars, compactCh, fmt, compactVars, boundVars>>

(* The oldest immutable memtable goes to a table file of the same ID,      *)
(* written aside, synced and renamed.  Finish refuses an empty table.      *)
Oldest == immutables[Len(immutables)]
BuildWith(files, logs) ==
    /\ Running /\ fpc = "loop"
    /\ IF immutables = <<>> \/ Oldest.ents = {}
       THEN /\ fpc' = "idle"
            /\ UNCHANGED <<ssts, wals, fmt>>
       ELSE /\ fmt' = Oldest
            /\ ssts' = files
            /\ wals' = logs
            /\ fpc' = "built"
    /\ UNCHANGED <<manifest, up, memVars, flushCh, compactCh, compactVars, boundVars>>

TableBuilt == Put(ssts, Oldest.id, Oldest.ents)
FlushBuildUnsynced == BuildWith(ssts, wals)
FlushBuild == BuildWith(TableBuilt, wals)

FlushAdd ==
    /\ Running /\ fpc = "built"
    /\ manifest' = Append(manifest, Add(fmt.id, 0))
    /\ fpc' = "added"
    /\ UNCHANGED <<wals, ssts, up, memVars, flushCh, compactCh, fmt, compactVars, boundVars>>

FlushRecordIDs ==
    /\ Running /\ fpc = "added"
    /\ manifest' = Append(manifest, NextIDs(nextMemID, nextSeq))
    /\ fpc' = "recorded"
    /\ UNCHANGED <<wals, ssts, up, memVars, flushCh, compactCh, fmt, compactVars, boundVars>>

FlushInstall ==
    /\ Running /\ fpc = "recorded"
    /\ l0' = <<fmt>> \o l0
    /\ immutables' = SubSeq(immutables, 1, Len(immutables) - 1)
    /\ fpc' = "installed"
    /\ UNCHANGED <<diskVars, up, active, l1, nextSeq, nextMemID, flushCh, compactCh, fmt,
                   compactVars, boundVars>>

(* wal.RemoveByID, then triggerCompaction.                                 *)
FlushRemoveWAL ==
    /\ Running /\ fpc = "installed"
    /\ wals' = Drop(wals, {fmt.id})
    /\ compactCh' = TRUE
    /\ fpc' = "loop"
    /\ UNCHANGED <<ssts, manifest, up, memVars, flushCh, fmt, compactVars, boundVars>>

-----------------------------------------------------------------------------
(* The compaction goroutine.                                               *)

CompactWakeup ==
    /\ Compacting /\ Running /\ cpc = "idle" /\ compactCh
    /\ compactCh' = FALSE
    /\ cpc' = "loop"
    /\ UNCHANGED <<diskVars, up, memVars, flushCh, flushVars, cin, cleft, cout, boundVars>>

(* Two inputs hold the same version: the builder refuses the second one.   *)
Collide(inputs) ==
    \E i, j \in DOMAIN inputs : i # j /\ inputs[i].ents \cap inputs[j].ents # {}

(* PickCompaction and Execute: all of L0 and what it overlaps in the level *)
(* below are merged into one new file under the next ID.                   *)
CompactExecute ==
    /\ Running /\ cpc = "loop"
    /\ IF Len(l0) < L0CompactionTrigger
       THEN /\ cpc' = "idle"
            /\ UNCHANGED <<ssts, nextMemID, cin, cleft, cout>>
       ELSE LET inputs == l0 \o l1
                id == nextMemID + 1
                ents == UNION {h.ents : h \in Elements(inputs)}
            IN  /\ nextMemID' = id
                /\ IF Collide(inputs)
                   THEN /\ cpc' = "idle"
                        /\ UNCHANGED <<ssts, cin, cleft, cout>>
                   ELSE /\ ssts' = Put(ssts, id, ents)
                        /\ cin' = inputs /\ cleft' = inputs
                        /\ cout' = [id |-> id, ents |-> ents]
                        /\ cpc' = "executed"
    /\ UNCHANGED <<wals, manifest, up, active, immutables, l0, l1, nextSeq, flushCh, compactCh,
                   flushVars, boundVars>>

(* applyCompactionResult, one manifest record at a time.                   *)
CompactAdd ==
    /\ Running /\ cpc = "executed"
    /\ manifest' = Append(manifest, Add(cout.id, 1))
    /\ cpc' = "removing"
    /\ UNCHANGED <<wals, ssts, up, memVars, flushCh, compactCh, flushVars, cin, cleft, cout,
                   boundVars>>

CompactRemove ==
    /\ Running /\ cpc = "removing" /\ cleft # <<>>
    /\ manifest' = Append(manifest, Remove(Head(cleft).id))
    /\ cleft' = Tail(cleft)
    /\ UNCHANGED <<wals, ssts, up, memVars, flushCh, compactCh, flushVars, cpc, cin, cout,
                   boundVars>>

CompactRecordIDs ==
    /\ Running /\ cpc = "removing" /\ cleft = <<>>
    /\ manifest' = Append(manifest, NextIDs(nextMemID, nextSeq))
    /\ cpc' = "recorded"
    /\ UNCHANGED <<wals, ssts, up, memVars, flushCh, compactCh, flushVars, cin, cleft, cout,
                   boundVars>>

(* The in-memory swap: handles whose ID is that of an input leave.         *)
CompactSwap ==
    /\ Running /\ cpc = "recorded"
    /\ l0' = SelectSeq(l0, LAMBDA h : h.id \notin IdsOf(cin))
    /\ l1' = SortByFirstKey({h \in Elements(l1) : h.id \notin IdsOf(cin)} \cup {cout})
    /\ cpc' = "swapped"
    /\ UNCHANGED <<diskVars, up, active, immutables, nextSeq, nextMemID, flushCh, compactCh,
                   flushVars, cin, cleft, cout, boundVars>>

(* MarkObsolete and Unref delete the input files, found by ID.             *)
CompactDelete ==
    /\ Running /\ cpc = "swapped"
    /\ ssts' = Drop(ssts, IdsOf(cin))
    /\ cpc' = "loop"
    /\ UNCHANGED <<wals, manifest, up, memVars, flushCh, compactCh, flushVars, cin, cleft, cout,
                   boundVars>>

-----------------------------------------------------------------------------
(* Close and crash.                                                        *)

(* Nothing of the process is left; a crash is a restart like any other.    *)
Stop ==
    /\ up' = "down"
    /\ active' = NoTable /\ immutables' = <<>> /\ l0' = <<>> /\ l1' = <<>>
    /\ nextSeq' = 0 /\ nextMemID' = 0
    /\ flushCh' = FALSE /\ compactCh' = FALSE
    /\ fpc' = "idle" /\ fmt' = NoTable
    /\ cpc' = "idle" /\ cin' = <<>> /\ cleft' = <<>> /\ cout' = NoTable
    /\ crashes' = crashes + 1
    /\ sound' = (sound /\ ~scarred /\ cpc # "removing")
    /\ UNCHANGED <<writes, faults, acked>>

CloseBegin ==
    /\ up = "up" /\ crashes < MaxCrashes
    /\ up' = "closing"
    /\ UNCHANGED <<diskVars, memVars, bgVars, boundVars>>

(* Both goroutines are done; the counters go to the manifest.              *)
CloseEnd ==
    /\ up = "closing" /\ crashes < MaxCrashes
    /\ fpc = "idle" /\ immutables = <<>> /\ cpc = "idle"
    /\ manifest' = Append(manifest, NextIDs(nextMemID, nextSeq))
    /\ UNCHANGED <<wals, ssts, scarred>>
    /\ Stop

(* A crash.  A write in flight may have reached the WAL without having     *)
(* been acknowledged, or in part; so may the manifest record being written.*)
Crash ==
    /\ Running /\ crashes < MaxCrashes
    /\ \/ UNCHANGED <<wals, manifest, scarred>>
       \/ /\ up = "up"
          /\ wals' = [wals EXCEPT ![active.id] = Append(@, {nextSeq + 1})]
          /\ UNCHANGED <<manifest, scarred>>
       \/ /\ Torn /\ up = "up"
          /\ wals' = [wals EXCEPT ![active.id] = Append(@, TornRecord)]
          /\ scarred' = TRUE
          /\ UNCHANGED manifest
       \/ /\ Torn
          /\ fpc \in {"built", "added"} \/ cpc \in {"executed", "removing"}
          /\ manifest' = Append(manifest, TornManifest)
          /\ scarred' = TRUE
          /\ UNCHANGED wals
    /\ ssts' = ssts
    /\ Stop

Next ==
    \/ Open \/ Write \/ WriteFails
    \/ FlushWakeup \/ FlushBuild \/ FlushAdd \/ FlushRecordIDs \/ FlushInstall \/ FlushRemoveWAL
    \/ CompactWakeup \/ CompactExecute \/ CompactAdd \/ CompactRemove \/ CompactRecordIDs
    \/ CompactSwap \/ CompactDelete
    \/ CloseBegin \/ CloseEnd \/ Crash

Spec == Init /\ [][Next]_vars

-----------------------------------------------------------------------------
(* Properties.                                                             *)

(* What a read searches, in order.                                         *)
SearchOrder == <<active>> \o immutables \o l0 \o l1
Readable == UNION {t.ents : t \in Elements(SearchOrder)}

Tables == [id : Nat, ents : SUBSET Nat]

(* The state has its type; an open engine has an active memtable whose WAL *)
(* file exists, and its ID was handed out (db.Open, newMemtable).          *)
TypeOK ==
    /\ up \in {"up", "closing", "down", "failed"}
    /\ \A t \in Elements(SearchOrder) : t \in Tables
    /\ DOMAIN wals \cup DOMAIN ssts \subseteq Nat \ {0}
    /\ acked \subseteq Nat
    /\ Running => active.id \in DOMAIN wals /\ active.id \in 1..nextMemID

(* A write that returned nil can be read in every later run of the engine, *)
(* wherever write, flush, compaction or recovery were cut short.           *)
AckedSurvive == Running => acked \subseteq Readable


(* Open never meets a table of the manifest whose file is missing: files   *)
(* are renamed before AddSSTable and deleted after RemoveSSTable.          *)
OpenSucceeds == sound => up # "failed"

(* After recovery the search order still yields, at every snapshot, the    *)
(* newest version: getAt returns the first hit.                            *)
FirstHitIsNewest ==
    Running /\ sound => \A s \in 1..nextSeq :
        LET hits == {i \in DOMAIN SearchOrder : \E e \in SearchOrder[i].ents : e <= s}
        IN  hits # {} =>
              LET first == SearchOrder[CHOOSE i \in hits : \A j \in hits : i <= j]
              IN  \A e \in Readable : e <= s => \E f \in first.ents : e <= f /\ f <= s

(* The sequence counter of a recovered engine is not behind any version    *)
(* it can read, so that the next write is newer than all of them.          *)
SeqsFresh == Running /\ sound => \A e \in Readable : e <= nextSeq

=============================================================================
