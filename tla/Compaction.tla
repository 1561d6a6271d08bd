----------------------------- MODULE Compaction -----------------------------
(***************************************************************************)
(* Leveled compaction (package compaction, db/compact.go, and the handles  *)
(* of sstable/refcount.go): flushes add tables to L0, the compaction       *)
(* goroutine picks a task, merges its inputs into new tables and swaps     *)
(* them in, old tables are deleted when their last reference is dropped.   *)
(*                                                                         *)
(* Keys are numbers in the order of user keys; an entry is a version of a  *)
(* key, and entries are ordered by key, then newest first (InternalKey     *)
(* shows when bytes.Compare is that order).  The size of a table is its    *)
(* number of entries.  getAt copies the pointers to all tables under one   *)
(* read lock, so what it finds is a function of one state.                 *)
(***************************************************************************)
EXTENDS Integers, Sequences, FiniteSets

CONSTANTS
    Keys,                 \* user keys, a set of numbers
    L0CompactionTrigger,  \* Config.L0CompactionTrigger
    LevelSizeBase,        \* Config.LevelSizeBase, in entries
    LevelSizeMultiplier,  \* Config.LevelSizeMultiplier
    MaxLevels,            \* Config.MaxLevels, L0 included
    TargetFileSize,       \* entries at which the executor starts a new table
    Memtables,            \* what a memtable may hold: the keys of its versions
    MaxFlushes,           \* bound: memtables flushed
    MaxFaults             \* bound: compactions that fail

Levels == 1..MaxLevels - 1
Entry == [key : Keys, seq : Nat]

ASSUME ConfigAssumption ==
    /\ Keys \subseteq Nat
    /\ L0CompactionTrigger \in Nat \ {0} /\ LevelSizeBase \in Nat
    /\ LevelSizeMultiplier \in Nat \ {0} /\ MaxLevels \in Nat \ {0, 1}
    /\ TargetFileSize \in Nat \ {0}
    /\ Memtables \subseteq Seq(Keys) \ {<< >>}

VARIABLES
    l0,         \* IDs of db.l0, newest first
    levels,     \* IDs of db.levels[1..], each sorted by first key
    ents,       \* entries of every table ever built, by ID: ascending sequences
    refs,       \* reference count of each table's handle
    obsolete,   \* handles marked obsolete
    files,      \* IDs of the tables whose file exists
    nextSeq,    \* db.nextSeq
    compactCh,  \* db.compactCh holds its one token
    cpc,        \* where the compaction goroutine is
    task,       \* its task
    out,        \* the tables it has written
    flushes, faults,
    log         \* ghost: every entry ever flushed

vars == <<l0, levels, ents, refs, obsolete, files, nextSeq, compactCh, cpc, task,
          out, flushes, faults, log>>

NoTask == [from |-> 0, to |-> 0, inputs |-> << >>, overlapping |-> << >>]

-----------------------------------------------------------------------------
(* Entries and tables.                                                     *)

Precedes(e, f) == e.key < f.key \/ (e.key = f.key /\ e.seq > f.seq)

(* The entries of S in ascending order: what a memtable's or a merge       *)
(* iterator yields.                                                        *)
Ordered(S) ==
    [i \in 1..Cardinality(S) |->
        CHOOSE e \in S : Cardinality({f \in S : Precedes(f, e)}) = i - 1]

ElementsOf(s) == {s[i] : i \in DOMAIN s}
FirstKey(id) == ents[id][1]
LastKey(id) == ents[id][Len(ents[id])]

-----------------------------------------------------------------------------
(* The picker.                                                             *)

LevelSize(level) ==
    LET total[i \in 0..Len(levels[level])] ==
            IF i = 0 THEN 0 ELSE total[i - 1] + Len(ents[levels[level][i]])
    IN  total[Len(levels[level])]

LevelTarget(level) == LevelSizeBase * LevelSizeMultiplier ^ (level - 1)

Overloaded == {level \in Levels \ {MaxLevels - 1} : LevelSize(level) > LevelTarget(level)}

(* Mutant: ranges that only touch are taken to be disjoint.                *)
FindOverlappingStrict(level, min, max) ==
    SelectSeq(levels[level], LAMBDA id : FirstKey(id).key < max /\ LastKey(id).key > min)

(* findOverlapping: ranges are compared by user key.                       *)
FindOverlapping(level, min, max) ==
    SelectSeq(levels[level], LAMBDA id : FirstKey(id).key <= max /\ LastKey(id).key >= min)

Minimum(S) == CHOOSE x \in S : \A y \in S : x <= y
Maximum(S) == CHOOSE x \in S : \A y \in S : x >= y

(* Inputs from a level and the tables of the next level they overlap.      *)
TaskFor(from, inputs) ==
    LET ids == ElementsOf(inputs)
        min == Minimum({FirstKey(id).key : id \in ids})
        max == Maximum({LastKey(id).key : id \in ids})
    IN  [from |-> from, to |-> from + 1, inputs |-> inputs,
         overlapping |-> FindOverlapping(from + 1, min, max)]

(* Mutant: only the newest L0 table is compacted.                          *)
PickNewestL0 ==
    IF Len(l0) >= L0CompactionTrigger THEN TaskFor(0, <<l0[1]>>)
    ELSE IF Overloaded # {}
         THEN LET level == Minimum(Overloaded) IN TaskFor(level, <<levels[level][1]>>)
         ELSE NoTask

(* PickCompaction: all of L0, else the first table of the first level that *)
(* is over its target.                                                     *)
PickCompaction ==
    IF Len(l0) >= L0CompactionTrigger THEN TaskFor(0, l0)
    ELSE IF Overloaded # {}
         THEN LET level == Minimum(Overloaded) IN TaskFor(level, <<levels[level][1]>>)
         ELSE NoTask

AllInputs(t) == ElementsOf(t.inputs) \cup ElementsOf(t.overlapping)

-----------------------------------------------------------------------------

Init ==
    /\ l0 = << >> /\ levels = [i \in Levels |-> << >>]
    /\ ents = << >> /\ refs = << >> /\ obsolete = {} /\ files = {}
    /\ nextSeq = 0 /\ compactCh = FALSE
    /\ cpc = "idle" /\ task = NoTask /\ out = << >>
    /\ flushes = 0 /\ faults = 0 /\ log = {}

(* A memtable, with newer versions than any table, becomes an L0 table;    *)
(* flushMemtable ends with triggerCompaction.                              *)
Flush(keys) ==
    /\ flushes < MaxFlushes
    /\ flushes' = flushes + 1
    /\ LET mem == {[key |-> keys[i], seq |-> nextSeq + i] : i \in DOMAIN keys}
           id == Len(ents) + 1
       IN  /\ ents' = Append(ents, Ordered(mem))
           /\ refs' = Append(refs, 1)
           /\ files' = files \cup {id}
           /\ l0' = <<id>> \o l0
           /\ log' = log \cup mem
    /\ nextSeq' = nextSeq + Len(keys)
    /\ compactCh' = TRUE
    /\ UNCHANGED <<levels, obsolete, cpc, task, out, faults>>

CompactWakeup ==
    /\ cpc = "idle" /\ compactCh
    /\ compactCh' = FALSE
    /\ cpc' = "pick"
    /\ UNCHANGED <<l0, levels, ents, refs, obsolete, files, nextSeq, task, out,
                   flushes, faults, log>>

(* Mutant: the inputs are not referenced while they are merged.            *)
PickWithoutRef ==
    /\ cpc = "pick"
    /\ task' = PickCompaction
    /\ cpc' = IF task' = NoTask THEN "idle" ELSE "execute"
    /\ UNCHANGED <<l0, levels, ents, refs, obsolete, files, nextSeq, compactCh, out,
                   flushes, faults, log>>

(* buildLevelState under db.mu.RLock, PickCompaction, Ref on every input.  *)
Pick ==
    /\ cpc = "pick"
    /\ task' = PickCompaction
    /\ \/ task' = NoTask /\ cpc' = "idle" /\ UNCHANGED refs
       \/ /\ task' # NoTask
          /\ cpc' = "execute"
          /\ refs' = [id \in DOMAIN refs |->
                         IF id \in AllInputs(task') THEN refs[id] + 1 ELSE refs[id]]
    /\ UNCHANGED <<l0, levels, ents, obsolete, files, nextSeq, compactCh, out,
                   flushes, faults, log>>

(* What Unref leaves of a handle: the file goes with the last reference.   *)
Unref(S) ==
    /\ refs' = [id \in DOMAIN refs |-> IF id \in S THEN refs[id] - 1 ELSE refs[id]]
    /\ files' = files \ {id \in S : refs[id] = 1 /\ id \in obsolete'}

(* The merged entries, cut into tables at TargetFileSize.                  *)
Split(s) ==
    LET count == (Len(s) + TargetFileSize - 1) \div TargetFileSize
        upTo(i) == IF i * TargetFileSize < Len(s) THEN i * TargetFileSize ELSE Len(s)
    IN  [i \in 1..count |-> SubSeq(s, (i - 1) * TargetFileSize + 1, upTo(i))]

Merged == Ordered(UNION {ElementsOf(ents[id]) : id \in AllInputs(task)})

(* The first n output tables are on disk, the inputs' references dropped.  *)
Written(n) ==
    /\ ents' = ents \o SubSeq(Split(Merged), 1, n)
    /\ files' = files \cup (DOMAIN ents' \ DOMAIN ents)
    /\ refs' = [id \in DOMAIN ents' |->
                   IF id \notin DOMAIN refs THEN 1
                   ELSE IF id \in AllInputs(task) THEN refs[id] - 1 ELSE refs[id]]

(* Execute: merge the inputs into new tables, all entries kept.            *)
Execute ==
    /\ cpc = "execute"
    /\ LET n == Len(Split(Merged)) IN
          /\ Written(n)
          /\ out' = [i \in 1..n |-> Len(ents) + i]
    /\ cpc' = "apply"
    /\ UNCHANGED <<l0, levels, obsolete, nextSeq, compactCh, task, flushes, faults, log>>

(* A read or a write fails: the task is dropped and not tried again before *)
(* the next flush; the tables finished by then stay on disk.               *)
ExecuteFail ==
    /\ cpc = "execute"
    /\ faults < MaxFaults
    /\ faults' = faults + 1
    /\ \E n \in 0..Len(Split(Merged)) - 1 : Written(n)
    /\ task' = NoTask
    /\ cpc' = "idle"
    /\ UNCHANGED <<l0, levels, obsolete, nextSeq, compactCh, out, flushes, log>>

Without(ids, S) == SelectSeq(ids, LAMBDA id : id \notin S)

(* sortHandlesByFirstKey                                                   *)
SortByFirstKey(ids) ==
    LET S == ElementsOf(ids) IN
    [i \in DOMAIN ids |-> CHOOSE id \in S :
        Cardinality({x \in S : Precedes(FirstKey(x), FirstKey(id))}) = i - 1]


(* applyCompactionResult: the swap under db.mu.  Tables flushed since the  *)
(* pick stay in L0.                                                        *)
Apply ==
    /\ cpc = "apply"
    /\ l0' = Without(l0, AllInputs(task))
    /\ levels' = [i \in Levels |->
          IF i = task.to
          THEN SortByFirstKey(Without(levels[i], AllInputs(task)) \o out)
          ELSE Without(levels[i], AllInputs(task))]
    /\ cpc' = "release"
    /\ UNCHANGED <<ents, refs, obsolete, files, nextSeq, compactCh, task, out,
                   flushes, faults, log>>

(* A manifest append fails: the new tables stay on disk without an owner.  *)
ApplyFail ==
    /\ cpc = "apply"
    /\ faults < MaxFaults
    /\ faults' = faults + 1
    /\ task' = NoTask /\ out' = << >>
    /\ cpc' = "idle"
    /\ UNCHANGED <<l0, levels, ents, refs, obsolete, files, nextSeq, compactCh,
                   flushes, log>>

(* Mutant: the inputs are marked, the database's reference is kept.        *)
ReleaseWithoutUnref ==
    /\ cpc = "release"
    /\ obsolete' = obsolete \cup AllInputs(task)
    /\ UNCHANGED <<refs, files>>
    /\ task' = NoTask /\ out' = << >>
    /\ cpc' = "pick"
    /\ UNCHANGED <<l0, levels, ents, nextSeq, compactCh, flushes, faults, log>>

(* Mutants: the outputs are released instead of the inputs; one compaction *)
(* is run per signal.                                                      *)
ReleaseThen(S, next) ==
    /\ cpc = "release"
    /\ obsolete' = obsolete \cup S
    /\ Unref(S)
    /\ task' = NoTask /\ out' = << >>
    /\ cpc' = next
    /\ UNCHANGED <<l0, levels, ents, nextSeq, compactCh, flushes, faults, log>>

ReleaseOutputs == ReleaseThen(ElementsOf(out), "pick")
ReleaseOnce == ReleaseThen(AllInputs(task), "idle")

(* MarkObsolete and Unref on every input; runCompaction loops.             *)
Release ==
    /\ cpc = "release"
    /\ obsolete' = obsolete \cup AllInputs(task)
    /\ Unref(AllInputs(task))
    /\ task' = NoTask /\ out' = << >>
    /\ cpc' = "pick"
    /\ UNCHANGED <<l0, levels, ents, nextSeq, compactCh, flushes, faults, log>>

CompactStep == CompactWakeup \/ Pick \/ Execute \/ Apply \/ Release

Quiescent == flushes = MaxFlushes /\ cpc = "idle" /\ ~compactCh /\ UNCHANGED vars

Next ==
    \/ \E keys \in Memtables : Flush(keys)
    \/ CompactStep
    \/ ExecuteFail
    \/ ApplyFail
    \/ Quiescent

Spec == Init /\ [][Next]_vars

(* The compaction goroutine runs whenever it can.                          *)
FairSpec == Spec /\ WF_vars(CompactStep)

-----------------------------------------------------------------------------
(* Properties.                                                             *)

(* The shape of the LSM state.                                             *)
TypeOK ==
    /\ \A id \in DOMAIN ents : ents[id] # << >> /\ ElementsOf(ents[id]) \subseteq Entry
    /\ l0 \in Seq(DOMAIN ents)
    /\ levels \in [Levels -> Seq(DOMAIN ents)]
    /\ refs \in [DOMAIN ents -> Nat]
    /\ obsolete \subseteq DOMAIN ents /\ files \subseteq DOMAIN ents
    /\ cpc \in {"idle", "pick", "execute", "apply", "release"}
    /\ out \in Seq(DOMAIN ents)

Live == ElementsOf(l0) \cup UNION {ElementsOf(levels[i]) : i \in Levels}

(* Within a level above L0 the tables are sorted and no entry of one lies  *)
(* inside the range of another, whatever was flushed during a compaction.  *)
LevelsDisjoint ==
    \A level \in Levels : \A i, j \in DOMAIN levels[level] :
        i < j => Precedes(LastKey(levels[level][i]), FirstKey(levels[level][j]))


(* The tables in the order getAt searches them.                            *)
SearchOrder ==
    LET upTo[i \in 0..MaxLevels - 1] == IF i = 0 THEN l0 ELSE upTo[i - 1] \o levels[i]
    IN  upTo[MaxLevels - 1]

(* The first table with a visible version of a key holds the newest one,   *)
(* for every sequence number a snapshot may have: compaction never moves a *)
(* newer version below an older one.                                       *)
GetFindsNewest ==
    \A i, j \in DOMAIN SearchOrder : i < j =>
        \A e \in ElementsOf(ents[SearchOrder[i]]), f \in ElementsOf(ents[SearchOrder[j]]) :
            e.key = f.key => e.seq > f.seq

(* The file of every table that is searched or is being compacted exists.  *)
FilesPresent == Live \cup AllInputs(task) \subseteq files

(* Without failures, when the compaction goroutine rests the directory     *)
(* holds the live tables and nothing else.                                 *)
NoOrphans == cpc = "idle" /\ faults = 0 => files = Live

(* When compaction rests, a level above L0 holds one version of each key   *)
(* (the README's account of space amplification; no snapshot is open here).*)
OneLiveVersion ==
    cpc = "idle" => \A level \in Levels :
        LET all == UNION {ElementsOf(ents[id]) : id \in ElementsOf(levels[level])}
        IN  \A e, f \in all : e.key = f.key => e = f

(* A flush signal leads to a store within its limits: L0 below the trigger *)
(* and every level within its target.                                      *)
CompactionSettles ==
    compactCh ~> (cpc = "idle" /\ Len(l0) < L0CompactionTrigger /\ Overloaded = {})

=============================================================================
