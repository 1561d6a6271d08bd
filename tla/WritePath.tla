----------------------------- MODULE WritePath -----------------------------
(***************************************************************************)
(* The in-memory half of the storage engine's write path (package db):     *)
(* Put, Delete, WriteBatch.Commit and Transaction.Commit under db.mu,      *)
(* backpressure on the number of immutable memtables, rotation of the      *)
(* active memtable, the flush goroutine and Close.                         *)
(*                                                                         *)
(* Granularity.  db.mu is held from the start of a write to its end,       *)
(* except inside cond.Wait.  The steps of a write are nevertheless kept    *)
(* apart, because nextSeq is an atomic and the active memtable has a lock  *)
(* of its own: readers that do not hold db.mu see the states in between    *)
(* (module ReadPath).                                                      *)
(*                                                                         *)
(* Data.  A version carries its user key, its sequence number and one of   *)
(* three values: "data", "nil" (a Put of a nil slice) and "tomb".  The     *)
(* sequence number identifies the write, so no payload is kept.            *)
(***************************************************************************)
EXTENDS Integers, Sequences, FiniteSets

CONSTANTS
    Keys,               \* user keys
    Writers,            \* goroutines that write
    Batches,            \* the op sequences a write call may carry
    MemtableSize,       \* entries at which the active memtable rotates
    MaxImmutableCount,  \* Options.MaxImmutableCount
    MaxCalls,           \* bound: write calls and transactions begun
    MaxFaults,          \* bound: I/O errors (WAL append, WAL create, flush)
    Recovered,          \* immutable memtables db.recover rebuilt from WALs
    CanClose            \* whether DB.Close is called

Vals == {"data", "nil", "tomb"}
Ops == [key : Keys, val : Vals]
Version == [key : Keys, seq : Nat, val : Vals]

Free == "free"
NoSnap == -1

ASSUME BatchesAssumption ==
    /\ Batches \subseteq Seq(Ops)
    /\ \A b \in Batches : b # << >>

ASSUME SizesAssumption ==
    /\ MemtableSize \in Nat \ {0}
    /\ MaxImmutableCount \in Nat \ {0}
    /\ MaxCalls \in Nat
    /\ MaxFaults \in Nat
    /\ Recovered \in Nat
    /\ CanClose \in BOOLEAN

ASSUME NamesAssumption == Free \notin Writers /\ Keys # {}

VARIABLES
    mu,          \* the writer that holds db.mu, or Free
    pc,          \* where each writer is
    ops,         \* the operations of its current call
    snap,        \* the snapshot seq of its open transaction, or NoSnap
    base,        \* first sequence number of its current call
    ins,         \* how many of its operations are in the memtable
    data,        \* contents of every memtable ever created, by ID
    active,      \* ID of db.active
    immutables,  \* IDs of db.immutables, newest first
    l0,          \* IDs of db.l0, newest first
    nextSeq,     \* db.nextSeq
    nextMemID,   \* db.nextMemID
    walOpen,     \* db.activeWAL accepts writes
    flushCh,     \* db.flushCh holds its one token
    flushPC,     \* where the flush goroutine is
    flushing,    \* the memtable it is flushing
    closePC,     \* progress of DB.Close
    calls,       \* write calls and transactions begun so far
    faults,      \* I/O errors injected so far
    log          \* ghost: every version ever inserted into a memtable

writerVars == <<mu, pc, ops, snap, base, ins>>
storeVars == <<data, active, immutables, l0, nextSeq, nextMemID, walOpen, log>>
flushVars == <<flushCh, flushPC, flushing>>
boundVars == <<calls, faults>>
vars == <<writerVars, storeVars, flushVars, closePC, boundVars>>

-----------------------------------------------------------------------------

(* What flushMemtable makes of an entry: the iterator yields a nil slice   *)
(* both for a tombstone and for a nil value, and nil becomes a tombstone.  *)
Flushed(v) == IF v.val = "nil" THEN [v EXCEPT !.val = "tomb"] ELSE v

(* Contents of the SSTable built from memtable id.                         *)
TableOf(id) == {Flushed(v) : v \in data[id]}

Memtables == {active} \cup {immutables[i] : i \in DOMAIN immutables}

(* Mutant: the conflict check looks at the active memtable only.           *)
ConflictsActiveOnly(b, s) ==
    \E i \in DOMAIN b : \E v \in data[active] : v.key = b[i].key /\ v.seq > s

(* One version of key is newer than a transaction's snapshot.              *)
Conflicts(b, s) ==
    \E i \in DOMAIN b : \E id \in Memtables : \E v \in data[id] :
        v.key = b[i].key /\ v.seq > s

DistinctKeys(b) == \A i, j \in DOMAIN b : b[i].key = b[j].key => i = j

(* What Open leaves: one memtable per recovered WAL, the last one active.  *)
RecoveredVersion(i) ==
    [key |-> CHOOSE k \in Keys : TRUE, seq |-> i, val |-> "data"]

Init ==
    /\ mu = Free
    /\ pc = [w \in Writers |-> "idle"]
    /\ ops = [w \in Writers |-> << >>]
    /\ snap = [w \in Writers |-> NoSnap]
    /\ base = [w \in Writers |-> 0]
    /\ ins = [w \in Writers |-> 0]
    /\ data = [i \in 1..Recovered + 1 |->
                  IF i <= Recovered THEN {RecoveredVersion(i)} ELSE {}]
    /\ active = Recovered + 1
    /\ immutables = [i \in 1..Recovered |-> Recovered + 1 - i]
    /\ l0 = << >>
    /\ nextSeq = Recovered
    /\ nextMemID = Recovered + 1
    /\ walOpen = TRUE
    /\ flushCh = FALSE
    /\ flushPC = "idle"
    /\ flushing = 0
    /\ closePC = "open"
    /\ calls = 0
    /\ faults = 0
    /\ log = {RecoveredVersion(i) : i \in 1..Recovered}

-----------------------------------------------------------------------------
(* Writers.                                                                *)

(* Put, Delete and WriteBatch.Commit take db.mu.                           *)
Acquire(w, b) ==
    /\ pc[w] = "idle" /\ snap[w] = NoSnap
    /\ mu = Free
    /\ calls < MaxCalls
    /\ mu' = w
    /\ pc' = [pc EXCEPT ![w] = "space"]
    /\ ops' = [ops EXCEPT ![w] = b]
    /\ calls' = calls + 1
    /\ UNCHANGED <<snap, base, ins, storeVars, flushVars, closePC, faults>>

(* BeginTransaction reads nextSeq without db.mu.                           *)
BeginTransaction(w) ==
    /\ pc[w] = "idle" /\ snap[w] = NoSnap
    /\ calls < MaxCalls
    /\ snap' = [snap EXCEPT ![w] = nextSeq]
    /\ calls' = calls + 1
    /\ UNCHANGED <<mu, pc, ops, base, ins, storeVars, flushVars, closePC, faults>>

Rollback(w) ==
    /\ pc[w] = "idle" /\ snap[w] # NoSnap
    /\ snap' = [snap EXCEPT ![w] = NoSnap]
    /\ UNCHANGED <<mu, pc, ops, base, ins, storeVars, flushVars, closePC, boundVars>>

(* Transaction.Commit: the conflict check runs once, under db.mu, before   *)
(* applyBatchLocked may wait for space.  The write set has one op per key. *)
Commit(w, b) ==
    /\ pc[w] = "idle" /\ snap[w] # NoSnap
    /\ mu = Free
    /\ DistinctKeys(b)
    /\ \/ /\ Conflicts(b, snap[w])
          /\ snap' = [snap EXCEPT ![w] = NoSnap]
          /\ UNCHANGED <<mu, pc, ops>>
       \/ /\ ~Conflicts(b, snap[w])
          /\ mu' = w
          /\ pc' = [pc EXCEPT ![w] = "space"]
          /\ ops' = [ops EXCEPT ![w] = b]
          /\ UNCHANGED snap
    /\ UNCHANGED <<base, ins, storeVars, flushVars, closePC, boundVars>>

(* waitForFlushSpace: cond.Wait joins the notify list and releases db.mu.  *)
WaitForSpace(w) ==
    /\ pc[w] = "space"
    /\ Len(immutables) >= MaxImmutableCount
    /\ mu' = Free
    /\ pc' = [pc EXCEPT ![w] = "waiting"]
    /\ UNCHANGED <<ops, snap, base, ins, storeVars, flushVars, closePC, boundVars>>

(* A notified waiter takes db.mu again and re-evaluates the loop condition.*)
Reacquire(w) ==
    /\ pc[w] = "woken"
    /\ mu = Free
    /\ mu' = w
    /\ pc' = [pc EXCEPT ![w] = "space"]
    /\ UNCHANGED <<ops, snap, base, ins, storeVars, flushVars, closePC, boundVars>>

(* The deferred calls: db.mu is released, a transaction's snapshot closed. *)
Finish(w) ==
    /\ mu' = Free
    /\ pc' = [pc EXCEPT ![w] = "idle"]
    /\ ops' = [ops EXCEPT ![w] = << >>]
    /\ snap' = [snap EXCEPT ![w] = NoSnap]

(* Mutants: a batch advances nextSeq by one; the loop condition of         *)
(* waitForFlushSpace is off by one.                                        *)
ReserveWith(w, room, count) ==
    /\ pc[w] = "space"
    /\ room
    /\ walOpen
    /\ nextSeq' = nextSeq + count
    /\ pc' = [pc EXCEPT ![w] = "insert"]
    /\ base' = [base EXCEPT ![w] = nextSeq + 1]
    /\ UNCHANGED <<mu, ops, snap, ins, data, active, immutables, l0, nextMemID,
                   walOpen, log, flushVars, closePC, boundVars>>

ReserveOneSeq(w) == ReserveWith(w, Len(immutables) < MaxImmutableCount, 1)
ReserveOffByOne(w) == ReserveWith(w, Len(immutables) <= MaxImmutableCount, Len(ops[w]))

(* nextSeq.Add and the WAL append.  A failed append returns an error with  *)
(* the sequence numbers used up.                                           *)
Reserve(w) ==
    /\ pc[w] = "space"
    /\ Len(immutables) < MaxImmutableCount
    /\ nextSeq' = nextSeq + Len(ops[w])
    /\ \/ /\ walOpen
          /\ pc' = [pc EXCEPT ![w] = "insert"]
          /\ base' = [base EXCEPT ![w] = nextSeq + 1]
          /\ UNCHANGED <<mu, snap, ops, faults>>
       \/ /\ ~walOpen \/ faults < MaxFaults
          /\ faults' = IF walOpen THEN faults + 1 ELSE faults
          /\ Finish(w)
          /\ UNCHANGED base
    /\ UNCHANGED <<ins, data, active, immutables, l0, nextMemID, walOpen, log,
                   flushVars, closePC, calls>>

(* The i-th version of w's current call.                                   *)
VersionAt(w, i) ==
    [key |-> ops[w][i].key, seq |-> base[w] + i - 1, val |-> ops[w][i].val]

(* One active.Put, under the memtable's own lock.                          *)
Insert(w) ==
    /\ pc[w] = "insert"
    /\ ins[w] < Len(ops[w])
    /\ LET v == VersionAt(w, ins[w] + 1) IN
          /\ data' = [data EXCEPT ![active] = @ \cup {v}]
          /\ log' = log \cup {v}
    /\ ins' = [ins EXCEPT ![w] = @ + 1]
    /\ UNCHANGED <<mu, pc, ops, snap, base, active, immutables, l0, nextSeq,
                   nextMemID, walOpen, flushVars, closePC, boundVars>>

(* Mutants: the frozen memtable becomes the oldest; the new memtable's ID  *)
(* is not recorded in nextMemID.                                           *)
RotateWith(imms, nextID) ==
    /\ immutables' = imms
    /\ nextMemID' = nextID
    /\ data' = [i \in 1..nextMemID + 1 |-> IF i \in DOMAIN data THEN data[i] ELSE {}]
    /\ active' = nextMemID + 1
    /\ walOpen' = TRUE
    /\ flushCh' = TRUE
    /\ UNCHANGED faults

RotateAppends == RotateWith(immutables \o <<active>>, nextMemID + 1)
RotateKeepsID == RotateWith(<<active>> \o immutables, nextMemID)

(* rotateMemtable: the frozen memtable joins immutables before newMemtable *)
(* may fail, and only success signals the flush goroutine.                 *)
RotateMemtable ==
    /\ immutables' = <<active>> \o immutables
    /\ nextMemID' = nextMemID + 1
    /\ data' = [i \in 1..nextMemID + 1 |-> IF i \in DOMAIN data THEN data[i] ELSE {}]
    /\ \/ /\ active' = nextMemID + 1
          /\ walOpen' = TRUE
          /\ flushCh' = TRUE
          /\ UNCHANGED faults
       \/ /\ faults < MaxFaults
          /\ faults' = faults + 1
          /\ walOpen' = FALSE
          /\ UNCHANGED <<active, flushCh>>

(* The end of a write: rotate when the memtable is full, release db.mu.    *)
Return(w) ==
    /\ pc[w] = "insert"
    /\ ins[w] = Len(ops[w])
    /\ \/ /\ Cardinality(data[active]) >= MemtableSize
          /\ RotateMemtable
       \/ /\ Cardinality(data[active]) < MemtableSize
          /\ UNCHANGED <<immutables, nextMemID, data, active, walOpen, flushCh, faults>>
    /\ Finish(w)
    /\ base' = [base EXCEPT ![w] = 0]
    /\ ins' = [ins EXCEPT ![w] = 0]
    /\ UNCHANGED <<l0, nextSeq, log, flushPC, flushing, closePC, calls>>

-----------------------------------------------------------------------------
(* The flush goroutine.                                                    *)

(* flushLoop's select: a token, or closeCh.                                *)
FlushWakeup ==
    /\ flushPC = "idle"
    /\ \/ /\ flushCh
          /\ flushCh' = FALSE
          /\ flushPC' = "pick"
       \/ /\ closePC # "open"
          /\ flushPC' = "lastpick"
          /\ UNCHANGED flushCh
    /\ UNCHANGED <<writerVars, storeVars, flushing, closePC, boundVars>>

(* flushImmutables is called with last = TRUE on the way out.              *)
Last == flushPC \in {"lastpick", "lastwrite", "lastnotify"}
FlushReturn == IF Last THEN "exited" ELSE "idle"

(* The oldest immutable memtable, read under db.mu.RLock.                  *)
FlushPick ==
    /\ flushPC \in {"pick", "lastpick"}
    /\ mu = Free
    /\ \/ /\ immutables = << >>
          /\ flushPC' = FlushReturn
          /\ UNCHANGED flushing
       \/ /\ immutables # << >>
          /\ flushing' = immutables[Len(immutables)]
          /\ flushPC' = IF Last THEN "lastwrite" ELSE "write"
    /\ UNCHANGED <<writerVars, storeVars, flushCh, closePC, boundVars>>

(* Building the table or a manifest append fails: logged, not retried.     *)
FlushFail ==
    /\ flushPC \in {"write", "lastwrite"}
    /\ faults < MaxFaults
    /\ faults' = faults + 1
    /\ flushPC' = FlushReturn
    /\ UNCHANGED <<writerVars, storeVars, flushCh, flushing, closePC, calls>>

(* Mutant: the newest instead of the oldest immutable memtable is dropped. *)
FlushInstallDropsNewest ==
    /\ flushPC \in {"write", "lastwrite"}
    /\ mu = Free
    /\ l0' = <<flushing>> \o l0
    /\ immutables' = Tail(immutables)
    /\ flushPC' = IF Last THEN "lastnotify" ELSE "notify"
    /\ UNCHANGED <<writerVars, data, active, nextSeq, nextMemID, walOpen, log,
                   flushCh, flushing, closePC, boundVars>>

(* The table is on disk and in the manifest; swap it in under db.mu.       *)
FlushInstall ==
    /\ flushPC \in {"write", "lastwrite"}
    /\ mu = Free
    /\ l0' = <<flushing>> \o l0
    /\ immutables' = SubSeq(immutables, 1, Len(immutables) - 1)
    /\ flushPC' = IF Last THEN "lastnotify" ELSE "notify"
    /\ UNCHANGED <<writerVars, data, active, nextSeq, nextMemID, walOpen, log,
                   flushCh, flushing, closePC, boundVars>>

WakeWaiters == pc' = [w \in Writers |-> IF pc[w] = "waiting" THEN "woken" ELSE pc[w]]

(* Mutants: nobody is woken; one memtable is flushed per signal.           *)
FlushNotifyNobody ==
    /\ flushPC \in {"notify", "lastnotify"}
    /\ flushPC' = IF Last THEN "lastpick" ELSE "pick"
    /\ UNCHANGED <<writerVars, storeVars, flushCh, flushing, closePC, boundVars>>

FlushNotifyOnce ==
    /\ flushPC \in {"notify", "lastnotify"}
    /\ WakeWaiters
    /\ flushPC' = FlushReturn
    /\ UNCHANGED <<mu, ops, snap, base, ins, storeVars, flushCh, flushing, closePC, boundVars>>

(* flushDone.Broadcast, after db.mu is released; then the next memtable.   *)
FlushNotify ==
    /\ flushPC \in {"notify", "lastnotify"}
    /\ WakeWaiters
    /\ flushPC' = IF Last THEN "lastpick" ELSE "pick"
    /\ UNCHANGED <<mu, ops, snap, base, ins, storeVars, flushCh, flushing, closePC, boundVars>>

-----------------------------------------------------------------------------
(* DB.Close.                                                               *)

CloseSignal ==
    /\ CanClose /\ closePC = "open"
    /\ closePC' = "signalled"
    /\ UNCHANGED <<writerVars, storeVars, flushVars, boundVars>>

CloseBroadcast ==
    /\ closePC = "signalled"
    /\ WakeWaiters
    /\ closePC' = "draining"
    /\ UNCHANGED <<mu, ops, snap, base, ins, storeVars, flushVars, boundVars>>

(* wg.Wait, then db.mu: the WAL and the table readers are closed.          *)
CloseFinish ==
    /\ closePC = "draining"
    /\ flushPC = "exited"
    /\ mu = Free
    /\ walOpen' = FALSE
    /\ closePC' = "closed"
    /\ UNCHANGED <<writerVars, data, active, immutables, l0, nextSeq, nextMemID,
                   log, flushVars, boundVars>>

-----------------------------------------------------------------------------

WriterStep(w) ==
    \/ WaitForSpace(w) \/ Reacquire(w) \/ Reserve(w) \/ Insert(w) \/ Return(w)

FlushStep == FlushWakeup \/ FlushPick \/ FlushInstall \/ FlushNotify

CloseStep == CloseBroadcast \/ CloseFinish

(* Nothing is left to do: every call made, every goroutine at rest.        *)
Quiescent ==
    /\ calls = MaxCalls
    /\ \A w \in Writers : pc[w] = "idle" /\ snap[w] = NoSnap
    /\ flushPC \in {"idle", "exited"} /\ (flushCh => flushPC = "exited")
    /\ closePC \in {"open", "closed"}
    /\ UNCHANGED vars

Next ==
    \/ \E w \in Writers :
          \/ \E b \in Batches : Acquire(w, b) \/ Commit(w, b)
          \/ BeginTransaction(w)
          \/ Rollback(w)
          \/ WriterStep(w)
    \/ FlushStep
    \/ FlushFail
    \/ CloseSignal
    \/ CloseStep
    \/ Quiescent

Spec == Init /\ [][Next]_vars

(* A goroutine that can run does run; db.mu is a Go RWMutex, which hands   *)
(* itself to blocked writers in turn, and the number of calls is finite.   *)
Fairness ==
    /\ \A w \in Writers : WF_vars(WriterStep(w))
    /\ WF_vars(FlushStep)
    /\ WF_vars(CloseStep)

FairSpec == Spec /\ Fairness

-----------------------------------------------------------------------------
(* Properties.                                                             *)

PCs == {"idle", "space", "waiting", "woken", "insert"}
FlushPCs == {"idle", "pick", "write", "notify", "lastpick", "lastwrite", "lastnotify", "exited"}

(* The shape of the DB struct, the writers and the flush goroutine.        *)
TypeOK ==
    /\ mu \in Writers \cup {Free}
    /\ pc \in [Writers -> PCs]
    /\ ops \in [Writers -> Batches \cup {<< >>}]
    /\ snap \in [Writers -> Nat \cup {NoSnap}]
    /\ base \in [Writers -> Nat]
    /\ ins \in [Writers -> Nat]
    /\ nextMemID \in Nat \ {0}
    /\ data \in [1..nextMemID -> SUBSET Version]
    /\ active \in 1..nextMemID
    /\ immutables \in Seq(1..nextMemID)
    /\ l0 \in Seq(1..nextMemID)
    /\ nextSeq \in Nat
    /\ walOpen \in BOOLEAN
    /\ flushCh \in BOOLEAN
    /\ flushPC \in FlushPCs
    /\ flushing \in 0..nextMemID
    /\ closePC \in {"open", "signalled", "draining", "closed"}
    /\ calls \in Nat
    /\ faults \in Nat
    /\ log \in SUBSET Version

(* The memtables and L0 tables in the order getAt searches them.           *)
SearchOrder == <<active>> \o immutables \o l0

(* Every version in a source that getAt searches earlier is newer than     *)
(* every version in a source it searches later, which is why it may stop   *)
(* at the first hit.  Holds while writers wait, rotate and fail and while  *)
(* the flush goroutine moves memtables to L0.                              *)
NewestFirst ==
    \A i, j \in DOMAIN SearchOrder :
        /\ i < j
        /\ SearchOrder[i] # SearchOrder[j]
        => \A u \in data[SearchOrder[i]], v \in data[SearchOrder[j]] : u.seq > v.seq

(* No version that entered a memtable ever drops out of the sources getAt  *)
(* searches: rotation and flush hand over without a gap.                   *)
NothingLost ==
    \A v \in log : \E i \in DOMAIN SearchOrder : v \in data[SearchOrder[i]]

(* Sequence numbers identify writes: two versions that differ have         *)
(* different numbers, across failed WAL appends and interleaved batches.   *)
UniqueSeqs == \A u, v \in log : u.seq = v.seq => u = v

(* The backlog of unflushed memtables never exceeds MaxImmutableCount,     *)
(* though writers are woken together and each may rotate.                  *)
Backpressure == Len(immutables) <= MaxImmutableCount

(* When a transaction commits, no memtable holds a version of a key it     *)
(* writes that is newer than its snapshot: Commit's promise to return      *)
(* ErrConflict, up to the versions already flushed to SSTables, which it   *)
(* documents as unchecked.                                                 *)
CommitIsolated ==
    \A w \in Writers : pc[w] = "insert" /\ snap[w] # NoSnap =>
        \A i \in DOMAIN ops[w] : \A id \in Memtables : \A v \in data[id] :
            v.key = ops[w][i].key => v.seq <= snap[w] \/ v.seq >= base[w]

(* A writer blocked on backpressure gets its turn and returns.             *)
WaitersReturn == \A w \in Writers : pc[w] = "waiting" ~> pc[w] = "idle"

(* Close wakes the writers blocked on backpressure so that they return.    *)
CloseReleasesWaiters ==
    \A w \in Writers : (closePC # "open" /\ pc[w] = "waiting") ~> pc[w] = "idle"

(* One signal on flushCh is enough to drain the backlog.                   *)
SignalDrains == flushCh ~> immutables = << >>

=============================================================================
