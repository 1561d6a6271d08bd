------------------------------ MODULE ReadPath ------------------------------
(***************************************************************************)
(* The read path of the storage engine over WritePath: DB.Get and          *)
(* Snapshot.Get, DB.Scan, Snapshot.Scan and Transaction.Scan.              *)
(*                                                                         *)
(* A reader takes db.mu only to copy the pointers to the active memtable,  *)
(* the immutables and L0; it loads nextSeq without it, and it searches the *)
(* memtables under their own locks after releasing it.  An open iterator   *)
(* keeps the memtables it covers read-locked, so a writer inside db.mu     *)
(* waits for it in active.Put and active.Freeze.                           *)
(***************************************************************************)
EXTENDS WritePath

CONSTANTS
    Readers,    \* goroutines that call Get
    Scanners,   \* goroutines that call Scan
    ScanKinds   \* which of "db", "snapshot", "tx" they use

ASSUME KindsAssumption == ScanKinds \subseteq {"db", "snapshot", "tx"}

VARIABLES
    rsnap,   \* Gets: the snapshot a reader holds, or NoSnap
    rpc,     \* where the reader is
    rkey,    \* the key it looks up
    rseq,    \* maxSeq of getAt
    rview,   \* the pointers it copied
    rres,    \* the version it found, or NotFound
    spc,     \* Scans: where the scanner is
    skind,   \* what it iterates on
    ssnap,   \* its snapshot, or NoSnap
    sbuf,    \* the keys in its transaction's write buffer
    sview,   \* the pointers it copied, and nextSeq at that time
    srows,   \* the versions under its merge iterator
    sseq     \* maxSeq of its SnapshotIterator

readerVars == <<rsnap, rpc, rkey, rseq, rview, rres>>
scanVars == <<spc, skind, ssnap, sbuf, sview, srows, sseq>>
readVars == <<readerVars, scanVars>>
allVars == <<vars, readVars>>

NotFound == [key |-> CHOOSE k \in Keys : TRUE, seq |-> 0, val |-> "tomb"]
NoView == [active |-> 1, immutables |-> << >>, l0 |-> << >>, at |-> 0]

(* The pointers copied under db.mu.RLock.                                  *)
View == [active |-> active, immutables |-> immutables, l0 |-> l0, at |-> nextSeq]

(* Mutant: the immutable memtables are skipped.                            *)
SourcesWithoutImmutables(view) ==
    <<data[view.active]>> \o [i \in DOMAIN view.l0 |-> TableOf(view.l0[i])]

(* Contents of the sources of a view, in search order.                     *)
Sources(view) ==
    <<data[view.active]>>
    \o [i \in DOMAIN view.immutables |-> data[view.immutables[i]]]
    \o [i \in DOMAIN view.l0 |-> TableOf(view.l0[i])]

Visible(S, k, s) == {v \in S : v.key = k /\ v.seq <= s}

(* GetAt of one memtable or table: its newest version of k up to s.        *)
NewestOf(V) == CHOOSE v \in V : \A u \in V : u.seq <= v.seq

(* Mutant: the search runs from the oldest source to the newest.           *)
LookupOldestFirst(view, k, s) ==
    LET srcs == Sources(view)
        hits == {i \in DOMAIN srcs : Visible(srcs[i], k, s) # {}}
    IN  IF hits = {} THEN NotFound
        ELSE LET last == CHOOSE i \in hits : \A j \in hits : i >= j
             IN  NewestOf(Visible(srcs[last], k, s))

(* getAt: the first source that has a visible version decides.             *)
Lookup(view, k, s) ==
    LET srcs == Sources(view)
        hits == {i \in DOMAIN srcs : Visible(srcs[i], k, s) # {}}
    IN  IF hits = {} THEN NotFound
        ELSE LET first == CHOOSE i \in hits : \A j \in hits : i <= j
             IN  NewestOf(Visible(srcs[first], k, s))

(* SnapshotIterator over a merge: the newest visible version of each key.  *)
NewestPerKey(S, s) == {v \in S : v.seq <= s /\
                          \A u \in Visible(S, v.key, s) : u.seq <= v.seq}

RInit ==
    /\ Init
    /\ rsnap = [r \in Readers |-> NoSnap]
    /\ rpc = [r \in Readers |-> "idle"]
    /\ rkey = [r \in Readers |-> CHOOSE k \in Keys : TRUE]
    /\ rseq = [r \in Readers |-> 0]
    /\ rview = [r \in Readers |-> NoView]
    /\ rres = [r \in Readers |-> NotFound]
    /\ spc = [s \in Scanners |-> "idle"]
    /\ skind = [s \in Scanners |-> "db"]
    /\ ssnap = [s \in Scanners |-> NoSnap]
    /\ sbuf = [s \in Scanners |-> {}]
    /\ sview = [s \in Scanners |-> NoView]
    /\ srows = [s \in Scanners |-> {}]
    /\ sseq = [s \in Scanners |-> 0]

-----------------------------------------------------------------------------
(* Gets.                                                                   *)

GetSnapshot(r) ==
    /\ rpc[r] = "idle" /\ rsnap[r] = NoSnap
    /\ rsnap' = [rsnap EXCEPT ![r] = nextSeq]
    /\ UNCHANGED <<vars, rpc, rkey, rseq, rview, rres, scanVars>>

SnapshotClose(r) ==
    /\ rpc[r] = "idle" /\ rsnap[r] # NoSnap
    /\ rsnap' = [rsnap EXCEPT ![r] = NoSnap]
    /\ UNCHANGED <<vars, rpc, rkey, rseq, rview, rres, scanVars>>

(* Mutants: a Get without a snapshot uses the snapshot's seq; a Get on a   *)
(* snapshot loads nextSeq.                                                 *)
GetLoadSeq(r, k, seq) ==
    /\ rpc[r] = "idle"
    /\ rpc' = [rpc EXCEPT ![r] = "loaded"]
    /\ rkey' = [rkey EXCEPT ![r] = k]
    /\ rseq' = [rseq EXCEPT ![r] = seq]
    /\ UNCHANGED <<vars, rsnap, rview, rres, scanVars>>

GetLoadSnapOnly(r, k) == GetLoadSeq(r, k, rsnap[r])
GetLoadCurrent(r, k) == GetLoadSeq(r, k, nextSeq)

(* Get loads nextSeq; Snapshot.Get uses the snapshot's seq.                *)
GetLoad(r, k) ==
    /\ rpc[r] = "idle"
    /\ rpc' = [rpc EXCEPT ![r] = "loaded"]
    /\ rkey' = [rkey EXCEPT ![r] = k]
    /\ rseq' = [rseq EXCEPT ![r] = IF rsnap[r] = NoSnap THEN nextSeq ELSE rsnap[r]]
    /\ UNCHANGED <<vars, rsnap, rview, rres, scanVars>>

GetCapture(r) ==
    /\ rpc[r] = "loaded"
    /\ mu = Free
    /\ rpc' = [rpc EXCEPT ![r] = "captured"]
    /\ rview' = [rview EXCEPT ![r] = View]
    /\ UNCHANGED <<vars, rsnap, rkey, rseq, rres, scanVars>>

(* Only the active memtable of the view can still change, and it is read   *)
(* under its lock, so the search is one step.                              *)
GetSearch(r) ==
    /\ rpc[r] = "captured"
    /\ rpc' = [rpc EXCEPT ![r] = "done"]
    /\ rres' = [rres EXCEPT ![r] = Lookup(rview[r], rkey[r], rseq[r])]
    /\ UNCHANGED <<vars, rsnap, rkey, rseq, rview, scanVars>>

GetReturn(r) ==
    /\ rpc[r] = "done"
    /\ rpc' = [rpc EXCEPT ![r] = "idle"]
    /\ rkey' = [rkey EXCEPT ![r] = CHOOSE k \in Keys : TRUE]
    /\ rseq' = [rseq EXCEPT ![r] = 0]
    /\ rview' = [rview EXCEPT ![r] = NoView]
    /\ rres' = [rres EXCEPT ![r] = NotFound]
    /\ UNCHANGED <<vars, rsnap, scanVars>>

-----------------------------------------------------------------------------
(* Scans.                                                                  *)

(* GetSnapshot or BeginTransaction, and the transaction's buffered writes. *)
ScanBegin(s, kind, buf) ==
    /\ spc[s] = "idle"
    /\ kind = "tx" \/ buf = {}
    /\ spc' = [spc EXCEPT ![s] = "begun"]
    /\ skind' = [skind EXCEPT ![s] = kind]
    /\ ssnap' = [ssnap EXCEPT ![s] = IF kind = "db" THEN NoSnap ELSE nextSeq]
    /\ sbuf' = [sbuf EXCEPT ![s] = buf]
    /\ UNCHANGED <<vars, readerVars, sview, srows, sseq>>

(* rawScan copies the pointers under db.mu.RLock ...                       *)
ScanCapture(s) ==
    /\ spc[s] = "begun"
    /\ mu = Free
    /\ spc' = [spc EXCEPT ![s] = "captured"]
    /\ sview' = [sview EXCEPT ![s] = View]
    /\ UNCHANGED <<vars, readerVars, skind, ssnap, sbuf, srows, sseq>>

(* ... and then read-locks the memtables by opening their iterators.       *)
ScanOpen(s) ==
    /\ spc[s] = "captured"
    /\ spc' = [spc EXCEPT ![s] = "open"]
    /\ srows' = [srows EXCEPT ![s] =
          LET srcs == Sources(sview[s]) IN UNION {srcs[i] : i \in DOMAIN srcs}]
    /\ UNCHANGED <<vars, readerVars, skind, ssnap, sbuf, sview, sseq>>

(* Mutant: every scan is bounded by CurrentSeq.                            *)
ScanPositionCurrent(s) ==
    /\ spc[s] = "open"
    /\ spc' = [spc EXCEPT ![s] = "positioned"]
    /\ sseq' = [sseq EXCEPT ![s] = nextSeq]
    /\ UNCHANGED <<vars, readerVars, skind, ssnap, sbuf, sview, srows>>

(* The SnapshotIterator's maxSeq: DB.Scan evaluates CurrentSeq after       *)
(* rawScan; a transaction uses bufSeq = snapshot.seq + 1.                  *)
ScanPosition(s) ==
    /\ spc[s] = "open"
    /\ spc' = [spc EXCEPT ![s] = "positioned"]
    /\ sseq' = [sseq EXCEPT ![s] =
          CASE skind[s] = "db" -> nextSeq
            [] skind[s] = "snapshot" -> ssnap[s]
            [] skind[s] = "tx" -> ssnap[s] + 1]
    /\ UNCHANGED <<vars, readerVars, skind, ssnap, sbuf, sview, srows>>

ScanClose(s) ==
    /\ spc[s] = "positioned"
    /\ spc' = [spc EXCEPT ![s] = "idle"]
    /\ skind' = [skind EXCEPT ![s] = "db"]
    /\ ssnap' = [ssnap EXCEPT ![s] = NoSnap]
    /\ sbuf' = [sbuf EXCEPT ![s] = {}]
    /\ sview' = [sview EXCEPT ![s] = NoView]
    /\ srows' = [srows EXCEPT ![s] = {}]
    /\ sseq' = [sseq EXCEPT ![s] = 0]
    /\ UNCHANGED <<vars, readerVars>>

(* What the iterator yields from the store: buffered keys are shadowed.    *)
Rows(s) == {v \in NewestPerKey(srows[s], sseq[s]) : v.key \notin sbuf[s]}

-----------------------------------------------------------------------------

MemtableUnlocked ==
    \A s \in Scanners : spc[s] \in {"open", "positioned"} => sview[s].active # active

(* A step of the write path: active.Put and active.Freeze need the         *)
(* memtable's lock.                                                        *)
EngineStep ==
    /\ Next
    /\ log' # log \/ Len(immutables') > Len(immutables) => MemtableUnlocked
    /\ UNCHANGED readVars

GetStep(r) ==
    \/ GetSnapshot(r) \/ SnapshotClose(r)
    \/ \E k \in Keys : GetLoad(r, k)
    \/ GetCapture(r) \/ GetSearch(r) \/ GetReturn(r)

ScanStep(s) ==
    \/ \E kind \in ScanKinds, buf \in SUBSET Keys : ScanBegin(s, kind, buf)
    \/ ScanCapture(s) \/ ScanOpen(s) \/ ScanPosition(s) \/ ScanClose(s)

RNext ==
    \/ EngineStep
    \/ \E r \in Readers : GetStep(r)
    \/ \E s \in Scanners : ScanStep(s)

RSpec == RInit /\ [][RNext]_allVars

-----------------------------------------------------------------------------
(* Properties.                                                             *)

ViewType ==
    [active : 1..nextMemID, immutables : Seq(1..nextMemID), l0 : Seq(1..nextMemID), at : Nat]

(* The shape of the readers' local state.                                  *)
ReadersTypeOK ==
    /\ rsnap \in [Readers -> Nat \cup {NoSnap}]
    /\ rpc \in [Readers -> {"idle", "loaded", "captured", "done"}]
    /\ rkey \in [Readers -> Keys]
    /\ rseq \in [Readers -> Nat]
    /\ rview \in [Readers -> ViewType]
    /\ rres \in [Readers -> Version]
    /\ spc \in [Scanners -> {"idle", "begun", "captured", "open", "positioned"}]
    /\ skind \in [Scanners -> {"db", "snapshot", "tx"}]
    /\ ssnap \in [Scanners -> Nat \cup {NoSnap}]
    /\ sbuf \in [Scanners -> SUBSET Keys]
    /\ sview \in [Scanners -> ViewType]
    /\ srows \in [Scanners -> SUBSET Version]
    /\ sseq \in [Scanners -> Nat]

(* What a Get returns is the newest version of its key with a sequence     *)
(* number up to its maxSeq, of all versions written so far, however        *)
(* writers, rotation and flush move while it searches; and it stays so, so *)
(* two Gets on one snapshot agree.                                         *)
GetIsNewest ==
    \A r \in Readers : rpc[r] = "done" =>
        LET V == Visible(log, rkey[r], rseq[r]) IN
        \/ V = {} /\ rres[r] = NotFound
        \/ \E v \in V : /\ \A u \in V : u.seq <= v.seq
                        /\ rres[r].key = v.key /\ rres[r].seq = v.seq

Seqs(S) == {v.seq : v \in S}

(* Snapshot.Scan yields, for every key, the newest version as of the       *)
(* moment the snapshot was taken.                                          *)
SnapshotScanExact ==
    \A s \in Scanners : spc[s] = "positioned" /\ skind[s] = "snapshot" =>
        Seqs(Rows(s)) = Seqs(NewestPerKey(log, ssnap[s]))

(* DB.Scan shows the store as of one sequence number, at least as recent   *)
(* as the moment it copied the pointers: never a later write without an    *)
(* earlier one, even when the memtable is rotated under it.                *)
ScanIsPrefix ==
    \A s \in Scanners : spc[s] = "positioned" /\ skind[s] = "db" =>
        \E c \in sview[s].at..sseq[s] : Seqs(Rows(s)) = Seqs(NewestPerKey(log, c))

(* A scan sees all operations of a WriteBatch or none of them.             *)
ScanSeesWholeBatches ==
    \A s \in Scanners, w \in Writers :
        spc[s] = "positioned" /\ pc[w] = "insert" =>
            LET seen == {i \in DOMAIN ops[w] :
                            /\ VersionAt(w, i) \in srows[s]
                            /\ VersionAt(w, i).seq <= sseq[s]}
            IN  seen = {} \/ seen = DOMAIN ops[w]

(* A transaction's scan shows, outside its own writes, the snapshot taken  *)
(* when it began.                                                          *)
TxScanConsistent ==
    \A s \in Scanners : spc[s] = "positioned" /\ skind[s] = "tx" =>
        \A v \in Rows(s) : v.seq <= ssnap[s]

(* A read through a snapshot returns the value that was written, also      *)
(* after the memtable that held it has been flushed.                       *)
FlushKeepsValues ==
    \A r \in Readers : rpc[r] = "done" /\ rres[r] # NotFound => rres[r] \in log

-----------------------------------------------------------------------------
(* The read path implements MVCCStore.  A write takes effect when its      *)
(* sequence numbers are reserved and its WAL record is written: Gets that  *)
(* load a later nextSeq wait for db.mu before they look.                   *)

InFlight == UNION {{VersionAt(w, i) : i \in ins[w] + 1..Len(ops[w])} :
                      w \in {x \in Writers : pc[x] = "insert"}}

Store == INSTANCE MVCCStore WITH
    hist <- log \cup InFlight,
    clock <- nextSeq,
    snaps <- rsnap,
    asked <- [r \in Readers |->
                 IF rpc[r] = "idle" THEN [key |-> "none", at |-> 0]
                 ELSE [key |-> rkey[r], at |-> rseq[r]]],
    answer <- [r \in Readers |-> IF rpc[r] = "done" THEN rres[r].seq ELSE -1]

(* Every behaviour of the engine's writers, flush goroutine and Gets is a  *)
(* behaviour of the abstract multi-version store.                          *)
ImplementsStore == Store!Spec

=============================================================================
