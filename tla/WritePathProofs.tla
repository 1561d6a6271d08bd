-------------------------- MODULE WritePathProofs --------------------------
(***************************************************************************)
(* WritePath for every number of writers, keys, calls and faults: the      *)
(* order and the completeness of the sources getAt searches, the           *)
(* uniqueness of sequence numbers and the bound on the flush backlog.      *)
(***************************************************************************)
EXTENDS WritePath, SequenceTheorems, TLAPS

(* db.mu is held exactly by the writer inside its critical section.        *)
LockInv == \A w \in Writers : pc[w] \in {"space", "insert"} <=> mu = w

(* A call in progress carries a batch.                                     *)
OpsInv == \A w \in Writers : pc[w] # "idle" => ops[w] \in Batches

(* An inserting writer has the last sequence numbers handed out, a working *)
(* WAL and room for one more immutable memtable.                           *)
InsertInv ==
    \A w \in Writers : pc[w] = "insert" =>
        /\ base[w] + Len(ops[w]) = nextSeq + 1
        /\ ins[w] <= Len(ops[w])
        /\ Len(immutables) < MaxImmutableCount
        /\ \A v \in log : v.seq < base[w] + ins[w]

IdleInv == \A w \in Writers : pc[w] # "insert" => ins[w] = 0

(* No version is ahead of nextSeq.                                         *)
SeqInv == \A v \in log : v.seq <= nextSeq

(* Memtable IDs grow with the sequence numbers they hold, and every        *)
(* memtable younger than the active one is empty.                          *)
IdInv ==
    /\ \A i \in 1..nextMemID : data[i] \subseteq log
    /\ \A i \in 1..nextMemID : i > active => data[i] = {}
    /\ \A i, j \in 1..nextMemID : i < j =>
          \A u \in data[i], v \in data[j] : u.seq < v.seq

(* The sources are searched in descending order of ID.                     *)
Descending == \A i, j \in DOMAIN SearchOrder : i < j => SearchOrder[i] >= SearchOrder[j]

(* The flush goroutine works on the oldest immutable memtable.             *)
FlushInv ==
    flushPC \in {"write", "lastwrite"} =>
        immutables # << >> /\ flushing = immutables[Len(immutables)]

IInv ==
    /\ TypeOK /\ LockInv /\ OpsInv /\ InsertInv /\ IdleInv /\ SeqInv
    /\ IdInv /\ Descending /\ FlushInv /\ NothingLost /\ UniqueSeqs

-----------------------------------------------------------------------------

(* SearchOrder starts with the active memtable and lists IDs.              *)
LEMMA SearchOrderShape ==
    ASSUME TypeOK
    PROVE  /\ SearchOrder \in Seq(1..nextMemID)
           /\ Len(SearchOrder) = 1 + Len(immutables) + Len(l0)
           /\ SearchOrder[1] = active
           /\ \A i \in 1..Len(immutables) : SearchOrder[i + 1] = immutables[i]
           /\ \A i \in 1..Len(l0) : SearchOrder[i + 1 + Len(immutables)] = l0[i]
BY DEF TypeOK, SearchOrder

(* Moving the oldest immutable memtable to the front of L0, which is what  *)
(* the flush installs, leaves the search order as it was.                  *)
LEMMA InstallKeepsOrder ==
    ASSUME TypeOK, FlushInv, FlushInstall
    PROVE  SearchOrder' = SearchOrder
<1> DEFINE S == 1..nextMemID
           n == Len(immutables)
           F == SubSeq(immutables, 1, n - 1)
<1>1. /\ n \in Nat \ {0}
      /\ flushing = immutables[n]
      /\ immutables' = F
      /\ l0' = <<flushing>> \o l0
      /\ active' = active
      /\ l0 \in Seq(S) /\ immutables \in Seq(S)
      /\ active \in S /\ flushing \in S
  BY DEF TypeOK, FlushInv, FlushInstall
<1>2. /\ <<active>> \in Seq(S) /\ <<flushing>> \in Seq(S)
      /\ F \in Seq(S)
  <2>1. ASSUME NEW i \in 1..n - 1 PROVE immutables[i] \in S
    <3>1. i \in 1..Len(immutables) BY <1>1
    <3> QED BY <1>1, <3>1, ElementOfSeq
  <2>2. F \in Seq(S) BY <2>1, <1>1, SubSeqProperties
  <2> QED BY <1>1, <2>2
<1>3. immutables = F \o <<flushing>>
  BY <1>1, SubSeqRecursiveSecond, SubSeqFull
<1> HIDE DEF S, n, F
<1>4. (F \o <<flushing>>) \o l0 = F \o (<<flushing>> \o l0)
  BY <1>1, <1>2, ConcatAssociative
<1>5. <<active>> \o immutables \o l0 = <<active>> \o (immutables \o l0)
  BY <1>1, <1>2, ConcatAssociative
<1>6. <<flushing>> \o l0 \in Seq(S)
  BY <1>1, <1>2, ConcatProperties
<1>7. <<active>> \o F \o (<<flushing>> \o l0) = <<active>> \o (F \o (<<flushing>> \o l0))
  BY <1>1, <1>2, <1>6, ConcatAssociative
<1> QED BY <1>1, <1>3, <1>4, <1>5, <1>7 DEF SearchOrder

(* Rotation puts one memtable in front of the sources.                     *)
LEMMA RotateExtendsOrder ==
    ASSUME TypeOK, immutables' = <<active>> \o immutables, l0' = l0
    PROVE  SearchOrder' = <<active'>> \o SearchOrder
<1> DEFINE S == Nat \cup {active'}
<1>1. /\ <<active'>> \in Seq(S) /\ <<active>> \in Seq(S)
      /\ immutables \in Seq(S) /\ l0 \in Seq(S)
  <2>1. 1..nextMemID \subseteq S /\ active \in S /\ active' \in S
    BY DEF TypeOK
  <2>2. immutables \in Seq(S) /\ l0 \in Seq(S)
    BY <2>1, SeqMonotonic DEF TypeOK
  <2> QED BY <2>1, <2>2
<1> HIDE DEF S
<1>2. <<active>> \o immutables \in Seq(S)
  BY <1>1, ConcatProperties
<1>3. (<<active'>> \o (<<active>> \o immutables)) \o l0
         = <<active'>> \o ((<<active>> \o immutables) \o l0)
  BY <1>1, <1>2, ConcatAssociative
<1> QED BY <1>3 DEF SearchOrder

(* The parts of IInv about the sources.                                    *)
SourcesInv == IdInv /\ Descending /\ NothingLost /\ UniqueSeqs

LEMMA SourcesUnchanged ==
    ASSUME SourcesInv, UNCHANGED <<data, active, immutables, l0, nextMemID, log>>
    PROVE  SourcesInv'
BY DEF SourcesInv, IdInv, Descending, NothingLost, UniqueSeqs, SearchOrder

-----------------------------------------------------------------------------

LEMMA InitIInv == Init => IInv
<1> SUFFICES ASSUME Init PROVE IInv
  OBVIOUS
<1> USE BatchesAssumption, SizesAssumption, NamesAssumption
<1>0. ASSUME NEW i \in 1..Recovered PROVE RecoveredVersion(i) \in Version
  BY DEF RecoveredVersion, Version, Vals
<1>1. immutables \in Seq(1..nextMemID) /\ Len(immutables) = Recovered /\ l0 \in Seq(1..nextMemID)
  <2>1. immutables \in [1..Recovered -> 1..nextMemID]
    BY DEF Init
  <2> QED BY <2>1, SeqDef DEF Init
<1>2. TypeOK
  <2>1. data \in [1..nextMemID -> SUBSET Version]
    BY <1>0 DEF Init
  <2>2. log \in SUBSET Version
    BY <1>0 DEF Init
  <2>3. /\ mu \in Writers \cup {Free}
        /\ pc \in [Writers -> PCs]
        /\ ops \in [Writers -> Batches \cup {<< >>}]
        /\ snap \in [Writers -> Nat \cup {NoSnap}]
        /\ base \in [Writers -> Nat]
        /\ ins \in [Writers -> Nat]
    BY DEF Init, PCs
  <2>4. /\ nextMemID \in Nat \ {0} /\ active \in 1..nextMemID /\ nextSeq \in Nat
        /\ flushing \in 0..nextMemID /\ calls \in Nat /\ faults \in Nat
    BY DEF Init
  <2>5. /\ walOpen \in BOOLEAN /\ flushCh \in BOOLEAN /\ flushPC \in FlushPCs
        /\ closePC \in {"open", "signalled", "draining", "closed"}
    BY DEF Init, FlushPCs
  <2> QED BY <1>1, <2>1, <2>2, <2>3, <2>4, <2>5 DEF TypeOK
<1>3. LockInv /\ OpsInv /\ InsertInv /\ IdleInv /\ FlushInv
  BY DEF Init, LockInv, OpsInv, InsertInv, IdleInv, FlushInv
<1>4. SeqInv /\ IdInv /\ UniqueSeqs
  <2>1. \A i \in 1..Recovered : RecoveredVersion(i).seq = i
    BY DEF RecoveredVersion
  <2>2. SeqInv /\ UniqueSeqs
    BY <2>1 DEF Init, SeqInv, UniqueSeqs
  <2>3. \A i \in 1..nextMemID : data[i] = IF i <= Recovered THEN {RecoveredVersion(i)} ELSE {}
    BY DEF Init
  <2> QED BY <2>1, <2>2, <2>3 DEF Init, IdInv
<1>5. /\ DOMAIN SearchOrder = 1..Recovered + 1
      /\ \A i \in 1..Recovered + 1 : SearchOrder[i] = Recovered + 2 - i
  <2>1. DOMAIN SearchOrder = 1..Recovered + 1
    BY <1>1, <1>2, SearchOrderShape DEF Init
  <2>2. ASSUME NEW i \in 2..Recovered + 1 PROVE SearchOrder[i] = Recovered + 2 - i
    <3>1. i - 1 \in 1..Recovered /\ i = (i - 1) + 1 BY <2>2
    <3>2. SearchOrder[i] = immutables[i - 1] BY <3>1, <1>1, <1>2, SearchOrderShape
    <3> QED BY <3>1, <3>2 DEF Init
  <2>3. SearchOrder[1] = Recovered + 1
    BY <1>2, SearchOrderShape DEF Init
  <2> QED BY <2>1, <2>2, <2>3
<1>6. Descending
  BY <1>5 DEF Descending
<1>7. NothingLost
  <2> SUFFICES ASSUME NEW i \in 1..Recovered
               PROVE  \E j \in DOMAIN SearchOrder : RecoveredVersion(i) \in data[SearchOrder[j]]
    BY DEF NothingLost, Init
  <2>1. Recovered + 2 - i \in DOMAIN SearchOrder /\ SearchOrder[Recovered + 2 - i] = i
    BY <1>5
  <2>2. RecoveredVersion(i) \in data[i]
    BY DEF Init
  <2> QED BY <2>1, <2>2
<1> QED BY <1>2, <1>3, <1>4, <1>6, <1>7 DEF IInv

-----------------------------------------------------------------------------
(* One lemma per kind of step.                                             *)


(* A writer enters its critical section or a transaction begins or ends.   *)
LEMMA EnterStep ==
    ASSUME IInv, NEW w \in Writers, NEW b,
           \/ b \in Batches /\ (Acquire(w, b) \/ Commit(w, b))
           \/ BeginTransaction(w) \/ Rollback(w)
    PROVE  IInv'
<1> USE NamesAssumption, SizesAssumption
<1>1. UNCHANGED <<data, active, immutables, l0, nextMemID, log, nextSeq, base, ins, flushPC, flushing>>
  BY DEF Acquire, Commit, BeginTransaction, Rollback, storeVars, flushVars
<1>2. TypeOK'
  <2>1. /\ mu' \in Writers \cup {Free} /\ pc' \in [Writers -> PCs]
        /\ ops' \in [Writers -> Batches \cup {<< >>}]
        /\ snap' \in [Writers -> Nat \cup {NoSnap}] /\ calls' \in Nat
    <3>1. CASE b \in Batches /\ Acquire(w, b) BY <3>1 DEF IInv, TypeOK, PCs, Acquire
    <3>2. CASE b \in Batches /\ Commit(w, b)
      <4>1. /\ mu' = w \/ mu' = mu
            /\ pc' = [pc EXCEPT ![w] = "space"] \/ pc' = pc
            /\ ops' = [ops EXCEPT ![w] = b] \/ ops' = ops
            /\ snap' = [snap EXCEPT ![w] = NoSnap] \/ snap' = snap
            /\ calls' = calls
        BY <3>2 DEF Commit, boundVars
      <4>2. mu' \in Writers \cup {Free} /\ pc' \in [Writers -> PCs]
        BY <4>1 DEF IInv, TypeOK, PCs
      <4>3. ops' \in [Writers -> Batches \cup {<< >>}]
        BY <3>2, <4>1 DEF IInv, TypeOK
      <4>4. snap' \in [Writers -> Nat \cup {NoSnap}] /\ calls' \in Nat
        BY <4>1 DEF IInv, TypeOK
      <4> QED BY <4>2, <4>3, <4>4
    <3>3. CASE BeginTransaction(w) BY <3>3 DEF IInv, TypeOK, BeginTransaction
    <3>4. CASE Rollback(w) BY <3>4 DEF IInv, TypeOK, Rollback, boundVars
    <3> QED BY <3>1, <3>2, <3>3, <3>4
  <2>2. UNCHANGED <<walOpen, flushCh, closePC, faults>>
    BY DEF Acquire, Commit, BeginTransaction, Rollback, storeVars, flushVars, boundVars
  <2> QED BY <1>1, <2>1, <2>2 DEF IInv, TypeOK
<1>3. \A x \in Writers : pc'[x] = "insert" <=> pc[x] = "insert"
  BY DEF IInv, TypeOK, Acquire, Commit, BeginTransaction, Rollback
<1>4. \A x \in Writers : pc[x] = "insert" => ops'[x] = ops[x]
  BY DEF IInv, TypeOK, Acquire, Commit, BeginTransaction, Rollback
<1>5. LockInv' /\ OpsInv'
  BY DEF IInv, TypeOK, LockInv, OpsInv, Acquire, Commit, BeginTransaction, Rollback
<1>6. InsertInv' /\ IdleInv' /\ SeqInv' /\ FlushInv'
  BY <1>1, <1>3, <1>4 DEF IInv, InsertInv, IdleInv, SeqInv, FlushInv
<1>7. SourcesInv'
  BY <1>1, SourcesUnchanged DEF IInv, SourcesInv
<1> QED BY <1>2, <1>5, <1>6, <1>7 DEF IInv, SourcesInv

(* A writer waits for the flush goroutine or comes back.                   *)
LEMMA WaitStep ==
    ASSUME IInv, NEW w \in Writers, WaitForSpace(w) \/ Reacquire(w)
    PROVE  IInv'
<1> USE NamesAssumption, SizesAssumption
<1>1. /\ UNCHANGED <<data, active, immutables, l0, nextMemID, log, nextSeq, base, ins, ops>>
      /\ UNCHANGED <<snap, walOpen, flushVars, closePC, calls, faults>>
  BY DEF WaitForSpace, Reacquire, storeVars, flushVars, boundVars
<1>2. TypeOK'
  BY <1>1 DEF IInv, TypeOK, PCs, flushVars, WaitForSpace, Reacquire
<1>3. \A x \in Writers : pc'[x] = "insert" <=> pc[x] = "insert"
  BY DEF IInv, TypeOK, WaitForSpace, Reacquire
<1>4. LockInv' /\ OpsInv'
  BY <1>1 DEF IInv, TypeOK, LockInv, OpsInv, WaitForSpace, Reacquire
<1>5. InsertInv' /\ IdleInv' /\ SeqInv' /\ FlushInv'
  BY <1>1, <1>3 DEF IInv, InsertInv, IdleInv, SeqInv, FlushInv, flushVars
<1>6. SourcesInv'
  BY <1>1, SourcesUnchanged DEF IInv, SourcesInv
<1> QED BY <1>2, <1>4, <1>5, <1>6 DEF IInv, SourcesInv

(* Sequence numbers are reserved; the WAL append succeeds or fails.        *)
LEMMA ReserveStep ==
    ASSUME IInv, NEW w \in Writers, Reserve(w)
    PROVE  IInv'
<1> USE NamesAssumption, SizesAssumption
<1>1. /\ UNCHANGED <<data, active, immutables, l0, nextMemID, log, ins>>
      /\ UNCHANGED <<walOpen, flushVars, closePC, calls>>
      /\ nextSeq' = nextSeq + Len(ops[w])
      /\ Len(immutables) < MaxImmutableCount
  BY DEF Reserve
<1>2. ops[w] \in Batches /\ Len(ops[w]) \in Nat \ {0}
  BY BatchesAssumption DEF IInv, OpsInv, Reserve
<1>3. mu = w /\ \A x \in Writers : pc[x] = "insert" => x = w
  BY DEF IInv, LockInv, Reserve
<1>4. TypeOK'
  <2>1. /\ mu' \in Writers \cup {Free} /\ pc' \in [Writers -> PCs]
        /\ ops' \in [Writers -> Batches \cup {<< >>}]
        /\ snap' \in [Writers -> Nat \cup {NoSnap}]
    BY DEF IInv, TypeOK, PCs, Reserve, Finish
  <2>2. base' = [base EXCEPT ![w] = nextSeq + 1] \/ base' = base
    BY DEF Reserve
  <2>3. faults' = faults \/ faults' = faults + 1
    BY DEF Reserve
  <2>4. base' \in [Writers -> Nat]
    <3>1. base \in [Writers -> Nat] /\ nextSeq + 1 \in Nat
      BY DEF IInv, TypeOK
    <3> QED BY <2>2, <3>1
  <2>5. nextSeq' \in Nat /\ faults' \in Nat
    BY <1>1, <1>2, <2>3 DEF IInv, TypeOK
  <2> QED BY <1>1, <2>1, <2>4, <2>5 DEF IInv, TypeOK, flushVars
<1>5. LockInv' /\ OpsInv' /\ IdleInv'
  BY <1>1 DEF IInv, TypeOK, LockInv, OpsInv, IdleInv, Reserve, Finish
<1>6. SeqInv' /\ FlushInv'
  BY <1>1, <1>2 DEF IInv, TypeOK, Version, SeqInv, FlushInv, flushVars
<1>7. InsertInv'
  <2> SUFFICES ASSUME NEW x \in Writers, pc'[x] = "insert"
               PROVE  /\ base'[x] + Len(ops'[x]) = nextSeq' + 1
                      /\ ins'[x] <= Len(ops'[x])
                      /\ Len(immutables') < MaxImmutableCount
                      /\ \A v \in log' : v.seq < base'[x] + ins'[x]
    BY DEF InsertInv
  <2>1. x = w /\ pc' = [pc EXCEPT ![w] = "insert"] /\ base' = [base EXCEPT ![w] = nextSeq + 1]
        /\ ops' = ops
    BY <1>3 DEF IInv, TypeOK, Reserve, Finish
  <2>2. ins[w] = 0
    BY DEF IInv, IdleInv, Reserve
  <2> QED BY <1>1, <1>2, <2>1, <2>2 DEF IInv, TypeOK, SeqInv, Version
<1>8. SourcesInv'
  BY <1>1, SourcesUnchanged DEF IInv, SourcesInv
<1> QED BY <1>4, <1>5, <1>6, <1>7, <1>8 DEF IInv, SourcesInv

(* One version enters the active memtable.                                 *)
LEMMA InsertStep ==
    ASSUME IInv, NEW w \in Writers, Insert(w)
    PROVE  IInv'
<1> USE NamesAssumption, SizesAssumption
<1> DEFINE v == VersionAt(w, ins[w] + 1)
<1>1. /\ UNCHANGED <<mu, pc, ops, snap, base, active, immutables, l0, nextSeq, nextMemID>>
      /\ UNCHANGED <<walOpen, flushVars, closePC, calls, faults>>
      /\ data' = [data EXCEPT ![active] = @ \cup {v}]
      /\ log' = log \cup {v}
      /\ ins' = [ins EXCEPT ![w] = @ + 1]
      /\ pc[w] = "insert" /\ ins[w] < Len(ops[w])
  BY DEF Insert, boundVars
<1>2. /\ ops[w] \in Seq(Ops) /\ Len(ops[w]) \in Nat
      /\ base[w] \in Nat /\ ins[w] \in Nat
      /\ base[w] + Len(ops[w]) = nextSeq + 1
      /\ \A u \in log : u.seq < base[w] + ins[w]
  BY <1>1, BatchesAssumption DEF IInv, TypeOK, OpsInv, InsertInv
<1>3. v \in Version /\ v.seq = base[w] + ins[w]
  <2>1. ops[w][ins[w] + 1] \in Ops
    BY <1>1, <1>2
  <2> QED BY <1>2, <2>1 DEF VersionAt, Version, Ops
<1> HIDE DEF v
<1>4. TypeOK'
  <2>1. data' \in [1..nextMemID' -> SUBSET Version] /\ log' \in SUBSET Version
    BY <1>1, <1>3 DEF IInv, TypeOK
  <2>2. ins' \in [Writers -> Nat]
    BY <1>1, <1>2 DEF IInv, TypeOK
  <2> QED BY <1>1, <2>1, <2>2 DEF IInv, TypeOK, flushVars
<1>5. LockInv' /\ OpsInv' /\ FlushInv'
  BY <1>1 DEF IInv, LockInv, OpsInv, FlushInv, flushVars
<1>6. IdleInv'
  BY <1>1 DEF IInv, TypeOK, IdleInv
<1>7. SeqInv'
  BY <1>1, <1>2, <1>3 DEF IInv, TypeOK, SeqInv
<1>8. InsertInv'
  <2>1. \A x \in Writers : pc[x] = "insert" => x = w
    BY <1>1 DEF IInv, LockInv
  <2>2. ins'[w] = ins[w] + 1
    BY <1>1 DEF IInv, TypeOK
  <2>3. \A u \in log' : u.seq < base[w] + ins'[w]
    <3>1. \A u \in log : u.seq \in Nat
      BY DEF IInv, TypeOK, Version
    <3> QED BY <1>1, <1>2, <1>3, <2>2, <3>1
  <2> QED BY <1>1, <1>2, <2>1, <2>2, <2>3 DEF IInv, InsertInv
<1>9. UniqueSeqs'
  BY <1>1, <1>2, <1>3 DEF IInv, UniqueSeqs
<1>10. IdInv'
  <2>1. active \in 1..nextMemID /\ \A i \in 1..nextMemID :
            data'[i] = IF i = active THEN data[i] \cup {v} ELSE data[i]
    BY <1>1 DEF IInv, TypeOK
  <2>2. ASSUME NEW i \in 1..nextMemID, NEW j \in 1..nextMemID, i < j,
               NEW x \in data'[i], NEW y \in data'[j]
        PROVE  x.seq < y.seq
    <3>1. CASE j = active
      <4>0. i # active
        BY <3>1, <2>2
      <4>1. x \in data[i] /\ x \in log
        BY <4>0, <2>1 DEF IInv, IdInv
      <4>2. CASE y = v
        BY <4>1, <4>2, <1>2, <1>3
      <4>3. CASE y \in data[j]
        BY <4>1, <4>3, <2>2 DEF IInv, IdInv
      <4> QED BY <3>1, <4>2, <4>3, <2>1
    <3>2. CASE i = active
      <4>0. j > active /\ j # active
        BY <3>2, <2>2
      <4>1. data[j] = {} /\ data'[j] = data[j]
        BY <4>0, <2>1 DEF IInv, IdInv
      <4> QED BY <4>1
    <3>3. CASE i # active /\ j # active
      BY <3>3, <2>1, <2>2 DEF IInv, IdInv
    <3> QED BY <3>1, <3>2, <3>3
  <2>3. /\ \A i \in 1..nextMemID : data'[i] \subseteq log'
        /\ \A i \in 1..nextMemID : i > active => data'[i] = {}
    BY <1>1, <2>1 DEF IInv, IdInv, TypeOK
  <2> QED BY <1>1, <2>2, <2>3 DEF IdInv
<1>11. Descending' /\ NothingLost'
  <2>1. SearchOrder' = SearchOrder
    BY <1>1 DEF SearchOrder
  <2>2. /\ SearchOrder \in Seq(1..nextMemID) /\ SearchOrder[1] = active
        /\ 1 \in DOMAIN SearchOrder
    BY SearchOrderShape DEF IInv, TypeOK
  <2>3. \A i \in 1..nextMemID : data[i] \subseteq data'[i]
    BY <1>1 DEF IInv, TypeOK
  <2>4. v \in data'[active]
    BY <1>1 DEF IInv, TypeOK
  <2>5. \A i \in DOMAIN SearchOrder : SearchOrder[i] \in 1..nextMemID
    BY <2>2, LenProperties, ElementOfSeq
  <2>6. Descending'
    BY <2>1 DEF IInv, Descending
  <2>7. NothingLost'
    BY <1>1, <2>1, <2>2, <2>3, <2>4, <2>5 DEF IInv, NothingLost
  <2> QED BY <2>6, <2>7
<1> QED BY <1>4, <1>5, <1>6, <1>7, <1>8, <1>9, <1>10, <1>11 DEF IInv

(* A new memtable in front, empty and with the highest ID, or the same one *)
(* again when its WAL cannot be created.                                   *)
LEMMA RotateSources ==
    ASSUME IInv, RotateMemtable, l0' = l0, log' = log
    PROVE  /\ nextMemID' \in Nat \ {0} /\ active' \in 1..nextMemID'
           /\ data' \in [1..nextMemID' -> SUBSET Version]
           /\ immutables' \in Seq(1..nextMemID') /\ l0' \in Seq(1..nextMemID')
           /\ Len(immutables') = Len(immutables) + 1
           /\ immutables # << >> => immutables'[Len(immutables')] = immutables[Len(immutables)]
           /\ SourcesInv'
<1> DEFINE n == nextMemID
<1>1. /\ n \in Nat \ {0} /\ active \in 1..n
      /\ data \in [1..n -> SUBSET Version]
      /\ immutables \in Seq(1..n) /\ l0 \in Seq(1..n)
  BY DEF IInv, TypeOK
<1>2. /\ nextMemID' = n + 1
      /\ immutables' = <<active>> \o immutables
      /\ data' = [i \in 1..n + 1 |-> IF i \in DOMAIN data THEN data[i] ELSE {}]
      /\ active' = n + 1 \/ active' = active
  BY DEF RotateMemtable
<1>3. /\ active' \in 1..n + 1 /\ active' >= active
      /\ \A i \in 1..n : data'[i] = data[i]
      /\ data'[n + 1] = {}
      /\ data' \in [1..n + 1 -> SUBSET Version]
  BY <1>1, <1>2
<1>4. /\ immutables' \in Seq(1..n + 1) /\ l0 \in Seq(1..n + 1)
      /\ Len(immutables') = Len(immutables) + 1
      /\ immutables # << >> => immutables'[Len(immutables')] = immutables[Len(immutables)]
  <2>1. 1..n \subseteq 1..n + 1
    BY <1>1
  <2>2. immutables \in Seq(1..n + 1) /\ l0 \in Seq(1..n + 1) /\ <<active>> \in Seq(1..n + 1)
    BY <1>1, <2>1, SeqMonotonic
  <2> QED BY <1>2, <2>2, ConcatProperties
<1>5. /\ SearchOrder \in Seq(1..n) /\ Len(SearchOrder) \in Nat \ {0}
      /\ DOMAIN SearchOrder = 1..Len(SearchOrder)
      /\ SearchOrder[1] = active
  BY <1>1, SearchOrderShape DEF IInv
<1>6. /\ Len(SearchOrder') = Len(SearchOrder) + 1
      /\ DOMAIN SearchOrder' = 1..Len(SearchOrder) + 1
      /\ SearchOrder'[1] = active'
      /\ \A i \in 1..Len(SearchOrder) : SearchOrder'[i + 1] = SearchOrder[i]
  <2>1. SearchOrder' = <<active'>> \o SearchOrder
    BY <1>2, RotateExtendsOrder DEF IInv
  <2>2. <<active'>> \in Seq(1..n + 1) /\ SearchOrder \in Seq(1..n + 1)
    <3>1. 1..n \subseteq 1..n + 1
      BY <1>1
    <3>2. SearchOrder \in Seq(1..n + 1)
      BY <1>5, <3>1, SeqMonotonic
    <3> QED BY <1>3, <3>2
  <2> QED BY <2>1, <2>2, ConcatProperties, LenProperties
<1>7. \A i \in 1..Len(SearchOrder) : SearchOrder[i] \in 1..n
  BY <1>5, ElementOfSeq
<1>8. Descending'
  <2> SUFFICES ASSUME NEW i \in 1..Len(SearchOrder) + 1, NEW j \in 1..Len(SearchOrder) + 1, i < j
               PROVE  SearchOrder'[i] >= SearchOrder'[j]
    BY <1>6 DEF Descending
  <2>1. j - 1 \in 1..Len(SearchOrder) /\ SearchOrder'[j] = SearchOrder[j - 1]
    BY <1>5, <1>6
  <2>2. CASE i = 1
    <3>1. SearchOrder[j - 1] \in 1..n
      BY <1>7, <2>1
    <3>2. CASE j - 1 = 1
      BY <1>1, <1>3, <1>5, <1>6, <2>1, <2>2, <3>2
    <3>3. CASE j - 1 > 1
      <4>1. SearchOrder[1] >= SearchOrder[j - 1]
        BY <1>5, <2>1, <3>3 DEF IInv, Descending
      <4> QED BY <1>1, <1>3, <1>5, <1>6, <2>1, <2>2, <3>1, <4>1
    <3> QED BY <2>1, <3>2, <3>3
  <2>3. CASE i # 1
    <3>1. i - 1 \in 1..Len(SearchOrder) /\ SearchOrder'[i] = SearchOrder[i - 1] /\ i - 1 < j - 1
      BY <1>5, <1>6, <2>3
    <3> QED BY <1>5, <2>1, <3>1 DEF IInv, Descending
  <2> QED BY <2>2, <2>3
<1>9. NothingLost'
  <2> SUFFICES ASSUME NEW v \in log
               PROVE  \E i \in DOMAIN SearchOrder' : v \in data'[SearchOrder'[i]]
    BY DEF NothingLost
  <2>1. PICK i \in 1..Len(SearchOrder) : v \in data[SearchOrder[i]]
    BY <1>5 DEF IInv, NothingLost
  <2>2. i + 1 \in DOMAIN SearchOrder' /\ v \in data'[SearchOrder'[i + 1]]
    BY <1>3, <1>5, <1>6, <1>7, <2>1
  <2> QED BY <2>2
<1>10. IdInv'
  <2>1. ASSUME NEW i \in 1..n + 1
        PROVE  data'[i] \subseteq log /\ (i > active' => data'[i] = {})
    <3>1. CASE i = n + 1
      BY <1>3, <3>1
    <3>2. CASE i \in 1..n
      <4>1. i > active' => i > active
        BY <1>1, <1>3, <3>2
      <4> QED BY <1>3, <3>2, <4>1 DEF IInv, IdInv
    <3> QED BY <1>1, <3>1, <3>2
  <2>2. ASSUME NEW i \in 1..n + 1, NEW j \in 1..n + 1, i < j,
               NEW u \in data'[i], NEW v \in data'[j]
        PROVE  u.seq < v.seq
    <3>1. i \in 1..n
      BY <1>1, <2>2
    <3>2. j # n + 1
      BY <1>3, <2>2
    <3>3. j \in 1..n
      BY <1>1, <3>2
    <3> QED BY <1>3, <2>2, <3>1, <3>3 DEF IInv, IdInv
  <2> QED BY <1>2, <2>1, <2>2 DEF IdInv
<1>11. UniqueSeqs'
  BY DEF IInv, UniqueSeqs
<1> QED BY <1>1, <1>2, <1>3, <1>4, <1>8, <1>9, <1>10, <1>11 DEF SourcesInv

(* A write ends, with or without a rotation.                               *)
LEMMA ReturnStep ==
    ASSUME IInv, NEW w \in Writers, Return(w)
    PROVE  IInv'
<1> USE NamesAssumption, SizesAssumption
<1>1. /\ mu' = Free /\ pc' = [pc EXCEPT ![w] = "idle"] /\ pc[w] = "insert"
      /\ ops' = [ops EXCEPT ![w] = << >>]
      /\ snap' = [snap EXCEPT ![w] = NoSnap]
      /\ base' = [base EXCEPT ![w] = 0]
      /\ ins' = [ins EXCEPT ![w] = 0]
      /\ UNCHANGED <<l0, nextSeq, log, flushPC, flushing, closePC, calls>>
  BY DEF Return, Finish
<1>2. mu = w /\ \A x \in Writers : pc'[x] # "insert"
  BY <1>1 DEF IInv, TypeOK, LockInv
<1>3. LockInv' /\ OpsInv' /\ InsertInv' /\ IdleInv' /\ SeqInv'
  <2>1. LockInv'
    BY <1>1, <1>2 DEF IInv, TypeOK, LockInv
  <2>2. OpsInv' /\ IdleInv'
    BY <1>1, <1>2 DEF IInv, TypeOK, OpsInv, IdleInv
  <2> QED BY <1>1, <1>2, <2>1, <2>2 DEF IInv, InsertInv, SeqInv
<1>4. /\ nextMemID' \in Nat \ {0} /\ active' \in 1..nextMemID'
      /\ data' \in [1..nextMemID' -> SUBSET Version]
      /\ immutables' \in Seq(1..nextMemID') /\ l0' \in Seq(1..nextMemID')
      /\ flushing' \in 0..nextMemID'
      /\ walOpen' \in BOOLEAN /\ flushCh' \in BOOLEAN /\ faults' \in Nat
      /\ FlushInv' /\ SourcesInv'
  <2>1. CASE RotateMemtable
    <3>1. walOpen' \in BOOLEAN /\ flushCh' \in BOOLEAN /\ faults' \in Nat
      <4>1. \/ walOpen' = TRUE /\ flushCh' = TRUE /\ faults' = faults
            \/ walOpen' = FALSE /\ flushCh' = flushCh /\ faults' = faults + 1
        BY <2>1 DEF RotateMemtable
      <4>2. flushCh \in BOOLEAN /\ faults \in Nat /\ faults + 1 \in Nat
        BY DEF IInv, TypeOK
      <4> QED BY <4>1, <4>2
    <3>2. nextMemID' = nextMemID + 1
      BY <2>1 DEF RotateMemtable
    <3>3. flushing' \in 0..nextMemID'
      BY <1>1, <3>2 DEF IInv, TypeOK
    <3>4. FlushInv'
      <4>1. /\ Len(immutables') = Len(immutables) + 1
            /\ immutables # << >> => immutables'[Len(immutables')] = immutables[Len(immutables)]
            /\ immutables' \in Seq(1..nextMemID')
        BY <1>1, <2>1, RotateSources
      <4>2. immutables' # << >>
        BY <4>1 DEF IInv, TypeOK
      <4> QED BY <1>1, <4>1, <4>2 DEF IInv, FlushInv
    <3> QED BY <1>1, <2>1, <3>1, <3>3, <3>4, RotateSources
  <2>2. CASE UNCHANGED <<immutables, nextMemID, data, active, walOpen, flushCh, faults>>
    <3>1. FlushInv'
      BY <1>1, <2>2 DEF IInv, FlushInv
    <3>2. SourcesInv'
      BY <1>1, <2>2, SourcesUnchanged DEF IInv, SourcesInv
    <3> QED BY <1>1, <2>2, <3>1, <3>2 DEF IInv, TypeOK
  <2> QED BY <2>1, <2>2 DEF Return
<1>5. TypeOK'
  <2>1. mu' \in Writers \cup {Free} /\ pc' \in [Writers -> PCs]
        /\ ops' \in [Writers -> Batches \cup {<< >>}]
    BY <1>1 DEF IInv, TypeOK, PCs
  <2>2. /\ snap' \in [Writers -> Nat \cup {NoSnap}]
        /\ base' \in [Writers -> Nat] /\ ins' \in [Writers -> Nat]
    BY <1>1 DEF IInv, TypeOK
  <2> QED BY <1>1, <1>4, <2>1, <2>2 DEF IInv, TypeOK
<1> QED BY <1>3, <1>4, <1>5 DEF IInv, SourcesInv

(* The flush goroutine wakes up, picks the oldest memtable or fails.       *)
LEMMA FlushLoopStep ==
    ASSUME IInv, FlushWakeup \/ FlushPick \/ FlushFail
    PROVE  IInv'
<1>1. UNCHANGED <<writerVars, storeVars, closePC, calls>>
  BY DEF FlushWakeup, FlushPick, FlushFail, boundVars
<1>2. /\ flushPC' \in FlushPCs /\ flushing' \in 0..nextMemID
      /\ flushCh' \in BOOLEAN /\ faults' \in Nat /\ FlushInv'
  <2>1. CASE FlushWakeup
    <3>1. /\ flushPC' \in {"pick", "lastpick"} /\ flushing' = flushing /\ faults' = faults
          /\ flushCh' = FALSE \/ flushCh' = flushCh
      BY <2>1 DEF FlushWakeup, boundVars
    <3> QED BY <3>1 DEF IInv, TypeOK, FlushPCs, FlushInv
  <2>2. CASE FlushPick
    <3>1. \/ flushPC' \in {"idle", "exited"} /\ flushing' = flushing
          \/ /\ flushPC' \in {"write", "lastwrite"}
             /\ immutables # << >> /\ flushing' = immutables[Len(immutables)]
      BY <2>2 DEF FlushPick, FlushReturn
    <3>2. flushCh' = flushCh /\ faults' = faults /\ immutables' = immutables
      BY <1>1, <2>2 DEF FlushPick, boundVars, storeVars
    <3>3. immutables # << >> => immutables[Len(immutables)] \in 1..nextMemID
      BY EmptySeq, ElementOfSeq DEF IInv, TypeOK
    <3>4. flushing' \in 0..nextMemID
      BY <3>1, <3>3 DEF IInv, TypeOK
    <3> QED BY <3>1, <3>2, <3>4 DEF IInv, TypeOK, FlushPCs, FlushInv
  <2>3. CASE FlushFail
    <3>1. /\ flushPC' \in {"idle", "exited"} /\ flushing' = flushing
          /\ flushCh' = flushCh /\ faults' = faults + 1
      BY <2>3 DEF FlushFail, FlushReturn
    <3> QED BY <3>1 DEF IInv, TypeOK, FlushPCs, FlushInv
  <2> QED BY <2>1, <2>2, <2>3
<1>3. TypeOK'
  BY <1>1, <1>2 DEF IInv, TypeOK, writerVars, storeVars
<1>4. LockInv' /\ OpsInv' /\ InsertInv' /\ IdleInv' /\ SeqInv'
  BY <1>1 DEF IInv, LockInv, OpsInv, InsertInv, IdleInv, SeqInv, writerVars, storeVars
<1>5. SourcesInv'
  BY <1>1, SourcesUnchanged DEF IInv, SourcesInv, storeVars
<1> QED BY <1>2, <1>3, <1>4, <1>5 DEF IInv, SourcesInv

(* The flushed table replaces its memtable.                                *)
LEMMA FlushInstallStep ==
    ASSUME IInv, FlushInstall
    PROVE  IInv'
<1> USE NamesAssumption
<1>1. /\ UNCHANGED <<writerVars, data, active, nextSeq, nextMemID, walOpen, log>>
      /\ UNCHANGED <<flushCh, flushing, closePC, boundVars>>
      /\ immutables' = SubSeq(immutables, 1, Len(immutables) - 1)
      /\ l0' = <<flushing>> \o l0
      /\ flushPC' \in {"notify", "lastnotify"}
      /\ mu = Free
  BY DEF FlushInstall
<1>2. immutables # << >> /\ flushing = immutables[Len(immutables)]
  BY DEF IInv, FlushInv, FlushInstall
<1>3. immutables' \in Seq(1..nextMemID) /\ l0' \in Seq(1..nextMemID)
  <2>1. Len(immutables) \in Nat \ {0} /\ immutables \in Seq(1..nextMemID)
    BY <1>2, EmptySeq DEF IInv, TypeOK
  <2>2. \A i \in 1..Len(immutables) : immutables[i] \in 1..nextMemID
    BY <2>1, ElementOfSeq
  <2>3. \A i \in 1..Len(immutables) - 1 : immutables[i] \in 1..nextMemID
    BY <2>1, <2>2
  <2>4. SubSeq(immutables, 1, Len(immutables) - 1) \in Seq(1..nextMemID)
    BY <2>1, <2>3, SubSeqProperties
  <2>5. <<flushing>> \in Seq(1..nextMemID)
    BY <1>2, <2>1, <2>2
  <2> QED BY <1>1, <2>4, <2>5, ConcatProperties DEF IInv, TypeOK
<1>4. TypeOK'
  BY <1>1, <1>3 DEF IInv, TypeOK, FlushPCs, writerVars, boundVars
<1>5. LockInv' /\ OpsInv' /\ IdleInv' /\ SeqInv' /\ FlushInv'
  BY <1>1 DEF IInv, LockInv, OpsInv, IdleInv, SeqInv, FlushInv, writerVars
<1>6. InsertInv'
  BY <1>1 DEF IInv, LockInv, InsertInv, writerVars
<1>7. SearchOrder' = SearchOrder
  BY InstallKeepsOrder DEF IInv
<1>8. SourcesInv'
  BY <1>1, <1>7 DEF IInv, SourcesInv, IdInv, Descending, NothingLost, UniqueSeqs
<1> QED BY <1>4, <1>5, <1>6, <1>8 DEF IInv, SourcesInv

(* Waiters are notified, by the flush goroutine or by Close; Close ends.   *)
LEMMA NotifyStep ==
    ASSUME IInv, FlushNotify \/ CloseSignal \/ CloseBroadcast \/ CloseFinish
    PROVE  IInv'
<1> USE NamesAssumption
<1>1. /\ UNCHANGED <<mu, ops, snap, base, ins, data, active, immutables, l0, nextSeq>>
      /\ UNCHANGED <<nextMemID, log, flushCh, flushing, calls, faults>>
      /\ WakeWaiters \/ pc' = pc
      /\ flushPC' = flushPC \/ flushPC' \in {"pick", "lastpick"}
      /\ walOpen' = walOpen \/ walOpen' = FALSE
      /\ closePC' \in {"signalled", "draining", "closed"} \/ closePC' = closePC
  BY DEF FlushNotify, CloseSignal, CloseBroadcast, CloseFinish,
         writerVars, storeVars, flushVars, boundVars
<1>2. pc' \in [Writers -> PCs] /\ \A w \in Writers :
         pc'[w] = pc[w] \/ (pc[w] = "waiting" /\ pc'[w] = "woken")
  BY <1>1 DEF IInv, TypeOK, WakeWaiters, PCs
<1>3. TypeOK'
  <2>1. walOpen' \in BOOLEAN /\ flushPC' \in FlushPCs
        /\ closePC' \in {"open", "signalled", "draining", "closed"}
    BY <1>1 DEF IInv, TypeOK, FlushPCs
  <2> QED BY <1>1, <1>2, <2>1 DEF IInv, TypeOK
<1>4. LockInv' /\ OpsInv' /\ IdleInv' /\ SeqInv'
  BY <1>1, <1>2 DEF IInv, LockInv, OpsInv, IdleInv, SeqInv
<1>5. InsertInv'
  BY <1>1, <1>2 DEF IInv, InsertInv
<1>6. FlushInv'
  BY <1>1 DEF IInv, FlushInv
<1>7. SourcesInv'
  BY <1>1, SourcesUnchanged DEF IInv, SourcesInv
<1> QED BY <1>3, <1>4, <1>5, <1>6, <1>7 DEF IInv, SourcesInv

LEMMA NextIInv == IInv /\ [Next]_vars => IInv'
<1> SUFFICES ASSUME IInv, [Next]_vars PROVE IInv'
  OBVIOUS
<1>1. ASSUME NEW w \in Writers, NEW b \in Batches, Acquire(w, b) \/ Commit(w, b)
      PROVE  IInv'
  BY <1>1, EnterStep
<1>2. ASSUME NEW w \in Writers, BeginTransaction(w) \/ Rollback(w)
      PROVE  IInv'
  BY <1>2, EnterStep
<1>3. ASSUME NEW w \in Writers, WriterStep(w)
      PROVE  IInv'
  BY <1>3, WaitStep, ReserveStep, InsertStep, ReturnStep DEF WriterStep
<1>4. CASE FlushStep \/ FlushFail
  BY <1>4, FlushLoopStep, FlushInstallStep, NotifyStep DEF FlushStep
<1>5. CASE CloseSignal \/ CloseStep
  BY <1>5, NotifyStep DEF CloseStep
<1>6. CASE UNCHANGED vars
  <2>1. TypeOK'
    BY <1>6 DEF IInv, TypeOK, vars, writerVars, storeVars, flushVars, boundVars
  <2>2. LockInv' /\ OpsInv' /\ InsertInv' /\ IdleInv' /\ SeqInv' /\ FlushInv'
    BY <1>6 DEF IInv, LockInv, OpsInv, InsertInv, IdleInv, SeqInv, FlushInv,
                vars, writerVars, storeVars, flushVars
  <2>3. SourcesInv'
    BY <1>6, SourcesUnchanged DEF IInv, SourcesInv, vars, storeVars
  <2> QED BY <2>1, <2>2, <2>3 DEF IInv, SourcesInv
<1> QED BY <1>1, <1>2, <1>3, <1>4, <1>5, <1>6 DEF Next, Quiescent

LEMMA Inductive == Spec => []IInv
  BY InitIInv, NextIInv, PTL DEF Spec

-----------------------------------------------------------------------------

(* The DB struct, the writers and the flush goroutine keep their shape.    *)
THEOREM TypeCorrect == Spec => []TypeOK
<1>1. IInv => TypeOK
  BY DEF IInv
<1> QED BY Inductive, <1>1, PTL

(* getAt may stop at the first source that holds the key: sources it       *)
(* searches earlier hold only newer versions, whatever the writers and the *)
(* flush goroutine do.                                                     *)
THEOREM SearchIsNewestFirst == Spec => []NewestFirst
<1>1. IInv => NewestFirst
  <2> SUFFICES ASSUME IInv PROVE NewestFirst
    OBVIOUS
  <2> SUFFICES ASSUME NEW i \in DOMAIN SearchOrder, NEW j \in DOMAIN SearchOrder,
                      i < j, SearchOrder[i] # SearchOrder[j],
                      NEW u \in data[SearchOrder[i]], NEW v \in data[SearchOrder[j]]
               PROVE  u.seq > v.seq
    BY DEF NewestFirst
  <2>1. SearchOrder \in Seq(1..nextMemID)
    BY SearchOrderShape DEF IInv
  <2>2. /\ i \in 1..Len(SearchOrder) /\ j \in 1..Len(SearchOrder)
        /\ SearchOrder[i] \in 1..nextMemID /\ SearchOrder[j] \in 1..nextMemID
    <3>1. DOMAIN SearchOrder = 1..Len(SearchOrder)
      BY <2>1, LenProperties
    <3> HIDE DEF SearchOrder
    <3> QED BY <2>1, <3>1, ElementOfSeq
  <2>3. SearchOrder[i] > SearchOrder[j]
    BY <2>1, <2>2 DEF IInv, Descending
  <2> QED BY <2>2, <2>3 DEF IInv, IdInv
<1> QED BY Inductive, <1>1, PTL

(* A version that entered a memtable stays in a source getAt searches:     *)
(* rotation and flush hand over without a gap.                             *)
THEOREM NoVersionLost == Spec => []NothingLost
<1>1. IInv => NothingLost
  BY DEF IInv
<1> QED BY Inductive, <1>1, PTL

(* A sequence number identifies one write, failed WAL appends included.    *)
THEOREM SeqsIdentifyWrites == Spec => []UniqueSeqs
<1>1. IInv => UniqueSeqs
  BY DEF IInv
<1> QED BY Inductive, <1>1, PTL

(* waitForFlushSpace bounds the backlog of unflushed memtables, if         *)
(* recovery did not already leave more of them.                            *)
THEOREM BacklogBounded ==
    ASSUME Recovered <= MaxImmutableCount
    PROVE  Spec => []Backpressure
<1>1. Init => Backpressure
  <2> SUFFICES ASSUME Init PROVE Len(immutables) = Recovered
    BY SizesAssumption DEF Backpressure
  <2> QED BY SizesAssumption DEF Init
<1>2. IInv /\ Backpressure /\ [Next]_vars => Backpressure'
  <2> SUFFICES ASSUME IInv, Backpressure, [Next]_vars PROVE Backpressure'
    OBVIOUS
  <2>1. CASE UNCHANGED immutables
    BY <2>1 DEF Backpressure
  <2>2. CASE FlushInstall
    <3>1. immutables # << >> /\ immutables \in Seq(1..nextMemID)
      BY <2>2 DEF IInv, FlushInv, TypeOK, FlushInstall
    <3>2. Len(immutables') = Len(immutables) - 1
      BY <2>2, <3>1 DEF FlushInstall
    <3> QED BY <3>1, <3>2, SizesAssumption DEF Backpressure
  <2>3. ASSUME NEW w \in Writers, Return(w) PROVE Backpressure'
    <3>1. Len(immutables) < MaxImmutableCount
      BY <2>3 DEF IInv, InsertInv, Return
    <3>2. immutables' = immutables \/ immutables' = <<active>> \o immutables
      BY <2>3 DEF Return, RotateMemtable
    <3>3. Len(immutables') <= Len(immutables) + 1
      BY <3>2 DEF IInv, TypeOK
    <3> QED BY <3>1, <3>3, SizesAssumption DEF Backpressure, IInv, TypeOK
  <2>4. \/ UNCHANGED immutables \/ FlushInstall
        \/ \E w \in Writers : Return(w)
    BY DEF Next, vars, storeVars, Acquire, Commit, BeginTransaction, Rollback,
           WriterStep, WaitForSpace, Reacquire, Reserve, Insert, FlushStep,
           FlushWakeup, FlushPick, FlushNotify, FlushFail, CloseSignal,
           CloseStep, CloseBroadcast, CloseFinish, Quiescent
  <2> QED BY <2>1, <2>2, <2>3, <2>4
<1> QED BY Inductive, <1>1, <1>2, PTL DEF Spec

=============================================================================
