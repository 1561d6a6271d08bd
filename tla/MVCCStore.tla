----------------------------- MODULE MVCCStore -----------------------------
(***************************************************************************)
(* What the storage engine promises its readers, with no memtables, locks  *)
(* or flushes: a set of versions that grows by whole write calls, and Gets *)
(* that answer with the newest version as of one instant: the instant the  *)
(* Get began, or the instant its snapshot was taken.  ReadPath implements  *)
(* this specification.                                                     *)
(***************************************************************************)
EXTENDS Integers

CONSTANTS Keys, Readers, NoSnap

VARIABLES
    hist,    \* every committed version
    clock,   \* the latest sequence number handed out
    snaps,   \* the instant of each reader's snapshot, or NoSnap
    asked,   \* the key and instant of each reader's Get in progress
    answer   \* what the Get returned: a sequence number, 0 for not found

storeVars == <<hist, clock>>
vars == <<hist, clock, snaps, asked, answer>>

NoGet == [key |-> "none", at |-> 0]
Pending == -1

(* s is the sequence number of the newest version of k as of instant at.   *)
IsNewest(s, k, at) ==
    LET visible == {v \in hist : v.key = k /\ v.seq <= at} IN
    \/ s = 0 /\ visible = {}
    \/ \E v \in visible : s = v.seq /\ \A u \in visible : u.seq <= s

Init ==
    /\ clock \in Nat
    /\ \A v \in hist : v.seq <= clock
    /\ snaps = [r \in Readers |-> NoSnap]
    /\ asked = [r \in Readers |-> NoGet]
    /\ answer = [r \in Readers |-> Pending]

(* A write call commits all its versions at once, all newer than anything  *)
(* before; a failed call commits none but may use up sequence numbers.     *)
Write ==
    /\ hist \subseteq hist'
    /\ clock' > clock
    /\ \A v \in hist' \ hist : clock < v.seq /\ v.seq <= clock'
    /\ UNCHANGED <<snaps, asked, answer>>

GetSnapshot(r) ==
    /\ snaps[r] = NoSnap
    /\ snaps' = [snaps EXCEPT ![r] = clock]
    /\ UNCHANGED <<storeVars, asked, answer>>

CloseSnapshot(r) ==
    /\ asked[r] = NoGet
    /\ snaps' = [snaps EXCEPT ![r] = NoSnap]
    /\ UNCHANGED <<storeVars, asked, answer>>

Ask(r, k) ==
    /\ asked[r] = NoGet
    /\ asked' = [asked EXCEPT ![r] =
          [key |-> k, at |-> IF snaps[r] = NoSnap THEN clock ELSE snaps[r]]]
    /\ UNCHANGED <<storeVars, snaps, answer>>

Answer(r) ==
    /\ asked[r] # NoGet /\ answer[r] = Pending
    /\ answer'[r] # Pending
    /\ IsNewest(answer'[r], asked[r].key, asked[r].at)
    /\ answer' = [answer EXCEPT ![r] = answer'[r]]
    /\ UNCHANGED <<storeVars, snaps, asked>>

Return(r) ==
    /\ answer[r] # Pending
    /\ answer' = [answer EXCEPT ![r] = Pending]
    /\ asked' = [asked EXCEPT ![r] = NoGet]
    /\ UNCHANGED <<storeVars, snaps>>

Next ==
    \/ Write
    \/ \E r \in Readers :
          \/ GetSnapshot(r) \/ CloseSnapshot(r)
          \/ \E k \in Keys : Ask(r, k)
          \/ Answer(r) \/ Return(r)

Spec == Init /\ [][Next]_vars
=============================================================================
