--------------------------- MODULE AnnouncerProofs ---------------------------
(***************************************************************************)
(* Announcer's safety for every set of keys and tasks and every bound.     *)
(***************************************************************************)
EXTENDS Announcer, TLAPS

(* A writer holds the persist lock alone, and its snapshot lies between    *)
(* the file and the floor; the file never runs ahead of the floor.         *)
WriterInv ==
    /\ \A t \in Tasks : pc[t] = "write" => persistLock = {t}
    /\ \A k \in Keys : disk[k].sequence <= floor[k].sequence
    /\ \A t \in Tasks : pc[t] = "write" =>
          \A k \in Keys : /\ disk[k].sequence <= snap[t][k].sequence
                          /\ snap[t][k].sequence <= floor[k].sequence

(* How far the sequence of a positive record has come when its task is at  *)
(* each place: in the floor, in the snapshot, on disk.                     *)
CarriedInv ==
    \A t \in Tasks : (pc[t] # "idle" /\ rec[t].kind = "provide") =>
        /\ pc[t] \in {"persist", "write"} =>
              floor[rec[t].key].sequence >= rec[t].sequence
        /\ pc[t] = "write" => snap[t][rec[t].key].sequence >= rec[t].sequence
        /\ pc[t] \in {"start", "put", "reply"} =>
              disk[rec[t].key].sequence >= rec[t].sequence

(* Past the gate, a task carries an eligible key.                          *)
GateInv ==
    \A t \in Tasks :
        pc[t] \in {"persist", "write", "start", "put", "reply", "stop"} =>
            rec[t].key \in eligible

IInv ==
    /\ TypeOK
    /\ WriterInv
    /\ CarriedInv
    /\ GateInv
    /\ SavedBeforePublished

(* A step of the sequence file: it never lowers a key's sequence.          *)
DiskStep == \A k \in Keys : disk'[k].sequence >= disk[k].sequence

-----------------------------------------------------------------------------
(* The initial states satisfy the inductive invariant: nothing is carried, *)
(* nothing published, and file and floor are both empty.                   *)
LEMMA InitIInv == Init => IInv
<1> SUFFICES ASSUME Init PROVE IInv
  OBVIOUS
<1>1. TypeOK
  BY DEF Init, TypeOK, Never, LastPublished, Places, NoRecord, NoSnapshot
<1>2. WriterInv
  BY DEF Init, WriterInv, Never
<1>3. CarriedInv
  BY DEF Init, CarriedInv
<1>4. GateInv
  BY DEF Init, GateInv
<1>5. SavedBeforePublished
  BY DEF Init, SavedBeforePublished
<1> QED
  BY <1>1, <1>2, <1>3, <1>4, <1>5 DEF IInv

-----------------------------------------------------------------------------
(* announcer.rs next_sequence and the caller's signing: minting touches    *)
(* only the minting task.                                                  *)
LEMMA MintIInv ==
    ASSUME IInv, NEW t \in Tasks, NEW k \in Keys, NEW ttl \in Ttls, Mint(t, k, ttl)
    PROVE  IInv'
<1> DEFINE r == [kind |-> "provide", key |-> k, sequence |-> NextSequence(k),
                 issued |-> now, expiry |-> now + ttl]
<1>0. r \in Assertion
  BY TtlAssumption DEF IInv, TypeOK, Assertion, Kinds, NextSequence, LastPublished
<1> HIDE DEF r
<1>m. /\ rec' = [rec EXCEPT ![t] = r]
      /\ pc' = [pc EXCEPT ![t] = "signed"]
      /\ UNCHANGED <<now, eligible, floor, disk, persistLock, snap, published,
                     providing, acked, crashes>>
  BY DEF Mint, r
<1>1. TypeOK'
  BY <1>0, <1>m DEF IInv, TypeOK, Places
<1>2. WriterInv'
  BY <1>m DEF IInv, TypeOK, WriterInv
<1>3. CarriedInv'
  BY <1>m DEF IInv, TypeOK, CarriedInv
<1>4. GateInv'
  BY <1>m DEF IInv, TypeOK, GateInv
<1>5. SavedBeforePublished'
  BY <1>m DEF IInv, SavedBeforePublished
<1> QED
  BY <1>1, <1>2, <1>3, <1>4, <1>5 DEF IInv

(* withdraw minting a tombstone, announcer.rs mint_withdrawal.             *)
LEMMA WithdrawMintIInv ==
    ASSUME IInv, NEW t \in Tasks, NEW k \in Keys, WithdrawMint(t, k)
    PROVE  IInv'
<1> DEFINE w == MintWithdrawal(k)
<1>0. w \in Assertion /\ w.kind = "withdraw" /\ w.key = k
  BY TtlAssumption
     DEF IInv, TypeOK, Assertion, Kinds, LastPublished, MintWithdrawal, Max2
<1> HIDE DEF w
<1>m. /\ rec' = [rec EXCEPT ![t] = w]
      /\ pc' = [pc EXCEPT ![t] = "put"]
      /\ k \in eligible
      /\ UNCHANGED <<now, eligible, floor, disk, persistLock, snap, published,
                     providing, acked, crashes>>
  BY DEF WithdrawMint, w
<1>1. TypeOK'
  BY <1>0, <1>m DEF IInv, TypeOK, Places
<1>2. WriterInv'
  BY <1>m DEF IInv, TypeOK, WriterInv
<1>3. CarriedInv'
  BY <1>0, <1>m DEF IInv, TypeOK, CarriedInv
<1>4. GateInv'
  BY <1>0, <1>m DEF IInv, TypeOK, GateInv
<1>5. SavedBeforePublished'
  BY <1>m DEF IInv, SavedBeforePublished
<1> QED
  BY <1>1, <1>2, <1>3, <1>4, <1>5 DEF IInv

(* DurableSeqFloor::advance never lowers a key's sequence, and leaves the  *)
(* advanced key at or above the sequence it was given.                     *)
LEMMA AdvanceRaises ==
    ASSUME TypeOK, NEW k \in Keys, NEW s \in Nat, NEW e \in Nat, Advance(k, s, e)
    PROVE  /\ floor' \in [Keys -> LastPublished]
           /\ \A j \in Keys : floor'[j].sequence >= floor[j].sequence
           /\ floor'[k].sequence >= s
BY DEF TypeOK, Advance, LastPublished

(* The gate and the floor advance of announce.                             *)
LEMMA AnnounceAdmitIInv ==
    ASSUME IInv, NEW t \in Tasks, AnnounceAdmit(t)
    PROVE  IInv'
<1>0. rec[t] \in Assertion
  BY DEF IInv, TypeOK, AnnounceAdmit
<1>a. /\ floor' \in [Keys -> LastPublished]
      /\ \A j \in Keys : floor'[j].sequence >= floor[j].sequence
      /\ floor'[rec[t].key].sequence >= rec[t].sequence
  BY <1>0, AdvanceRaises DEF IInv, AnnounceAdmit, Assertion
<1>m. /\ pc' = [pc EXCEPT ![t] = "persist"]
      /\ rec[t].key \in eligible
      /\ UNCHANGED <<rec, now, eligible, disk, persistLock, snap, published,
                     providing, acked, crashes>>
  BY DEF AnnounceAdmit, Goto, Admissible
<1>1. TypeOK'
  BY <1>0, <1>a, <1>m DEF IInv, TypeOK, Places
<1>2. WriterInv'
  BY <1>a, <1>m DEF IInv, TypeOK, WriterInv, LastPublished
<1>3. CarriedInv'
  BY <1>0, <1>a, <1>m DEF IInv, TypeOK, CarriedInv, LastPublished, Assertion
<1>4. GateInv'
  BY <1>m DEF IInv, TypeOK, GateInv
<1>5. SavedBeforePublished'
  BY <1>m DEF IInv, SavedBeforePublished
<1> QED
  BY <1>1, <1>2, <1>3, <1>4, <1>5 DEF IInv

(* A task that only returns, with nothing else changed, keeps everything.  *)
LEMMA ReturnIInv ==
    ASSUME IInv, NEW t \in Tasks, Return(t),
           UNCHANGED <<now, eligible, floor, disk, persistLock, snap,
                       published, acked, crashes>>,
           providing' \in SUBSET Keys
    PROVE  IInv'
<1>1. TypeOK'
  BY DEF IInv, TypeOK, Places, Return
<1>2. WriterInv'
  BY DEF IInv, TypeOK, WriterInv, Return
<1>3. CarriedInv'
  BY DEF IInv, TypeOK, CarriedInv, Return
<1>4. GateInv'
  BY DEF IInv, TypeOK, GateInv, Return
<1>5. SavedBeforePublished'
  BY DEF IInv, SavedBeforePublished
<1> QED
  BY <1>1, <1>2, <1>3, <1>4, <1>5 DEF IInv

(* Taking the persist lock and the snapshot: the floor is copied whole, so *)
(* the snapshot covers whatever the floor covered.                         *)
LEMMA PersistSnapshotIInv ==
    ASSUME IInv, NEW t \in Tasks, PersistSnapshot(t)
    PROVE  IInv'
<1>m. /\ pc[t] = "persist"
      /\ persistLock = {}
      /\ persistLock' = {t}
      /\ snap' = [snap EXCEPT ![t] = floor]
      /\ pc' = [pc EXCEPT ![t] = "write"]
      /\ UNCHANGED <<rec, now, eligible, floor, disk, published, providing,
                     acked, crashes>>
  BY DEF PersistSnapshot, Goto
<1>1. TypeOK'
  BY <1>m DEF IInv, TypeOK, Places
<1>2. WriterInv'
  BY <1>m DEF IInv, TypeOK, WriterInv, LastPublished
<1>3. CarriedInv'
  BY <1>m DEF IInv, TypeOK, CarriedInv
<1>4. GateInv'
  BY <1>m DEF IInv, TypeOK, GateInv
<1>5. SavedBeforePublished'
  BY <1>m DEF IInv, SavedBeforePublished
<1> QED
  BY <1>1, <1>2, <1>3, <1>4, <1>5 DEF IInv

(* A finished write, successful or not, leaves the file as it was or at    *)
(* the writer's snapshot; neither lowers a sequence.                       *)
LEMMA WriteRaisesDisk ==
    ASSUME IInv, NEW t \in Tasks, pc[t] = "write", disk' \in {disk, snap[t]},
           UNCHANGED floor
    PROVE  /\ disk' \in [Keys -> LastPublished]
           /\ DiskStep
           /\ \A k \in Keys : disk'[k].sequence <= floor[k].sequence
BY DEF IInv, TypeOK, WriterInv, DiskStep, LastPublished

(* persist_checked or persist_lossy succeeding.                            *)
LEMMA PersistOkIInv ==
    ASSUME IInv, NEW t \in Tasks, PersistOk(t)
    PROVE  IInv' /\ DiskStep
<1> DEFINE place == IF rec[t].kind = "provide" THEN "start" ELSE "stop"
<1>m. /\ pc[t] = "write"
      /\ disk' = snap[t]
      /\ snap' = [snap EXCEPT ![t] = NoSnapshot]
      /\ persistLock' = persistLock \ {t}
      /\ pc' = [pc EXCEPT ![t] = place]
      /\ UNCHANGED <<rec, now, eligible, floor, published, providing, acked,
                     crashes>>
  BY DEF PersistOk, Goto
<1>d. /\ disk' \in [Keys -> LastPublished]
      /\ DiskStep
      /\ \A k \in Keys : disk'[k].sequence <= floor[k].sequence
  BY <1>m, WriteRaisesDisk
<1>0. NoSnapshot \in [Keys -> LastPublished]
  BY DEF NoSnapshot, Never, LastPublished
<1>1. TypeOK'
  BY <1>0, <1>d, <1>m DEF IInv, TypeOK, Places
<1>u. \A u \in Tasks : pc'[u] = "write" => u # t /\ pc[u] = "write"
  BY <1>m DEF IInv, TypeOK
<1>v. \A u \in Tasks : pc'[u] # "write"
  BY <1>m, <1>u DEF IInv, WriterInv
<1>2. WriterInv'
  BY <1>d, <1>m, <1>v DEF WriterInv
<1>3. CarriedInv'
  <2> SUFFICES ASSUME NEW u \in Tasks, pc'[u] # "idle", rec[u].kind = "provide"
               PROVE  /\ pc'[u] = "persist" =>
                            floor[rec[u].key].sequence >= rec[u].sequence
                      /\ pc'[u] \in {"start", "put", "reply"} =>
                            disk'[rec[u].key].sequence >= rec[u].sequence
    BY <1>m, <1>v DEF CarriedInv
  <2>1. CASE u = t
    BY <1>m, <2>1 DEF IInv, TypeOK, CarriedInv
  <2>2. CASE u # t
    <3>1. pc[u] = pc'[u] /\ rec[u] \in Assertion
      BY <1>m, <2>2 DEF IInv, TypeOK
    <3>2. rec[u].key \in Keys /\ rec[u].sequence \in Nat
      BY <3>1 DEF Assertion
    <3> QED
      BY <1>d, <3>1, <3>2 DEF IInv, TypeOK, CarriedInv, DiskStep, LastPublished
  <2> QED
    BY <2>1, <2>2
<1>4. GateInv'
  BY <1>m DEF IInv, TypeOK, GateInv
<1>5. SavedBeforePublished'
  BY <1>d, <1>m DEF IInv, TypeOK, SavedBeforePublished, DiskStep, LastPublished,
                    Assertion
<1> QED
  BY <1>1, <1>2, <1>3, <1>4, <1>5, <1>d DEF IInv

(* A failed save: announce fails closed, withdraw goes on to stop.         *)
LEMMA PersistFailIInv ==
    ASSUME IInv, NEW t \in Tasks, PersistFail(t)
    PROVE  IInv' /\ DiskStep
<1>m. /\ pc[t] = "write"
      /\ disk' \in {disk, snap[t]}
      /\ snap' = [snap EXCEPT ![t] = NoSnapshot]
      /\ persistLock' = persistLock \ {t}
      /\ UNCHANGED <<now, eligible, floor, published, providing, acked,
                     crashes>>
  BY DEF PersistFail
<1>p. \/ /\ pc' = [pc EXCEPT ![t] = "idle"]
         /\ rec' = [rec EXCEPT ![t] = NoRecord]
      \/ /\ pc' = [pc EXCEPT ![t] = "stop"]
         /\ rec' = rec
  BY DEF PersistFail, Return, Goto
<1>d. /\ disk' \in [Keys -> LastPublished]
      /\ DiskStep
      /\ \A k \in Keys : disk'[k].sequence <= floor[k].sequence
  BY <1>m, WriteRaisesDisk
<1>0. NoSnapshot \in [Keys -> LastPublished]
  BY DEF NoSnapshot, Never, LastPublished
<1>1. TypeOK'
  BY <1>0, <1>d, <1>m, <1>p DEF IInv, TypeOK, Places
<1>u. \A u \in Tasks \ {t} : pc'[u] = pc[u] /\ rec'[u] = rec[u]
  BY <1>p DEF IInv, TypeOK
<1>t. pc'[t] \in {"idle", "stop"}
  BY <1>p DEF IInv, TypeOK
<1>v. \A u \in Tasks : pc'[u] # "write"
  BY <1>m, <1>u, <1>t DEF IInv, WriterInv
<1>2. WriterInv'
  BY <1>d, <1>m, <1>v DEF WriterInv
<1>3. CarriedInv'
  <2> SUFFICES ASSUME NEW u \in Tasks \ {t}, pc[u] # "idle", rec[u].kind = "provide"
               PROVE  /\ pc[u] = "persist" =>
                            floor[rec[u].key].sequence >= rec[u].sequence
                      /\ pc[u] \in {"start", "put", "reply"} =>
                            disk'[rec[u].key].sequence >= rec[u].sequence
    BY <1>m, <1>u, <1>t, <1>v DEF CarriedInv
  <2>1. rec[u].key \in Keys /\ rec[u].sequence \in Nat
    BY DEF IInv, TypeOK, Assertion
  <2> QED
    BY <1>d, <2>1 DEF IInv, TypeOK, CarriedInv, DiskStep, LastPublished
<1>4. GateInv'
  BY <1>m, <1>p DEF IInv, TypeOK, GateInv
<1>5. SavedBeforePublished'
  BY <1>d, <1>m DEF IInv, TypeOK, SavedBeforePublished, DiskStep, LastPublished,
                    Assertion
<1> QED
  BY <1>1, <1>2, <1>3, <1>4, <1>5, <1>d DEF IInv

(* start_providing: the index entry changes, the record does not.          *)
LEMMA StartProvidingIInv ==
    ASSUME IInv, NEW t \in Tasks, StartProviding(t)
    PROVE  IInv'
<1>0. rec[t].key \in Keys
  BY DEF IInv, TypeOK, StartProviding, Assertion
<1>m. /\ pc[t] = "start"
      /\ pc' = [pc EXCEPT ![t] = "put"]
      /\ providing' = providing \cup {rec[t].key}
      /\ UNCHANGED <<rec, now, eligible, floor, disk, persistLock, snap,
                     published, acked, crashes>>
  BY DEF StartProviding, Goto
<1>1. TypeOK'
  BY <1>0, <1>m DEF IInv, TypeOK, Places
<1>2. WriterInv'
  BY <1>m DEF IInv, TypeOK, WriterInv
<1>3. CarriedInv'
  BY <1>m DEF IInv, TypeOK, CarriedInv
<1>4. GateInv'
  BY <1>m DEF IInv, TypeOK, GateInv
<1>5. SavedBeforePublished'
  BY <1>m DEF IInv, SavedBeforePublished
<1> QED
  BY <1>1, <1>2, <1>3, <1>4, <1>5 DEF IInv

(* put_record taking effect: only an eligible, already saved record (or a  *)
(* tombstone) is added.                                                    *)
LEMMA PutRecordIInv ==
    ASSUME IInv, NEW t \in Tasks, PutRecord(t)
    PROVE  IInv'
<1>0. rec[t] \in Assertion
  BY DEF IInv, TypeOK, PutRecord
<1>m. /\ pc[t] = "put"
      /\ pc' = [pc EXCEPT ![t] = "reply"]
      /\ published' = published \cup {rec[t]}
      /\ UNCHANGED <<rec, now, eligible, floor, disk, persistLock, snap,
                     providing, acked, crashes>>
  BY DEF PutRecord, Goto
<1>1. TypeOK'
  BY <1>0, <1>m DEF IInv, TypeOK, Places
<1>2. WriterInv'
  BY <1>m DEF IInv, TypeOK, WriterInv
<1>3. CarriedInv'
  BY <1>m DEF IInv, TypeOK, CarriedInv
<1>4. GateInv'
  BY <1>m DEF IInv, TypeOK, GateInv
<1>5. SavedBeforePublished'
  BY <1>m DEF IInv, CarriedInv, SavedBeforePublished
<1> QED
  BY <1>1, <1>2, <1>3, <1>4, <1>5 DEF IInv

(* The acknowledged put: announce returns, withdraw advances the floor.    *)
LEMMA PutAckedIInv ==
    ASSUME IInv, NEW t \in Tasks, PutAcked(t)
    PROVE  IInv'
<1>0. rec[t] \in Assertion
  BY DEF IInv, TypeOK, PutAcked
<1>m. /\ pc[t] = "reply"
      /\ UNCHANGED <<now, eligible, disk, persistLock, snap, published,
                     providing, crashes>>
  BY DEF PutAcked
<1>k. acked' \in [Keys -> Kinds \cup {"none"}]
  BY <1>0 DEF IInv, TypeOK, Assertion, PutAcked
<1>1. CASE rec[t].kind = "provide"
  <2>1. /\ pc' = [pc EXCEPT ![t] = "idle"]
        /\ rec' = [rec EXCEPT ![t] = NoRecord]
        /\ floor' = floor
    BY <1>1 DEF PutAcked, Return
  <2>2. TypeOK'
    BY <1>m, <1>k, <2>1 DEF IInv, TypeOK, Places
  <2>3. WriterInv' /\ CarriedInv' /\ GateInv' /\ SavedBeforePublished'
    BY <1>m, <2>1
       DEF IInv, TypeOK, WriterInv, CarriedInv, GateInv, SavedBeforePublished
  <2> QED
    BY <2>2, <2>3 DEF IInv
<1>2. CASE rec[t].kind # "provide"
  <2>1. /\ pc' = [pc EXCEPT ![t] = "persist"]
        /\ rec' = rec
    BY <1>2 DEF PutAcked, Goto
  <2>a. /\ floor' \in [Keys -> LastPublished]
        /\ \A j \in Keys : floor'[j].sequence >= floor[j].sequence
    BY <1>0, <1>2, AdvanceRaises DEF IInv, Assertion, PutAcked
  <2>2. TypeOK'
    BY <1>m, <1>k, <2>1, <2>a DEF IInv, TypeOK, Places
  <2>b. \A j \in Keys : floor[j].sequence \in Nat /\ floor'[j].sequence \in Nat
    BY <2>a DEF IInv, TypeOK, LastPublished
  <2>c. \A j \in Keys : disk[j].sequence \in Nat
    BY DEF IInv, TypeOK, LastPublished
  <2>d. \A u \in Tasks : \A j \in Keys : snap[u][j].sequence \in Nat
    BY DEF IInv, TypeOK, LastPublished
  <2>3. WriterInv'
    <3>1. \A u \in Tasks : pc'[u] = "write" => pc[u] = "write"
      BY <2>1 DEF IInv, TypeOK
    <3>2. \A j \in Keys : disk[j].sequence <= floor'[j].sequence
      BY <2>a, <2>b, <2>c DEF IInv, WriterInv
    <3>3. \A u \in Tasks : pc[u] = "write" =>
             \A j \in Keys : snap[u][j].sequence <= floor'[j].sequence
      BY <2>a, <2>b, <2>d DEF IInv, WriterInv
    <3> QED
      BY <1>m, <3>1, <3>2, <3>3 DEF IInv, WriterInv
  <2>4. CarriedInv'
    <3> SUFFICES ASSUME NEW u \in Tasks \ {t}, pc[u] # "idle",
                        rec[u].kind = "provide", pc[u] \in {"persist", "write"}
                 PROVE  floor'[rec[u].key].sequence >= rec[u].sequence
      BY <1>2, <1>m, <2>1 DEF IInv, TypeOK, CarriedInv
    <3>1. rec[u].key \in Keys /\ rec[u].sequence \in Nat
      BY DEF IInv, TypeOK, Assertion
    <3> QED
      BY <2>a, <2>b, <3>1 DEF IInv, CarriedInv
  <2>5. GateInv' /\ SavedBeforePublished'
    BY <1>m, <2>1 DEF IInv, TypeOK, GateInv, SavedBeforePublished
  <2> QED
    BY <2>2, <2>3, <2>4, <2>5 DEF IInv
<1> QED
  BY <1>1, <1>2

(* announce_one_verified_seed trying the same record again.                *)
LEMMA RetryAnnounceIInv ==
    ASSUME IInv, NEW t \in Tasks, RetryAnnounce(t)
    PROVE  IInv'
<1>m. /\ pc[t] \in {"start", "put", "reply"}
      /\ pc' = [pc EXCEPT ![t] = "signed"]
      /\ UNCHANGED <<rec, now, eligible, floor, disk, persistLock, snap,
                     published, providing, acked, crashes>>
  BY DEF RetryAnnounce, Goto
<1>1. TypeOK'
  BY <1>m DEF IInv, TypeOK, Places
<1>2. WriterInv' /\ CarriedInv'
  BY <1>m DEF IInv, TypeOK, WriterInv, CarriedInv
<1>3. GateInv' /\ SavedBeforePublished'
  BY <1>m DEF IInv, TypeOK, GateInv, SavedBeforePublished
<1> QED
  BY <1>1, <1>2, <1>3 DEF IInv

(* A crash forgets the floor back to the file, and every task with it.     *)
LEMMA CrashRestartIInv == ASSUME IInv, CrashRestart PROVE IInv'
<1>0. NoSnapshot \in [Keys -> LastPublished]
  BY DEF NoSnapshot, Never, LastPublished
<1>1. TypeOK'
  BY <1>0 DEF IInv, TypeOK, CrashRestart, Places, Kinds
<1>2. WriterInv'
  BY DEF IInv, TypeOK, WriterInv, CrashRestart, LastPublished
<1>3. CarriedInv' /\ GateInv'
  BY DEF CarriedInv, GateInv, CrashRestart
<1>4. SavedBeforePublished'
  BY DEF IInv, SavedBeforePublished, CrashRestart
<1> QED
  BY <1>1, <1>2, <1>3, <1>4 DEF IInv

(* The clock moves nothing the invariant speaks of.                        *)
LEMMA TickIInv == ASSUME IInv, Tick PROVE IInv'
BY DEF IInv, Tick, TypeOK, WriterInv, CarriedInv, GateInv, SavedBeforePublished

-----------------------------------------------------------------------------
(* Every step of the announcer, stuttering included, keeps the inductive   *)
(* invariant and never lowers the sequence file.                           *)
LEMMA NextIInv == ASSUME IInv, [Next]_vars PROVE IInv' /\ DiskStep
<1>0. disk' = disk => DiskStep
  BY DEF IInv, TypeOK, DiskStep, LastPublished
<1>1. ASSUME NEW t \in Tasks, TaskStep(t) PROVE IInv' /\ DiskStep
  <2>1. ASSUME NEW k \in Keys, NEW ttl \in Ttls, Mint(t, k, ttl)
        PROVE IInv' /\ DiskStep
    BY <1>0, <2>1, MintIInv DEF Mint
  <2>2. CASE AnnounceAdmit(t)
    BY <1>0, <2>2, AnnounceAdmitIInv DEF AnnounceAdmit
  <2>3. CASE AnnounceReject(t)
    BY <1>0, <2>3, ReturnIInv DEF AnnounceReject, IInv, TypeOK
  <2>4. CASE PersistSnapshot(t)
    BY <1>0, <2>4, PersistSnapshotIInv DEF PersistSnapshot
  <2>5. CASE PersistOk(t)
    BY <2>5, PersistOkIInv
  <2>6. CASE PersistFail(t)
    BY <2>6, PersistFailIInv
  <2>7. CASE StartProviding(t)
    BY <1>0, <2>7, StartProvidingIInv DEF StartProviding
  <2>8. ASSUME NEW k \in Keys, WithdrawMint(t, k) PROVE IInv' /\ DiskStep
    BY <1>0, <2>8, WithdrawMintIInv DEF WithdrawMint
  <2>9. CASE PutRecord(t)
    BY <1>0, <2>9, PutRecordIInv DEF PutRecord
  <2>10. CASE PutAcked(t)
    BY <1>0, <2>10, PutAckedIInv DEF PutAcked
  <2>11. CASE PutAbandoned(t)
    BY <1>0, <2>11, ReturnIInv DEF PutAbandoned, IInv, TypeOK
  <2>12. CASE RetryAnnounce(t)
    BY <1>0, <2>12, RetryAnnounceIInv DEF RetryAnnounce
  <2>13. CASE StopProviding(t)
    <3>1. providing' \in SUBSET Keys
      BY <2>13 DEF StopProviding, IInv, TypeOK
    <3> QED
      BY <1>0, <2>13, <3>1, ReturnIInv DEF StopProviding
  <2> QED
    BY <1>1, <2>1, <2>2, <2>3, <2>4, <2>5, <2>6, <2>7, <2>8, <2>9, <2>10,
       <2>11, <2>12, <2>13 DEF TaskStep
<1>2. CASE CrashRestart
  BY <1>0, <1>2, CrashRestartIInv DEF CrashRestart
<1>3. CASE Tick
  BY <1>0, <1>3, TickIInv DEF Tick
<1>4. CASE UNCHANGED vars
  BY <1>0, <1>4 DEF vars, IInv, TypeOK, WriterInv, CarriedInv, GateInv,
                    SavedBeforePublished
<1> QED
  BY <1>1, <1>2, <1>3, <1>4 DEF Next

(* The inductive invariant holds of every behaviour.                       *)
LEMMA SpecIInv == Spec => []IInv
BY InitIInv, NextIInv, PTL DEF Spec

(* Type correctness of the announcer, its file and its tasks.              *)
THEOREM TypeCorrect == Spec => []TypeOK
<1>1. IInv => TypeOK
  BY DEF IInv
<1> QED
  BY <1>1, SpecIInv, PTL

(* announcer.rs saves the allocated sequence before it publishes: no       *)
(* positive record in the DHT is above the sequence on disk.               *)
THEOREM SaveBeforePublish == Spec => []SavedBeforePublished
<1>1. IInv => SavedBeforePublished
  BY DEF IInv
<1> QED
  BY <1>1, SpecIInv, PTL

(* next_sequence allocates strictly above every positive record this node  *)
(* ever published for the key, restarts included.                          *)
THEOREM NextIsNewer == Spec => []NextIsNewerThanRecords
<1>1. IInv => NextIsNewerThanRecords
  BY DEF IInv, TypeOK, WriterInv, SavedBeforePublished, NextIsNewerThanRecords,
         NextSequence, LastPublished, Assertion
<1> QED
  BY <1>1, SpecIInv, PTL

(* The sequence file never goes back, concurrent savers included.          *)
THEOREM DiskMonotonic == Spec => DiskNeverRegresses
<1>1. IInv /\ [Next]_vars => [DiskStep]_disk
  BY NextIInv
<1>2. Spec => [][DiskStep]_disk
  BY <1>1, SpecIInv, PTL DEF Spec
<1> QED
  BY <1>2 DEF DiskNeverRegresses, DiskStep

(* Only keys the running process's authority admits ever reach the DHT.    *)
THEOREM OnlyEligible == Spec => OnlyEligiblePublished
<1> DEFINE Gated == \A r \in published' \ published : r.key \in eligible
<1>1. IInv /\ [Next]_vars => [Gated]_vars
  BY DEF Next, TaskStep, Mint, AnnounceAdmit, AnnounceReject, PersistSnapshot,
         PersistOk, PersistFail, StartProviding, WithdrawMint, PutRecord,
         PutAcked, PutAbandoned, RetryAnnounce, StopProviding, CrashRestart,
         Tick, IInv, GateInv
<1>2. Spec => [][Gated]_vars
  BY <1>1, SpecIInv, PTL DEF Spec
<1> QED
  BY <1>2 DEF OnlyEligiblePublished
-----------------------------------------------------------------------------
(* What one owner per key adds (OneOwner).                                 *)

(* Two operations on one key are both withdrawals.                         *)
Owned ==
    \A t, u \in Tasks :
        (t # u /\ pc[t] # "idle" /\ pc[u] # "idle" /\ rec[t].key = rec[u].key) =>
            rec[t].kind = "withdraw" /\ rec[u].kind = "withdraw"

(* Where only an announce can be, and where only a withdrawal.             *)
KindInv ==
    \A t \in Tasks : /\ pc[t] \in {"signed", "start"} => rec[t].kind = "provide"
                     /\ pc[t] = "stop" => rec[t].kind = "withdraw"

(* A record a task carries is the only one published under its sequence.   *)
CarriedIsOnly ==
    \A t \in Tasks : (pc[t] # "idle" /\ rec[t].kind = "provide") =>
        \A q \in published :
            (/\ q.kind = "provide"
             /\ q.key = rec[t].key
             /\ q.sequence = rec[t].sequence) => q = rec[t]

(* The index entry is there from start_providing to the acknowledgement,   *)
(* and a withdrawal that is about to remove it has been acknowledged.      *)
IndexInv ==
    /\ \A k \in Keys : acked[k] = "provide" => k \in providing
    /\ \A t \in Tasks :
          /\ (pc[t] \in {"put", "reply"} /\ rec[t].kind = "provide")
                => rec[t].key \in providing
          /\ (pc[t] \in {"persist", "write", "stop"} /\ rec[t].kind = "withdraw")
                => acked[rec[t].key] # "provide"

OwnerInv ==
    /\ Owned
    /\ KindInv
    /\ CarriedIsOnly
    /\ OneSequenceOneRecord
    /\ IndexInv

(* A task that goes on with what it carries, or returns, keeps what is     *)
(* said of the tasks alone.                                                *)
LEMMA TaskGoesOn ==
    ASSUME TypeOK, Owned, NEW t \in Tasks, NEW place \in Places,
           pc' = [pc EXCEPT ![t] = place],
           \/ place = "idle" /\ rec' = [rec EXCEPT ![t] = NoRecord]
           \/ pc[t] # "idle" /\ rec' = rec
    PROVE  /\ Owned'
           /\ pc'[t] = place /\ \A u \in Tasks \ {t} : pc'[u] = pc[u] /\ rec'[u] = rec[u]
           /\ place # "idle" => rec'[t] = rec[t]
<1>1. /\ pc'[t] = place
      /\ \A u \in Tasks \ {t} : pc'[u] = pc[u] /\ rec'[u] = rec[u]
      /\ place # "idle" => rec'[t] = rec[t] /\ pc[t] # "idle"
  BY DEF TypeOK
<1>2. Owned'
  BY <1>1 DEF Owned
<1> QED
  BY <1>1, <1>2

(* A step that publishes nothing and carries nothing new.                  *)
LEMMA NothingPublished ==
    ASSUME CarriedIsOnly, OneSequenceOneRecord, published' = published,
           \A u \in Tasks : pc'[u] # "idle" => pc[u] # "idle" /\ rec'[u] = rec[u]
    PROVE  CarriedIsOnly' /\ OneSequenceOneRecord'
BY DEF CarriedIsOnly, OneSequenceOneRecord

(* A new record is above everything published, and its owner is alone.     *)
LEMMA MintOwner ==
    ASSUME OneOwner, IInv, OwnerInv, NEW t \in Tasks, NEW k \in Keys, NEW ttl \in Ttls,
           Mint(t, k, ttl)
    PROVE  OwnerInv'
<1> DEFINE r == [kind |-> "provide", key |-> k, sequence |-> NextSequence(k),
                 issued |-> now, expiry |-> now + ttl]
<1>1. /\ pc' = [pc EXCEPT ![t] = "signed"]
      /\ rec' = [rec EXCEPT ![t] = r]
      /\ UNCHANGED <<published, providing, acked>>
      /\ \A u \in Tasks \ {t} : ~Busy(u, k)
  BY DEF Mint, MayAnnounce
<1>2. /\ pc'[t] = "signed" /\ rec'[t] = r
      /\ \A u \in Tasks \ {t} : pc'[u] = pc[u] /\ rec'[u] = rec[u]
  BY <1>1 DEF IInv, TypeOK
<1>3. \A q \in published : q.kind = "provide" /\ q.key = k => r.sequence # q.sequence
  BY DEF IInv, TypeOK, WriterInv, SavedBeforePublished, NextSequence, LastPublished,
         Assertion
<1>4. Owned'
  BY <1>1, <1>2 DEF OwnerInv, Owned, Busy
<1>5. KindInv'
  BY <1>2 DEF OwnerInv, KindInv
<1>6. CarriedIsOnly' /\ OneSequenceOneRecord'
  BY <1>1, <1>2, <1>3 DEF OwnerInv, CarriedIsOnly, OneSequenceOneRecord
<1>7. IndexInv'
  BY <1>1, <1>2 DEF OwnerInv, IndexInv
<1> QED
  BY <1>4, <1>5, <1>6, <1>7 DEF OwnerInv

(* A withdrawal starts beside withdrawals only.                            *)
LEMMA WithdrawMintOwner ==
    ASSUME OneOwner, IInv, OwnerInv, NEW t \in Tasks, NEW k \in Keys, WithdrawMint(t, k)
    PROVE  OwnerInv'
<1>1. /\ pc' = [pc EXCEPT ![t] = "put"]
      /\ rec' = [rec EXCEPT ![t] = MintWithdrawal(k)]
      /\ UNCHANGED <<published, providing, acked>>
      /\ \A u \in Tasks \ {t} : Busy(u, k) => rec[u].kind = "withdraw"
  BY DEF WithdrawMint, MayWithdraw
<1>2. /\ pc'[t] = "put" /\ rec'[t].kind = "withdraw" /\ rec'[t].key = k
      /\ \A u \in Tasks \ {t} : pc'[u] = pc[u] /\ rec'[u] = rec[u]
  BY <1>1 DEF IInv, TypeOK, MintWithdrawal
<1>4. Owned'
  BY <1>1, <1>2 DEF OwnerInv, Owned, Busy
<1>5. KindInv'
  BY <1>2 DEF OwnerInv, KindInv
<1>6. CarriedIsOnly' /\ OneSequenceOneRecord'
  BY <1>1, <1>2 DEF OwnerInv, CarriedIsOnly, OneSequenceOneRecord
<1>7. IndexInv'
  BY <1>1, <1>2 DEF OwnerInv, IndexInv
<1> QED
  BY <1>4, <1>5, <1>6, <1>7 DEF OwnerInv

(* The other steps of a task: it goes on with what it carries, or returns. *)
LEMMA TaskStepOwner ==
    ASSUME OneOwner, IInv, OwnerInv, NEW t \in Tasks, TaskStep(t)
    PROVE  OwnerInv'
<1> USE DEF Goto, Return
<1>t. TypeOK /\ Owned /\ "idle" \in Places
  BY DEF IInv, OwnerInv, Places
<1>r. pc[t] # "idle" => rec[t].kind \in Kinds /\ rec[t].key \in Keys
  BY DEF IInv, TypeOK, Assertion
(* Returning, or moving on without touching index, acks or records.        *)
<1>q. ASSUME NEW place \in Places,
             pc' = [pc EXCEPT ![t] = place],
             \/ place = "idle" /\ rec' = [rec EXCEPT ![t] = NoRecord]
             \/ pc[t] # "idle" /\ rec' = rec,
             UNCHANGED <<published, providing, acked>>,
             place \in {"signed", "start"} => rec[t].kind = "provide",
             place = "stop" => rec[t].kind = "withdraw",
             place \in {"put", "reply"} => pc[t] \in {"put", "reply"},
             (place \in {"persist", "write", "stop"} /\ rec[t].kind = "withdraw")
                => pc[t] \in {"persist", "write", "stop"}
      PROVE  OwnerInv'
  <2>1. /\ Owned' /\ pc'[t] = place
        /\ \A u \in Tasks \ {t} : pc'[u] = pc[u] /\ rec'[u] = rec[u]
        /\ place # "idle" => rec'[t] = rec[t]
    BY <1>q, <1>t, TaskGoesOn
  <2>2. \A u \in Tasks : pc'[u] # "idle" => pc[u] # "idle" /\ rec'[u] = rec[u]
    BY <1>q, <2>1
  <2>3. KindInv'
    BY <1>q, <2>1 DEF OwnerInv, KindInv
  <2>4. CarriedIsOnly' /\ OneSequenceOneRecord'
    BY <1>q, <2>2, NothingPublished DEF OwnerInv
  <2>5. IndexInv'
    BY <1>q, <2>1 DEF OwnerInv, IndexInv
  <2> QED
    BY <2>1, <2>3, <2>4, <2>5 DEF OwnerInv
<1>1. CASE \E k \in Keys, ttl \in Ttls : Mint(t, k, ttl)
  BY <1>1, MintOwner
<1>2. CASE \E k \in Keys : WithdrawMint(t, k)
  BY <1>2, WithdrawMintOwner
<1>3. CASE AnnounceAdmit(t)
  <2>1. pc[t] = "signed" /\ rec[t].kind = "provide"
    BY <1>3 DEF AnnounceAdmit, OwnerInv, KindInv
  <2> QED
    BY <1>3, <1>q, <2>1 DEF AnnounceAdmit, Places
<1>4. CASE AnnounceReject(t) \/ PutAbandoned(t)
  BY <1>4, <1>q, <1>t DEF AnnounceReject, PutAbandoned
<1>5. CASE PersistSnapshot(t)
  BY <1>5, <1>q DEF PersistSnapshot, Places
<1>6. CASE PersistOk(t)
  BY <1>6, <1>q, <1>r DEF PersistOk, Places, Kinds
<1>7. CASE PersistFail(t)
  BY <1>7, <1>q, <1>r, <1>t DEF PersistFail, Places, Kinds
<1>8. CASE RetryAnnounce(t)
  BY <1>8, <1>q DEF RetryAnnounce, Places
<1>9. CASE StartProviding(t)
  <2>1. /\ pc[t] = "start" /\ rec[t].kind = "provide" /\ rec' = rec
        /\ pc' = [pc EXCEPT ![t] = "put"]
        /\ providing' = providing \cup {rec[t].key}
        /\ UNCHANGED <<published, acked>>
    BY <1>9 DEF StartProviding, OwnerInv, KindInv
  <2>2. /\ Owned' /\ pc'[t] = "put"
        /\ \A u \in Tasks \ {t} : pc'[u] = pc[u]
    BY <1>t, <2>1, TaskGoesOn DEF Places
  <2>3. KindInv'
    BY <2>1, <2>2 DEF OwnerInv, KindInv
  <2>4. CarriedIsOnly' /\ OneSequenceOneRecord'
    BY <2>1, <2>2, NothingPublished DEF OwnerInv
  <2>5. IndexInv'
    BY <2>1, <2>2 DEF OwnerInv, IndexInv
  <2> QED
    BY <2>2, <2>3, <2>4, <2>5 DEF OwnerInv
<1>10. CASE PutRecord(t)
  <2>1. /\ pc[t] = "put" /\ rec' = rec
        /\ pc' = [pc EXCEPT ![t] = "reply"]
        /\ published' = published \cup {rec[t]}
        /\ UNCHANGED <<providing, acked>>
    BY <1>10 DEF PutRecord
  <2>2. /\ Owned' /\ pc'[t] = "reply"
        /\ \A u \in Tasks \ {t} : pc'[u] = pc[u]
    BY <1>t, <2>1, TaskGoesOn DEF Places
  <2>3. KindInv'
    BY <2>1, <2>2 DEF OwnerInv, KindInv
  <2>4. CarriedIsOnly'
    <3> SUFFICES ASSUME NEW u \in Tasks, pc'[u] # "idle", rec[u].kind = "provide",
                        NEW q \in published', q.kind = "provide", q.key = rec[u].key,
                        q.sequence = rec[u].sequence
                 PROVE  q = rec[u]
      BY <2>1 DEF CarriedIsOnly
    <3>1. pc[u] # "idle"
      BY <2>1, <2>2
    <3>2. CASE q \in published
      BY <3>1, <3>2 DEF OwnerInv, CarriedIsOnly
    <3>3. CASE q = rec[t]
      BY <2>1, <3>1, <3>3 DEF OwnerInv, Owned
    <3> QED
      BY <2>1, <3>2, <3>3
  <2>5. OneSequenceOneRecord'
    <3>1. \A q \in published :
             (/\ q.kind = "provide" /\ rec[t].kind = "provide"
              /\ q.key = rec[t].key /\ q.sequence = rec[t].sequence) => q = rec[t]
      BY <2>1 DEF OwnerInv, CarriedIsOnly
    <3> QED
      BY <2>1, <3>1 DEF OwnerInv, OneSequenceOneRecord
  <2>6. IndexInv'
    BY <2>1, <2>2 DEF OwnerInv, IndexInv
  <2> QED
    BY <2>2, <2>3, <2>4, <2>5, <2>6 DEF OwnerInv
<1>11. CASE PutAcked(t)
  <2> DEFINE k == rec[t].key
  <2>1. /\ pc[t] = "reply" /\ k \in Keys
        /\ acked' = [acked EXCEPT ![k] = rec[t].kind]
        /\ UNCHANGED <<published, providing>>
    BY <1>11, <1>r DEF PutAcked
  <2>2. /\ acked'[k] = rec[t].kind
        /\ \A j \in Keys \ {k} : acked'[j] = acked[j]
    BY <2>1 DEF IInv, TypeOK
  <2>3. PICK place \in {"idle", "persist"} :
           /\ pc' = [pc EXCEPT ![t] = place]
           /\ rec[t].kind = "provide" <=> place = "idle"
           /\ \/ place = "idle" /\ rec' = [rec EXCEPT ![t] = NoRecord]
              \/ place = "persist" /\ rec' = rec
    BY <1>11, <1>r DEF PutAcked, Kinds
  <2>4. /\ Owned' /\ pc'[t] = place
        /\ \A u \in Tasks \ {t} : pc'[u] = pc[u] /\ rec'[u] = rec[u]
        /\ place # "idle" => rec'[t] = rec[t]
    BY <1>t, <2>1, <2>3, TaskGoesOn DEF Places
  <2>5. KindInv'
    BY <2>4 DEF OwnerInv, KindInv
  <2>6. CarriedIsOnly' /\ OneSequenceOneRecord'
    BY <2>1, <2>3, <2>4, NothingPublished DEF OwnerInv
  <2>7. IndexInv'
    <3>1. \A j \in Keys : acked'[j] = "provide" => j \in providing'
      BY <2>1, <2>2 DEF OwnerInv, IndexInv
    <3>2. \A u \in Tasks : (pc'[u] \in {"put", "reply"} /\ rec'[u].kind = "provide")
                              => rec'[u].key \in providing'
      BY <2>1, <2>3, <2>4 DEF OwnerInv, IndexInv
    <3>3. ASSUME NEW u \in Tasks, pc'[u] \in {"persist", "write", "stop"},
                 rec'[u].kind = "withdraw"
          PROVE  acked'[rec'[u].key] # "provide"
      <4>1. CASE u = t
        BY <2>2, <2>3, <2>4, <3>3, <4>1
      <4>2. CASE u # t
        <5>1. /\ pc[u] = pc'[u] /\ rec'[u] = rec[u] /\ rec[u].key \in Keys
              /\ acked[rec[u].key] # "provide"
          BY <2>4, <3>3, <4>2 DEF OwnerInv, IndexInv, IInv, TypeOK, Assertion
        <5>2. rec[u].key = k => rec[t].kind = "withdraw"
          BY <2>1, <3>3, <4>2, <5>1 DEF OwnerInv, Owned
        <5> QED
          BY <2>2, <5>1, <5>2
      <4> QED
        BY <4>1, <4>2
    <3> QED
      BY <3>1, <3>2, <3>3 DEF IndexInv
  <2> QED
    BY <2>4, <2>5, <2>6, <2>7 DEF OwnerInv
<1>12. CASE StopProviding(t)
  <2>1. /\ pc[t] = "stop" /\ rec[t].kind = "withdraw"
        /\ pc' = [pc EXCEPT ![t] = "idle"] /\ rec' = [rec EXCEPT ![t] = NoRecord]
        /\ providing' = providing \ {rec[t].key}
        /\ UNCHANGED <<published, acked>>
    BY <1>12 DEF StopProviding, OwnerInv, KindInv
  <2>2. /\ Owned' /\ pc'[t] = "idle"
        /\ \A u \in Tasks \ {t} : pc'[u] = pc[u] /\ rec'[u] = rec[u]
    BY <1>t, <2>1, TaskGoesOn
  <2>3. KindInv'
    BY <2>2 DEF OwnerInv, KindInv
  <2>4. CarriedIsOnly' /\ OneSequenceOneRecord'
    BY <2>1, <2>2, NothingPublished DEF OwnerInv
  <2>5. IndexInv'
    <3>1. acked[rec[t].key] # "provide"
      BY <2>1 DEF OwnerInv, IndexInv
    <3>2. \A u \in Tasks \ {t} :
             (pc[u] # "idle" /\ rec[u].kind = "provide") => rec[u].key # rec[t].key
      BY <2>1 DEF OwnerInv, Owned
    <3> QED
      BY <2>1, <2>2, <3>1, <3>2 DEF OwnerInv, IndexInv
  <2> QED
    BY <2>2, <2>3, <2>4, <2>5 DEF OwnerInv
<1> QED
  BY <1>1, <1>2, <1>3, <1>4, <1>5, <1>6, <1>7, <1>8, <1>9, <1>10, <1>11, <1>12
  DEF TaskStep

(* With one owner per key, every step keeps what the owner relies on.      *)
LEMMA NextOwner == ASSUME OneOwner, IInv, OwnerInv, [Next]_vars PROVE OwnerInv'
<1>1. CASE CrashRestart
  <2>1. /\ \A t \in Tasks : pc'[t] = "idle"
        /\ \A k \in Keys : acked'[k] = "none"
        /\ published' = published
    BY <1>1 DEF CrashRestart
  <2> QED
    BY <2>1 DEF OwnerInv, Owned, KindInv, CarriedIsOnly, OneSequenceOneRecord, IndexInv
<1>2. CASE Tick \/ UNCHANGED vars
  <2>1. UNCHANGED <<pc, rec, published, providing, acked>>
    BY <1>2 DEF Tick, vars
  <2> QED
    BY <2>1 DEF OwnerInv, Owned, KindInv, CarriedIsOnly, OneSequenceOneRecord, IndexInv
<1> QED
  BY <1>1, <1>2, TaskStepOwner DEF Next

(* A fresh announcer carries, publishes and acknowledges nothing.          *)
LEMMA InitOwner == Init => OwnerInv
BY DEF Init, OwnerInv, Owned, KindInv, CarriedIsOnly, OneSequenceOneRecord, IndexInv

(* The owner's invariant holds of every behaviour.                         *)
LEMMA SpecOwner == ASSUME OneOwner PROVE Spec => []OwnerInv
<1>1. IInv /\ OwnerInv /\ [Next]_vars => OwnerInv'
  BY NextOwner
<1> QED
  BY <1>1, InitOwner, SpecIInv, PTL DEF Spec

(* With one owner per key, a sequence names one record: what next_sequence *)
(* allocates is never signed into two different published records, through *)
(* retries of a put whose outcome is unknown, failed saves and restarts.   *)
THEOREM SequenceNamesOneRecord == ASSUME OneOwner PROVE Spec => []OneSequenceOneRecord
<1>1. OwnerInv => OneSequenceOneRecord
  BY DEF OwnerInv
<1> QED
  BY <1>1, SpecOwner, PTL

(* With one owner per key, an acknowledged announce stays in the kad index *)
(* until a withdrawal of the key was itself acknowledged.                  *)
THEOREM AckedStaysIndexed == ASSUME OneOwner PROVE Spec => []AckedIsIndexed
<1>1. OwnerInv => AckedIsIndexed
  BY DEF OwnerInv, IndexInv, AckedIsIndexed
<1> QED
  BY <1>1, SpecOwner, PTL
=============================================================================
