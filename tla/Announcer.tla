------------------------------ MODULE Announcer ------------------------------
(***************************************************************************)
(* The provider side of one node: Libp2pAvailabilityAnnouncer and the      *)
(* DurableSeqFloor it owns (fabric-libp2p/src/announcer.rs), driven by     *)
(* concurrent caller tasks: the initial seed announce, the periodic        *)
(* re-sign, the announce-after-fetch dispatches and the LAN refresh loop   *)
(* (daemon-libp2p).                                                        *)
(*                                                                         *)
(* A task mints a positive record at the next sequence and announces it,   *)
(* or withdraws a key.  Every await of the code is a point where another   *)
(* task may run, the process may crash, or the caller may drop the future. *)
(* A network put takes effect in one step and is acknowledged in a later   *)
(* one, so it may have happened although the caller saw an error.          *)
(*                                                                         *)
(* A floor entry with sequence 0 stands for an absent key: sequences start *)
(* at 1 (announcer.rs, next_sequence).                                     *)
(***************************************************************************)
EXTENDS Integers, FiniteSets

CONSTANTS
    Keys,             \* the content keys this node may publish
    Tasks,            \* the caller tasks that may be in flight at once
    Ttls,             \* the record lifetimes a caller may sign
    MaxRecordTtl,     \* MAX_RECORD_TTL_SECS
    MinTombstoneTtl,  \* MIN_TOMBSTONE_TTL_SECS
    OneOwner,         \* TRUE: a key's announcements are never concurrent
                      \* (the ownership the daemon's composition root keeps)
    MaxSequence,      \* bound: no assertion above this sequence is minted
    MaxTime,          \* bound: the clock stops here
    MaxCrashes        \* bound: how often the process may crash

ASSUME TtlAssumption ==
    /\ Ttls \subseteq Nat
    /\ MaxRecordTtl \in Nat
    /\ MinTombstoneTtl \in Nat
    /\ MinTombstoneTtl >= MaxRecordTtl   \* the const assert in announcer.rs

ASSUME BoundAssumption ==
    /\ OneOwner \in BOOLEAN
    /\ MaxSequence \in Nat
    /\ MaxTime \in Nat
    /\ MaxCrashes \in Nat

VARIABLES
    now,          \* unix_now()
    eligible,     \* the keys this process's eligibility authority admits
    floor,        \* DurableSeqFloor.announced
    disk,         \* the sequence file
    persistLock,  \* the holders of DurableSeqFloor.persist_lock
    pc,           \* where each task is
    rec,          \* the assertion each task is carrying
    snap,         \* the snapshot a saver took under the persist lock
    published,    \* every assertion that ever reached the DHT
    providing,    \* the keys this node's kad index entry names
    acked,        \* kind of the last acknowledged operation, per key
    crashes

vars == <<now, eligible, floor, disk, persistLock, pc, rec, snap, published,
          providing, acked, crashes>>

Kinds == {"provide", "withdraw"}

Assertion == [kind: Kinds, key: Keys, sequence: Nat, issued: Nat, expiry: Nat]

LastPublished == [sequence: Nat, expiry: Nat]

Never == [sequence |-> 0, expiry |-> 0]

NoRecord == [kind |-> "none"]

NoSnapshot == [k \in Keys |-> Never]

Places == {"idle", "signed", "persist", "write", "start", "put", "reply", "stop"}

Max2(a, b) == IF a >= b THEN a ELSE b

-----------------------------------------------------------------------------
(* DurableSeqFloor *)

NextSequenceReused(k) == floor[k].sequence

NextSequence(k) == floor[k].sequence + 1

HasFloor(k) == floor[k].sequence > 0

Advance(k, sequence, expiry) ==
    floor' = IF sequence >= floor[k].sequence
             THEN [floor EXCEPT ![k] = [sequence |-> sequence, expiry |-> expiry]]
             ELSE floor

(* mint_withdrawal: strictly above the last record, and outliving it. *)
MintWithdrawal(k) ==
    [kind     |-> "withdraw",
     key      |-> k,
     sequence |-> floor[k].sequence + 1,
     issued   |-> now,
     expiry   |-> Max2(floor[k].expiry, now + MinTombstoneTtl)]

-----------------------------------------------------------------------------
(* The discipline of the callers: a key has one announcing owner, which    *)
(* never runs beside another operation on the key; withdrawals may overlap *)
(* (two dispatches may reconcile the same holding).                        *)

Busy(u, k) == pc[u] # "idle" /\ rec[u].key = k

MayAnnounce(t, k) == OneOwner => \A u \in Tasks \ {t} : ~Busy(u, k)

MayWithdraw(t, k) ==
    OneOwner => \A u \in Tasks \ {t} : Busy(u, k) => rec[u].kind = "withdraw"

-----------------------------------------------------------------------------
Init ==
    /\ now = 0
    /\ eligible \in SUBSET Keys
    /\ floor = [k \in Keys |-> Never]
    /\ disk = [k \in Keys |-> Never]
    /\ persistLock = {}
    /\ pc = [t \in Tasks |-> "idle"]
    /\ rec = [t \in Tasks |-> NoRecord]
    /\ snap = [t \in Tasks |-> NoSnapshot]
    /\ published = {}
    /\ providing = {}
    /\ acked = [k \in Keys |-> "none"]
    /\ crashes = 0

Goto(t, place) == pc' = [pc EXCEPT ![t] = place] /\ UNCHANGED rec

(* The future returns to its caller, with Ok or with an error.             *)
Return(t) ==
    /\ pc' = [pc EXCEPT ![t] = "idle"]
    /\ rec' = [rec EXCEPT ![t] = NoRecord]

(* The caller reads the next sequence (reserving nothing) and signs.       *)
Mint(t, k, ttl) ==
    /\ pc[t] = "idle"
    /\ MayAnnounce(t, k)
    /\ NextSequence(k) <= MaxSequence
    /\ rec' = [rec EXCEPT ![t] = [kind     |-> "provide",
                                  key      |-> k,
                                  sequence |-> NextSequence(k),
                                  issued   |-> now,
                                  expiry   |-> now + ttl]]
    /\ pc' = [pc EXCEPT ![t] = "signed"]
    /\ UNCHANGED <<now, eligible, floor, disk, persistLock, snap, published,
                   providing, acked, crashes>>

(* The checks announce makes before it touches the floor.                  *)
Admissible(r) ==
    /\ r.key \in eligible
    /\ r.expiry > now
    /\ r.expiry - now <= MaxRecordTtl

(* announce, up to persist_checked: gate, then advance the floor.          *)
AnnounceAdmit(t) ==
    /\ pc[t] = "signed"
    /\ Admissible(rec[t])
    /\ Advance(rec[t].key, rec[t].sequence, rec[t].expiry)
    /\ Goto(t, "persist")
    /\ UNCHANGED <<now, eligible, disk, persistLock, snap, published,
                   providing, acked, crashes>>

AnnounceReject(t) ==
    /\ pc[t] = "signed"
    /\ ~Admissible(rec[t])
    /\ Return(t)
    /\ UNCHANGED <<now, eligible, floor, disk, persistLock, snap,
                   published, providing, acked, crashes>>

(* persist_checked / persist_lossy: take the lock, then snapshot.          *)
PersistSnapshot(t) ==
    /\ pc[t] = "persist"
    /\ persistLock = {}
    /\ persistLock' = {t}
    /\ snap' = [snap EXCEPT ![t] = floor]
    /\ Goto(t, "write")
    /\ UNCHANGED <<now, eligible, floor, disk, published, providing,
                   acked, crashes>>

(* The write succeeds and the lock is dropped.  An announce goes on to     *)
(* publish, a withdrawal to stop_providing.                                *)
PersistOk(t) ==
    /\ pc[t] = "write"
    /\ disk' = snap[t]
    /\ snap' = [snap EXCEPT ![t] = NoSnapshot]
    /\ persistLock' = persistLock \ {t}
    /\ Goto(t, IF rec[t].kind = "provide" THEN "start" ELSE "stop")
    /\ UNCHANGED <<now, eligible, floor, published, providing, acked,
                   crashes>>

PersistFailIgnored(t) ==
    /\ pc[t] = "write"
    /\ disk' \in {disk, snap[t]}
    /\ snap' = [snap EXCEPT ![t] = NoSnapshot]
    /\ persistLock' = persistLock \ {t}
    /\ Goto(t, IF rec[t].kind = "provide" THEN "start" ELSE "stop")
    /\ UNCHANGED <<now, eligible, floor, published, providing, acked,
                   crashes>>

(* write_atomic fails, before or after its rename (the directory fsync is  *)
(* last).  The announce path fails closed; the withdraw path only logs.    *)
PersistFail(t) ==
    /\ pc[t] = "write"
    /\ disk' \in {disk, snap[t]}
    /\ snap' = [snap EXCEPT ![t] = NoSnapshot]
    /\ persistLock' = persistLock \ {t}
    /\ IF rec[t].kind = "provide" THEN Return(t) ELSE Goto(t, "stop")
    /\ UNCHANGED <<now, eligible, floor, published, providing, acked,
                   crashes>>

StartProviding(t) ==
    /\ pc[t] = "start"
    /\ providing' = providing \cup {rec[t].key}
    /\ Goto(t, "put")
    /\ UNCHANGED <<now, eligible, floor, disk, persistLock, snap,
                   published, acked, crashes>>

WithdrawMintStopsFirst(t, k) ==
    /\ pc[t] = "idle"
    /\ MayWithdraw(t, k)
    /\ HasFloor(k)
    /\ k \in eligible
    /\ NextSequence(k) <= MaxSequence
    /\ rec' = [rec EXCEPT ![t] = MintWithdrawal(k)]
    /\ pc' = [pc EXCEPT ![t] = "put"]
    /\ providing' = providing \ {k}
    /\ UNCHANGED <<now, eligible, floor, disk, persistLock, snap, published,
                   acked, crashes>>

(* withdraw, up to its put_record: only a key this node announced and its  *)
(* current authority still admits.                                         *)
WithdrawMint(t, k) ==
    /\ pc[t] = "idle"
    /\ MayWithdraw(t, k)
    /\ HasFloor(k)
    /\ k \in eligible
    /\ NextSequence(k) <= MaxSequence
    /\ rec' = [rec EXCEPT ![t] = MintWithdrawal(k)]
    /\ pc' = [pc EXCEPT ![t] = "put"]
    /\ UNCHANGED <<now, eligible, floor, disk, persistLock, snap, published,
                   providing, acked, crashes>>

(* put_record takes effect in the DHT.                                     *)
PutRecord(t) ==
    /\ pc[t] = "put"
    /\ published' = published \cup {rec[t]}
    /\ Goto(t, "reply")
    /\ UNCHANGED <<now, eligible, floor, disk, persistLock, snap,
                   providing, acked, crashes>>

(* put_record is acknowledged.  announce is done; withdraw now advances    *)
(* the floor and goes on to persist_lossy.                                 *)
PutAcked(t) ==
    /\ pc[t] = "reply"
    /\ acked' = [acked EXCEPT ![rec[t].key] = rec[t].kind]
    /\ IF rec[t].kind = "provide"
       THEN Return(t) /\ UNCHANGED floor
       ELSE /\ Advance(rec[t].key, rec[t].sequence, rec[t].expiry)
            /\ Goto(t, "persist")
    /\ UNCHANGED <<now, eligible, disk, persistLock, snap, published,
                   providing, crashes>>

(* start_providing or put_record reports Unreachable, the announce budget  *)
(* elapses, or the caller's own timeout drops the future at an await.      *)
PutAbandoned(t) ==
    /\ pc[t] \in {"start", "put", "reply", "stop"}
    /\ Return(t)
    /\ UNCHANGED <<now, eligible, floor, disk, persistLock, snap,
                   published, providing, acked, crashes>>

(* announce_one_verified_seed announces the same witness again after       *)
(* Unreachable.                                                            *)
RetryAnnounce(t) ==
    /\ pc[t] \in {"start", "put", "reply"}
    /\ rec[t].kind = "provide"
    /\ Goto(t, "signed")
    /\ UNCHANGED <<now, eligible, floor, disk, persistLock, snap,
                   published, providing, acked, crashes>>

StopProviding(t) ==
    /\ pc[t] = "stop"
    /\ providing' = providing \ {rec[t].key}
    /\ Return(t)
    /\ UNCHANGED <<now, eligible, floor, disk, persistLock, snap,
                   published, acked, crashes>>

(* The process dies and comes back: the floor is re-seeded from disk, the  *)
(* in-memory index entry is gone, and the operator may have switched the   *)
(* eligibility authority (LAN share / allowlist).                          *)
CrashRestart ==
    /\ crashes < MaxCrashes
    /\ crashes' = crashes + 1
    /\ floor' = disk
    /\ persistLock' = {}
    /\ pc' = [t \in Tasks |-> "idle"]
    /\ rec' = [t \in Tasks |-> NoRecord]
    /\ snap' = [t \in Tasks |-> NoSnapshot]
    /\ providing' = {}
    /\ acked' = [k \in Keys |-> "none"]
    /\ eligible' \in SUBSET Keys
    /\ UNCHANGED <<now, disk, published>>

Tick ==
    /\ now < MaxTime
    /\ now' = now + 1
    /\ UNCHANGED <<eligible, floor, disk, persistLock, pc, rec, snap,
                   published, providing, acked, crashes>>

TaskStep(t) ==
    \/ \E k \in Keys, ttl \in Ttls : Mint(t, k, ttl)
    \/ AnnounceAdmit(t)
    \/ AnnounceReject(t)
    \/ PersistSnapshot(t)
    \/ PersistOk(t)
    \/ PersistFail(t)
    \/ StartProviding(t)
    \/ \E k \in Keys : WithdrawMint(t, k)
    \/ PutRecord(t)
    \/ PutAcked(t)
    \/ PutAbandoned(t)
    \/ RetryAnnounce(t)
    \/ StopProviding(t)

Next ==
    \/ \E t \in Tasks : TaskStep(t)
    \/ CrashRestart
    \/ Tick

Spec == Init /\ [][Next]_vars

-----------------------------------------------------------------------------
(* Properties *)

(* Every variable keeps the shape of the Rust state it stands for.         *)
TypeOK ==
    /\ now \in Nat
    /\ eligible \in SUBSET Keys
    /\ floor \in [Keys -> LastPublished]
    /\ disk \in [Keys -> LastPublished]
    /\ persistLock \in SUBSET Tasks
    /\ pc \in [Tasks -> Places]
    /\ rec \in [Tasks -> Assertion \cup {NoRecord}]
    /\ \A t \in Tasks : pc[t] # "idle" => rec[t] \in Assertion
    /\ snap \in [Tasks -> [Keys -> LastPublished]]
    /\ published \in SUBSET Assertion
    /\ providing \in SUBSET Keys
    /\ acked \in [Keys -> Kinds \cup {"none"}]
    /\ crashes \in Nat

(* Save before publish: a positive record that reached the DHT is at or    *)
(* below the sequence on disk, whatever savers interleave, whichever save  *)
(* fails, and whenever the process dies.                                   *)
SavedBeforePublished ==
    \A r \in published :
        r.kind = "provide" => disk[r.key].sequence >= r.sequence

(* The sequence file never goes back: a saver holding an older snapshot    *)
(* never overwrites a newer one, across crashes too.                       *)
DiskNeverRegresses ==
    [][\A k \in Keys : disk'[k].sequence >= disk[k].sequence]_disk

(* The allocator is monotonic over restarts: the next positive record is   *)
(* strictly newer than every positive record ever published for its key.   *)
NextIsNewerThanRecords ==
    \A r \in published :
        r.kind = "provide" => NextSequence(r.key) > r.sequence

(* What next_sequence's comment says of EVERY record this node published,  *)
(* tombstones included, whenever no operation is in flight.                *)
NextIsNewerThanEverything ==
    (\A t \in Tasks : pc[t] = "idle") =>
        \A r \in published : NextSequence(r.key) > r.sequence

(* No assertion, record or tombstone, reaches the DHT for a key the        *)
(* running process's authority refuses, although the floor re-seeded from  *)
(* disk may name keys that an earlier, more permissive process announced.  *)
OnlyEligiblePublished ==
    [][\A r \in published' \ published : r.key \in eligible]_vars

(* One sequence names one record: no two different positive records of a   *)
(* key are published under the same sequence, retries and restarts         *)
(* included.                                                               *)
OneSequenceOneRecord ==
    \A r, q \in published :
        (/\ r.kind = "provide" /\ q.kind = "provide"
         /\ r.key = q.key /\ r.sequence = q.sequence) => r = q

(* A key whose last acknowledged operation is an announce is still in the  *)
(* kad index once no operation on it is in flight, whatever failed between.*)
AckedIsIndexed ==
    \A k \in Keys :
        (acked[k] = "provide" /\ \A t \in Tasks : ~Busy(t, k))
            => k \in providing

=============================================================================
