----------------------------- MODULE Directory ------------------------------
(***************************************************************************)
(* The consumer side of one node (fabric-libp2p/src/directory.rs): the     *)
(* record rules, the floor store that bounds them, and the lookups         *)
(* that admit what they fetch.  The rules come first.                      *)
(***************************************************************************)
EXTENDS Integers, Sequences, FiniteSets

(***************************************************************************)
(* The frozen record rules of peer-fabric/src/record_store.rs, as          *)
(* operators.  A record set is a partial function from a <<key, provider>> *)
(* pair to its slot; a slot is the last assertion that moved it, kept      *)
(* whole for a record (so that an identical re-fetch is idempotent) and    *)
(* as sequence and expiry for a tombstone.                                 *)
(*                                                                         *)
(* Signatures, offers and digests are the codec's concern: an assertion is *)
(* its kind, slot, sequence, issue time and expiry, and two records are    *)
(* the same record iff these agree.                                        *)
(***************************************************************************)

SlotOf(a) == <<a.key, a.provider>>

NewSlot(a) ==
    IF a.kind = "provide"
    THEN [state |-> "active", sequence |-> a.sequence, issued |-> a.issued,
          expiry |-> a.expiry]
    ELSE [state |-> "withdrawn", sequence |-> a.sequence, issued |-> 0,
          expiry |-> a.expiry]

SetSlot(slots, a) ==
    [s \in DOMAIN slots \cup {SlotOf(a)} |->
        IF s = SlotOf(a) THEN NewSlot(a) ELSE slots[s]]

OutcomeOverTombstone(slots, a, at) ==
    LET s == SlotOf(a)
        moved == IF a.kind = "provide" THEN "Applied" ELSE "Withdrawn"
    IN  IF a.expiry <= at THEN "RejectedExpired"
        ELSE IF s \notin DOMAIN slots \/ slots[s].state = "withdrawn" THEN moved
        ELSE IF a.sequence > slots[s].sequence THEN moved
        ELSE IF NewSlot(a) = slots[s] THEN "Idempotent" ELSE "RejectedStale"

(* apply: what happens to an assertion offered at time `at`.               *)
Outcome(slots, a, at) ==
    LET s == SlotOf(a)
        moved == IF a.kind = "provide" THEN "Applied" ELSE "Withdrawn"
    IN  IF a.expiry <= at THEN "RejectedExpired"
        ELSE IF s \notin DOMAIN slots THEN moved
        ELSE IF a.sequence > slots[s].sequence THEN moved
        ELSE IF NewSlot(a) = slots[s] THEN "Idempotent" ELSE "RejectedStale"

Advances(outcome) == outcome \in {"Applied", "Withdrawn"}

Without(slots, gone) == [s \in DOMAIN slots \ gone |-> slots[s]]

(* evict_expired: the slots whose own expiry has passed.                   *)
Expired(slots, at) == {s \in DOMAIN slots : slots[s].expiry <= at}

-----------------------------------------------------------------------------
(***************************************************************************)
(* fabric-libp2p/src/floor_store.rs: a record set bounded to `cap` slots,  *)
(* with the least-recently-touched order of its slots, as operators on     *)
(* [slots, order].  Admit is FloorStore::admit up to its persist, together *)
(* with the admit decision of fabric-libp2p/src/directory.rs that it       *)
(* calls.                                                                  *)
(***************************************************************************)

Positions(order) == {order[i] : i \in DOMAIN order}

EmptyStore == [slots |-> [s \in {} |-> s], order |-> <<>>]

(* VecDeque::retain: the elements of `held`, in the order they have.  The  *)
(* n-th of them is at the n-th of their positions.                         *)
Increasing(f) == \A i, j \in DOMAIN f : i < j => f[i] < f[j]

Retain(order, held) ==
    LET at  == {i \in DOMAIN order : order[i] \in held}
        nth == CHOOSE f \in [1..Cardinality(at) -> at] : Increasing(f)
    IN  [n \in 1..Cardinality(at) |-> order[nth[n]]]

TouchFront(order, s) == <<s>> \o Retain(order, Positions(order) \ {s})

(* touch: to the most recently used end, and any stale copy goes.          *)
Touch(order, s) == Append(Retain(order, Positions(order) \ {s}), s)

(* How many slots the eviction loop pops: the fewest that bring the store  *)
(* under its cap, all of them when even that does not.                     *)
Pops(st, cap) ==
    LET Left(n) == DOMAIN st.slots \ {st.order[i] : i \in 1..n}
        Enough == {n \in 0..Len(st.order) : Cardinality(Left(n)) <= cap}
    IN  IF Enough = {} THEN Len(st.order)
        ELSE CHOOSE n \in Enough : \A m \in Enough : n <= m

PopFront(st, n) ==
    [slots |-> Without(st.slots, {st.order[i] : i \in 1..n}),
     order |-> SubSeq(st.order, n + 1, Len(st.order))]

(* The TTL sweep: expired slots go, and leave the order with them.         *)
Sweep(st, at) ==
    LET kept == Without(st.slots, Expired(st.slots, at))
    IN  IF Expired(st.slots, at) = {} THEN st
        ELSE [slots |-> kept, order |-> Retain(st.order, DOMAIN kept)]

EnforceCap(st, cap, at) ==
    IF Cardinality(DOMAIN st.slots) <= cap THEN st
    ELSE LET swept == Sweep(st, at) IN PopFront(swept, Pops(swept, cap))

(* The file must be written when the floor moved or something was evicted. *)
DurableChange(advanced, before, after) ==
    advanced \/ DOMAIN before # DOMAIN after

(* The PeerId <-> provider binding.                                        *)
Bound(a, peer) == a.provider = peer

(* admit: an assertion fetched under the index entry of `peer`.  One that  *)
(* names another provider never reaches the floor.  The record is returned *)
(* when it was applied or is the current one.  `dropped` is what the cap   *)
(* made the store give up.                                                 *)
Admit(st, cap, peer, a, at) ==
    LET outcome  == Outcome(st.slots, a, at)
        advanced == Bound(a, peer) /\ Advances(outcome)
        slots1   == IF advanced THEN SetSlot(st.slots, a) ELSE st.slots
        order1   == IF SlotOf(a) \in DOMAIN slots1
                    THEN Touch(st.order, SlotOf(a)) ELSE st.order
        after    == EnforceCap([slots |-> slots1, order |-> order1], cap, at)
    IN  [store    |-> after,
         advanced |-> advanced,
         dropped  |-> Without(slots1, DOMAIN after.slots),
         returned |-> {r \in {a} : /\ Bound(a, peer)
                                   /\ a.kind = "provide"
                                   /\ outcome \in {"Applied", "Idempotent"}},
         persist  |-> DurableChange(advanced, slots1, after.slots)]

-----------------------------------------------------------------------------
(***************************************************************************)
(* The consumer side of one node: Libp2pProviderDirectory                  *)
(* (fabric-libp2p/src/directory.rs) over its FloorStore and the floor file.*)
(*                                                                         *)
(* Lookups run concurrently.  Each checks the routing table, walks the kad *)
(* index, reads the clock, fetches the value record of every provider it   *)
(* kept, and then applies what it fetched under the store's mutex, one     *)
(* provider at a time; the clock value it applies with may be old by then. *)
(* The DHT is untrusted and lossy: a fetch may fail, find nothing usable,  *)
(* or return any assertion ever signed for the key, another provider's     *)
(* included.                                                               *)
(***************************************************************************)

CONSTANTS
    Keys,
    Providers,      \* nodes that sign records; a PeerId names its node
    Assertions,     \* every assertion the providers sign
    Lookups,        \* find_providers calls that may be in flight at once
    MaxPeersBudgets,\* the DiscoveryBudget.max_peers values callers use
    Cap,            \* the floor store's entry cap
    Durable,        \* whether FloorStore.path names a file
    MaxTime,        \* bound: the clock stops here
    MaxRestarts     \* bound: how often the process restarts

ASSUME AssertionsAssumption ==
    Assertions \subseteq [kind: {"provide", "withdraw"}, key: Keys,
                          provider: Providers, sequence: Nat \ {0},
                          issued: Nat, expiry: Nat]

(* What the announcer's MIN_TOMBSTONE_TTL_SECS and re-sign period give: a  *)
(* newer assertion of a provider never expires before an older one.        *)
ASSUME ExpiryAssumption ==
    \A a, b \in Assertions :
        (SlotOf(a) = SlotOf(b) /\ a.sequence <= b.sequence)
            => a.expiry <= b.expiry

ASSUME DirectoryBounds ==
    /\ IsFiniteSet(Providers)
    /\ MaxPeersBudgets \subseteq Nat
    /\ Cap \in Nat \ {0}
    /\ Durable \in BOOLEAN
    /\ MaxTime \in Nat
    /\ MaxRestarts \in Nat

VARIABLES
    now,        \* unix_now()
    store,      \* Mutex<FloorStore>: [slots, order]
    disk,       \* the floor file
    look,       \* the state of each lookup
    answer,     \* what the step just taken returned to a caller
    restarts,
    unsaved,    \* history: the file failed to be written or read
    seen,       \* history: the highest sequence ever applied, per slot
    forgotten   \* history: slots whose live floor this node gave up

vars == <<now, store, disk, look, answer, restarts, unsaved, seen, forgotten>>

Slots == Keys \X Providers

Idle == [pc |-> "idle"]

NoAnswer == [outcome |-> "none"]

(* A lookup between its index walk and its answer.                         *)
Pending(pc, k, at, named, left, consulted, failed, records) ==
    [pc |-> pc, key |-> k, at |-> at, named |-> named, left |-> left,
     consulted |-> consulted, failed |-> failed, records |-> records]

Init ==
    /\ now = 0
    /\ store = EmptyStore
    /\ disk = EmptyStore.slots
    /\ look = [l \in Lookups |-> Idle]
    /\ answer = NoAnswer
    /\ restarts = 0
    /\ unsaved = FALSE
    /\ seen = [s \in Slots |-> 0]
    /\ forgotten = {}

Reply(l, result) == look' = [look EXCEPT ![l] = Idle] /\ answer' = result

-----------------------------------------------------------------------------
(* find_providers and resolve, up to the index walk.                       *)

(* routing_peers() == 0: nothing is consulted.                             *)
NoRouting(l) ==
    /\ look[l].pc = "idle"
    /\ Reply(l, [outcome |-> "InsufficientRouting"])
    /\ UNCHANGED <<now, store, disk, restarts, unsaved, seen, forgotten>>

StartLookup(l, k) ==
    /\ look[l].pc = "idle"
    /\ look' = [look EXCEPT ![l] = [pc |-> "index", key |-> k]]
    /\ answer' = NoAnswer
    /\ UNCHANGED <<now, store, disk, restarts, unsaved, seen, forgotten>>

(* The index walk fails, or the caller's deadline drops the lookup at one  *)
(* of its awaits.                                                          *)
LookupFails(l) ==
    /\ look[l].pc \in {"index", "fetch"}
    /\ Reply(l, [outcome |-> "Unavailable"])
    /\ UNCHANGED <<now, store, disk, restarts, unsaved, seen, forgotten>>

(* retain_bounded_provider: the walk names providers; a random subset of   *)
(* at most max_peers is kept.                                              *)
Retained(named, maxPeers) ==
    {kept \in SUBSET named :
        Cardinality(kept) = IF Cardinality(named) <= maxPeers
                            THEN Cardinality(named) ELSE maxPeers}

(* classify_empty_index and absence_from_reach.                            *)
EmptyIndex(truncated, nearKey) ==
    IF truncated THEN "Unavailable"
    ELSE IF nearKey THEN "Miss" ELSE "InsufficientRouting"

IndexEmpty(l, named, maxPeers, nearKey) ==
    /\ look[l].pc = "index"
    /\ {} \in Retained(named, maxPeers)
    /\ Reply(l, [outcome   |-> EmptyIndex(named # {}, nearKey),
                 named     |-> named,
                 consulted |-> {},
                 nearKey   |-> nearKey])
    /\ UNCHANGED <<now, store, disk, restarts, unsaved, seen, forgotten>>

(* The walk kept somebody: the clock is read and the fetches start.        *)
IndexFound(l, named, kept) ==
    /\ look[l].pc = "index"
    /\ kept # {}
    /\ look' = [look EXCEPT ![l] =
                   Pending("fetch", look[l].key, now, named, kept, {}, {}, {})]
    /\ answer' = NoAnswer
    /\ UNCHANGED <<now, store, disk, restarts, unsaved, seen, forgotten>>

-----------------------------------------------------------------------------
(* The locked apply loop. *)

(* All fetches are in and the mutex is free.                               *)
LockStore(l) ==
    /\ look[l].pc = "fetch"
    /\ \A m \in Lookups : look[m].pc # "apply"
    /\ look' = [look EXCEPT ![l].pc = "apply"]
    /\ answer' = NoAnswer
    /\ UNCHANGED <<now, store, disk, restarts, unsaved, seen, forgotten>>

(* get_record failed for p.                                                *)
FetchFailed(l, p) ==
    /\ look[l].pc = "apply"
    /\ p \in look[l].left
    /\ look' = [look EXCEPT ![l].left = @ \ {p}, ![l].failed = @ \cup {p}]
    /\ answer' = NoAnswer
    /\ UNCHANGED <<now, store, disk, restarts, unsaved, seen, forgotten>>

(* get_record found nothing for p, or bytes the codec refuses.             *)
FetchedNothing(l, p) ==
    /\ look[l].pc = "apply"
    /\ p \in look[l].left
    /\ look' = [look EXCEPT ![l].left = @ \ {p}, ![l].consulted = @ \cup {p}]
    /\ answer' = NoAnswer
    /\ UNCHANGED <<now, store, disk, restarts, unsaved, seen, forgotten>>

(* persist: a failed flush is logged, and may still have renamed the new   *)
(* file into place.                                                        *)
Save(persist, slots, saved) ==
    IF Durable /\ persist
    THEN IF saved THEN disk' = slots /\ unsaved' = FALSE
                  ELSE disk' \in {disk, slots} /\ unsaved' = TRUE
    ELSE UNCHANGED <<disk, unsaved>>

(* FloorStore::admit of the assertion a that p's value key held, with the  *)
(* lookup's clock (a stale one was already refused by the codec).          *)
AdmitOne(l, p, a, saved) ==
    /\ look[l].pc = "apply"
    /\ p \in look[l].left
    /\ a.key = look[l].key
    /\ a.expiry > look[l].at
    /\ saved \/ Durable
    /\ LET admitted == Admit(store, Cap, p, a, look[l].at)
           dropped  == admitted.dropped
       IN  /\ store' = admitted.store
           /\ Save(admitted.persist, admitted.store.slots, saved)
           /\ look' = [look EXCEPT ![l].left = @ \ {p},
                                   ![l].consulted = @ \cup {p},
                                   ![l].records = @ \cup admitted.returned]
           /\ seen' = IF admitted.advanced /\ a.sequence > seen[SlotOf(a)]
                      THEN [seen EXCEPT ![SlotOf(a)] = a.sequence] ELSE seen
           /\ forgotten' = forgotten \cup
                               {s \in DOMAIN dropped : dropped[s].expiry > now}
    /\ answer' = NoAnswer
    /\ UNCHANGED <<now, restarts>>

ClassifyUntruncated(records, failed, truncated) ==
    IF records # {} THEN "Found"
    ELSE IF failed THEN "Unavailable" ELSE "Miss"

(* classify: an empty result is a Miss only when nothing failed and nobody *)
(* was left out.                                                           *)
Classify(records, failed, truncated) ==
    IF records # {} THEN "Found"
    ELSE IF failed \/ truncated THEN "Unavailable" ELSE "Miss"

(* The loop ends, the mutex is dropped and the caller gets its answer.     *)
Finish(l) ==
    /\ look[l].pc = "apply"
    /\ look[l].left = {}
    /\ LET kept == look[l].consulted \cup look[l].failed
       IN  Reply(l, [outcome   |-> Classify(look[l].records, look[l].failed # {},
                                            kept # look[l].named),
                     named     |-> look[l].named,
                     consulted |-> look[l].consulted,
                     nearKey   |-> TRUE,
                     records   |-> look[l].records])
    /\ UNCHANGED <<now, store, disk, restarts, unsaved, seen, forgotten>>

-----------------------------------------------------------------------------
(* FloorStore::durable: the process restarts with what the file holds, in  *)
(* an order the file does not record, or empty when it cannot be read.     *)
Orders(slots) ==
    {order \in [1..Cardinality(DOMAIN slots) -> DOMAIN slots] :
        Positions(order) = DOMAIN slots}

Restart(loaded, order) ==
    /\ restarts < MaxRestarts
    /\ restarts' = restarts + 1
    /\ loaded \in {disk, EmptyStore.slots}
    /\ order \in Orders(loaded)
    /\ store' = [slots |-> loaded, order |-> order]
    /\ look' = [l \in Lookups |-> Idle]
    /\ answer' = NoAnswer
    /\ unsaved' = (loaded # disk)
    /\ forgotten' = forgotten \cup
                       {s \in Slots : seen[s] > 0 /\
                            (s \in DOMAIN loaded => loaded[s].sequence < seen[s])}
    /\ UNCHANGED <<now, disk, seen>>

Tick ==
    /\ now < MaxTime
    /\ now' = now + 1
    /\ answer' = NoAnswer
    /\ UNCHANGED <<store, disk, look, restarts, unsaved, seen, forgotten>>

LookupStep(l) ==
    \/ NoRouting(l)
    \/ \E k \in Keys : StartLookup(l, k)
    \/ LookupFails(l)
    \/ \E named \in SUBSET Providers, m \in MaxPeersBudgets, near \in BOOLEAN :
          IndexEmpty(l, named, m, near)
    \/ \E named \in SUBSET Providers, m \in MaxPeersBudgets :
          \E kept \in Retained(named, m) : IndexFound(l, named, kept)
    \/ LockStore(l)
    \/ \E p \in Providers : FetchFailed(l, p)
    \/ \E p \in Providers : FetchedNothing(l, p)
    \/ \E p \in Providers, a \in Assertions, saved \in BOOLEAN :
          AdmitOne(l, p, a, saved)
    \/ Finish(l)

Next ==
    \/ \E l \in Lookups : LookupStep(l)
    \/ \E loaded \in {disk, EmptyStore.slots} :
          \E order \in Orders(loaded) : Restart(loaded, order)
    \/ Tick

Spec == Init /\ [][Next]_vars

-----------------------------------------------------------------------------
(* Properties *)

SlotValue == [state: {"active", "withdrawn"}, sequence: Nat \ {0},
              issued: Nat, expiry: Nat]

LookupState ==
    {Idle}
    \cup [pc: {"index"}, key: Keys]
    \cup [pc: {"fetch", "apply"}, key: Keys, at: Nat,
          named: SUBSET Providers, left: SUBSET Providers,
          consulted: SUBSET Providers, failed: SUBSET Providers,
          records: SUBSET Assertions]

IsFloor(slots) ==
    /\ DOMAIN slots \subseteq Slots
    /\ \A s \in DOMAIN slots : slots[s] \in SlotValue

(* Floor, file and lookups keep the shape of the Rust state.               *)
TypeOK ==
    /\ now \in Nat
    /\ IsFloor(store.slots)
    /\ IsFloor(disk)
    /\ look \in [Lookups -> LookupState]
    /\ seen \in [Slots -> Nat]
    /\ forgotten \subseteq Slots

(* The LRU order lists every retained slot exactly once, through touches,  *)
(* sweeps, evictions and reloads: the desync that enforce_cap guards       *)
(* against with a break never happens.  And the retained set never exceeds *)
(* its cap.                                                                *)
OrderMatchesSlots ==
    /\ Cardinality(DOMAIN store.slots) <= Cap
    /\ Positions(store.order) = DOMAIN store.slots
    /\ Len(store.order) = Cardinality(DOMAIN store.slots)

(* The file equals the floor unless a write or the last load failed: no    *)
(* advance and no eviction goes unsaved.                                   *)
DiskInSync == (Durable /\ ~unsaved) => disk = store.slots

(* No resurrection: a record that a lookup takes and that is still live is *)
(* not below any assertion this node applied for its slot, whatever stale  *)
(* clock another lookup swept or applied with, unless the slot's live      *)
(* floor was given up to the cap or lost on disk.                          *)
NoResurrection ==
    [][\A l \in Lookups :
         look'[l].pc = "apply" =>
           \A r \in look'[l].records :
              \/ look[l].pc = "apply" /\ r \in look[l].records
              \/ r.expiry <= now
              \/ SlotOf(r) \in forgotten
              \/ r.sequence >= seen[SlotOf(r)]]_vars

(* What a lookup has admitted is still held when it answers, as long as it *)
(* admitted no more than the cap: its own later admissions never evict it, *)
(* and no other lookup interleaves with its loop.                          *)
AnsweredIsHeld ==
    \A l \in Lookups :
        (/\ look[l].pc = "apply" /\ look'[l].pc = "idle"
         /\ answer'.outcome = "Found"
         /\ Cardinality(look[l].named) <= Cap) =>
            \A r \in answer'.records : SlotOf(r) \in DOMAIN store.slots

(* The capped, persisted floor stays whole over evictions, failing saves,  *)
(* reloads and interleaved lookups: order, file and answers agree with its *)
(* slots (DurableFloorStore and resolve).                                  *)
FloorIsKept == [][OrderMatchesSlots' /\ DiskInSync' /\ AnsweredIsHeld]_vars

(* A Miss is authoritative: the walk reached the key's neighbourhood, and  *)
(* every provider it named, none left out by the fan-out bound, was        *)
(* consulted without failure.                                              *)
MissIsAuthoritative ==
    answer.outcome = "Miss" =>
        answer.nearKey /\ answer.named = answer.consulted
=============================================================================
