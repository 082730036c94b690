--------------------------- MODULE DirectoryProofs ---------------------------
(***************************************************************************)
(* The consumer floor's safety for every set of keys, providers,           *)
(* assertions and lookups, every cap and every bound.                      *)
(***************************************************************************)
EXTENDS Directory, FiniteSetTheorems, SequenceTheorems, WellFoundedInduction, TLAPS

(* Every slot value, in memory and on disk, comes from a signed assertion. *)
Signed(slots) ==
    \A s \in DOMAIN slots :
        \E a \in Assertions : SlotOf(a) = s /\ slots[s] = NewSlot(a)

(* Everything signed at or below a slot's highest applied sequence has     *)
(* expired.                                                                *)
Outlived(s) ==
    \A a \in Assertions :
        (SlotOf(a) = s /\ a.sequence <= seen[s]) => a.expiry <= now

(* A slot that was not given up either still holds the highest sequence    *)
(* applied to it, or has nothing left to protect against.                  *)
FloorInv ==
    \A s \in Slots \ forgotten :
        \/ s \in DOMAIN store.slots /\ store.slots[s].sequence >= seen[s]
        \/ Outlived(s)

(* Nothing is taken before the store is locked.                            *)
FetchInv == \A l \in Lookups : look[l].pc = "fetch" => look[l].records = {}

IInv ==
    /\ TypeOK
    /\ FetchInv
    /\ Signed(store.slots)
    /\ Signed(disk)
    /\ FloorInv

(* A step takes only records that are current, expired, or of a slot given *)
(* up.                                                                     *)
Taken ==
    \A l \in Lookups :
      look'[l].pc = "apply" =>
        \A r \in look'[l].records :
           \/ look[l].pc = "apply" /\ r \in look[l].records
           \/ r.expiry <= now
           \/ SlotOf(r) \in forgotten
           \/ r.sequence >= seen[SlotOf(r)]

-----------------------------------------------------------------------------
(* record_store.rs, Slot: what a slot keeps of an assertion.               *)
LEMMA NewSlotFields ==
    ASSUME NEW a \in Assertions
    PROVE  /\ SlotOf(a) \in Slots
           /\ NewSlot(a) \in SlotValue
           /\ NewSlot(a).sequence = a.sequence
           /\ NewSlot(a).expiry = a.expiry
           /\ a.sequence \in Nat \ {0} /\ a.expiry \in Nat
BY AssertionsAssumption DEF SlotOf, Slots, NewSlot, SlotValue

(* enforce_cap only removes slots; it never changes one.                   *)
LEMMA EnforceCapRestricts ==
    ASSUME NEW st, NEW cap, NEW at
    PROVE  /\ DOMAIN EnforceCap(st, cap, at).slots \subseteq DOMAIN st.slots
           /\ \A s \in DOMAIN EnforceCap(st, cap, at).slots :
                 EnforceCap(st, cap, at).slots[s] = st.slots[s]
<1> DEFINE swept == Sweep(st, at)
<1>1. /\ DOMAIN swept.slots \subseteq DOMAIN st.slots
      /\ \A s \in DOMAIN swept.slots : swept.slots[s] = st.slots[s]
  BY DEF Sweep, Without
<1>2. ASSUME NEW n
      PROVE  /\ DOMAIN PopFront(swept, n).slots \subseteq DOMAIN swept.slots
             /\ \A s \in DOMAIN PopFront(swept, n).slots :
                   PopFront(swept, n).slots[s] = swept.slots[s]
  BY DEF PopFront, Without
<1> QED
  BY <1>1, <1>2 DEF EnforceCap

(* The record set an admission leaves before the cap is enforced.          *)
Offered(p, a, at) ==
    IF Bound(a, p) /\ Advances(Outcome(store.slots, a, at))
    THEN SetSlot(store.slots, a) ELSE store.slots

(* The store afterwards is a part of the offered set, and what is missing  *)
(* from it is reported as dropped.                                         *)
Restricts(after, p, a, at) ==
    /\ DOMAIN after.store.slots \subseteq DOMAIN Offered(p, a, at)
    /\ \A s \in DOMAIN after.store.slots : after.store.slots[s] = Offered(p, a, at)[s]
    /\ DOMAIN after.dropped = DOMAIN Offered(p, a, at) \ DOMAIN after.store.slots
    /\ \A s \in DOMAIN after.dropped : after.dropped[s] = Offered(p, a, at)[s]
    /\ after.advanced = (Bound(a, p) /\ Advances(Outcome(store.slots, a, at)))
    /\ \A r \in after.returned :
          /\ r = a
          /\ Bound(a, p)
          /\ Outcome(store.slots, a, at) \in {"Applied", "Idempotent"}

(* FloorStore::admit adds one offer, and then only drops.                  *)
LEMMA AdmitRestricts ==
    ASSUME NEW p, NEW a, NEW at
    PROVE  Restricts(Admit(store, Cap, p, a, at), p, a, at)
<1> DEFINE off == Offered(p, a, at)
           order1 == IF SlotOf(a) \in DOMAIN off
                     THEN Touch(store.order, SlotOf(a)) ELSE store.order
           st1 == [slots |-> off, order |-> order1]
           after == EnforceCap(st1, Cap, at)
<1>1. /\ DOMAIN after.slots \subseteq DOMAIN off
      /\ \A s \in DOMAIN after.slots : after.slots[s] = off[s]
  <2>1. st1.slots = off
    OBVIOUS
  <2> HIDE DEF st1, off
  <2> QED
    BY <2>1, EnforceCapRestricts
<1>2. /\ Admit(store, Cap, p, a, at).store = after
      /\ Admit(store, Cap, p, a, at).dropped = Without(off, DOMAIN after.slots)
      /\ Admit(store, Cap, p, a, at).advanced =
            (Bound(a, p) /\ Advances(Outcome(store.slots, a, at)))
      /\ Admit(store, Cap, p, a, at).returned =
            {r \in {a} : /\ Bound(a, p)
                         /\ a.kind = "provide"
                         /\ Outcome(store.slots, a, at) \in {"Applied", "Idempotent"}}
  BY DEF Admit, Offered
<1> HIDE DEF off, after
<1>3. /\ DOMAIN Without(off, DOMAIN after.slots) = DOMAIN off \ DOMAIN after.slots
      /\ \A s \in DOMAIN Without(off, DOMAIN after.slots) :
            Without(off, DOMAIN after.slots)[s] = off[s]
  BY DEF Without
<1> QED
  BY <1>1, <1>2, <1>3 DEF off, Restricts

(* An offered set is still a floor made of signed assertions.              *)
LEMMA OfferedFloor ==
    ASSUME IsFloor(store.slots), Signed(store.slots), NEW p, NEW a \in Assertions, NEW at
    PROVE  IsFloor(Offered(p, a, at)) /\ Signed(Offered(p, a, at))
<1>1. /\ SlotOf(a) \in Slots
      /\ NewSlot(a) \in SlotValue
  BY NewSlotFields
<1>2. CASE Offered(p, a, at) = store.slots
  BY <1>2
<1>3. CASE Offered(p, a, at) = SetSlot(store.slots, a)
  <2>1. /\ DOMAIN SetSlot(store.slots, a) = DOMAIN store.slots \cup {SlotOf(a)}
        /\ \A s \in DOMAIN SetSlot(store.slots, a) :
              SetSlot(store.slots, a)[s] =
                 IF s = SlotOf(a) THEN NewSlot(a) ELSE store.slots[s]
    BY DEF SetSlot
  <2>2. IsFloor(SetSlot(store.slots, a))
    BY <1>1, <2>1 DEF IsFloor
  <2>3. Signed(SetSlot(store.slots, a))
    BY <2>1 DEF Signed
  <2> QED
    BY <1>3, <2>2, <2>3
<1> QED
  BY <1>2, <1>3 DEF Offered

(* A part of a signed floor is a signed floor.                             *)
LEMMA PartOfFloor ==
    ASSUME NEW big, NEW small, IsFloor(big), Signed(big),
           DOMAIN small \subseteq DOMAIN big,
           \A s \in DOMAIN small : small[s] = big[s]
    PROVE  IsFloor(small) /\ Signed(small)
BY DEF IsFloor, Signed

(* apply moves a slot only forward.                                        *)
LEMMA AppliedIsNewer ==
    ASSUME NEW slots, NEW a, NEW at, SlotOf(a) \in DOMAIN slots,
           Advances(Outcome(slots, a, at))
    PROVE  a.sequence > slots[SlotOf(a)].sequence
BY DEF Outcome, Advances

(* What a lookup takes from an admission is the slot's newest assertion,   *)
(* or comes from a slot that protects nothing any more.                    *)
LEMMA AdmittedIsCurrent ==
    ASSUME IInv, NEW a \in Assertions, NEW at,
           Outcome(store.slots, a, at) \in {"Applied", "Idempotent"},
           SlotOf(a) \notin forgotten
    PROVE  a.expiry <= now \/ a.sequence >= seen[SlotOf(a)]
<1> DEFINE s == SlotOf(a)
<1>1. s \in Slots /\ a.sequence \in Nat /\ NewSlot(a).sequence = a.sequence
  BY NewSlotFields
<1>2. seen[s] \in Nat
  BY <1>1 DEF IInv, TypeOK
<1>3. CASE s \in DOMAIN store.slots /\ store.slots[s].sequence >= seen[s]
  <2>1. store.slots[s].sequence \in Nat
    BY <1>3 DEF IInv, TypeOK, IsFloor, SlotValue
  <2>2. a.sequence >= store.slots[s].sequence
    BY <1>1, <1>3, <2>1 DEF Outcome
  <2> QED
    BY <1>1, <1>2, <1>3, <2>1, <2>2
<1>4. CASE Outlived(s)
  BY <1>1, <1>2, <1>4 DEF Outlived
<1> QED
  BY <1>1, <1>3, <1>4 DEF IInv, FloorInv

(* FloorStore::admit keeps the invariant, and takes only current records.  *)
LEMMA AdmitOneIInv ==
    ASSUME IInv, NEW l \in Lookups, NEW p \in Providers, NEW a \in Assertions,
           NEW saved \in BOOLEAN, AdmitOne(l, p, a, saved)
    PROVE  IInv' /\ Taken
<1> DEFINE at == look[l].at
           ad == Admit(store, Cap, p, a, at)
           off == Offered(p, a, at)
           adv == Bound(a, p) /\ Advances(Outcome(store.slots, a, at))
           t == SlotOf(a)
<1>a. /\ DOMAIN ad.store.slots \subseteq DOMAIN off
      /\ \A s \in DOMAIN ad.store.slots : ad.store.slots[s] = off[s]
      /\ DOMAIN ad.dropped = DOMAIN off \ DOMAIN ad.store.slots
      /\ \A s \in DOMAIN ad.dropped : ad.dropped[s] = off[s]
      /\ ad.advanced = adv
      /\ \A r \in ad.returned : /\ r = a
                                 /\ Bound(a, p)
                                 /\ Outcome(store.slots, a, at)
                                       \in {"Applied", "Idempotent"}
  <2>1. Restricts(ad, p, a, at)
    BY AdmitRestricts
  <2> HIDE DEF ad
  <2> QED
    BY <2>1 DEF Restricts
<1>m. /\ store' = ad.store
      /\ Save(ad.persist, ad.store.slots, saved)
      /\ seen' = IF ad.advanced /\ a.sequence > seen[t]
                 THEN [seen EXCEPT ![t] = a.sequence] ELSE seen
      /\ forgotten' = forgotten \cup
                         {s \in DOMAIN ad.dropped : ad.dropped[s].expiry > now}
      /\ now' = now
      /\ look[l].pc = "apply"
  BY DEF AdmitOne
<1>k. look' = [look EXCEPT ![l].left = @ \ {p},
                           ![l].consulted = @ \cup {p},
                           ![l].records = @ \cup ad.returned]
  BY DEF AdmitOne
<1>f. IsFloor(off) /\ Signed(off)
  BY OfferedFloor DEF IInv, TypeOK
<1>g. IsFloor(ad.store.slots) /\ Signed(ad.store.slots)
  <2> HIDE DEF ad, off
  <2> QED
    BY <1>a, <1>f, PartOfFloor
<1>o. /\ DOMAIN off = IF adv THEN DOMAIN store.slots \cup {t} ELSE DOMAIN store.slots
      /\ \A s \in DOMAIN off :
            off[s] = IF adv /\ s = t THEN NewSlot(a) ELSE store.slots[s]
  BY DEF Offered, SetSlot
<1>t. /\ t \in Slots /\ a.sequence \in Nat /\ a.expiry \in Nat
      /\ NewSlot(a).sequence = a.sequence
      /\ NewSlot(a) \in SlotValue
  BY NewSlotFields
<1>n. adv /\ t \in DOMAIN store.slots => a.sequence > store.slots[t].sequence
  BY AppliedIsNewer
<1>r. ad.returned \subseteq {a}
  BY <1>a
<1> HIDE DEF ad, off, adv, t, at
<1>l. look' \in [Lookups -> LookupState]
  <2>1. look[l] \in [pc: {"fetch", "apply"}, key: Keys, at: Nat,
                      named: SUBSET Providers, left: SUBSET Providers,
                      consulted: SUBSET Providers, failed: SUBSET Providers,
                      records: SUBSET Assertions]
    BY <1>m DEF IInv, TypeOK, LookupState, Idle
  <2>2. look'[l] \in LookupState
    BY <1>k, <1>r, <2>1 DEF IInv, TypeOK, LookupState
  <2>3. /\ DOMAIN look' = Lookups
        /\ \A m \in Lookups \ {l} : look'[m] = look[m]
        /\ look' = [m \in Lookups |-> look'[m]]
    BY <1>k DEF IInv, TypeOK
  <2> QED
    BY <2>2, <2>3 DEF IInv, TypeOK
<1>1. TypeOK'
  <2>1. IsFloor(disk')
    BY <1>m, <1>g DEF Save, IInv, TypeOK
  <2>2. seen' \in [Slots -> Nat]
    BY <1>m, <1>t DEF IInv, TypeOK
  <2>3. forgotten' \subseteq Slots
    BY <1>a, <1>f, <1>m DEF IInv, TypeOK, IsFloor
  <2>4. now' \in Nat
    BY <1>m DEF IInv, TypeOK
  <2>5. IsFloor(store'.slots)
    BY <1>m, <1>g
  <2> QED
    BY <1>l, <2>1, <2>2, <2>3, <2>4, <2>5 DEF TypeOK, IsFloor
<1>2. Signed(store.slots)' /\ Signed(disk)'
  <2>1. Signed(disk')
    BY <1>m, <1>g DEF Save, IInv
  <2> QED
    BY <1>m, <1>g, <2>1 DEF Signed
<1>3. FloorInv'
  <2> SUFFICES ASSUME NEW s \in Slots, s \notin forgotten', ~Outlived(s)'
               PROVE  s \in DOMAIN store'.slots /\ store'.slots[s].sequence >= seen'[s]
    BY DEF FloorInv
  <2>0. s \notin forgotten
    BY <1>m
  <2>1. seen[s] \in Nat /\ seen'[s] \in Nat
    BY <1>1 DEF IInv, TypeOK
  <2>2. seen'[s] = seen[s] => ~Outlived(s)
    BY <1>m DEF Outlived
  (* The offered set holds the highest sequence of s.                      *)
  <2>3. s \in DOMAIN off /\ off[s].sequence >= seen'[s]
    <3>1. CASE s = t /\ adv
      <4>1. off[s].sequence = a.sequence /\ s \in DOMAIN off
        BY <1>o, <1>t, <3>1
      <4>2. CASE a.sequence > seen[s]
        BY <1>a, <1>m, <1>t, <2>1, <3>1, <4>1, <4>2 DEF IInv, TypeOK
      <4>3. CASE ~(a.sequence > seen[s])
        <5>1. seen' = seen
          BY <1>m, <3>1, <4>3
        <5>2. s \in DOMAIN store.slots /\ store.slots[s].sequence >= seen[s]
          BY <2>0, <2>2, <5>1 DEF IInv, FloorInv
        <5>3. store.slots[s].sequence \in Nat
          BY <5>2 DEF IInv, TypeOK, IsFloor, SlotValue
        <5> QED
          BY <1>n, <1>t, <2>1, <3>1, <4>1, <5>1, <5>2, <5>3
      <4> QED
        BY <4>2, <4>3
    <3>2. CASE ~(s = t /\ adv)
      <4>1. seen'[s] = seen[s]
        BY <1>a, <1>m, <3>2 DEF IInv, TypeOK
      <4>2. s \in DOMAIN store.slots /\ store.slots[s].sequence >= seen[s]
        BY <2>0, <2>2, <4>1 DEF IInv, FloorInv
      <4> QED
        BY <1>o, <3>2, <4>1, <4>2
    <3> QED
      BY <3>1, <3>2
  (* If the cap took it, it had expired, and everything below it too.      *)
  <2>4. s \in DOMAIN ad.store.slots
    <3> SUFFICES ASSUME s \notin DOMAIN ad.store.slots PROVE FALSE
      OBVIOUS
    <3>1. s \in DOMAIN ad.dropped /\ ad.dropped[s] = off[s]
      BY <1>a, <2>3
    <3>2. off[s] \in SlotValue /\ off[s].expiry \in Nat
      BY <1>f, <2>3 DEF IsFloor, SlotValue
    <3>3. now \in Nat
      BY DEF IInv, TypeOK
    <3>4. off[s].expiry <= now
      BY <1>m, <3>1, <3>2, <3>3
    <3>5. PICK b \in Assertions : SlotOf(b) = s /\ off[s] = NewSlot(b)
      BY <1>f, <2>3 DEF Signed
    <3>6. ASSUME NEW c \in Assertions, SlotOf(c) = s, c.sequence <= seen'[s]
          PROVE  c.expiry <= now
      <4>1. /\ off[s].sequence = b.sequence /\ off[s].expiry = b.expiry
            /\ b.sequence \in Nat /\ c.sequence \in Nat
            /\ b.expiry \in Nat /\ c.expiry \in Nat
        BY <3>5, NewSlotFields
      <4>2. c.sequence <= b.sequence
        BY <2>1, <2>3, <3>6, <4>1
      <4>3. c.expiry <= b.expiry
        BY <3>5, <3>6, <4>2, ExpiryAssumption
      <4> QED
        BY <3>3, <3>4, <4>1, <4>3
    <3>7. Outlived(s)'
      BY <1>m, <3>6 DEF Outlived
    <3> QED
      BY <3>7
  <2> QED
    BY <1>a, <1>m, <2>3, <2>4
<1>5. FetchInv'
  <2>1. look[l] \in [pc: {"fetch", "apply"}, key: Keys, at: Nat,
                      named: SUBSET Providers, left: SUBSET Providers,
                      consulted: SUBSET Providers, failed: SUBSET Providers,
                      records: SUBSET Assertions]
    BY <1>m DEF IInv, TypeOK, LookupState, Idle
  <2>2. look'[l].pc = "apply"
    BY <1>k, <1>m, <2>1 DEF IInv, TypeOK
  <2>3. \A m \in Lookups \ {l} : look'[m] = look[m]
    BY <1>k DEF IInv, TypeOK
  <2> QED
    BY <2>2, <2>3 DEF IInv, FetchInv
<1>4. Taken
  <2> SUFFICES ASSUME NEW m \in Lookups, look'[m].pc = "apply",
                      NEW r \in look'[m].records
               PROVE  \/ look[m].pc = "apply" /\ r \in look[m].records
                      \/ r.expiry <= now
                      \/ SlotOf(r) \in forgotten
                      \/ r.sequence >= seen[SlotOf(r)]
    BY DEF Taken
  <2>1. CASE m # l
    <3>1. look'[m] = look[m]
      BY <1>k, <2>1 DEF IInv, TypeOK
    <3> QED
      BY <3>1
  <2>2. CASE m = l
    <3>1. look[l] \in [pc: {"fetch", "apply"}, key: Keys, at: Nat,
                        named: SUBSET Providers, left: SUBSET Providers,
                        consulted: SUBSET Providers, failed: SUBSET Providers,
                        records: SUBSET Assertions]
      BY <1>m DEF IInv, TypeOK, LookupState, Idle
    <3>2. look'[l].records = look[l].records \cup ad.returned
      BY <1>k, <3>1 DEF IInv, TypeOK
    <3>3. CASE r \in look[l].records
      BY <1>m, <2>2, <3>3
    <3>4. CASE r \in ad.returned
      <4>1. r = a /\ Outcome(store.slots, a, at) \in {"Applied", "Idempotent"}
        BY <1>a, <3>4
      <4> QED
        BY <4>1, AdmittedIsCurrent DEF at
    <3> QED
      BY <2>2, <3>2, <3>3, <3>4
  <2> QED
    BY <2>1, <2>2
<1> QED
  BY <1>1, <1>2, <1>3, <1>4, <1>5 DEF IInv

-----------------------------------------------------------------------------
(* A step that moves one lookup and touches neither floor, file nor clock  *)
(* keeps the invariant, if the lookup takes nothing in it.                 *)
LEMMA LookupOnly ==
    ASSUME IInv, NEW l \in Lookups, NEW v \in LookupState,
           look' = [look EXCEPT ![l] = v],
           v.pc = "fetch" => v.records = {},
           v.pc = "apply" => IF look[l].pc = "apply"
                             THEN v.records = look[l].records ELSE v.records = {},
           UNCHANGED <<now, store, disk, seen, forgotten>>
    PROVE  IInv' /\ Taken
<1>1. look' \in [Lookups -> LookupState] /\ look'[l] = v
  BY DEF IInv, TypeOK
<1>2. \A m \in Lookups \ {l} : look'[m] = look[m]
  BY DEF IInv, TypeOK
<1>3. TypeOK'
  BY <1>1 DEF IInv, TypeOK, IsFloor
<1>4. FetchInv'
  BY <1>1, <1>2 DEF IInv, FetchInv
<1>5. FloorInv' /\ Signed(store.slots)' /\ Signed(disk)'
  BY DEF IInv, FloorInv, Signed, Outlived
<1>6. Taken
  BY <1>1, <1>2 DEF Taken
<1> QED
  BY <1>3, <1>4, <1>5, <1>6 DEF IInv

PendingState ==
    [pc: {"fetch", "apply"}, key: Keys, at: Nat,
     named: SUBSET Providers, left: SUBSET Providers,
     consulted: SUBSET Providers, failed: SUBSET Providers,
     records: SUBSET Assertions]

(* Every step of a lookup keeps the invariant and takes only current       *)
(* records.                                                                *)
LEMMA LookupStepIInv ==
    ASSUME IInv, NEW l \in Lookups, LookupStep(l)
    PROVE  IInv' /\ Taken
<1>i. Idle \in LookupState /\ Idle.pc = "idle"
  BY DEF LookupState, Idle
<1>t. look[l].pc \in {"fetch", "apply"} => look[l] \in PendingState
  BY DEF IInv, TypeOK, LookupState, PendingState, Idle
<1>s. PendingState \subseteq LookupState
  BY DEF PendingState, LookupState
<1>1. CASE NoRouting(l)
  BY <1>1, <1>i, LookupOnly DEF NoRouting, Reply
<1>2. ASSUME NEW k \in Keys, StartLookup(l, k) PROVE IInv' /\ Taken
  <2>1. [pc |-> "index", key |-> k] \in LookupState
    BY DEF LookupState
  <2> QED
    BY <1>2, <2>1, LookupOnly DEF StartLookup
<1>3. CASE LookupFails(l)
  BY <1>3, <1>i, LookupOnly DEF LookupFails, Reply
<1>4. ASSUME NEW named \in SUBSET Providers, NEW m \in MaxPeersBudgets,
             NEW near \in BOOLEAN, IndexEmpty(l, named, m, near)
      PROVE  IInv' /\ Taken
  BY <1>4, <1>i, LookupOnly DEF IndexEmpty, Reply
<1>5. ASSUME NEW named \in SUBSET Providers, NEW m \in MaxPeersBudgets,
             NEW kept \in Retained(named, m), IndexFound(l, named, kept)
      PROVE  IInv' /\ Taken
  <2> DEFINE v == Pending("fetch", look[l].key, now, named, kept, {}, {}, {})
  <2>1. look[l].key \in Keys
    BY <1>5 DEF IndexFound, IInv, TypeOK, LookupState, Idle
  <2>2. kept \in SUBSET Providers
    BY <1>5 DEF Retained
  <2>3. v \in PendingState /\ v.pc = "fetch" /\ v.records = {}
    BY <2>1, <2>2 DEF PendingState, Pending, IInv, TypeOK
  <2>4. look' = [look EXCEPT ![l] = v]
        /\ UNCHANGED <<now, store, disk, seen, forgotten>>
    BY <1>5 DEF IndexFound
  <2> HIDE DEF v
  <2> QED
    BY <1>s, <2>3, <2>4, LookupOnly
<1>6. CASE LockStore(l)
  <2> DEFINE v == [look[l] EXCEPT !.pc = "apply"]
  <2>1. look[l].pc = "fetch" /\ look[l] \in PendingState /\ look[l].records = {}
    BY <1>6, <1>t DEF LockStore, IInv, FetchInv
  <2>2. v \in PendingState /\ v.pc = "apply" /\ v.records = {}
    BY <2>1 DEF PendingState
  <2>3. look' = [look EXCEPT ![l] = v]
        /\ UNCHANGED <<now, store, disk, seen, forgotten>>
    BY <1>6 DEF LockStore
  <2> HIDE DEF v
  <2> QED
    BY <1>s, <2>1, <2>2, <2>3, LookupOnly
<1>7. ASSUME NEW p \in Providers, FetchFailed(l, p) PROVE IInv' /\ Taken
  <2> DEFINE v == [look[l] EXCEPT !.left = @ \ {p}, !.failed = @ \cup {p}]
  <2>1. look[l].pc = "apply" /\ look[l] \in PendingState
    BY <1>7, <1>t DEF FetchFailed
  <2>2. v \in PendingState /\ v.pc = "apply" /\ v.records = look[l].records
    BY <2>1 DEF PendingState
  <2>3. look' = [look EXCEPT ![l] = v]
    BY <1>7 DEF FetchFailed, IInv, TypeOK
  <2>4. UNCHANGED <<now, store, disk, seen, forgotten>>
    BY <1>7 DEF FetchFailed
  <2> HIDE DEF v
  <2> QED
    BY <1>s, <2>1, <2>2, <2>3, <2>4, LookupOnly
<1>8. ASSUME NEW p \in Providers, FetchedNothing(l, p) PROVE IInv' /\ Taken
  <2> DEFINE v == [look[l] EXCEPT !.left = @ \ {p}, !.consulted = @ \cup {p}]
  <2>1. look[l].pc = "apply" /\ look[l] \in PendingState
    BY <1>8, <1>t DEF FetchedNothing
  <2>2. v \in PendingState /\ v.pc = "apply" /\ v.records = look[l].records
    BY <2>1 DEF PendingState
  <2>3. look' = [look EXCEPT ![l] = v]
    BY <1>8 DEF FetchedNothing, IInv, TypeOK
  <2>4. UNCHANGED <<now, store, disk, seen, forgotten>>
    BY <1>8 DEF FetchedNothing
  <2> HIDE DEF v
  <2> QED
    BY <1>s, <2>1, <2>2, <2>3, <2>4, LookupOnly
<1>9. ASSUME NEW p \in Providers, NEW a \in Assertions, NEW saved \in BOOLEAN,
             AdmitOne(l, p, a, saved)
      PROVE  IInv' /\ Taken
  BY <1>9, AdmitOneIInv
<1>10. CASE Finish(l)
  BY <1>10, <1>i, LookupOnly DEF Finish, Reply
<1> QED
  BY <1>1, <1>2, <1>3, <1>4, <1>5, <1>6, <1>7, <1>8, <1>9, <1>10 DEF LookupStep

(* FloorStore::durable: what the file does not bring back is counted as    *)
(* given up.                                                               *)
LEMMA RestartIInv ==
    ASSUME IInv, NEW loaded, NEW order, Restart(loaded, order)
    PROVE  IInv' /\ Taken
<1>0. IsFloor(EmptyStore.slots) /\ Signed(EmptyStore.slots)
  BY DEF EmptyStore, IsFloor, Signed
<1>1. IsFloor(loaded) /\ Signed(loaded)
  BY <1>0 DEF Restart, IInv, TypeOK
<1>m. /\ store'.slots = loaded
      /\ look' = [l \in Lookups |-> Idle]
      /\ forgotten' = forgotten \cup
                       {s \in Slots : seen[s] > 0 /\
                            (s \in DOMAIN loaded => loaded[s].sequence < seen[s])}
      /\ UNCHANGED <<now, disk, seen>>
  BY DEF Restart
<1>i. Idle \in LookupState /\ Idle.pc = "idle"
  BY DEF LookupState, Idle
<1>2. TypeOK'
  BY <1>1, <1>m, <1>i DEF IInv, TypeOK, IsFloor
<1>3. Signed(store.slots)' /\ Signed(disk)'
  BY <1>1, <1>m DEF IInv, Signed
<1>4. FloorInv'
  <2> SUFFICES ASSUME NEW s \in Slots, s \notin forgotten'
               PROVE  \/ s \in DOMAIN loaded /\ loaded[s].sequence >= seen[s]
                      \/ Outlived(s)'
    BY <1>m DEF FloorInv
  <2>1. seen[s] \in Nat
    BY DEF IInv, TypeOK
  <2>2. CASE seen[s] = 0
    <3>1. \A a \in Assertions : a.sequence \in Nat \ {0}
      BY NewSlotFields
    <3>2. Outlived(s)'
      BY <1>m, <2>2, <3>1 DEF Outlived
    <3> QED
      BY <3>2
  <2>3. CASE seen[s] > 0
    <3>1. s \in DOMAIN loaded /\ ~(loaded[s].sequence < seen[s])
      BY <1>m, <2>3
    <3>2. loaded[s].sequence \in Nat
      BY <1>1, <3>1 DEF IsFloor, SlotValue
    <3> QED
      BY <2>1, <3>1, <3>2
  <2> QED
    BY <2>1, <2>2, <2>3
<1>5. FetchInv' /\ Taken
  BY <1>m, <1>i DEF FetchInv, Taken
<1> QED
  BY <1>2, <1>3, <1>4, <1>5 DEF IInv

(* Time only lets more assertions expire.                                  *)
LEMMA TickIInv == ASSUME IInv, Tick PROVE IInv' /\ Taken
<1>1. TypeOK' /\ Signed(store.slots)' /\ Signed(disk)' /\ FetchInv'
  BY DEF Tick, IInv, TypeOK, IsFloor, Signed, FetchInv
<1>2. \A s \in Slots : Outlived(s) => Outlived(s)'
  BY NewSlotFields DEF Tick, IInv, TypeOK, Outlived
<1>3. FloorInv'
  BY <1>2 DEF Tick, IInv, FloorInv
<1>4. Taken
  BY DEF Tick, Taken
<1> QED
  BY <1>1, <1>3, <1>4 DEF IInv

(* A fresh directory holds nothing and has applied nothing.                *)
LEMMA InitIInv == Init => IInv
<1> SUFFICES ASSUME Init PROVE IInv
  OBVIOUS
<1>i. Idle \in LookupState /\ Idle.pc = "idle"
  BY DEF LookupState, Idle
<1>1. DOMAIN store.slots = {} /\ DOMAIN disk = {}
  BY DEF Init, EmptyStore
<1>2. TypeOK
  BY <1>1, <1>i DEF Init, TypeOK, IsFloor
<1>3. Signed(store.slots) /\ Signed(disk)
  BY <1>1 DEF Signed
<1>4. FloorInv
  BY NewSlotFields DEF Init, FloorInv, Outlived
<1>5. FetchInv
  BY <1>i DEF Init, FetchInv
<1> QED
  BY <1>2, <1>3, <1>4, <1>5 DEF IInv

(* Every step keeps the invariant and takes only current records.          *)
LEMMA NextIInv == ASSUME IInv, [Next]_vars PROVE IInv' /\ (vars' # vars => Taken)
<1>1. CASE \E l \in Lookups : LookupStep(l)
  BY <1>1, LookupStepIInv
<1>2. CASE \E loaded \in {disk, EmptyStore.slots} :
              \E order \in Orders(loaded) : Restart(loaded, order)
  BY <1>2, RestartIInv
<1>3. CASE Tick
  BY <1>3, TickIInv
<1>4. CASE UNCHANGED vars
  BY <1>4 DEF vars, IInv, TypeOK, IsFloor, Signed, FetchInv, FloorInv, Outlived
<1> QED
  BY <1>1, <1>2, <1>3, <1>4 DEF Next

(* The inductive invariant holds of every behaviour.                       *)
LEMMA SpecIInv == Spec => []IInv
<1>1. IInv /\ [Next]_vars => IInv'
  BY NextIInv
<1> QED
  BY <1>1, InitIInv, PTL DEF Spec

(* Floor, file and lookups are well-typed for every instance.              *)
THEOREM TypeCorrect == Spec => []TypeOK
<1>1. IInv => TypeOK
  BY DEF IInv
<1> QED
  BY <1>1, SpecIInv, PTL

(* A withdrawn or superseded record never comes back live: whatever the    *)
(* DHT replays, whichever clock the lookups apply and sweep with, and      *)
(* however often the process restarts, unless the slot's floor was given   *)
(* up to the cap or lost with the file.                                    *)
THEOREM NeverResurrects == Spec => NoResurrection
<1>1. IInv /\ [Next]_vars => [Taken]_vars
  BY NextIInv
<1>2. Spec => [][Taken]_vars
  BY <1>1, SpecIInv, PTL DEF Spec
<1> QED
  BY <1>2 DEF NoResurrection, Taken

-----------------------------------------------------------------------------
(* What a directory tells its caller.                                      *)

(* Only an empty index and the end of the apply loop can answer Miss.      *)
LEMMA AnswerIsAuthoritative ==
    ASSUME MissIsAuthoritative, [Next]_vars
    PROVE  MissIsAuthoritative'
<1> USE DEF MissIsAuthoritative, Reply, NoAnswer
<1>1. ASSUME NEW l \in Lookups, LookupStep(l) PROVE MissIsAuthoritative'
  <2>1. CASE NoRouting(l) \/ LookupFails(l)
    BY <2>1 DEF NoRouting, LookupFails
  <2>6. CASE \/ \E k \in Keys : StartLookup(l, k)
             \/ LockStore(l)
             \/ \E p \in Providers : FetchFailed(l, p) \/ FetchedNothing(l, p)
    <3>1. answer' = NoAnswer
      BY <2>6 DEF StartLookup, LockStore, FetchFailed, FetchedNothing
    <3> QED
      BY <3>1
  <2>2. ASSUME NEW named \in SUBSET Providers, NEW m \in MaxPeersBudgets,
               NEW near \in BOOLEAN, IndexEmpty(l, named, m, near)
        PROVE  MissIsAuthoritative'
    BY <2>2 DEF IndexEmpty, EmptyIndex
  <2>3. ASSUME NEW named \in SUBSET Providers, NEW m \in MaxPeersBudgets,
               NEW kept \in Retained(named, m), IndexFound(l, named, kept)
        PROVE  MissIsAuthoritative'
    BY <2>3 DEF IndexFound
  <2>4. ASSUME NEW p \in Providers, NEW a \in Assertions, NEW saved \in BOOLEAN,
               AdmitOne(l, p, a, saved)
        PROVE  MissIsAuthoritative'
    BY <2>4 DEF AdmitOne
  <2>5. CASE Finish(l)
    BY <2>5 DEF Finish, Classify
  <2> QED
    BY <1>1, <2>1, <2>2, <2>3, <2>4, <2>5, <2>6 DEF LookupStep
<1>2. ASSUME NEW loaded, NEW order, Restart(loaded, order) PROVE MissIsAuthoritative'
  BY <1>2 DEF Restart
<1>3. CASE Tick
  BY <1>3 DEF Tick
<1>4. CASE UNCHANGED vars
  BY <1>4 DEF vars
<1> QED
  BY <1>1, <1>2, <1>3, <1>4 DEF Next

(* A Miss is authoritative for every fan-out budget and interleaving: the  *)
(* walk reached the key's neighbourhood and every provider it named was    *)
(* consulted (directory.rs, classify and classify_empty_index).            *)
THEOREM AMissIsAuthoritative == Spec => []MissIsAuthoritative
<1>1. Init => MissIsAuthoritative
  BY DEF Init, NoAnswer, MissIsAuthoritative
<1> QED
  BY <1>1, AnswerIsAuthoritative, PTL DEF Spec

-----------------------------------------------------------------------------
(* The floor file.                                                         *)

IsFun(f) == f = [x \in DOMAIN f |-> f[x]]

(* The floor is a map, and the file holds it unless a write or the last    *)
(* load failed.                                                            *)
FileInv == IsFun(store.slots) /\ IsFun(disk) /\ DiskInSync

(* Equal maps.                                                             *)
LEMMA SameMap ==
    ASSUME NEW f, NEW g, IsFun(f), IsFun(g), DOMAIN f = DOMAIN g,
           \A x \in DOMAIN f : f[x] = g[x]
    PROVE  f = g
BY DEF IsFun

(* FloorStore::admit keeps a map, and asks for a save whenever the map     *)
(* changed: an advance, or an eviction of the sweep or of the cap.         *)
LEMMA AdmitSaves ==
    ASSUME IsFun(store.slots), NEW p, NEW a, NEW at
    PROVE  LET after == Admit(store, Cap, p, a, at)
           IN  /\ IsFun(after.store.slots)
               /\ ~after.persist => after.store.slots = store.slots
<1> DEFINE off == Offered(p, a, at)
           order1 == IF SlotOf(a) \in DOMAIN off
                     THEN Touch(store.order, SlotOf(a)) ELSE store.order
           st1 == [slots |-> off, order |-> order1]
           after == EnforceCap(st1, Cap, at)
           ad == Admit(store, Cap, p, a, at)
           adv == Bound(a, p) /\ Advances(Outcome(store.slots, a, at))
<1>1. ad.store = after /\ ad.persist = DurableChange(adv, off, after.slots)
  BY DEF Admit, Offered
<1>2. IsFun(off) /\ (~adv => off = store.slots)
  BY DEF Offered, SetSlot, IsFun
<1>3. IsFun(after.slots)
  <2>1. st1.slots = off
    OBVIOUS
  <2> HIDE DEF st1, off
  <2>2. ASSUME NEW f, NEW gone PROVE IsFun(Without(f, gone))
    BY DEF Without, IsFun
  <2>3. IsFun(PopFront(Sweep(st1, at), Pops(Sweep(st1, at), Cap)).slots)
    BY <2>2 DEF PopFront
  <2> QED
    BY <1>2, <2>1, <2>3 DEF EnforceCap
<1>4. \A s \in DOMAIN after.slots : after.slots[s] = off[s]
  <2>1. st1.slots = off
    OBVIOUS
  <2> HIDE DEF st1, off
  <2> QED
    BY <2>1, EnforceCapRestricts
<1> HIDE DEF off, after, adv
<1>5. ~ad.persist => after.slots = store.slots
  <2> SUFFICES ASSUME ~ad.persist PROVE after.slots = store.slots
    OBVIOUS
  <2>1. ~adv /\ DOMAIN off = DOMAIN after.slots
    BY <1>1 DEF DurableChange
  <2> QED
    BY <1>2, <1>3, <1>4, <2>1, SameMap
<1> QED
  BY <1>1, <1>3, <1>5

(* Every step keeps file and floor in step.                                *)
LEMMA NextFile == ASSUME FileInv, [Next]_vars PROVE FileInv'
<1>0. UNCHANGED <<store, disk, unsaved>> => FileInv'
  BY DEF FileInv, IsFun, DiskInSync
<1>1. ASSUME NEW l \in Lookups, LookupStep(l) PROVE FileInv'
  <2>1. CASE \/ NoRouting(l) \/ (\E k \in Keys : StartLookup(l, k)) \/ LookupFails(l)
             \/ LockStore(l) \/ Finish(l)
             \/ \E p \in Providers : FetchFailed(l, p) \/ FetchedNothing(l, p)
    BY <1>0, <2>1 DEF NoRouting, StartLookup, LookupFails, LockStore, FetchFailed,
                      FetchedNothing, Finish
  <2>2. CASE \/ \E named \in SUBSET Providers, m \in MaxPeersBudgets, near \in BOOLEAN :
                   IndexEmpty(l, named, m, near)
             \/ \E named \in SUBSET Providers, m \in MaxPeersBudgets :
                   \E kept \in Retained(named, m) : IndexFound(l, named, kept)
    BY <1>0, <2>2 DEF IndexEmpty, IndexFound
  <2>3. ASSUME NEW p \in Providers, NEW a \in Assertions, NEW saved \in BOOLEAN,
               AdmitOne(l, p, a, saved)
        PROVE  FileInv'
    <3> DEFINE ad == Admit(store, Cap, p, a, look[l].at)
    <3>1. store' = ad.store /\ Save(ad.persist, ad.store.slots, saved)
      BY <2>3 DEF AdmitOne
    <3>2. IsFun(ad.store.slots) /\ (~ad.persist => ad.store.slots = store.slots)
      BY AdmitSaves DEF FileInv
    <3> HIDE DEF ad
    <3>3. IsFun(disk')
      BY <3>1, <3>2 DEF Save, FileInv
    <3>4. DiskInSync'
      BY <3>1, <3>2, DirectoryBounds DEF Save, FileInv, DiskInSync
    <3> QED
      BY <3>1, <3>2, <3>3, <3>4 DEF FileInv, IsFun
  <2> QED
    BY <1>1, <2>1, <2>2, <2>3 DEF LookupStep
<1>2. ASSUME NEW loaded, NEW order, Restart(loaded, order) PROVE FileInv'
  <2>1. /\ loaded \in {disk, EmptyStore.slots}
        /\ store'.slots = loaded /\ disk' = disk
        /\ unsaved' = (loaded # disk)
    BY <1>2 DEF Restart
  <2>2. IsFun(loaded)
    BY <2>1 DEF EmptyStore, IsFun, FileInv
  <2> QED
    BY <2>1, <2>2 DEF FileInv, IsFun, DiskInSync
<1>3. CASE Tick \/ UNCHANGED vars
  BY <1>0, <1>3 DEF Tick, vars
<1> QED
  BY <1>1, <1>2, <1>3 DEF Next

(* No advance and no eviction goes unsaved: the floor file equals the      *)
(* floor unless a write or the last load failed, whatever the cap, the     *)
(* sweeps and the interleaved lookups (floor_store.rs, admit and persist). *)
THEOREM FloorFileInSync == Spec => []DiskInSync
<1>1. Init => FileInv
  BY DEF Init, FileInv, EmptyStore, IsFun, DiskInSync
<1>2. FileInv => DiskInSync
  BY DEF FileInv
<1> QED
  BY <1>1, <1>2, NextFile, PTL DEF Spec

----------------------------------------------------------------------------
(***************************************************************************)
(* The recency order.  Touch and Sweep keep a part of the order, in order; *)
(* that such a part exists is an induction, carried by the least natural   *)
(* number at which it would fail.                                          *)
(***************************************************************************)

(* A nonempty set of naturals has a least member. *)
LEMMA LeastNatural ==
    ASSUME NEW T \in SUBSET Nat, T # {}
    PROVE  \E n \in T : \A m \in T : n <= m
<1> DEFINE below == {ss \in Nat \X Nat : ss[1] < ss[2]}
<1>1. IsWellFoundedOn(below, Nat)
  BY NatLessThanWellFounded, Zenon DEF OpToRel
<1>2. PICK n \in T : \A m \in T : ~(<<m, n>> \in below)
  <2> HIDE DEF below
  <2> QED BY <1>1, WFMin
<1>3. ASSUME NEW m \in T PROVE n <= m
  <2>1. m \in Nat /\ n \in Nat
    OBVIOUS
  <2>2. ASSUME m < n PROVE FALSE
    <3>1. <<m, n>> \in below
      BY <2>1, <2>2
    <3> QED BY <1>2, <3>1
  <2> QED BY <2>1, <2>2
<1> QED
  BY <1>3

(* A nonempty finite set of naturals has a greatest member. *)
LEMMA GreatestNatural ==
    ASSUME NEW N \in Nat, NEW T \in SUBSET (1..N), T # {}
    PROVE  \E n \in T : \A m \in T : m <= n
<1> DEFINE up == {n \in Nat : \A m \in T : m <= n}
<1>1. N \in up
  OBVIOUS
<1>2. PICK n \in up : \A m \in up : n <= m
  <2>1. up \in SUBSET Nat /\ up # {}
    BY <1>1
  <2> HIDE DEF up
  <2> QED BY <2>1, LeastNatural
<1>3. n \in T
  <2> SUFFICES ASSUME n \notin T PROVE FALSE
    OBVIOUS
  <2>1. PICK x \in T : TRUE
    OBVIOUS
  <2>2. n \in Nat /\ n # 0 /\ n - 1 \in Nat
    BY <1>2, <2>1
  <2>3. \A m \in T : m <= n - 1
    BY <1>2, <2>2
  <2>4. n - 1 \in up
    BY <2>2, <2>3
  <2> QED BY <1>2, <2>2, <2>4
<1> QED
  BY <1>2, <1>3

(* Every set of positions can be enumerated in increasing order. *)
LEMMA EnumerationExists ==
    ASSUME NEW N \in Nat, NEW T \in SUBSET (1..N)
    PROVE  \E f \in [1..Cardinality(T) -> T] : Increasing(f)
<1> DEFINE Bad(n) == \E S \in SUBSET (1..N) : /\ Cardinality(S) = n
                         /\ ~ \E f \in [1..Cardinality(S) -> S] : Increasing(f)
           bad == {n \in Nat : Bad(n)}
<1>f. ASSUME NEW S \in SUBSET (1..N) PROVE IsFiniteSet(S) /\ Cardinality(S) \in Nat
  <2>1. IsFiniteSet(1..N)
    BY FS_Interval
  <2>2. IsFiniteSet(S)
    BY <2>1, FS_Subset
  <2> QED
    BY <2>2, FS_CardinalityType
<1> SUFFICES ASSUME bad # {} PROVE FALSE
  BY <1>f
<1>1. PICK n \in bad : \A m \in bad : n <= m
  <2>1. bad \in SUBSET Nat
    OBVIOUS
  <2> HIDE DEF bad
  <2> QED BY <2>1, LeastNatural
<1>2. PICK S \in SUBSET (1..N) : /\ Cardinality(S) = n
                         /\ ~ \E f \in [1..Cardinality(S) -> S] : Increasing(f)
  BY <1>1
<1>3. n \in Nat /\ IsFiniteSet(S)
  BY <1>f, <1>2
<1>4. CASE S = {}
  <2>1. 1..Cardinality(S) = {}
    BY <1>4, FS_EmptySet
  <2> DEFINE e == [i \in {} |-> 0]
  <2>2. e \in [1..Cardinality(S) -> S] /\ Increasing(e)
    BY <2>1 DEF Increasing
  <2> QED BY <1>2, <2>2
<1>5. CASE S # {}
  <2>1. PICK top \in S : \A m \in S : m <= top
    BY <1>5, GreatestNatural
  <2> DEFINE R == S \ {top}
  <2>2. R \in SUBSET (1..N) /\ Cardinality(R) = n - 1 /\ IsFiniteSet(R)
    BY <1>2, <1>3, FS_RemoveElement
  <2>3. n - 1 \in Nat /\ n \in Nat
    BY <1>f, <2>2
  <2>4. n - 1 \notin bad
    BY <1>1, <2>3
  <2>5. PICK f \in [1..Cardinality(R) -> R] : Increasing(f)
    BY <2>2, <2>3, <2>4
  <2> DEFINE g == [i \in 1..n |-> IF i = n THEN top ELSE f[i]]
  <2>6. f \in [1..(n - 1) -> R]
    BY <2>2, <2>5
  <2> HIDE DEF bad
  <2>7. g \in [1..Cardinality(S) -> S]
    <3>1. ASSUME NEW i \in 1..n PROVE (IF i = n THEN top ELSE f[i]) \in S
      <4>1. CASE i # n
        <5>1. i \in 1..(n - 1)
          BY <2>3, <4>1
        <5> QED BY <2>6, <4>1, <5>1
      <4> QED BY <4>1
    <3> QED BY <1>2, <3>1
  <2>8. Increasing(g)
    <3> SUFFICES ASSUME NEW i \in 1..n, NEW j \in 1..n, i < j PROVE g[i] < g[j]
      BY DEF Increasing
    <3>0. i \in 1..(n - 1)
      BY <2>3
    <3>1. i \in 1..(n - 1) /\ f[i] \in R
      BY <3>0, <2>6
    <3>2. g[i] = f[i]
      BY <2>3, <3>1
    <3>3. CASE j = n
      <4>1. f[i] <= top /\ f[i] # top /\ f[i] \in 1..N /\ top \in 1..N
        BY <2>1, <3>1
      <4> QED BY <3>2, <3>3, <4>1
    <3>4. CASE j # n
      <4>1. j \in 1..(n - 1) /\ g[j] = f[j]
        BY <2>3, <3>4
      <4> QED BY <2>5, <2>6, <3>1, <3>2, <4>1 DEF Increasing
    <3> QED BY <3>3, <3>4
  <2> HIDE DEF g
  <2> QED BY <1>2, <2>7, <2>8
<1> QED
  BY <1>4, <1>5

-----------------------------------------------------------------------------
(* The order lists every slot of D once.                                   *)
Lists(q, D) ==
    /\ q \in Seq(D)
    /\ Positions(q) = D
    /\ \A i, j \in 1..Len(q) : q[i] = q[j] => i = j

(* s is among the last c of the order.                                     *)
Recent(q, s, c) == \E i \in 1..Len(q) : q[i] = s /\ i > Len(q) - c

LEMMA FromTo ==
    ASSUME NEW a \in Nat, NEW b \in Nat, a <= b + 1
    PROVE  IsFiniteSet(a..b) /\ Cardinality(a..b) = b + 1 - a
<1>1. /\ IsFiniteSet(a..b)
      /\ Cardinality(a..b) = IF a > b THEN 0 ELSE b - a + 1
  BY FS_Interval
<1> QED
  BY <1>1

(* A list of D is as long as D is large.                                   *)
LEMMA ListsLen ==
    ASSUME NEW q, NEW D, Lists(q, D)
    PROVE  IsFiniteSet(D) /\ Cardinality(D) = Len(q) /\ Len(q) \in Nat
<1>1. q \in [1..Len(q) -> D] /\ Len(q) \in Nat
  BY DEF Lists
<1>2. ASSUME NEW d \in D PROVE \E i \in 1..Len(q) : q[i] = d
  BY <1>1 DEF Lists, Positions
<1>3. q \in Bijection(1..Len(q), D)
  BY <1>1, <1>2 DEF Lists, Bijection, Injection, Surjection, IsInjective
<1>4. IsFiniteSet(1..Len(q)) /\ Cardinality(1..Len(q)) = Len(q)
  BY <1>1, FromTo
<1>5. ExistsBijection(1..Len(q), D)
  BY <1>3 DEF ExistsBijection
<1> QED
  BY <1>1, <1>4, <1>5, FS_Bijection

KeptAt(q, held) == {i \in 1..Len(q) : q[i] \in held}

(* The positions that retain keeps, and their increasing enumeration.      *)
LEMMA RetainEnumerates ==
    ASSUME NEW q, NEW D, Lists(q, D), NEW held
    PROVE  \E nth \in [1..Cardinality(KeptAt(q, held)) -> KeptAt(q, held)] :
               /\ Cardinality(KeptAt(q, held)) \in Nat
               /\ Increasing(nth)
               /\ \A i \in KeptAt(q, held) :
                     \E k \in 1..Cardinality(KeptAt(q, held)) : nth[k] = i
               /\ Retain(q, held) =
                     [n \in 1..Cardinality(KeptAt(q, held)) |-> q[nth[n]]]
<1> DEFINE at == KeptAt(q, held)
           c == Cardinality(at)
           nth == CHOOSE f \in [1..c -> at] : Increasing(f)
<1>1. Len(q) \in Nat /\ DOMAIN q = 1..Len(q)
  BY DEF Lists
<1>2. at \in SUBSET (1..Len(q))
  BY DEF KeptAt
<1>3. IsFiniteSet(at) /\ c \in Nat
  <2>1. IsFiniteSet(1..Len(q))
    BY <1>1, FromTo
  <2>2. IsFiniteSet(at)
    BY <1>2, <2>1, FS_Subset
  <2> QED
    BY <2>2, FS_CardinalityType
<1>4. Retain(q, held) = [n \in 1..c |-> q[nth[n]]]
  BY <1>1 DEF Retain, KeptAt
<1> HIDE DEF at
<1>5. nth \in [1..c -> at] /\ Increasing(nth)
  BY <1>1, <1>2, EnumerationExists
<1> HIDE DEF nth, c
<1>6. nth \in Injection(1..c, at)
  <2>1. ASSUME NEW i \in 1..c, NEW j \in 1..c, nth[i] = nth[j] PROVE i = j
    <3>1. nth[i] \in 1..Len(q) /\ nth[j] \in 1..Len(q)
      BY <1>2, <1>5
    <3>2. ~(i < j) /\ ~(j < i)
      BY <1>1, <1>5, <2>1, <3>1 DEF Increasing
    <3> QED
      BY <1>3, <3>2
  <2> QED
    BY <1>5, <2>1 DEF Injection, IsInjective
<1>7. nth \in Surjection(1..c, at)
  <2>1. Cardinality(1..c) = c
    BY <1>3, FromTo
  <2> QED
    BY <1>3, <1>6, <2>1, FS_Injection DEF c
<1>8. \A i \in at : \E k \in 1..c : nth[k] = i
  BY <1>7 DEF Surjection
<1> QED
  BY <1>3, <1>4, <1>5, <1>8 DEF at, c

(* VecDeque::retain of a list keeps a list, and moves nothing away from    *)
(* its recently used end.                                                  *)
LEMMA RetainLists ==
    ASSUME NEW q, NEW D, Lists(q, D), NEW held \in SUBSET D
    PROVE  /\ Lists(Retain(q, held), held)
           /\ \A s \in held, n \in Nat : Recent(q, s, n) => Recent(Retain(q, held), s, n)
<1> DEFINE at == KeptAt(q, held)
           c == Cardinality(at)
           r == Retain(q, held)
<1>1. PICK nth \in [1..c -> at] :
         /\ c \in Nat
         /\ Increasing(nth)
         /\ \A i \in at : \E k \in 1..c : nth[k] = i
         /\ r = [n \in 1..c |-> q[nth[n]]]
  BY RetainEnumerates
<1>2. /\ Len(q) \in Nat /\ DOMAIN q = 1..Len(q)
      /\ Positions(q) = D
      /\ \A i, j \in 1..Len(q) : q[i] = q[j] => i = j
  BY DEF Lists
<1>3. at \subseteq 1..Len(q) /\ \A i \in at : q[i] \in held
  BY DEF KeptAt
<1>b. \A i \in 1..Len(q) : q[i] \in held => i \in at
  BY DEF KeptAt
<1> HIDE DEF c, r, at
<1>a. \A k \in 1..c : nth[k] \in at /\ nth[k] \in 1..Len(q) /\ q[nth[k]] \in held
  BY <1>1, <1>3
<1>4. /\ r \in Seq(held) /\ Len(r) = c
      /\ \A k \in 1..c : r[k] = q[nth[k]]
  BY <1>1, <1>a
<1>5. Positions(r) = held
  <2>1. ASSUME NEW s \in held PROVE \E k \in 1..c : r[k] = s
    <3>1. PICK i \in 1..Len(q) : q[i] = s
      BY <1>2 DEF Positions
    <3>2. PICK k \in 1..c : nth[k] = i
      BY <1>1, <1>b, <3>1
    <3> QED
      BY <1>4, <3>1, <3>2
  <2>2. DOMAIN r = 1..c
    BY <1>1
  <2>3. Positions(r) \subseteq held
    BY <1>4, <1>a, <2>2 DEF Positions
  <2>4. held \subseteq Positions(r)
    BY <2>1, <2>2 DEF Positions
  <2> QED
    BY <2>3, <2>4
<1>6. ASSUME NEW i \in 1..Len(r), NEW j \in 1..Len(r), r[i] = r[j] PROVE i = j
  <2>1. i \in 1..c /\ j \in 1..c /\ nth[i] = nth[j]
    BY <1>2, <1>4, <1>6, <1>a
  <2>2. ~(i < j) /\ ~(j < i)
    BY <1>1, <1>2, <1>a, <2>1 DEF Increasing
  <2> QED
    BY <1>1, <2>1, <2>2
<1>7. ASSUME NEW s \in held, NEW n \in Nat, Recent(q, s, n) PROVE Recent(r, s, n)
  <2>1. PICK i \in 1..Len(q) : q[i] = s /\ i > Len(q) - n
    BY <1>7 DEF Recent
  <2>2. PICK k \in 1..c : nth[k] = i
    BY <1>1, <1>b, <2>1
  <2>3. k \in 1..Len(r) /\ r[k] = s
    BY <1>4, <2>1, <2>2
  (* What follows k was after i.                                            *)
  <2> DEFINE h == [m \in (k + 1)..c |-> nth[m]]
  <2>4. h \in Injection((k + 1)..c, (i + 1)..Len(q))
    <3>1. ASSUME NEW m \in (k + 1)..c
          PROVE  m \in 1..c /\ k < m /\ nth[m] \in (i + 1)..Len(q)
      <4>1. m \in 1..c /\ k < m
        BY <1>1
      <4>2. nth[m] > i /\ nth[m] \in 1..Len(q)
        BY <1>1, <1>a, <2>2, <4>1 DEF Increasing
      <4> QED
        BY <1>2, <4>1, <4>2
    <3>2. ASSUME NEW m1 \in (k + 1)..c, NEW m2 \in (k + 1)..c, nth[m1] = nth[m2]
          PROVE  m1 = m2
      <4>1. m1 \in 1..c /\ m2 \in 1..c /\ nth[m1] \in 1..Len(q) /\ nth[m2] \in 1..Len(q)
        BY <1>a, <3>1
      <4>2. ~(m1 < m2) /\ ~(m2 < m1)
        BY <1>1, <1>2, <3>2, <4>1 DEF Increasing
      <4> QED
        BY <1>1, <4>1, <4>2
    <3> QED
      BY <3>1, <3>2 DEF Injection, IsInjective
  <2>5. /\ IsFiniteSet((i + 1)..Len(q))
        /\ Cardinality((i + 1)..Len(q)) = Len(q) - i
        /\ Cardinality((k + 1)..c) = c - k
    <3>1. /\ IsFiniteSet((i + 1)..Len(q))
          /\ Cardinality((i + 1)..Len(q)) = Len(q) + 1 - (i + 1)
      BY <1>2, FromTo
    <3>2. Cardinality((k + 1)..c) = c + 1 - (k + 1)
      BY <1>1, FromTo
    <3> QED
      BY <1>1, <1>2, <3>1, <3>2
  <2>6. Cardinality((k + 1)..c) <= Cardinality((i + 1)..Len(q))
    <3> HIDE DEF h
    <3> QED
      BY <2>4, <2>5, FS_Injection
  <2>7. c - k <= Len(q) - i
    BY <1>1, <1>2, <2>5, <2>6
  <2>8. k > Len(r) - n
    BY <1>1, <1>2, <1>4, <2>1, <2>7
  <2> QED
    BY <2>3, <2>8 DEF Recent
<1>8. Lists(r, held)
  BY <1>4, <1>5, <1>6 DEF Lists
<1> QED
  BY <1>7, <1>8 DEF r
(* touch makes the slot the most recent, and every other one at most one   *)
(* place less recent.                                                      *)
LEMMA TouchLists ==
    ASSUME NEW q, NEW D, Lists(q, D), NEW s
    PROVE  /\ Lists(Touch(q, s), D \cup {s})
           /\ \A n \in Nat : Recent(Touch(q, s), s, n + 1)
           /\ \A t \in D, n \in Nat : Recent(q, t, n) => Recent(Touch(q, s), t, n + 1)
<1> DEFINE r == Retain(q, D \ {s})
           u == Append(r, s)
<1>1. Touch(q, s) = u
  BY DEF Touch, Lists
<1>2. /\ Lists(r, D \ {s})
      /\ \A t \in D \ {s}, n \in Nat : Recent(q, t, n) => Recent(r, t, n)
  <2>1. D \ {s} \in SUBSET D
    OBVIOUS
  <2> QED
    BY <2>1, RetainLists
<1> HIDE DEF r
<1>3. /\ r \in Seq(D \ {s}) /\ Positions(r) = D \ {s}
      /\ \A i, j \in 1..Len(r) : r[i] = r[j] => i = j
      /\ Len(r) \in Nat /\ DOMAIN r = 1..Len(r)
      /\ \A i \in 1..Len(r) : r[i] \in D \ {s}
  BY <1>2 DEF Lists
<1>4. /\ u \in Seq(D \cup {s}) /\ Len(u) = Len(r) + 1 /\ u[Len(r) + 1] = s
      /\ DOMAIN u = 1..(Len(r) + 1)
      /\ \A i \in 1..Len(r) : u[i] = r[i]
  <2>1. r \in Seq(D \cup {s})
    BY <1>3
  <2> QED
    BY <1>3, <2>1
<1> HIDE DEF u
<1>5. \A i \in 1..(Len(r) + 1) : i = Len(r) + 1 \/ i \in 1..Len(r)
  BY <1>3
<1>6. Positions(u) = D \cup {s}
  <2>1. Positions(u) \subseteq D \cup {s}
    BY <1>3, <1>4, <1>5 DEF Positions
  <2>2. ASSUME NEW t \in D \ {s} PROVE t \in Positions(u)
    <3>1. PICK i \in 1..Len(r) : r[i] = t
      BY <1>3 DEF Positions
    <3>2. i \in DOMAIN u /\ u[i] = t
      BY <1>3, <1>4, <3>1
    <3> QED
      BY <3>2 DEF Positions
  <2>3. s \in Positions(u)
    <3>1. Len(r) + 1 \in DOMAIN u
      BY <1>3, <1>4
    <3> QED
      BY <1>4, <3>1 DEF Positions
  <2> QED
    BY <2>1, <2>2, <2>3
<1>7. ASSUME NEW i \in 1..Len(u), NEW j \in 1..Len(u), u[i] = u[j] PROVE i = j
  BY <1>3, <1>4, <1>5, <1>7
<1>8. ASSUME NEW n \in Nat PROVE Recent(u, s, n + 1)
  <2>1. Len(u) \in 1..Len(u) /\ Len(u) > Len(u) - (n + 1) /\ u[Len(u)] = s
    BY <1>3, <1>4
  <2> QED
    BY <2>1 DEF Recent
<1>9. ASSUME NEW t \in D, NEW n \in Nat, Recent(q, t, n) PROVE Recent(u, t, n + 1)
  <2>1. CASE t = s
    BY <1>8, <2>1
  <2>2. CASE t # s
    <3>1. PICK i \in 1..Len(r) : r[i] = t /\ i > Len(r) - n
      BY <1>2, <1>9, <2>2 DEF Recent
    <3>2. i \in 1..Len(u) /\ u[i] = t /\ i > Len(u) - (n + 1)
      BY <1>3, <1>4, <3>1
    <3> QED
      BY <3>2 DEF Recent
  <2> QED
    BY <2>1, <2>2
<1>10. Lists(u, D \cup {s})
  BY <1>4, <1>6, <1>7 DEF Lists
<1> QED
  BY <1>1, <1>8, <1>9, <1>10

(* Being among the last n is being among the last n + 1.                   *)
LEMMA RecentGrows ==
    ASSUME NEW q, NEW s, NEW n \in Nat, Len(q) \in Nat, Recent(q, s, n)
    PROVE  Recent(q, s, n + 1)
BY DEF Recent

(* What is left of a list when its first n slots are popped.               *)
LEMMA PopLists ==
    ASSUME NEW q, NEW D, Lists(q, D), NEW n \in 0..Len(q)
    PROVE  LET u == SubSeq(q, n + 1, Len(q))
               E == D \ {q[i] : i \in 1..n}
           IN  /\ Lists(u, E) /\ Len(u) = Len(q) - n
               /\ \A t \in D, c \in Nat :
                     (Recent(q, t, c) /\ (n = 0 \/ c <= Len(q) - n))
                        => t \in E /\ Recent(u, t, c)
<1> DEFINE u == SubSeq(q, n + 1, Len(q))
           E == D \ {q[i] : i \in 1..n}
<1>1. /\ q \in Seq(D) /\ Len(q) \in Nat /\ DOMAIN q = 1..Len(q)
      /\ Positions(q) = D
      /\ \A i \in 1..Len(q) : q[i] \in D
      /\ \A i, j \in 1..Len(q) : q[i] = q[j] => i = j
  BY DEF Lists
<1>2. n \in Nat /\ n <= Len(q)
  BY <1>1
<1>3. /\ u \in Seq(D) /\ Len(u) = Len(q) - n
      /\ \A i \in 1..(Len(q) - n) : u[i] = q[i + n]
  <2>1. n + 1 \in Int /\ Len(q) \in Int /\ \A i \in (n + 1)..Len(q) : q[i] \in D
    BY <1>1, <1>2
  <2>2. /\ u \in Seq(D)
        /\ Len(u) = IF n + 1 <= Len(q) THEN Len(q) - (n + 1) + 1 ELSE 0
        /\ \A i \in 1..(Len(q) - (n + 1) + 1) : u[i] = q[(n + 1) + i - 1]
    BY <2>1, SubSeqProperties
  <2>3. Len(q) - (n + 1) + 1 = Len(q) - n /\ Len(u) = Len(q) - n
    <3> HIDE DEF u
    <3>1. Len(u) = IF n + 1 <= Len(q) THEN Len(q) - (n + 1) + 1 ELSE 0
      BY <2>2
    <3>2. Len(q) \in Nat /\ n \in Nat /\ n <= Len(q)
      BY <1>1, <1>2
    <3> QED
      BY <3>1, <3>2
  <2>4. ASSUME NEW i \in 1..(Len(q) - n) PROVE (n + 1) + i - 1 = i + n
    BY <1>1, <1>2
  <2> HIDE DEF u
  <2> QED
    BY <2>2, <2>3, <2>4
<1>4. DOMAIN u = 1..(Len(q) - n)
  BY <1>3
<1> HIDE DEF u
<1>5. \A i \in 1..(Len(q) - n) : i + n \in 1..Len(q) /\ i + n > n
  BY <1>1, <1>2
<1>6. ASSUME NEW i \in 1..(Len(q) - n) PROVE q[i + n] \in E
  <2>1. i + n \in 1..Len(q) /\ i + n > n
    BY <1>5
  <2>2. ASSUME NEW j \in 1..n, q[i + n] = q[j] PROVE FALSE
    <3>1. j \in 1..Len(q) /\ j <= n /\ j \in Int
      BY <1>1, <1>2
    <3>2. i + n = j
      BY <1>1, <2>1, <2>2, <3>1
    <3> QED
      BY <1>2, <2>1, <3>1, <3>2
  <2> QED
    BY <1>1, <2>1, <2>2
<1>7. u \in Seq(E)
  <2>1. \A i \in 1..Len(u) : u[i] \in E
    BY <1>3, <1>6
  <2>2. u = [i \in 1..Len(u) |-> u[i]] /\ Len(u) \in Nat
    BY <1>1, <1>2, <1>3
  <2> HIDE DEF E
  <2> QED
    BY <2>1, <2>2
<1>8. ASSUME NEW k \in 1..Len(q), k > n
      PROVE  k - n \in 1..(Len(q) - n) /\ u[k - n] = q[k]
  <2>1. k - n \in 1..(Len(q) - n) /\ (k - n) + n = k
    BY <1>1, <1>2, <1>8
  <2> QED
    BY <1>3, <2>1
<1>9. Positions(u) = E
  <2>1. Positions(u) \subseteq E
    BY <1>3, <1>4, <1>6 DEF Positions
  <2>2. ASSUME NEW t \in E PROVE t \in Positions(u)
    <3>1. PICK k \in 1..Len(q) : q[k] = t
      BY <1>1 DEF Positions
    <3>2. k > n
      <4>1. k \notin 1..n
        BY <3>1
      <4> QED
        BY <1>1, <1>2, <4>1
    <3>3. k - n \in DOMAIN u /\ u[k - n] = t
      BY <1>4, <1>8, <3>1, <3>2
    <3> QED
      BY <3>3 DEF Positions
  <2> QED
    BY <2>1, <2>2
<1>10. ASSUME NEW i \in 1..Len(u), NEW j \in 1..Len(u), u[i] = u[j] PROVE i = j
  <2>1. /\ i \in 1..(Len(q) - n) /\ j \in 1..(Len(q) - n)
        /\ q[i + n] = q[j + n]
    BY <1>3, <1>10
  <2>2. i + n = j + n
    BY <1>1, <1>5, <2>1
  <2> QED
    BY <1>2, <2>1, <2>2
<1>11. ASSUME NEW t \in D, NEW c \in Nat, Recent(q, t, c), n = 0 \/ c <= Len(q) - n
       PROVE  t \in E /\ Recent(u, t, c)
  <2>1. PICK k \in 1..Len(q) : q[k] = t /\ k > Len(q) - c
    BY <1>11 DEF Recent
  <2>2. k > n
    BY <1>1, <1>2, <1>11, <2>1
  <2>3. k - n \in 1..(Len(q) - n) /\ u[k - n] = t
    BY <1>8, <2>1, <2>2
  <2>4. k - n > Len(u) - c
    BY <1>1, <1>2, <1>3, <2>1
  <2>5. Recent(u, t, c)
    BY <1>3, <2>3, <2>4 DEF Recent
  <2>6. t \in E
    BY <1>4, <1>9, <2>3 DEF Positions
  <2> QED
    BY <2>5, <2>6
<1>12. Lists(u, E)
  BY <1>7, <1>9, <1>10 DEF Lists
<1> QED
  BY <1>3, <1>11, <1>12 DEF u
(* The eviction loop pops no more than it must.                            *)
LEMMA PopsBound ==
    ASSUME NEW st, Lists(st.order, DOMAIN st.slots), NEW cap \in Nat
    PROVE  /\ Pops(st, cap) \in 0..Len(st.order)
           /\ Len(st.order) - Pops(st, cap) <= cap
           /\ Pops(st, cap) = 0 \/ Len(st.order) - Pops(st, cap) = cap
<1> DEFINE q == st.order
           D == DOMAIN st.slots
           Left(n) == D \ {q[i] : i \in 1..n}
           Enough == {n \in 0..Len(q) : Cardinality(Left(n)) <= cap}
           n0 == CHOOSE n \in Enough : \A m \in Enough : n <= m
<1>1. Len(q) \in Nat
  BY DEF Lists
<1>2. ASSUME NEW n \in 0..Len(q) PROVE Cardinality(Left(n)) = Len(q) - n
  <2> DEFINE u == SubSeq(q, n + 1, Len(q))
  <2>1. Lists(u, Left(n)) /\ Len(u) = Len(q) - n
    BY PopLists
  <2> HIDE DEF u, Left
  <2> QED
    BY <2>1, ListsLen
<1>3. Pops(st, cap) = IF Enough = {} THEN Len(q) ELSE n0
  BY DEF Pops
<1>4. Enough = {n \in 0..Len(q) : Len(q) - n <= cap}
  <2> HIDE DEF Left
  <2> QED
    BY <1>2
<1>5. Len(q) \in Enough
  <2> HIDE DEF Enough
  <2> QED
    BY <1>1, <1>4
<1>6. n0 \in Enough /\ \A m \in Enough : n0 <= m
  <2> HIDE DEF Enough
  <2>1. Enough \in SUBSET Nat /\ Enough # {}
    BY <1>1, <1>4, <1>5
  <2> QED
    BY <2>1, LeastNatural
<1> HIDE DEF n0, Enough, q, Left
<1>7. n0 \in 0..Len(q) /\ Len(q) - n0 <= cap
  BY <1>4, <1>6
<1>8. n0 = 0 \/ Len(q) - n0 = cap
  <2> SUFFICES ASSUME n0 # 0, Len(q) - n0 < cap PROVE FALSE
    BY <1>1, <1>7
  <2>1. n0 - 1 \in 0..Len(q) /\ Len(q) - (n0 - 1) <= cap
    BY <1>1, <1>7
  <2>2. n0 - 1 \in Enough
    BY <1>4, <2>1
  <2> QED
    BY <1>1, <1>6, <1>7, <2>2
<1> QED
  BY <1>3, <1>5, <1>7, <1>8 DEF q

(* What the sweep at `at` and the cap leave: a list of the slots that are  *)
(* left, no more than the cap, and all that is live and was used among the *)
(* last cap.                                                               *)
LEMMA EnforceCapLists ==
    ASSUME NEW st, Lists(st.order, DOMAIN st.slots), NEW cap \in Nat, NEW at \in Nat,
           \A s \in DOMAIN st.slots : st.slots[s].expiry \in Nat
    PROVE  LET after == EnforceCap(st, cap, at)
           IN  /\ Lists(after.order, DOMAIN after.slots)
               /\ Cardinality(DOMAIN after.slots) <= cap
               /\ \A s \in DOMAIN st.slots, n \in 0..cap :
                     (st.slots[s].expiry > at /\ Recent(st.order, s, n))
                        => s \in DOMAIN after.slots /\ Recent(after.order, s, n)
<1> DEFINE sw == Sweep(st, at)
           D == DOMAIN st.slots
           n0 == Pops(sw, cap)
           pf == PopFront(sw, n0)
<1>1. /\ Lists(sw.order, DOMAIN sw.slots)
      /\ \A s \in D, n \in 0..cap :
            (st.slots[s].expiry > at /\ Recent(st.order, s, n))
               => s \in DOMAIN sw.slots /\ Recent(sw.order, s, n)
  <2>1. CASE Expired(st.slots, at) = {}
    BY <2>1 DEF Sweep
  <2>2. CASE Expired(st.slots, at) # {}
    <3> DEFINE K == D \ Expired(st.slots, at)
    <3>1. DOMAIN sw.slots = K /\ sw.order = Retain(st.order, K)
      BY <2>2 DEF Sweep, Without
    <3>2. K \in SUBSET D
      OBVIOUS
    <3>3. \A s \in D : st.slots[s].expiry > at => s \in K
      BY DEF Expired
    <3> HIDE DEF K, sw
    <3>4. /\ Lists(Retain(st.order, K), K)
          /\ \A s \in K, n \in Nat :
                Recent(st.order, s, n) => Recent(Retain(st.order, K), s, n)
      BY <3>2, RetainLists
    <3> QED
      BY <3>1, <3>3, <3>4
  <2> QED
    BY <2>1, <2>2
<1>2. CASE Cardinality(D) <= cap
  BY <1>2 DEF EnforceCap
<1>3. CASE ~(Cardinality(D) <= cap)
  <2>1. EnforceCap(st, cap, at) = pf
    BY <1>3 DEF EnforceCap
  <2>2. /\ pf.order = SubSeq(sw.order, n0 + 1, Len(sw.order))
        /\ DOMAIN pf.slots = DOMAIN sw.slots \ {sw.order[i] : i \in 1..n0}
    BY DEF PopFront, Without
  <2> HIDE DEF sw, pf
  <2>3. /\ n0 \in 0..Len(sw.order)
        /\ Len(sw.order) - n0 <= cap
        /\ n0 = 0 \/ Len(sw.order) - n0 = cap
    BY <1>1, PopsBound
  <2>4. Len(sw.order) \in Nat
    BY <1>1 DEF Lists
  <2> HIDE DEF n0
  <2>5. /\ Lists(pf.order, DOMAIN pf.slots) /\ Len(pf.order) = Len(sw.order) - n0
        /\ \A t \in DOMAIN sw.slots, c \in Nat :
              (Recent(sw.order, t, c) /\ (n0 = 0 \/ c <= Len(sw.order) - n0))
                 => t \in DOMAIN pf.slots /\ Recent(pf.order, t, c)
    <3> DEFINE u == SubSeq(sw.order, n0 + 1, Len(sw.order))
               E == DOMAIN sw.slots \ {sw.order[i] : i \in 1..n0}
    <3>1. /\ Lists(u, E) /\ Len(u) = Len(sw.order) - n0
          /\ \A t \in DOMAIN sw.slots, c \in Nat :
                (Recent(sw.order, t, c) /\ (n0 = 0 \/ c <= Len(sw.order) - n0))
                   => t \in E /\ Recent(u, t, c)
      BY <1>1, <2>3, PopLists
    <3>2. pf.order = u /\ DOMAIN pf.slots = E
      BY <2>2
    <3> HIDE DEF u, E
    <3> QED
      BY <3>1, <3>2
  <2>6. Cardinality(DOMAIN pf.slots) <= cap
    BY <2>3, <2>5, ListsLen
  <2>7. ASSUME NEW s \in D, NEW n \in 0..cap, st.slots[s].expiry > at,
               Recent(st.order, s, n)
        PROVE  s \in DOMAIN pf.slots /\ Recent(pf.order, s, n)
    <3>1. s \in DOMAIN sw.slots /\ Recent(sw.order, s, n)
      BY <1>1, <2>7
    <3>2. n \in Nat /\ (n0 = 0 \/ n <= Len(sw.order) - n0)
      BY <2>3, <2>4
    <3> QED
      BY <2>5, <3>1, <3>2
  <2> QED
    BY <2>1, <2>5, <2>6, <2>7
<1> QED
  BY <1>2, <1>3

(* FloorStore::admit: the order still lists the slots, within the cap, and *)
(* what is live and was among the last n used is now among the last n + 1, *)
(* the admitted slot first of all.                                         *)
LEMMA AdmitLists ==
    ASSUME IInv, Lists(store.order, DOMAIN store.slots),
           NEW p, NEW a \in Assertions, NEW at \in Nat, a.expiry > at
    PROVE  LET ad == Admit(store, Cap, p, a, at)
           IN  /\ Lists(ad.store.order, DOMAIN ad.store.slots)
               /\ Cardinality(DOMAIN ad.store.slots) <= Cap
               /\ \A s \in DOMAIN store.slots, n \in Nat :
                     (/\ store.slots[s].expiry > at /\ Recent(store.order, s, n)
                      /\ n + 1 <= Cap)
                        => /\ s \in DOMAIN ad.store.slots
                           /\ ad.store.slots[s].expiry > at
                           /\ Recent(ad.store.order, s, n + 1)
               /\ \A r \in ad.returned, n \in Nat :
                     n + 1 <= Cap
                        => /\ SlotOf(r) \in DOMAIN ad.store.slots
                           /\ ad.store.slots[SlotOf(r)].expiry > at
                           /\ Recent(ad.store.order, SlotOf(r), n + 1)
<1> DEFINE ad == Admit(store, Cap, p, a, at)
           off == Offered(p, a, at)
           t == SlotOf(a)
           order1 == IF t \in DOMAIN off THEN Touch(store.order, t) ELSE store.order
           st1 == [slots |-> off, order |-> order1]
           after == EnforceCap(st1, Cap, at)
           adv == Bound(a, p) /\ Advances(Outcome(store.slots, a, at))
<1>1. ad.store = after
  BY DEF Admit, Offered
<1>2. /\ \A s \in DOMAIN ad.store.slots : ad.store.slots[s] = off[s]
      /\ \A r \in ad.returned :
            r = a /\ Bound(a, p) /\ Outcome(store.slots, a, at) \in {"Applied", "Idempotent"}
  <2>1. Restricts(ad, p, a, at)
    BY AdmitRestricts
  <2> HIDE DEF ad
  <2> QED
    BY <2>1 DEF Restricts
<1>3. st1.slots = off /\ st1.order = order1
  OBVIOUS
<1>4. /\ DOMAIN off = IF adv THEN DOMAIN store.slots \cup {t} ELSE DOMAIN store.slots
      /\ \A s \in DOMAIN off :
            off[s] = IF adv /\ s = t THEN NewSlot(a) ELSE store.slots[s]
  BY DEF Offered, SetSlot
<1>5. t \in Slots /\ NewSlot(a).expiry = a.expiry /\ a.expiry \in Nat
  BY NewSlotFields
<1>6. IsFloor(off)
  BY OfferedFloor DEF IInv, TypeOK
<1>7. \A r \in ad.returned : t \in DOMAIN off /\ off[t].expiry > at
  <2>1. SUFFICES ASSUME Bound(a, p), Outcome(store.slots, a, at) \in {"Applied", "Idempotent"}
                 PROVE  t \in DOMAIN off /\ off[t].expiry > at
    BY <1>2
  <2>2. CASE Outcome(store.slots, a, at) = "Applied"
    BY <1>4, <1>5, <2>1, <2>2 DEF Advances
  <2>3. CASE Outcome(store.slots, a, at) = "Idempotent"
    <3>1. t \in DOMAIN store.slots /\ store.slots[t] = NewSlot(a)
      BY <2>3 DEF Outcome
    <3> QED
      BY <1>4, <1>5, <3>1
  <2> QED
    BY <2>1, <2>2, <2>3
<1>8. ASSUME NEW s \in DOMAIN store.slots, store.slots[s].expiry > at
      PROVE  s \in DOMAIN off /\ off[s].expiry > at
  BY <1>4, <1>5, <1>8
<1> HIDE DEF off, adv, t, ad
<1>9. /\ Lists(order1, DOMAIN off)
      /\ \A s \in DOMAIN store.slots, n \in Nat :
            Recent(store.order, s, n) => Recent(order1, s, n + 1)
      /\ t \in DOMAIN off => \A n \in Nat : Recent(order1, t, n + 1)
  <2>1. CASE t \in DOMAIN off
    <3>1. DOMAIN off = DOMAIN store.slots \cup {t}
      BY <1>4, <2>1
    <3>2. order1 = Touch(store.order, t)
      BY <2>1
    <3>3. /\ Lists(Touch(store.order, t), DOMAIN store.slots \cup {t})
          /\ \A n \in Nat : Recent(Touch(store.order, t), t, n + 1)
          /\ \A s \in DOMAIN store.slots, n \in Nat :
                Recent(store.order, s, n) => Recent(Touch(store.order, t), s, n + 1)
      BY TouchLists
    <3> QED
      BY <3>1, <3>2, <3>3
  <2>2. CASE t \notin DOMAIN off
    <3>1. order1 = store.order /\ DOMAIN off = DOMAIN store.slots
      BY <1>4, <2>2
    <3>2. Len(store.order) \in Nat
      BY DEF Lists
    <3> QED
      BY <2>2, <3>1, <3>2, RecentGrows
  <2> QED
    BY <2>1, <2>2
<1>10. Cap \in Nat
  BY DirectoryBounds
<1>11. \A s \in DOMAIN off : off[s].expiry \in Nat
  BY <1>6 DEF IsFloor, SlotValue
<1> HIDE DEF order1, st1
<1>12. /\ Lists(after.order, DOMAIN after.slots)
       /\ Cardinality(DOMAIN after.slots) <= Cap
       /\ \A s \in DOMAIN off, n \in 0..Cap :
             (off[s].expiry > at /\ Recent(order1, s, n))
                => s \in DOMAIN after.slots /\ Recent(after.order, s, n)
  <2>1. Lists(st1.order, DOMAIN st1.slots) /\ \A s \in DOMAIN st1.slots : st1.slots[s].expiry \in Nat
    BY <1>3, <1>9, <1>11
  <2>2. /\ Lists(after.order, DOMAIN after.slots)
        /\ Cardinality(DOMAIN after.slots) <= Cap
        /\ \A s \in DOMAIN st1.slots, n \in 0..Cap :
              (st1.slots[s].expiry > at /\ Recent(st1.order, s, n))
                 => s \in DOMAIN after.slots /\ Recent(after.order, s, n)
    BY <1>10, <2>1, EnforceCapLists
  <2> HIDE DEF after
  <2> QED
    BY <1>3, <2>2
<1> HIDE DEF after
<1>13. ASSUME NEW s \in DOMAIN off, NEW n \in Nat, n + 1 <= Cap,
              off[s].expiry > at, Recent(order1, s, n + 1)
       PROVE  /\ s \in DOMAIN ad.store.slots
              /\ ad.store.slots[s].expiry > at
              /\ Recent(ad.store.order, s, n + 1)
  <2>1. n + 1 \in 0..Cap
    BY <1>10, <1>13
  <2> QED
    BY <1>1, <1>2, <1>12, <1>13, <2>1
<1>14. ASSUME NEW s \in DOMAIN store.slots, NEW n \in Nat, store.slots[s].expiry > at,
              Recent(store.order, s, n), n + 1 <= Cap
       PROVE  /\ s \in DOMAIN ad.store.slots
              /\ ad.store.slots[s].expiry > at
              /\ Recent(ad.store.order, s, n + 1)
  BY <1>8, <1>9, <1>13, <1>14
<1>15. ASSUME NEW r \in ad.returned, NEW n \in Nat, n + 1 <= Cap
       PROVE  /\ SlotOf(r) \in DOMAIN ad.store.slots
              /\ ad.store.slots[SlotOf(r)].expiry > at
              /\ Recent(ad.store.order, SlotOf(r), n + 1)
  <2>1. SlotOf(r) = t
    BY <1>2 DEF t
  <2> QED
    BY <1>7, <1>9, <1>13, <1>15, <2>1
<1> QED
  BY <1>1, <1>12, <1>14, <1>15 DEF ad
-----------------------------------------------------------------------------
(* The floor, its order and its file are within the cap.                   *)
OrderInv ==
    /\ Lists(store.order, DOMAIN store.slots)
    /\ Cardinality(DOMAIN store.slots) <= Cap
    /\ IsFiniteSet(DOMAIN disk) /\ Cardinality(DOMAIN disk) <= Cap

(* A lookup consults each provider the walk named at most once.            *)
WalkInv ==
    \A l \in Lookups : look[l].pc \in {"fetch", "apply"} =>
        /\ look[l].left \cup look[l].consulted \subseteq look[l].named
        /\ look[l].left \cap look[l].consulted = {}

(* The store's mutex has one holder.                                       *)
LockInv ==
    \A l, m \in Lookups : look[l].pc = "apply" /\ look[m].pc = "apply" => l = m

(* s is held, live at the lookup's clock, and no further from the most     *)
(* recently used end than the lookup has consulted providers.              *)
HeldFor(l, s) ==
    /\ s \in DOMAIN store.slots
    /\ store.slots[s].expiry > look[l].at
    /\ Recent(store.order, s, Cardinality(look[l].consulted))

HeldInv ==
    \A l \in Lookups :
        (look[l].pc = "apply" /\ Cardinality(look[l].named) <= Cap) =>
            \A r \in look[l].records : HeldFor(l, SlotOf(r))

KeptInv == IInv /\ OrderInv /\ WalkInv /\ LockInv /\ HeldInv
LEMMA FiniteParties ==
    ASSUME NEW S \in SUBSET Providers
    PROVE  IsFiniteSet(S) /\ Cardinality(S) \in Nat
BY DirectoryBounds, FS_Subset, FS_CardinalityType

(* The sets of a lookup that has walked the index.                         *)
LEMMA WalkTypes ==
    ASSUME IInv, NEW l \in Lookups, look[l].pc \in {"fetch", "apply"}
    PROVE  look[l] \in [pc: {"fetch", "apply"}, key: Keys, at: Nat,
                        named: SUBSET Providers, left: SUBSET Providers,
                        consulted: SUBSET Providers, failed: SUBSET Providers,
                        records: SUBSET Assertions]
BY DEF IInv, TypeOK, LookupState, Idle

(* The apply loop consulted one provider more, and the store kept what     *)
(* the lookup took.                                                        *)
LEMMA OneMoreConsulted ==
    ASSUME KeptInv, NEW l \in Lookups, NEW p \in Providers,
           look[l].pc = "apply", p \in look[l].left
    PROVE  LET c == Cardinality(look[l].consulted)
           IN  /\ c \in Nat
               /\ Cardinality(look[l].consulted \cup {p}) = c + 1
               /\ Cardinality(look[l].named) <= Cap => c + 1 <= Cap
<1>1. /\ look[l].consulted \in SUBSET Providers /\ look[l].named \in SUBSET Providers
  BY WalkTypes DEF KeptInv
<1>2. /\ p \notin look[l].consulted
      /\ look[l].consulted \cup {p} \in SUBSET look[l].named
  BY DEF KeptInv, WalkInv
<1>3. /\ IsFiniteSet(look[l].consulted) /\ Cardinality(look[l].consulted) \in Nat
      /\ IsFiniteSet(look[l].named) /\ Cardinality(look[l].named) \in Nat
  BY <1>1, FiniteParties
<1>4. Cardinality(look[l].consulted \cup {p}) = Cardinality(look[l].consulted) + 1
  BY <1>2, <1>3, FS_AddElement
<1>5. Cardinality(look[l].consulted \cup {p}) <= Cardinality(look[l].named)
  BY <1>2, <1>3, FS_Subset
<1> QED
  BY <1>3, <1>4, <1>5, DirectoryBounds

(* A step of one lookup that leaves the store alone keeps what the others  *)
(* rely on.                                                                *)
LEMMA LookupMoves ==
    ASSUME KeptInv, NEW l \in Lookups, NEW next,
           look' = [look EXCEPT ![l] = next], UNCHANGED <<store, disk>>, IInv',
           next.pc \in {"fetch", "apply"} =>
               /\ next.left \cup next.consulted \subseteq next.named
               /\ next.left \cap next.consulted = {},
           next.pc = "apply" => \A m \in Lookups \ {l} : look[m].pc # "apply",
           (next.pc = "apply" /\ Cardinality(next.named) <= Cap) =>
               \A r \in next.records :
                  /\ SlotOf(r) \in DOMAIN store.slots
                  /\ store.slots[SlotOf(r)].expiry > next.at
                  /\ Recent(store.order, SlotOf(r), Cardinality(next.consulted))
    PROVE  KeptInv'
<1>1. /\ look'[l] = next
      /\ \A m \in Lookups \ {l} : look'[m] = look[m]
  BY DEF KeptInv, IInv, TypeOK
<1>2. OrderInv'
  BY DEF KeptInv, OrderInv
<1>3. WalkInv'
  BY <1>1 DEF KeptInv, WalkInv
<1>4. LockInv'
  BY <1>1 DEF KeptInv, LockInv
<1>5. HeldInv'
  <2> SUFFICES ASSUME NEW m \in Lookups, look'[m].pc = "apply",
                      Cardinality(look'[m].named) <= Cap, NEW r \in look'[m].records
               PROVE  HeldFor(m, SlotOf(r))'
    BY DEF HeldInv
  <2>1. CASE m = l
    BY <1>1, <2>1 DEF HeldFor
  <2>2. CASE m # l
    BY <1>1, <2>2 DEF KeptInv, HeldInv, HeldFor
  <2> QED
    BY <2>1, <2>2
<1> QED
  BY <1>2, <1>3, <1>4, <1>5 DEF KeptInv

(* The steps of a lookup before it has the mutex, and its end.             *)
LEMMA QuietLookupKept ==
    ASSUME KeptInv, IInv', NEW l \in Lookups,
           \/ NoRouting(l) \/ (\E k \in Keys : StartLookup(l, k)) \/ LookupFails(l)
           \/ LockStore(l) \/ Finish(l)
           \/ \E named \in SUBSET Providers, m \in MaxPeersBudgets, near \in BOOLEAN :
                 IndexEmpty(l, named, m, near)
           \/ \E named \in SUBSET Providers, m \in MaxPeersBudgets :
                 \E kept \in Retained(named, m) : IndexFound(l, named, kept)
    PROVE  KeptInv'
<1>i. Idle.pc = "idle"
  BY DEF Idle
<1>1. CASE look' = [look EXCEPT ![l] = Idle] /\ UNCHANGED <<store, disk>>
  BY <1>1, <1>i, LookupMoves
<1>2. CASE NoRouting(l) \/ LookupFails(l) \/ Finish(l)
  BY <1>1, <1>2 DEF NoRouting, LookupFails, Finish, Reply
<1>3. CASE \E named \in SUBSET Providers, m \in MaxPeersBudgets, near \in BOOLEAN :
              IndexEmpty(l, named, m, near)
  BY <1>1, <1>3 DEF IndexEmpty, Reply
<1>4. ASSUME NEW k \in Keys, StartLookup(l, k) PROVE KeptInv'
  <2> DEFINE next == [pc |-> "index", key |-> k]
  <2>1. look' = [look EXCEPT ![l] = next] /\ UNCHANGED <<store, disk>> /\ next.pc = "index"
    BY <1>4 DEF StartLookup
  <2> HIDE DEF next
  <2> QED
    BY <2>1, LookupMoves, Zenon
<1>5. ASSUME NEW named \in SUBSET Providers, NEW m \in MaxPeersBudgets,
             NEW kept \in Retained(named, m), IndexFound(l, named, kept)
      PROVE  KeptInv'
  <2> DEFINE next == Pending("fetch", look[l].key, now, named, kept, {}, {}, {})
  <2>1. look' = [look EXCEPT ![l] = next] /\ UNCHANGED <<store, disk>>
    BY <1>5 DEF IndexFound
  <2>2. /\ next.pc = "fetch" /\ next.left = kept /\ next.consulted = {} /\ next.named = named
        /\ kept \subseteq named
    BY DEF Pending, Retained
  <2> HIDE DEF next
  <2> QED
    BY <2>1, <2>2, LookupMoves, Zenon
<1>6. CASE LockStore(l)
  <2> DEFINE next == [look[l] EXCEPT !.pc = "apply"]
  <2>0. look[l].pc = "fetch" /\ \A m \in Lookups : look[m].pc # "apply"
    BY <1>6 DEF LockStore
  <2>1. look' = [look EXCEPT ![l] = next] /\ UNCHANGED <<store, disk>>
    BY <1>6 DEF LockStore, KeptInv, IInv, TypeOK
  <2>2. /\ next.pc = "apply" /\ next.left = look[l].left
        /\ next.consulted = look[l].consulted /\ next.named = look[l].named
        /\ next.records = {}
    BY <2>0, WalkTypes DEF KeptInv, IInv, FetchInv
  <2>3. /\ next.left \cup next.consulted \subseteq next.named
        /\ next.left \cap next.consulted = {}
    BY <2>0, <2>2 DEF KeptInv, WalkInv
  <2> HIDE DEF next
  <2> QED
    BY <2>0, <2>1, <2>2, <2>3, LookupMoves, Zenon
<1> QED
  BY <1>2, <1>3, <1>4, <1>5, <1>6
(* A provider whose value did not come, or was of no use.                  *)
LEMMA NothingFetchedKept ==
    ASSUME KeptInv, IInv', NEW l \in Lookups, NEW p \in Providers,
           FetchFailed(l, p) \/ FetchedNothing(l, p)
    PROVE  KeptInv'
<1>0. look[l].pc = "apply" /\ p \in look[l].left /\ UNCHANGED <<store, disk>>
  BY DEF FetchFailed, FetchedNothing
<1>1. look[l] \in [pc: {"fetch", "apply"}, key: Keys, at: Nat,
                    named: SUBSET Providers, left: SUBSET Providers,
                    consulted: SUBSET Providers, failed: SUBSET Providers,
                    records: SUBSET Assertions]
  BY <1>0, WalkTypes DEF KeptInv
<1>2. /\ look[l].left \cup look[l].consulted \subseteq look[l].named
      /\ look[l].left \cap look[l].consulted = {}
  BY <1>0 DEF KeptInv, WalkInv
<1>3. \A m \in Lookups \ {l} : look[m].pc # "apply"
  BY <1>0 DEF KeptInv, LockInv
<1>4. Cardinality(look[l].named) <= Cap =>
         \A r \in look[l].records : HeldFor(l, SlotOf(r))
  BY <1>0 DEF KeptInv, HeldInv
<1>5. CASE FetchFailed(l, p)
  <2> DEFINE next == [look[l] EXCEPT !.left = @ \ {p}, !.failed = @ \cup {p}]
  <2>1. look' = [look EXCEPT ![l] = next]
    BY <1>5 DEF FetchFailed, KeptInv, IInv, TypeOK
  <2>2. /\ next.pc = "apply" /\ next.left = look[l].left \ {p} /\ next.at = look[l].at
        /\ next.consulted = look[l].consulted /\ next.named = look[l].named
        /\ next.records = look[l].records
    BY <1>0, <1>1
  <2> HIDE DEF next
  <2> QED
    BY <1>0, <1>2, <1>3, <1>4, <2>1, <2>2, LookupMoves DEF HeldFor
<1>6. CASE FetchedNothing(l, p)
  <2> DEFINE next == [look[l] EXCEPT !.left = @ \ {p}, !.consulted = @ \cup {p}]
             c == Cardinality(look[l].consulted)
  <2>1. look' = [look EXCEPT ![l] = next]
    BY <1>6 DEF FetchedNothing, KeptInv, IInv, TypeOK
  <2>2. /\ next.pc = "apply" /\ next.left = look[l].left \ {p} /\ next.at = look[l].at
        /\ next.consulted = look[l].consulted \cup {p} /\ next.named = look[l].named
        /\ next.records = look[l].records
    BY <1>0, <1>1
  <2>3. c \in Nat /\ Cardinality(look[l].consulted \cup {p}) = c + 1
    BY <1>0, OneMoreConsulted
  <2>4. /\ next.left \cup next.consulted \subseteq next.named
        /\ next.left \cap next.consulted = {}
    <3> HIDE DEF next
    <3> QED
      BY <1>0, <1>2, <2>2
  <2>5. Len(store.order) \in Nat
    BY DEF KeptInv, OrderInv, Lists
  <2> HIDE DEF next, c
  <2>6. ASSUME Cardinality(next.named) <= Cap, NEW r \in next.records
        PROVE  /\ SlotOf(r) \in DOMAIN store.slots
               /\ store.slots[SlotOf(r)].expiry > next.at
               /\ Recent(store.order, SlotOf(r), Cardinality(next.consulted))
    <3>1. HeldFor(l, SlotOf(r))
      BY <1>4, <2>2, <2>6
    <3>2. Recent(store.order, SlotOf(r), c)
      BY <3>1 DEF HeldFor, c
    <3>3. Recent(store.order, SlotOf(r), c + 1)
      BY <2>3, <2>5, <3>2, RecentGrows
    <3> QED
      BY <2>2, <2>3, <3>1, <3>3, Zenon DEF HeldFor
  <2> QED
    BY <1>0, <1>3, <2>1, <2>2, <2>4, <2>6, LookupMoves, Zenon
<1> QED
  BY <1>5, <1>6

(* FloorStore::admit within the loop: what the lookup took is still held.  *)
LEMMA AdmitOneKept ==
    ASSUME KeptInv, IInv', NEW l \in Lookups, NEW p \in Providers, NEW a \in Assertions,
           NEW saved \in BOOLEAN, AdmitOne(l, p, a, saved)
    PROVE  KeptInv'
<1> DEFINE at == look[l].at
           ad == Admit(store, Cap, p, a, at)
           c == Cardinality(look[l].consulted)
<1>0. /\ look[l].pc = "apply" /\ p \in look[l].left /\ a.expiry > at
      /\ store' = ad.store
      /\ Save(ad.persist, ad.store.slots, saved)
      /\ look' = [look EXCEPT ![l].left = @ \ {p}, ![l].consulted = @ \cup {p},
                              ![l].records = @ \cup ad.returned]
  BY DEF AdmitOne
<1>1. look[l] \in [pc: {"fetch", "apply"}, key: Keys, at: Nat,
                    named: SUBSET Providers, left: SUBSET Providers,
                    consulted: SUBSET Providers, failed: SUBSET Providers,
                    records: SUBSET Assertions]
  BY <1>0, WalkTypes DEF KeptInv
<1>2. /\ look[l].left \cup look[l].consulted \subseteq look[l].named
      /\ look[l].left \cap look[l].consulted = {}
  BY <1>0 DEF KeptInv, WalkInv
<1>3. \A m \in Lookups \ {l} : look[m].pc # "apply"
  BY <1>0 DEF KeptInv, LockInv
<1>4. /\ Lists(ad.store.order, DOMAIN ad.store.slots)
      /\ Cardinality(DOMAIN ad.store.slots) <= Cap
      /\ \A s \in DOMAIN store.slots, n \in Nat :
            (/\ store.slots[s].expiry > at /\ Recent(store.order, s, n)
             /\ n + 1 <= Cap)
               => /\ s \in DOMAIN ad.store.slots
                  /\ ad.store.slots[s].expiry > at
                  /\ Recent(ad.store.order, s, n + 1)
      /\ \A r \in ad.returned, n \in Nat :
            n + 1 <= Cap
               => /\ SlotOf(r) \in DOMAIN ad.store.slots
                  /\ ad.store.slots[SlotOf(r)].expiry > at
                  /\ Recent(ad.store.order, SlotOf(r), n + 1)
  <2>1. at \in Nat
    BY <1>1
  <2>2. IInv /\ Lists(store.order, DOMAIN store.slots)
    BY DEF KeptInv, OrderInv
  <2> HIDE DEF at
  <2> QED
    BY <1>0, <2>1, <2>2, AdmitLists
<1>5. /\ c \in Nat /\ Cardinality(look[l].consulted \cup {p}) = c + 1
      /\ Cardinality(look[l].named) <= Cap => c + 1 <= Cap
  BY <1>0, OneMoreConsulted
<1> HIDE DEF ad, c
<1>6. /\ look'[l].pc = "apply" /\ look'[l].left = look[l].left \ {p}
      /\ look'[l].consulted = look[l].consulted \cup {p}
      /\ look'[l].named = look[l].named /\ look'[l].at = look[l].at
      /\ look'[l].records = look[l].records \cup ad.returned
      /\ \A m \in Lookups \ {l} : look'[m] = look[m]
  BY <1>0, <1>1 DEF KeptInv, IInv, TypeOK
<1>7. OrderInv'
  <2>1. IsFiniteSet(DOMAIN disk') /\ Cardinality(DOMAIN disk') <= Cap
    <3>1. IsFiniteSet(DOMAIN ad.store.slots)
      BY <1>4, ListsLen
    <3>2. disk' = disk \/ disk' = ad.store.slots
      BY <1>0 DEF Save
    <3> QED
      BY <1>4, <3>1, <3>2 DEF KeptInv, OrderInv
  <2> QED
    BY <1>0, <1>4, <2>1 DEF OrderInv, Lists
<1>8. WalkInv'
  <2>1. /\ look'[l].left \cup look'[l].consulted \subseteq look'[l].named
        /\ look'[l].left \cap look'[l].consulted = {}
    BY <1>0, <1>2, <1>6
  <2> SUFFICES ASSUME NEW m \in Lookups, look'[m].pc \in {"fetch", "apply"}
               PROVE  /\ look'[m].left \cup look'[m].consulted \subseteq look'[m].named
                      /\ look'[m].left \cap look'[m].consulted = {}
    BY DEF WalkInv
  <2>2. CASE m # l
    BY <1>6, <2>2 DEF KeptInv, WalkInv
  <2> QED
    BY <2>1, <2>2
<1>9. LockInv'
  BY <1>3, <1>6 DEF LockInv
<1>10. HeldInv'
  <2> SUFFICES ASSUME NEW m \in Lookups, look'[m].pc = "apply",
                      Cardinality(look'[m].named) <= Cap, NEW r \in look'[m].records
               PROVE  HeldFor(m, SlotOf(r))'
    BY DEF HeldInv
  <2>1. m = l
    BY <1>3, <1>6
  <2>2. c + 1 <= Cap /\ Cardinality(look'[l].consulted) = c + 1
    BY <1>5, <1>6, <2>1
  <2>3. /\ SlotOf(r) \in DOMAIN ad.store.slots
        /\ ad.store.slots[SlotOf(r)].expiry > at
        /\ Recent(ad.store.order, SlotOf(r), c + 1)
    <3>1. CASE r \in look[l].records
      <4>1. HeldFor(l, SlotOf(r))
        BY <1>0, <1>6, <2>1, <3>1 DEF KeptInv, HeldInv
      <4>2. /\ SlotOf(r) \in DOMAIN store.slots /\ store.slots[SlotOf(r)].expiry > at
            /\ Recent(store.order, SlotOf(r), c)
        BY <4>1 DEF HeldFor, c
      <4> QED
        BY <1>4, <1>5, <2>2, <4>2
    <3>2. CASE r \in ad.returned
      BY <1>4, <1>5, <2>2, <3>2
    <3> QED
      BY <1>6, <2>1, <3>1, <3>2, Zenon
  <2> QED
    BY <1>0, <1>6, <2>1, <2>2, <2>3 DEF HeldFor
<1> QED
  BY <1>7, <1>8, <1>9, <1>10 DEF KeptInv

(* FloorStore::durable lists what the file holds.                          *)
LEMMA RestartKept ==
    ASSUME KeptInv, IInv', NEW loaded, NEW order, Restart(loaded, order)
    PROVE  KeptInv'
<1> DEFINE D == DOMAIN loaded
           n == Cardinality(D)
<1>1. /\ loaded \in {disk, EmptyStore.slots}
      /\ order \in [1..n -> D] /\ Positions(order) = D
      /\ store'.slots = loaded /\ store'.order = order /\ disk' = disk
      /\ look' = [l \in Lookups |-> Idle]
  BY DEF Restart, Orders
<1>2. IsFiniteSet(D) /\ n <= Cap /\ n \in Nat
  <2>1. IsFiniteSet(D) /\ n <= Cap
    <3>1. CASE loaded = disk
      BY <3>1 DEF KeptInv, OrderInv
    <3>2. CASE loaded = EmptyStore.slots
      <4>1. D = {}
        BY <3>2 DEF EmptyStore
      <4> QED
        BY <4>1, FS_EmptySet, DirectoryBounds
    <3> QED
      BY <1>1, <3>1, <3>2
  <2> QED
    BY <2>1, FS_CardinalityType
<1> HIDE DEF n
<1>3. order \in Seq(D) /\ Len(order) = n
  BY <1>1, <1>2
<1>4. order \in Surjection(1..n, D)
  BY <1>1 DEF Surjection, Positions
<1>5. IsFiniteSet(1..n) /\ Cardinality(1..n) = n
  BY <1>2, FromTo
<1>6. order \in Injection(1..n, D)
  BY <1>4, <1>5, FS_SurjSameCardinalityImpliesInj DEF n
<1>7. \A i, j \in 1..n : order[i] = order[j] => i = j
  BY <1>6 DEF Injection, IsInjective
<1>8. Lists(order, D)
  BY <1>1, <1>3, <1>7 DEF Lists
<1>9. OrderInv'
  BY <1>1, <1>2, <1>8 DEF KeptInv, OrderInv, Lists, n
<1>10. \A l \in Lookups : look'[l].pc = "idle"
  BY <1>1 DEF Idle
<1> QED
  BY <1>9, <1>10, Zenon DEF KeptInv, WalkInv, LockInv, HeldInv

(* Every step keeps the floor and its order whole.                         *)
LEMMA NextKept == ASSUME KeptInv, [Next]_vars PROVE KeptInv'
<1>0. IInv'
  BY NextIInv DEF KeptInv
<1>1. ASSUME NEW l \in Lookups, LookupStep(l) PROVE KeptInv'
  BY <1>0, <1>1, QuietLookupKept, NothingFetchedKept, AdmitOneKept DEF LookupStep
<1>2. ASSUME NEW loaded, NEW order, Restart(loaded, order) PROVE KeptInv'
  BY <1>0, <1>2, RestartKept
<1>3. CASE Tick \/ UNCHANGED vars
  <2>1. UNCHANGED <<store, disk, look>>
    BY <1>3 DEF Tick, vars
  <2> QED
    BY <1>0, <2>1 DEF KeptInv, OrderInv, WalkInv, LockInv, HeldInv, HeldFor
<1> QED
  BY <1>1, <1>2, <1>3 DEF Next

(* What is answered is held.                                               *)
LEMMA AnswerHeld == ASSUME KeptInv, Next PROVE AnsweredIsHeld
<1> SUFFICES ASSUME NEW l \in Lookups, look[l].pc = "apply", look'[l].pc = "idle",
                    answer'.outcome = "Found", Cardinality(look[l].named) <= Cap
             PROVE  \A r \in answer'.records : SlotOf(r) \in DOMAIN store.slots
  BY DEF AnsweredIsHeld
<1>n. NoAnswer.outcome # "Found"
  BY DEF NoAnswer
<1>1. Finish(l)
  <2>1. ASSUME NEW m \in Lookups, LookupStep(m) PROVE Finish(l)
    <3>1. CASE \/ \E k \in Keys : StartLookup(m, k)
               \/ LockStore(m)
               \/ \E p \in Providers : FetchFailed(m, p) \/ FetchedNothing(m, p)
               \/ \E p \in Providers, a \in Assertions, saved \in BOOLEAN :
                     AdmitOne(m, p, a, saved)
               \/ \E named \in SUBSET Providers, b \in MaxPeersBudgets :
                     \E kept \in Retained(named, b) : IndexFound(m, named, kept)
      <4>1. answer' = NoAnswer
        BY <3>1 DEF StartLookup, LockStore, FetchFailed, FetchedNothing, AdmitOne, IndexFound
      <4> QED
        BY <1>n, <4>1
    <3>2. CASE NoRouting(m) \/ LookupFails(m)
      <4>1. answer'.outcome # "Found"
        BY <3>2 DEF NoRouting, LookupFails, Reply
      <4> QED
        BY <4>1
    <3>3. CASE \E named \in SUBSET Providers, b \in MaxPeersBudgets, near \in BOOLEAN :
                  IndexEmpty(m, named, b, near)
      <4>1. answer'.outcome # "Found"
        BY <3>3 DEF IndexEmpty, EmptyIndex, Reply
      <4> QED
        BY <4>1
    <3>4. CASE Finish(m)
      <4>1. look' = [look EXCEPT ![m] = Idle]
        BY <3>4 DEF Finish, Reply
      <4>2. m = l
        BY <4>1 DEF KeptInv, IInv, TypeOK
      <4> QED
        BY <3>4, <4>2
    <3> QED
      BY <2>1, <3>1, <3>2, <3>3, <3>4, Zenon DEF LookupStep
  <2>2. ASSUME NEW loaded, NEW order, Restart(loaded, order) PROVE Finish(l)
    BY <1>n, <2>2 DEF Restart
  <2>3. CASE Tick
    BY <1>n, <2>3 DEF Tick
  <2> QED
    BY <2>1, <2>2, <2>3 DEF Next
<1>2. answer'.records = look[l].records
  BY <1>1 DEF Finish, Reply
<1> QED
  BY <1>2, Zenon DEF KeptInv, HeldInv, HeldFor

(* A fresh floor lists nothing.                                            *)
LEMMA InitKept == Init => KeptInv
<1> SUFFICES ASSUME Init PROVE KeptInv
  OBVIOUS
<1>1. IInv
  BY InitIInv
<1>2. DOMAIN store.slots = {} /\ DOMAIN disk = {} /\ store.order = <<>>
  BY DEF Init, EmptyStore
<1>3. OrderInv
  BY <1>2, FS_EmptySet, DirectoryBounds DEF OrderInv, Lists, Positions
<1>4. \A l \in Lookups : look[l].pc = "idle"
  BY DEF Init, Idle
<1> QED
  BY <1>1, <1>3, <1>4 DEF KeptInv, WalkInv, LockInv, HeldInv

(* The capped, persisted floor stays whole for every cap, every set of     *)
(* providers and every interleaving of lookups: the order lists the slots  *)
(* once each and within the cap, no change goes unsaved, and a lookup that *)
(* names no more providers than the cap still holds, when it answers, all  *)
(* that it admitted (floor_store.rs, touch, enforce_cap and admit;         *)
(* directory.rs, resolve).                                                 *)
THEOREM FloorStaysWhole == Spec => FloorIsKept
<1> DEFINE Whole == OrderMatchesSlots' /\ DiskInSync' /\ AnsweredIsHeld
<1>1. KeptInv => OrderMatchesSlots
  BY ListsLen DEF KeptInv, OrderInv, OrderMatchesSlots, Lists
<1>2. KeptInv /\ KeptInv' /\ DiskInSync' /\ [Next]_vars => [Whole]_vars
  <2> SUFFICES ASSUME KeptInv, KeptInv', DiskInSync', Next PROVE Whole
    OBVIOUS
  <2>1. OrderMatchesSlots'
    BY ListsLen DEF KeptInv, OrderInv, OrderMatchesSlots, Lists
  <2> QED
    BY <2>1, AnswerHeld
<1>3. Spec => []KeptInv
  BY InitKept, NextKept, PTL DEF Spec
<1>4. Spec => [][Whole]_vars
  BY <1>2, <1>3, FloorFileInSync, PTL DEF Spec
<1> QED
  BY <1>4 DEF FloorIsKept
=============================================================================
