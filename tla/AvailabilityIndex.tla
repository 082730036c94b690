-------------------------- MODULE AvailabilityIndex --------------------------
(***************************************************************************)
(* The provider's index of what it can serve: AvailabilityIndex            *)
(* (daemon-core/src/availability.rs) with the SupplyCatalog                *)
(* (daemon-core/src/supply_catalog.rs) that the serve path probes, and its *)
(* index file.                                                             *)
(*                                                                         *)
(* Threads register, probe, prune and unregister holdings concurrently.    *)
(* The entries mutex is held for short sections, each one step here; it is *)
(* released across stats and dumps, so an entry may be replaced, dropped   *)
(* or verified by another thread between two steps of a probe.  A digest   *)
(* is computed under the entry's own lock.  The local nix imports and      *)
(* collects store paths at any time, but never rewrites one.               *)
(*                                                                         *)
(* An Arc<Entry> is its position in `arc`; entries, catalog and the arcs a *)
(* thread holds are sets of such positions, which is what pointer identity *)
(* compares.  Key and BLAKE3 digest of the same NAR are not distinguished. *)
(***************************************************************************)
EXTENDS Integers, Sequences, FiniteSets

CONSTANTS
    Keys,         \* NarHashes
    Paths,        \* store paths
    NarHashOf,    \* the NarHash of what a path dumps to
    Threads,
    MaxArcs,      \* bound: entries allocated between two restarts
    MaxRestarts   \* bound: how often the process restarts

ASSUME IndexAssumption ==
    /\ DOMAIN NarHashOf = Paths
    /\ MaxArcs \in Nat
    /\ MaxRestarts \in Nat

VARIABLES
    store,      \* the paths that exist
    arc,        \* every Entry allocated by this process
    entries,    \* AvailabilityIndex.entries
    catalog,    \* the entries whose record the SupplyCatalog holds
    disk,       \* the index file
    th,         \* the state of each thread
    answer,     \* what the step just taken answered
    restarts,
    unsaved,    \* history: the last save failed
    gone        \* history: the entries whose path was missing at some time

vars == <<store, arc, entries, catalog, disk, th, answer, restarts, unsaved, gone>>

Idle == [pc |-> "idle"]

NoAnswer == [have |-> FALSE]

(* The entry the map holds for a key, as a set of at most one.             *)
Current(k) == {i \in entries : arc[i].key = k}

NewEntry(k, p, verified) ==
    [key |-> k, path |-> p, digest |-> IF verified THEN "verified" ELSE "none"]

(* persist_locked: only a verified derivation is stored beside its path.   *)
View(es, a) ==
    {[key |-> a[i].key, path |-> a[i].path, derived |-> a[i].digest = "verified"] :
        i \in es}

(* A save succeeds, or fails before or after its rename.                   *)
Save(es, a, saved) ==
    /\ disk' \in IF saved THEN {View(es, a)} ELSE {disk, View(es, a)}
    /\ unsaved' = ~saved

Become(t, state) == th' = [th EXCEPT ![t] = state] /\ answer' = NoAnswer

Goto(t, place) == th' = [th EXCEPT ![t].pc = place] /\ answer' = NoAnswer

Return(t) == Become(t, Idle)

Init ==
    /\ store \in SUBSET Paths
    /\ arc = <<>>
    /\ entries = {}
    /\ catalog = {}
    /\ disk = {}
    /\ th = [t \in Threads |-> Idle]
    /\ answer = NoAnswer
    /\ restarts = 0
    /\ unsaved = FALSE
    /\ gone = {}

-----------------------------------------------------------------------------
(* register, verify_and_register *)

BindRetiringFirst(k, p, verified, saved) ==
    LET i == Len(arc) + 1
        a == Append(arc, NewEntry(k, p, verified))
        es == (entries \ Current(k)) \cup {i}
    IN  /\ i <= MaxArcs
        /\ Save(es, a, saved)
        /\ catalog' = catalog \ Current(k)
        /\ IF saved
           THEN /\ arc' = a
                /\ entries' = es
                /\ gone' = gone \cup {j \in {i} : p \notin store}
           ELSE UNCHANGED <<arc, entries, gone>>

(* The rejected entry is forgotten and the previous one stays, with its    *)
(* supply; only a committed replacement retires the old supply.            *)
Bind(k, p, verified, saved) ==
    LET i == Len(arc) + 1
        a == Append(arc, NewEntry(k, p, verified))
        es == (entries \ Current(k)) \cup {i}
    IN  /\ i <= MaxArcs
        /\ Save(es, a, saved)
        /\ IF saved
           THEN /\ arc' = a
                /\ entries' = es
                /\ catalog' = catalog \ Current(k)
                /\ gone' = gone \cup {j \in {i} : p \notin store}
           ELSE UNCHANGED <<arc, entries, catalog, gone>>

(* Registering the path the key already has changes nothing.               *)
Register(k, p, saved) ==
    /\ \A i \in Current(k) : arc[i].path # p
    /\ Bind(k, p, FALSE, saved)
    /\ answer' = NoAnswer
    /\ UNCHANGED <<store, th, restarts>>

(* The candidate is dumped and hashed before the map is locked; one that   *)
(* fails the check is refused here.                                        *)
VerifyCandidate(t, k, p) ==
    /\ th[t].pc = "idle"
    /\ p \in store
    /\ NarHashOf[p] = k
    /\ Become(t, [pc |-> "candidate", key |-> k, path |-> p])
    /\ UNCHANGED <<store, arc, entries, catalog, disk, restarts, unsaved, gone>>

RegisterVerified(t, saved) ==
    /\ th[t].pc = "candidate"
    /\ Bind(th[t].key, th[t].path, TRUE, saved)
    /\ Return(t)
    /\ UNCHANGED <<store, restarts>>

(* unregister: removal retires the supply even when the save fails.        *)
Unregister(k, saved) ==
    /\ Current(k) # {}
    /\ entries' = entries \ Current(k)
    /\ catalog' = catalog \ Current(k)
    /\ Save(entries', arc, saved)
    /\ answer' = NoAnswer
    /\ UNCHANGED <<store, arc, th, restarts, gone>>

-----------------------------------------------------------------------------
(* hold (a local self-probe), answer_for_peer (a remote one) and           *)
(* prune_if_gone share their first steps.                                  *)

Start(t, k, op) ==
    /\ th[t].pc = "idle"
    /\ Become(t, [pc |-> "look", op |-> op, key |-> k, arc |-> 0, fresh |-> FALSE])
    /\ UNCHANGED <<store, arc, entries, catalog, disk, restarts, unsaved, gone>>

Look(t) ==
    /\ th[t].pc = "look"
    /\ \/ /\ Current(th[t].key) = {}
          /\ Return(t)
       \/ \E i \in Current(th[t].key) :
             Become(t, [th[t] EXCEPT !.pc = "stat", !.arc = i])
    /\ UNCHANGED <<store, arc, entries, catalog, disk, restarts, unsaved, gone>>

StatGone(t) ==
    /\ th[t].pc = "stat"
    /\ arc[th[t].arc].path \notin store
    /\ Goto(t, "drop")
    /\ UNCHANGED <<store, arc, entries, catalog, disk, restarts, unsaved, gone>>

StatThere(t) ==
    /\ th[t].pc = "stat"
    /\ arc[th[t].arc].path \in store
    /\ IF th[t].op = "prune" THEN Return(t) ELSE Goto(t, "derive")
    /\ UNCHANGED <<store, arc, entries, catalog, disk, restarts, unsaved, gone>>

(* drop_if_same: by pointer identity.                                      *)
Dropped(t) == entries \cap {th[t].arc}

(* A probe looks again after the drop, unless saving it failed.            *)
Drop(t, saved) ==
    /\ th[t].pc = "drop"
    /\ entries' = entries \ Dropped(t)
    /\ catalog' = catalog \ Dropped(t)
    /\ IF Dropped(t) = {} THEN saved /\ UNCHANGED <<disk, unsaved>>
                          ELSE Save(entries', arc, saved)
    /\ IF th[t].op = "prune" \/ ~saved THEN Return(t) ELSE Goto(t, "look")
    /\ UNCHANGED <<store, arc, restarts, gone>>

-----------------------------------------------------------------------------
(* derive, under the entry's digest lock *)

Locked(i) == \E u \in Threads : th[u].pc = "dump" /\ th[u].arc = i

(* A verdict is there already.                                             *)
DeriveCached(t) ==
    /\ th[t].pc = "derive"
    /\ ~Locked(th[t].arc)
    /\ arc[th[t].arc].digest # "none"
    /\ Goto(t, IF arc[th[t].arc].digest = "verified" THEN "publish" ELSE "failed")
    /\ UNCHANGED <<store, arc, entries, catalog, disk, restarts, unsaved, gone>>

(* A peer's probe past its derive budget answers Absent without a dump.    *)
DeriveDeferred(t) ==
    /\ th[t].pc = "derive"
    /\ th[t].op = "peer"
    /\ ~Locked(th[t].arc)
    /\ arc[th[t].arc].digest = "none"
    /\ Return(t)
    /\ UNCHANGED <<store, arc, entries, catalog, disk, restarts, unsaved, gone>>

DumpStart(t) ==
    /\ th[t].pc = "derive"
    /\ ~Locked(th[t].arc)
    /\ arc[th[t].arc].digest = "none"
    /\ Goto(t, "dump")
    /\ UNCHANGED <<store, arc, entries, catalog, disk, restarts, unsaved, gone>>

(* The dump's own hash decides, not the caller's word.                     *)
Verdict(e) == IF NarHashOf[e.path] = e.key THEN "verified" ELSE "quarantined"

DumpOk(t) ==
    /\ th[t].pc = "dump"
    /\ arc[th[t].arc].path \in store
    /\ LET v == Verdict(arc[th[t].arc])
       IN  /\ arc' = [arc EXCEPT ![th[t].arc].digest = v]
           /\ Become(t, [th[t] EXCEPT
                            !.pc = IF v = "verified" THEN "publish" ELSE "failed",
                            !.fresh = v = "verified"])
    /\ UNCHANGED <<store, entries, catalog, disk, restarts, unsaved, gone>>

DumpFailed(t) ==
    /\ th[t].pc = "dump"
    /\ Goto(t, "failed")
    /\ UNCHANGED <<store, arc, entries, catalog, disk, restarts, unsaved, gone>>

(* An error about a replaced entry is retried on its successor.            *)
Failed(t) ==
    /\ th[t].pc = "failed"
    /\ IF th[t].arc \in entries THEN Return(t) ELSE Goto(t, "look")
    /\ UNCHANGED <<store, arc, entries, catalog, disk, restarts, unsaved, gone>>

PublishUnchecked(t, saved) ==
    /\ th[t].pc = "publish"
    /\ catalog' = catalog \cup {th[t].arc}
    /\ IF th[t].fresh THEN Save(entries, arc, saved)
                      ELSE saved /\ UNCHANGED <<disk, unsaved>>
    /\ th' = [th EXCEPT ![t] = Idle]
    /\ answer' = [have |-> TRUE, key |-> th[t].key]
    /\ UNCHANGED <<store, arc, entries, restarts, gone>>

(* The map is locked again: only the current entry's record is published,  *)
(* and a fresh derivation is saved.                                        *)
Publish(t, saved) ==
    /\ th[t].pc = "publish"
    /\ IF th[t].arc \in entries
       THEN /\ catalog' = catalog \cup {th[t].arc}
            /\ IF th[t].fresh THEN Save(entries, arc, saved)
                              ELSE saved /\ UNCHANGED <<disk, unsaved>>
            /\ th' = [th EXCEPT ![t] = Idle]
            /\ answer' = [have |-> TRUE, key |-> th[t].key]
       ELSE /\ saved
            /\ Goto(t, "look")
            /\ UNCHANGED <<catalog, disk, unsaved>>
    /\ UNCHANGED <<store, arc, entries, restarts, gone>>

-----------------------------------------------------------------------------
(* open: the file's registrations, with the derived ones warm.             *)
Restart(order) ==
    /\ restarts < MaxRestarts
    /\ restarts' = restarts + 1
    /\ arc' = [i \in DOMAIN order |->
                  NewEntry(order[i].key, order[i].path, order[i].derived)]
    /\ entries' = DOMAIN order
    /\ catalog' = {i \in DOMAIN order : order[i].derived}
    /\ th' = [t \in Threads |-> Idle]
    /\ answer' = NoAnswer
    /\ unsaved' = FALSE
    /\ gone' = {i \in DOMAIN order : order[i].path \notin store}
    /\ UNCHANGED <<store, disk>>

Orders(regs) ==
    {order \in [1..Cardinality(regs) -> regs] :
        \A r \in regs : \E i \in DOMAIN order : order[i] = r}

(* The local nix.                                                          *)
Import(p) ==
    /\ p \notin store
    /\ store' = store \cup {p}
    /\ answer' = NoAnswer
    /\ UNCHANGED <<arc, entries, catalog, disk, th, restarts, unsaved, gone>>

Collect(p) ==
    /\ p \in store
    /\ store' = store \ {p}
    /\ gone' = gone \cup {i \in DOMAIN arc : arc[i].path = p}
    /\ answer' = NoAnswer
    /\ UNCHANGED <<arc, entries, catalog, disk, th, restarts, unsaved>>

ThreadStep(t) ==
    \/ \E k \in Keys, p \in Paths : VerifyCandidate(t, k, p)
    \/ \E k \in Keys, op \in {"hold", "peer", "prune"} : Start(t, k, op)
    \/ \E saved \in BOOLEAN :
          RegisterVerified(t, saved) \/ Drop(t, saved) \/ Publish(t, saved)
    \/ Look(t)
    \/ StatGone(t)
    \/ StatThere(t)
    \/ DeriveCached(t)
    \/ DeriveDeferred(t)
    \/ DumpStart(t)
    \/ DumpOk(t)
    \/ DumpFailed(t)
    \/ Failed(t)

Next ==
    \/ \E t \in Threads : ThreadStep(t)
    \/ \E k \in Keys, p \in Paths, saved \in BOOLEAN : Register(k, p, saved)
    \/ \E k \in Keys, saved \in BOOLEAN : Unregister(k, saved)
    \/ \E order \in Orders(disk) : Restart(order)
    \/ \E p \in Paths : Import(p) \/ Collect(p)

Spec == Init /\ [][Next]_vars

-----------------------------------------------------------------------------
(* Properties *)

Entry == [key: Keys, path: Paths, digest: {"none", "verified", "quarantined"}]

ThreadState ==
    {Idle}
    \cup [pc: {"candidate"}, key: Keys, path: Paths]
    \cup [pc: {"look", "stat", "drop", "derive", "dump", "failed", "publish"},
          op: {"hold", "peer", "prune"}, key: Keys, arc: Nat, fresh: BOOLEAN]

(* Entries, threads and file keep their shape, and the map holds one entry *)
(* per key.                                                                *)
TypeOK ==
    /\ store \in SUBSET Paths
    /\ arc \in Seq(Entry)
    /\ entries \in SUBSET DOMAIN arc
    /\ \A i, j \in entries : arc[i].key = arc[j].key => i = j
    /\ disk \in SUBSET [key: Keys, path: Paths, derived: BOOLEAN]
    /\ th \in [Threads -> ThreadState]
    /\ \A t \in Threads :
          th[t].pc \in {"stat", "drop", "derive", "dump", "failed", "publish"}
              => th[t].arc \in DOMAIN arc /\ arc[th[t].arc].key = th[t].key

(* Supply never outlives hold, and there is no false supply: a record that *)
(* the serve path can find, warm-loaded ones included, is of the entry the *)
(* map holds now, however slow the derivation that published it, and of a  *)
(* path that dumps to the NarHash it is registered for.                    *)
SupplyIsSound ==
    \A i \in catalog :
        /\ i \in entries
        /\ arc[i].digest = "verified"
        /\ NarHashOf[arc[i].path] = arc[i].key

(* index coverage == provider coverage: when a probe answers Have, the     *)
(* serve path can find that key's record.                                  *)
HaveIsSupplied ==
    answer.have => \E i \in catalog : arc[i].key = answer.key

(* The file is the map, derived bindings included, unless a save failed or *)
(* the probe that derived a binding has not saved it yet.                  *)
DiskInSync ==
    \/ unsaved
    \/ disk = View(entries, arc)
    \/ \E t \in Threads : th[t].pc = "publish" /\ th[t].fresh /\ th[t].arc \in entries

(* A registration whose path was there all along is never dropped by a     *)
(* prune, though it replaced, under the same key, one whose path was gone. *)
OnlyGoneDropped ==
    \A t \in Threads :
        (th[t].pc = "drop" /\ th'[t].pc # "drop" /\ restarts' = restarts)
            => (entries \ entries') \subseteq gone

(* A registration keeps its supply: a rejected replacement, a refused      *)
(* candidate or another thread's error never retires the record of an      *)
(* entry that stays.                                                       *)
SupplyKeptWithEntry == restarts' = restarts => catalog \cap entries' \subseteq catalog'

(* What IndexSupplyPruner says of prune_if_gone: a path that has come back *)
(* survives the prune.                                                     *)
RematerialisedSurvives ==
    [][\A t \in Threads :
         (/\ th[t].pc = "drop" /\ th[t].op = "prune"
          /\ th'[t].pc # "drop" /\ restarts' = restarts)
             => \A i \in entries \ entries' : arc[i].path \notin store]_vars

(* A probe that answers Have leaves the key with a supply, the index file   *)
(* is the map unless a save failed or is about to be made, a prune drops    *)
(* only what was gone at some time, and a registration that stays keeps its *)
(* supply (probe, prune_if_gone, register in availability.rs).              *)
IndexIsCoherent ==
    [][TypeOK' /\ HaveIsSupplied' /\ DiskInSync' /\ OnlyGoneDropped /\ SupplyKeptWithEntry]_vars
=============================================================================
