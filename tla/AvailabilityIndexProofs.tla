----------------------- MODULE AvailabilityIndexProofs -----------------------
(***************************************************************************)
(* The supply of the availability index is sound, and index, file and      *)
(* answers agree, for every set of keys, paths and threads and any number  *)
(* of restarts.                                                            *)
(***************************************************************************)
EXTENDS AvailabilityIndex, FiniteSetTheorems, SequenceTheorems, TLAPS

Looking == {"stat", "drop", "derive", "dump", "failed", "publish"}

Probe == [pc: {"look"} \cup Looking, op: {"hold", "peer", "prune"}, key: Keys,
          arc: Nat, fresh: BOOLEAN]

(* What a thread knows of the entry it holds across its unlocked steps: a   *)
(* candidate was dumped and hashed, a drop is of an entry whose path was    *)
(* missing, and only a verified entry is about to be published.             *)
ThreadOK(x) ==
    /\ x.pc \in Looking => x.arc \in DOMAIN arc /\ arc[x.arc].key = x.key
    /\ x.pc = "candidate" => NarHashOf[x.path] = x.key
    /\ x.pc = "drop" => x.arc \in gone
    /\ x.pc = "publish" => arc[x.arc].digest = "verified"

(* A verified entry dumps to its key, and an entry whose path is missing    *)
(* now is known to have been gone.                                          *)
ArcInv ==
    \A i \in DOMAIN arc :
        /\ arc[i].digest = "verified" => NarHashOf[arc[i].path] = arc[i].key
        /\ arc[i].path \notin store => i \in gone

CatalogInv ==
    /\ catalog \subseteq entries
    /\ \A i \in catalog : arc[i].digest = "verified"

(* The file has finitely many lines, one for each key, and a derived line   *)
(* is of a path that dumps to its key: what a restart trusts.               *)
FileOK(lines) ==
    /\ IsFiniteSet(lines)
    /\ \A r, q \in lines : r.key = q.key => r = q
    /\ \A r \in lines : r.derived => NarHashOf[r.path] = r.key

AnswerOK == answer = NoAnswer \/ answer \in [have: {TRUE}, key: Keys]

IInv ==
    /\ TypeOK
    /\ \A t \in Threads : ThreadOK(th[t])
    /\ ArcInv
    /\ CatalogInv
    /\ FileOK(disk)
    /\ AnswerOK
    /\ HaveIsSupplied
    /\ DiskInSync
    /\ restarts \in Nat

(* What a step does to the entries and their supply.                        *)
StepOK == OnlyGoneDropped /\ SupplyKeptWithEntry

-----------------------------------------------------------------------------
(* Sequences and the file                                                  *)

(* The positions of the allocated entries, and what they hold.             *)
LEMMA ArcTyped ==
    ASSUME TypeOK
    PROVE  /\ Len(arc) \in Nat
           /\ DOMAIN arc = 1..Len(arc)
           /\ \A i \in DOMAIN arc : arc[i] \in Entry
           /\ entries \subseteq DOMAIN arc
<1>1. arc \in Seq(Entry) /\ entries \subseteq DOMAIN arc
  BY DEF TypeOK
<1> QED
  BY <1>1, LenProperties

(* persist_locked writes a line for each key that the map holds.           *)
LEMMA ViewOK ==
    ASSUME NEW a \in Seq(Entry), NEW es \in SUBSET DOMAIN a,
           \A i, j \in es : a[i].key = a[j].key => i = j,
           \A i \in es : a[i].digest = "verified" => NarHashOf[a[i].path] = a[i].key
    PROVE  /\ View(es, a) \in SUBSET [key: Keys, path: Paths, derived: BOOLEAN]
           /\ FileOK(View(es, a))
<1> DEFINE f == [i \in es |-> [key |-> a[i].key, path |-> a[i].path,
                               derived |-> a[i].digest = "verified"]]
<1>1. /\ Len(a) \in Nat /\ DOMAIN a = 1..Len(a) /\ \A i \in es : a[i] \in Entry
  BY LenProperties
<1>2. IsFiniteSet(es)
  <2>1. IsFiniteSet(1..Len(a))
    BY <1>1, FS_Interval
  <2> QED
    BY <1>1, <2>1, FS_Subset
<1>3. f \in Surjection(es, View(es, a))
  BY DEF Surjection, View
<1>4. IsFiniteSet(View(es, a))
  BY <1>2, <1>3, FS_Surjection
<1>5. View(es, a) \in SUBSET [key: Keys, path: Paths, derived: BOOLEAN]
  <2>1. \A i \in es : /\ a[i].key \in Keys /\ a[i].path \in Paths
                      /\ (a[i].digest = "verified") \in BOOLEAN
    BY <1>1 DEF Entry
  <2>2. \A i \in es : f[i] \in [key: Keys, path: Paths, derived: BOOLEAN]
    BY <2>1, Zenon
  <2> QED
    BY <2>2 DEF View
<1>6. \A r, q \in View(es, a) : r.key = q.key => r = q
  BY DEF View
<1>7. ASSUME NEW r \in View(es, a), r.derived PROVE NarHashOf[r.path] = r.key
  <2>1. PICK i \in es : r = [key |-> a[i].key, path |-> a[i].path,
                             derived |-> a[i].digest = "verified"]
    BY DEF View
  <2>2. r.key = a[i].key /\ r.path = a[i].path /\ r.derived = (a[i].digest = "verified")
    BY <2>1, Zenon
  <2> QED
    BY <1>7, <2>2, Zenon
<1> QED
  BY <1>4, <1>5, <1>6, <1>7 DEF FileOK

-----------------------------------------------------------------------------
(* Threads                                                                 *)

(* A thread past its first look holds a probe.                             *)
LEMMA ProbeTyped ==
    ASSUME TypeOK, NEW t \in Threads, th[t].pc \in {"look"} \cup Looking
    PROVE  th[t] \in Probe
<1>1. th[t] \in ThreadState
  BY DEF TypeOK
<1> QED
  BY <1>1 DEF ThreadState, Probe, Looking, Idle

LEMMA IdleOK == Idle \in ThreadState /\ ThreadOK(Idle) /\ Idle.pc = "idle"
BY DEF Idle, ThreadState, ThreadOK, Looking

LEMMA ProbeState == Probe \subseteq ThreadState
BY DEF Probe, ThreadState, Looking

(* A step that only moves one thread, which was not about to publish.       *)
LEMMA QuietIInv ==
    ASSUME IInv, NEW t \in Threads, NEW x \in ThreadState, ThreadOK(x),
           th[t].pc # "publish",
           th' = [th EXCEPT ![t] = x], answer' = NoAnswer,
           UNCHANGED <<store, arc, entries, catalog, disk, restarts, unsaved, gone>>
    PROVE  IInv' /\ StepOK
<1>0. th'[t] = x /\ \A u \in Threads \ {t} : th'[u] = th[u]
  BY DEF IInv, TypeOK
<1>1. TypeOK'
  <2>1. th' \in [Threads -> ThreadState]
    BY DEF IInv, TypeOK
  <2>2. \A u \in Threads : th'[u].pc \in Looking
            => th'[u].arc \in DOMAIN arc /\ arc[th'[u].arc].key = th'[u].key
    BY <1>0 DEF IInv, ThreadOK
  <2> QED
    BY <2>1, <2>2 DEF IInv, TypeOK, Looking
<1>2. \A u \in Threads : ThreadOK(th[u])'
  BY <1>0 DEF IInv, ThreadOK
<1>3. ArcInv' /\ CatalogInv' /\ FileOK(disk)' /\ AnswerOK' /\ (restarts \in Nat)'
  BY DEF IInv, ArcInv, CatalogInv, FileOK, AnswerOK
<1>4. HaveIsSupplied'
  BY DEF HaveIsSupplied, NoAnswer
<1>5. DiskInSync'
  <2>1. View(entries, arc)' = View(entries, arc)
    BY DEF View
  <2> QED
    BY <1>0, <2>1 DEF IInv, DiskInSync
<1>6. StepOK
  BY DEF IInv, StepOK, OnlyGoneDropped, SupplyKeptWithEntry
<1> QED
  BY <1>1, <1>2, <1>3, <1>4, <1>5, <1>6 DEF IInv

(* The thread stays with its entry, or leaves it.                           *)
LEMMA GotoIInv ==
    ASSUME IInv, NEW t \in Threads, NEW place \in {"look"} \cup Looking,
           th[t].pc \in ({"look"} \cup Looking) \ {"publish"},
           th[t].pc \in Looking,
           place = "drop" => th[t].arc \in gone,
           place = "publish" => arc[th[t].arc].digest = "verified",
           Goto(t, place),
           UNCHANGED <<store, arc, entries, catalog, disk, restarts, unsaved, gone>>
    PROVE  IInv' /\ StepOK
<1> DEFINE x == [th[t] EXCEPT !.pc = place]
<1>1. th[t] \in Probe /\ th \in [Threads -> ThreadState] /\ ThreadOK(th[t])
  BY ProbeTyped DEF IInv, TypeOK
<1>2. x \in Probe /\ x.pc = place /\ x.arc = th[t].arc /\ x.key = th[t].key
  BY <1>1 DEF Probe
<1>3. x \in ThreadState
  BY <1>2, ProbeState
<1>4. ThreadOK(x)
  BY <1>1, <1>2 DEF ThreadOK, Looking
<1>5. th' = [th EXCEPT ![t] = x] /\ answer' = NoAnswer
  BY <1>1 DEF Goto
<1> QED
  BY <1>3, <1>4, <1>5, QuietIInv

LEMMA ReturnIInv ==
    ASSUME IInv, NEW t \in Threads, th[t].pc # "publish", Return(t),
           UNCHANGED <<store, arc, entries, catalog, disk, restarts, unsaved, gone>>
    PROVE  IInv' /\ StepOK
BY IdleOK, QuietIInv DEF Return, Become

(* The steps of a probe, a prune or a verification that take place outside  *)
(* the locks, or only read under them.                                      *)
LEMMA UnlockedIInv ==
    ASSUME IInv, NEW t \in Threads,
           \/ \E k \in Keys, p \in Paths : VerifyCandidate(t, k, p)
           \/ \E k \in Keys, op \in {"hold", "peer", "prune"} : Start(t, k, op)
           \/ Look(t) \/ StatGone(t) \/ StatThere(t)
           \/ DeriveCached(t) \/ DeriveDeferred(t) \/ DumpStart(t)
           \/ DumpFailed(t) \/ Failed(t)
    PROVE  IInv' /\ StepOK
<1>0. ThreadOK(th[t])
  BY DEF IInv
<1>1. ASSUME NEW k \in Keys, NEW p \in Paths, VerifyCandidate(t, k, p)
      PROVE  IInv' /\ StepOK
  <2> DEFINE x == [pc |-> "candidate", key |-> k, path |-> p]
  <2>1. x \in ThreadState /\ ThreadOK(x)
    BY <1>1 DEF VerifyCandidate, ThreadState, ThreadOK, Looking
  <2> QED
    BY <1>1, <2>1, QuietIInv DEF VerifyCandidate, Become
<1>2. ASSUME NEW k \in Keys, NEW op \in {"hold", "peer", "prune"}, Start(t, k, op)
      PROVE  IInv' /\ StepOK
  <2> DEFINE x == [pc |-> "look", op |-> op, key |-> k, arc |-> 0, fresh |-> FALSE]
  <2>1. x \in ThreadState /\ ThreadOK(x)
    BY DEF ThreadState, ThreadOK, Looking
  <2> QED
    BY <1>2, <2>1, QuietIInv DEF Start, Become
<1>3. CASE Look(t)
  <2>1. CASE Return(t)
    BY <1>3, <2>1, ReturnIInv DEF Look
  <2>2. ASSUME NEW i \in Current(th[t].key),
               Become(t, [th[t] EXCEPT !.pc = "stat", !.arc = i])
        PROVE  IInv' /\ StepOK
    <3> DEFINE x == [th[t] EXCEPT !.pc = "stat", !.arc = i]
    <3>1. th[t] \in Probe
      BY <1>3, ProbeTyped DEF Look, IInv
    <3>2. i \in DOMAIN arc /\ i \in Nat /\ arc[i].key = th[t].key
      BY ArcTyped DEF Current, IInv
    <3>3. x \in Probe /\ x.pc = "stat" /\ x.arc = i /\ x.key = th[t].key
      BY <3>1, <3>2 DEF Probe, Looking
    <3>4. x \in ThreadState /\ ThreadOK(x)
      BY <3>2, <3>3, ProbeState DEF ThreadOK
    <3> QED
      BY <1>3, <2>2, <3>4, QuietIInv DEF Look, Become
  <2> QED
    BY <1>3, <2>1, <2>2 DEF Look
<1>4. CASE StatGone(t)
  <2>1. th[t].arc \in gone
    BY <1>0, <1>4 DEF StatGone, IInv, ArcInv, ThreadOK, Looking
  <2> QED
    BY <1>4, <2>1, GotoIInv DEF StatGone, Looking
<1>5. CASE StatThere(t)
  BY <1>5, GotoIInv, ReturnIInv DEF StatThere, Looking
<1>6. CASE DeriveCached(t)
  BY <1>6, GotoIInv DEF DeriveCached, Looking
<1>7. CASE DeriveDeferred(t)
  BY <1>7, ReturnIInv DEF DeriveDeferred
<1>8. CASE DumpStart(t) \/ DumpFailed(t)
  BY <1>8, GotoIInv DEF DumpStart, DumpFailed, Looking
<1>9. CASE Failed(t)
  BY <1>9, GotoIInv, ReturnIInv DEF Failed, Looking
<1> QED
  BY <1>1, <1>2, <1>3, <1>4, <1>5, <1>6, <1>7, <1>8, <1>9

-----------------------------------------------------------------------------
(* Steps under the map lock                                                *)

(* What a save leaves in the file, whether or not it succeeds.              *)
LEMMA SaveOK ==
    ASSUME disk \in SUBSET [key: Keys, path: Paths, derived: BOOLEAN], FileOK(disk),
           NEW a \in Seq(Entry), NEW es \in SUBSET DOMAIN a, NEW saved \in BOOLEAN,
           \A i, j \in es : a[i].key = a[j].key => i = j,
           \A i \in es : a[i].digest = "verified" => NarHashOf[a[i].path] = a[i].key,
           Save(es, a, saved)
    PROVE  /\ disk' \in SUBSET [key: Keys, path: Paths, derived: BOOLEAN]
           /\ FileOK(disk')
           /\ unsaved' \/ disk' = View(es, a)
<1>1. /\ View(es, a) \in SUBSET [key: Keys, path: Paths, derived: BOOLEAN]
      /\ FileOK(View(es, a))
  BY ViewOK
<1>2. disk' \in {disk, View(es, a)} /\ (unsaved' \/ disk' = View(es, a))
  BY DEF Save
<1> QED
  BY <1>1, <1>2

(* A registration takes the place of its key's entry, with the supply of    *)
(* the old one, or is forgotten when it cannot be saved.                    *)
LEMMA BindIInv ==
    ASSUME IInv, NEW k \in Keys, NEW p \in Paths, NEW verified \in BOOLEAN,
           NEW saved \in BOOLEAN, verified => NarHashOf[p] = k,
           Bind(k, p, verified, saved),
           th' \in [Threads -> ThreadState],
           \A u \in Threads : \/ th'[u] = th[u]
                              \/ th'[u] = Idle /\ th[u].pc = "candidate",
           answer' = NoAnswer, UNCHANGED <<store, restarts>>
    PROVE  IInv' /\ StepOK
<1> DEFINE i == Len(arc) + 1
           e == NewEntry(k, p, verified)
           a == Append(arc, e)
           es == (entries \ Current(k)) \cup {i}
<1>0. /\ Len(arc) \in Nat /\ DOMAIN arc = 1..Len(arc) /\ arc \in Seq(Entry)
      /\ entries \subseteq DOMAIN arc /\ catalog \subseteq entries /\ i \notin DOMAIN arc
  BY ArcTyped DEF IInv, TypeOK, CatalogInv
<1>1. e \in Entry /\ e.key = k /\ e.path = p /\ (e.digest = "verified" => NarHashOf[p] = k)
  BY DEF NewEntry, Entry
<1>2. /\ a \in Seq(Entry) /\ Len(a) = i /\ DOMAIN a = 1..i
      /\ a[i] = e /\ \A j \in DOMAIN arc : a[j] = arc[j]
  BY <1>0, <1>1, AppendProperties, LenProperties
<1>3. es \in SUBSET DOMAIN a
  BY <1>0, <1>2
<1>4. \A j, m \in es : a[j].key = a[m].key => j = m
  BY <1>0, <1>1, <1>2 DEF Current, IInv, TypeOK
<1>5. \A j \in DOMAIN a : a[j].digest = "verified" => NarHashOf[a[j].path] = a[j].key
  BY <1>0, <1>1, <1>2 DEF IInv, ArcInv
<1>6. /\ disk' \in SUBSET [key: Keys, path: Paths, derived: BOOLEAN]
      /\ FileOK(disk') /\ (unsaved' \/ disk' = View(es, a))
  <2>1. Save(es, a, saved)
    BY DEF Bind
  <2>2. disk \in SUBSET [key: Keys, path: Paths, derived: BOOLEAN] /\ FileOK(disk)
    BY DEF IInv, TypeOK
  <2>3. \A j \in es : a[j].digest = "verified" => NarHashOf[a[j].path] = a[j].key
    BY <1>3, <1>5
  <2> HIDE DEF a, es
  <2> QED
    BY <1>2, <1>3, <1>4, <2>1, <2>2, <2>3, SaveOK
<1>7. \A u \in Threads : th'[u] = th[u] \/ th'[u].pc = "idle"
  BY IdleOK
<1>8. AnswerOK' /\ HaveIsSupplied' /\ (restarts \in Nat)'
  BY DEF AnswerOK, HaveIsSupplied, NoAnswer, IInv
<1>9. CASE saved
  <2>1. arc' = a /\ entries' = es /\ catalog' = catalog \ Current(k)
        /\ gone' = gone \cup {j \in {i} : p \notin store} /\ ~unsaved'
    BY <1>9 DEF Bind, Save
  <2>2. DOMAIN arc' = 1..i /\ (\A j \in DOMAIN arc : j \in DOMAIN arc' /\ arc'[j] = arc[j])
        /\ arc'[i] = e /\ gone \subseteq gone'
    BY <1>0, <1>2, <2>1
  <2> HIDE DEF a, es, e
  <2>3. \A u \in Threads : ThreadOK(th[u])'
    BY <1>0, <1>7, <2>2 DEF IInv, ThreadOK, Looking
  <2>4. TypeOK'
    <3>1. \A u \in Threads : th'[u].pc \in Looking
              => th'[u].arc \in DOMAIN arc' /\ arc'[th'[u].arc].key = th'[u].key
      BY <2>3 DEF ThreadOK
    <3>2. arc' \in Seq(Entry) /\ entries' \in SUBSET DOMAIN arc'
          /\ \A j, m \in entries' : arc'[j].key = arc'[m].key => j = m
      BY <1>2, <1>3, <1>4, <2>1
    <3>3. store' \in SUBSET Paths
      BY DEF IInv, TypeOK
    <3> QED
      BY <1>6, <3>1, <3>2, <3>3 DEF TypeOK, Looking
  <2>5. ArcInv'
    <3>1. ASSUME NEW j \in DOMAIN arc', arc'[j].path \notin store PROVE j \in gone'
      <4>1. CASE j = i
        BY <1>1, <2>1, <2>2, <3>1, <4>1
      <4>2. CASE j \in DOMAIN arc
        BY <2>2, <3>1, <4>2 DEF IInv, ArcInv
      <4> QED
        BY <1>0, <2>2, <4>1, <4>2
    <3> QED
      BY <1>5, <2>1, <3>1 DEF ArcInv
  <2>6. CatalogInv'
    BY <1>0, <2>1, <2>2 DEF CatalogInv, IInv, es
  <2>7. DiskInSync'
    <3>1. disk' = View(entries', arc')
      BY <1>6, <2>1
    <3> QED
      BY <3>1 DEF DiskInSync, View
  <2>8. StepOK
    <3>1. OnlyGoneDropped
      BY IdleOK DEF OnlyGoneDropped
    <3>2. SupplyKeptWithEntry
      BY <1>0, <2>1 DEF SupplyKeptWithEntry, es
    <3> QED
      BY <3>1, <3>2 DEF StepOK
  <2> QED
    BY <1>6, <1>8, <2>3, <2>4, <2>5, <2>6, <2>7, <2>8 DEF IInv
<1>10. CASE ~saved
  <2>1. UNCHANGED <<arc, entries, catalog, gone>> /\ unsaved'
    BY <1>10 DEF Bind, Save
  <2> HIDE DEF a, es, e
  <2>2. \A u \in Threads : ThreadOK(th[u])'
    BY <1>7, <2>1 DEF IInv, ThreadOK, Looking
  <2>3. TypeOK'
    BY <1>6, <2>1, <2>2 DEF IInv, TypeOK, ThreadOK, Looking
  <2>4. ArcInv' /\ CatalogInv' /\ DiskInSync'
    BY <2>1 DEF IInv, ArcInv, CatalogInv, DiskInSync
  <2>5. StepOK
    BY <2>1 DEF StepOK, OnlyGoneDropped, SupplyKeptWithEntry
  <2> QED
    BY <1>6, <1>8, <2>2, <2>3, <2>4, <2>5 DEF IInv
<1> QED
  BY <1>9, <1>10

LEMMA RegisterIInv ==
    ASSUME IInv, NEW k \in Keys, NEW p \in Paths, NEW saved \in BOOLEAN, Register(k, p, saved)
    PROVE  IInv' /\ StepOK
<1>1. th' \in [Threads -> ThreadState] /\ \A u \in Threads : th'[u] = th[u]
  BY DEF Register, IInv, TypeOK
<1> QED
  BY <1>1, BindIInv DEF Register

LEMMA RegisterVerifiedIInv ==
    ASSUME IInv, NEW t \in Threads, NEW saved \in BOOLEAN, RegisterVerified(t, saved)
    PROVE  IInv' /\ StepOK
<1>1. th[t] \in [pc: {"candidate"}, key: Keys, path: Paths]
  <2>1. th[t] \in ThreadState /\ th[t].pc = "candidate"
    BY DEF RegisterVerified, IInv, TypeOK
  <2> QED
    BY <2>1 DEF ThreadState, Idle
<1>2. th[t].key \in Keys /\ th[t].path \in Paths /\ NarHashOf[th[t].path] = th[t].key
  BY <1>1 DEF IInv, ThreadOK
<1>3. /\ th' \in [Threads -> ThreadState] /\ answer' = NoAnswer
      /\ \A u \in Threads : th'[u] = th[u] \/ (th'[u] = Idle /\ th[u].pc = "candidate")
  BY <1>1, IdleOK DEF RegisterVerified, Return, Become, IInv, TypeOK
<1> QED
  BY <1>2, <1>3, BindIInv DEF RegisterVerified

(* Removing entries retires their supply.  The threads that hold them keep  *)
(* their arcs.                                                              *)
LEMMA RemoveIInv ==
    ASSUME IInv, NEW R \in SUBSET entries, NEW saved \in BOOLEAN,
           entries' = entries \ R, catalog' = catalog \ R, Save(entries', arc, saved),
           th' \in [Threads -> ThreadState], \A u \in Threads : ThreadOK(th'[u]),
           answer' = NoAnswer, UNCHANGED <<store, arc, restarts, gone>>
    PROVE  IInv' /\ SupplyKeptWithEntry
<1>1. \A u \in Threads : ThreadOK(th[u])'
  BY DEF ThreadOK
<1>2. /\ arc \in Seq(Entry) /\ entries' \in SUBSET DOMAIN arc
      /\ \A i, j \in entries' : arc[i].key = arc[j].key => i = j
      /\ \A i \in entries' : arc[i].digest = "verified" => NarHashOf[arc[i].path] = arc[i].key
  BY DEF IInv, TypeOK, ArcInv
<1>3. /\ disk' \in SUBSET [key: Keys, path: Paths, derived: BOOLEAN]
      /\ FileOK(disk') /\ (unsaved' \/ disk' = View(entries', arc))
  <2>1. disk \in SUBSET [key: Keys, path: Paths, derived: BOOLEAN] /\ FileOK(disk)
    BY DEF IInv, TypeOK
  <2> QED
    BY <1>2, <2>1, SaveOK
<1>4. TypeOK'
  BY <1>1, <1>2, <1>3 DEF IInv, TypeOK, ThreadOK, Looking
<1>5. ArcInv' /\ CatalogInv' /\ AnswerOK' /\ HaveIsSupplied' /\ (restarts \in Nat)'
  BY DEF IInv, ArcInv, CatalogInv, AnswerOK, HaveIsSupplied, NoAnswer
<1>6. DiskInSync'
  BY <1>3 DEF DiskInSync, View
<1>7. SupplyKeptWithEntry
  BY DEF SupplyKeptWithEntry
<1> QED
  BY <1>1, <1>3, <1>4, <1>5, <1>6, <1>7 DEF IInv

LEMMA UnregisterIInv ==
    ASSUME IInv, NEW k \in Keys, NEW saved \in BOOLEAN, Unregister(k, saved)
    PROVE  IInv' /\ StepOK
<1>1. /\ Current(k) \in SUBSET entries /\ entries' = entries \ Current(k)
      /\ catalog' = catalog \ Current(k) /\ Save(entries', arc, saved)
      /\ answer' = NoAnswer /\ UNCHANGED <<store, arc, th, restarts, gone>>
  BY DEF Unregister, Current
<1>2. th' \in [Threads -> ThreadState] /\ \A u \in Threads : ThreadOK(th'[u])
  BY <1>1 DEF IInv, TypeOK
<1>3. OnlyGoneDropped
  BY <1>1 DEF OnlyGoneDropped
<1> QED
  BY <1>1, <1>2, <1>3, RemoveIInv DEF StepOK

(* The entry that a drop removes was gone at some time.                     *)
LEMMA DropIInv ==
    ASSUME IInv, NEW t \in Threads, NEW saved \in BOOLEAN, Drop(t, saved)
    PROVE  IInv' /\ StepOK
<1>0. th[t] \in Probe /\ th[t].pc = "drop" /\ ThreadOK(th[t]) /\ th[t].arc \in gone
  BY ProbeTyped DEF Drop, IInv, ThreadOK, Looking
<1>1. answer' = NoAnswer /\ \E x \in ThreadState : ThreadOK(x) /\ th' = [th EXCEPT ![t] = x]
  <2>1. CASE Return(t)
    BY <2>1, IdleOK DEF Return, Become
  <2>2. CASE Goto(t, "look")
    <3> DEFINE x == [th[t] EXCEPT !.pc = "look"]
    <3>1. x \in Probe /\ x.pc = "look"
      BY <1>0 DEF Probe, Looking
    <3>2. x \in ThreadState /\ ThreadOK(x)
      BY <3>1, ProbeState DEF ThreadOK, Looking
    <3>3. th' = [th EXCEPT ![t] = x] /\ answer' = NoAnswer
      BY <2>2 DEF Goto, IInv, TypeOK
    <3> QED
      BY <3>2, <3>3
  <2> QED
    BY <2>1, <2>2 DEF Drop
<1>2. PICK x \in ThreadState : ThreadOK(x) /\ th' = [th EXCEPT ![t] = x]
  BY <1>1
<1>3. th' \in [Threads -> ThreadState] /\ \A u \in Threads : ThreadOK(th'[u])
  BY <1>2 DEF IInv, TypeOK
<1>4. OnlyGoneDropped
  BY <1>0, <1>2 DEF OnlyGoneDropped, Drop, Dropped, IInv, TypeOK
<1>5. CASE Dropped(t) = {}
  BY <1>0, <1>1, <1>2, <1>4, <1>5, QuietIInv DEF Drop
<1>6. CASE Dropped(t) # {}
  <2>1. /\ Dropped(t) \in SUBSET entries /\ entries' = entries \ Dropped(t)
        /\ catalog' = catalog \ Dropped(t) /\ Save(entries', arc, saved)
        /\ UNCHANGED <<store, arc, restarts, gone>>
    BY <1>6 DEF Drop, Dropped
  <2> QED
    BY <1>1, <1>3, <1>4, <2>1, RemoveIInv DEF StepOK
<1> QED
  BY <1>5, <1>6

-----------------------------------------------------------------------------
(* Deriving and publishing                                                  *)

(* The verdict is written in the entry: what was verified stays verified,   *)
(* and a fresh derivation is known to its thread until it is saved.         *)
LEMMA DumpOkIInv ==
    ASSUME IInv, NEW t \in Threads, DumpOk(t)
    PROVE  IInv' /\ StepOK
<1> DEFINE n == th[t].arc
           v == Verdict(arc[n])
           e == [arc[n] EXCEPT !.digest = v]
           x == [th[t] EXCEPT !.pc = IF v = "verified" THEN "publish" ELSE "failed",
                              !.fresh = v = "verified"]
<1>0. th[t] \in Probe /\ th[t].pc = "dump" /\ n \in DOMAIN arc /\ arc[n].key = th[t].key
  BY ProbeTyped DEF DumpOk, IInv, ThreadOK, Looking
<1>1. /\ Len(arc) \in Nat /\ DOMAIN arc = 1..Len(arc) /\ arc \in Seq(Entry)
      /\ arc[n] \in Entry /\ entries \subseteq DOMAIN arc
  BY <1>0, ArcTyped DEF IInv, TypeOK
<1>2. /\ v \in {"verified", "quarantined"}
      /\ v = "verified" <=> NarHashOf[arc[n].path] = arc[n].key
  BY DEF Verdict
<1>3. e \in Entry /\ e.key = arc[n].key /\ e.path = arc[n].path /\ e.digest = v
  BY <1>1, <1>2 DEF Entry
<1>4. /\ arc' = [arc EXCEPT ![n] = e] /\ th' = [th EXCEPT ![t] = x] /\ answer' = NoAnswer
      /\ UNCHANGED <<store, entries, catalog, disk, restarts, unsaved, gone>>
  BY <1>1 DEF DumpOk, Become
<1>5. /\ arc' \in Seq(Entry) /\ DOMAIN arc' = DOMAIN arc /\ arc'[n] = e
      /\ \A j \in DOMAIN arc : j # n => arc'[j] = arc[j]
  BY <1>0, <1>1, <1>3, <1>4, ExceptSeq
<1>6. /\ x \in Probe /\ x.arc = n /\ x.key = th[t].key
      /\ x.pc = (IF v = "verified" THEN "publish" ELSE "failed")
      /\ (v = "verified" => x.fresh)
  <2>1. (v = "verified") \in BOOLEAN
    OBVIOUS
  <2> QED
    BY <1>0, <2>1 DEF Probe, Looking
<1>7. th' \in [Threads -> ThreadState] /\ th'[t] = x /\ \A u \in Threads \ {t} : th'[u] = th[u]
  BY <1>4, <1>6, ProbeState DEF IInv, TypeOK
<1> HIDE DEF n, v, e, x
<1>8. \A j \in DOMAIN arc : /\ arc'[j].key = arc[j].key /\ arc'[j].path = arc[j].path
                            /\ arc[j].digest = "verified" => arc'[j].digest = "verified"
  BY <1>0, <1>2, <1>3, <1>5 DEF IInv, ArcInv
<1>9. \A u \in Threads : ThreadOK(th[u])'
  <2>1. ThreadOK(th[t])'
    BY <1>0, <1>3, <1>5, <1>6, <1>7 DEF ThreadOK, Looking
  <2>2. \A u \in Threads \ {t} : ThreadOK(th[u])'
    BY <1>4, <1>5, <1>7, <1>8 DEF IInv, ThreadOK, Looking
  <2> QED
    BY <2>1, <2>2
<1>10. TypeOK'
  <2>1. \A u \in Threads : th'[u].pc \in Looking
            => th'[u].arc \in DOMAIN arc' /\ arc'[th'[u].arc].key = th'[u].key
    BY <1>9 DEF ThreadOK
  <2>2. \A i, j \in entries : arc'[i].key = arc'[j].key => i = j
    BY <1>1, <1>8 DEF IInv, TypeOK
  <2> QED
    BY <1>1, <1>4, <1>5, <1>7, <2>1, <2>2 DEF IInv, TypeOK, Looking
<1>11. ArcInv'
  BY <1>2, <1>3, <1>4, <1>5, <1>8 DEF IInv, ArcInv
<1>12. CatalogInv' /\ AnswerOK' /\ HaveIsSupplied' /\ (restarts \in Nat)' /\ FileOK(disk)'
  BY <1>1, <1>4, <1>8 DEF IInv, CatalogInv, AnswerOK, HaveIsSupplied, NoAnswer, FileOK
<1>13. DiskInSync'
  <2>1. CASE v = "verified" /\ n \in entries
    BY <1>4, <1>6, <1>7, <2>1 DEF DiskInSync
  <2>2. CASE ~(v = "verified" /\ n \in entries)
    <3>1. \A i \in entries : (arc'[i].digest = "verified") = (arc[i].digest = "verified")
      <4>1. n \in entries => arc[n].digest # "verified" /\ arc'[n].digest # "verified"
        BY <1>0, <1>2, <1>3, <1>5, <2>2 DEF IInv, ArcInv
      <4> QED
        BY <1>1, <1>5, <4>1
    <3>2. View(entries, arc)' = View(entries, arc)
      <4>1. \A i \in entries : arc'[i].key = arc[i].key /\ arc'[i].path = arc[i].path
        BY <1>1, <1>8
      <4> DEFINE Line(a, i) == [key |-> a[i].key, path |-> a[i].path,
                                derived |-> a[i].digest = "verified"]
      <4>2. ASSUME NEW i \in entries PROVE Line(arc', i) = Line(arc, i)
        BY <3>1, <4>1, Zenon
      <4>3. /\ View(entries, arc)' = {Line(arc', i) : i \in entries}
            /\ View(entries, arc) = {Line(arc, i) : i \in entries}
        BY <1>4 DEF View
      <4> HIDE DEF Line
      <4> QED
        BY <4>2, <4>3
    <3> QED
      BY <1>0, <1>4, <1>7, <3>2 DEF IInv, DiskInSync
  <2> QED
    BY <2>1, <2>2
<1>14. StepOK
  BY <1>4 DEF IInv, StepOK, OnlyGoneDropped, SupplyKeptWithEntry
<1> QED
  BY <1>9, <1>10, <1>11, <1>12, <1>13, <1>14 DEF IInv

(* Only the entry that the map still holds is published, and a fresh        *)
(* derivation is saved with it.                                             *)
LEMMA PublishIInv ==
    ASSUME IInv, NEW t \in Threads, NEW saved \in BOOLEAN, Publish(t, saved)
    PROVE  IInv' /\ StepOK
<1> DEFINE n == th[t].arc
<1>0. /\ th[t] \in Probe /\ th[t].pc = "publish" /\ n \in DOMAIN arc
      /\ arc[n].key = th[t].key /\ arc[n].digest = "verified" /\ th[t].key \in Keys
  <2>1. th[t] \in Probe /\ th[t].pc = "publish" /\ ThreadOK(th[t])
    BY ProbeTyped DEF Publish, IInv, Looking
  <2> QED
    BY <2>1 DEF ThreadOK, Looking, Probe
<1>1. UNCHANGED <<store, arc, entries, restarts, gone>>
  BY DEF Publish
<1>2. CASE n \in entries
  <2>1. catalog' = catalog \cup {n} /\ th' = [th EXCEPT ![t] = Idle]
        /\ answer' = [have |-> TRUE, key |-> th[t].key]
    BY <1>2 DEF Publish
  <2>2. th' \in [Threads -> ThreadState] /\ th'[t] = Idle /\ \A u \in Threads \ {t} : th'[u] = th[u]
    BY <2>1, IdleOK DEF IInv, TypeOK
  <2>3. \A u \in Threads : ThreadOK(th[u])'
    BY <1>1, <2>2, IdleOK DEF IInv, ThreadOK, Looking
  <2>4. /\ disk' \in SUBSET [key: Keys, path: Paths, derived: BOOLEAN] /\ FileOK(disk')
        /\ DiskInSync'
    <3>1. View(entries, arc)' = View(entries, arc)
      BY <1>1 DEF View
    <3>2. disk \in SUBSET [key: Keys, path: Paths, derived: BOOLEAN] /\ FileOK(disk)
      BY DEF IInv, TypeOK
    <3>3. CASE th[t].fresh
      <4>1. Save(entries, arc, saved)
        BY <1>2, <3>3 DEF Publish
      <4>2. /\ arc \in Seq(Entry) /\ entries \in SUBSET DOMAIN arc
            /\ \A i, j \in entries : arc[i].key = arc[j].key => i = j
            /\ \A i \in entries : arc[i].digest = "verified"
                                     => NarHashOf[arc[i].path] = arc[i].key
        BY DEF IInv, TypeOK, ArcInv
      <4> QED
        BY <3>1, <3>2, <4>1, <4>2, SaveOK DEF DiskInSync
    <3>4. CASE ~th[t].fresh
      <4>1. UNCHANGED <<disk, unsaved>>
        BY <1>2, <3>4 DEF Publish
      <4> QED
        BY <1>1, <2>2, <3>1, <3>2, <3>4, <4>1 DEF IInv, DiskInSync
    <3> QED
      BY <3>3, <3>4
  <2>5. TypeOK'
    BY <1>1, <2>2, <2>3, <2>4 DEF IInv, TypeOK, ThreadOK, Looking
  <2>6. ArcInv' /\ CatalogInv' /\ AnswerOK' /\ HaveIsSupplied' /\ (restarts \in Nat)'
    BY <1>0, <1>1, <1>2, <2>1 DEF IInv, ArcInv, CatalogInv, AnswerOK, HaveIsSupplied
  <2>7. StepOK
    BY <1>1, <2>1 DEF StepOK, OnlyGoneDropped, SupplyKeptWithEntry
  <2> QED
    BY <2>3, <2>4, <2>5, <2>6, <2>7 DEF IInv
<1>3. CASE n \notin entries
  <2> DEFINE x == [th[t] EXCEPT !.pc = "look"]
  <2>1. x \in Probe /\ x.pc = "look"
    BY <1>0 DEF Probe
  <2>2. x \in ThreadState /\ ThreadOK(x)
    BY <2>1, ProbeState DEF ThreadOK, Looking
  <2>3. th' = [th EXCEPT ![t] = x] /\ answer' = NoAnswer /\ UNCHANGED <<catalog, disk, unsaved>>
    BY <1>3 DEF Publish, Goto, IInv, TypeOK
  <2>4. th' \in [Threads -> ThreadState] /\ th'[t] = x /\ \A u \in Threads \ {t} : th'[u] = th[u]
    BY <2>2, <2>3 DEF IInv, TypeOK
  <2> HIDE DEF x
  <2>5. \A u \in Threads : ThreadOK(th[u])'
    BY <1>1, <2>2, <2>4 DEF IInv, ThreadOK, Looking
  <2>6. TypeOK'
    BY <1>1, <2>3, <2>4, <2>5 DEF IInv, TypeOK, ThreadOK, Looking
  <2>7. ArcInv' /\ CatalogInv' /\ AnswerOK' /\ HaveIsSupplied' /\ (restarts \in Nat)'
        /\ FileOK(disk)'
    BY <1>1, <2>3 DEF IInv, ArcInv, CatalogInv, AnswerOK, HaveIsSupplied, NoAnswer, FileOK
  <2>8. DiskInSync'
    <3>1. View(entries, arc)' = View(entries, arc)
      BY <1>1 DEF View
    <3> QED
      BY <1>1, <1>3, <2>3, <2>4, <3>1 DEF IInv, DiskInSync
  <2>9. StepOK
    BY <1>1, <2>3 DEF StepOK, OnlyGoneDropped, SupplyKeptWithEntry
  <2> QED
    BY <2>5, <2>6, <2>7, <2>8, <2>9 DEF IInv
<1> QED
  BY <1>2, <1>3

-----------------------------------------------------------------------------
(* The environment                                                          *)

LEMMA ImportIInv ==
    ASSUME IInv, NEW p \in Paths, Import(p)
    PROVE  IInv' /\ StepOK
<1>1. /\ UNCHANGED <<arc, entries, catalog, disk, th, restarts, unsaved, gone>>
      /\ store' = store \cup {p} /\ answer' = NoAnswer
  BY DEF Import
<1>2. TypeOK' /\ ArcInv' /\ \A u \in Threads : ThreadOK(th[u])'
  BY <1>1 DEF IInv, TypeOK, ArcInv, ThreadOK
<1>3. CatalogInv' /\ FileOK(disk)' /\ AnswerOK' /\ HaveIsSupplied' /\ (restarts \in Nat)'
  BY <1>1 DEF IInv, CatalogInv, FileOK, AnswerOK, HaveIsSupplied, NoAnswer
<1>4. DiskInSync' /\ StepOK
  BY <1>1 DEF IInv, DiskInSync, View, StepOK, OnlyGoneDropped, SupplyKeptWithEntry
<1> QED
  BY <1>2, <1>3, <1>4 DEF IInv

LEMMA CollectIInv ==
    ASSUME IInv, NEW p \in Paths, Collect(p)
    PROVE  IInv' /\ StepOK
<1>1. /\ UNCHANGED <<arc, entries, catalog, disk, th, restarts, unsaved>>
      /\ store' = store \ {p} /\ answer' = NoAnswer
      /\ gone' = gone \cup {i \in DOMAIN arc : arc[i].path = p}
  BY DEF Collect
<1>2. TypeOK' /\ ArcInv' /\ \A u \in Threads : ThreadOK(th[u])'
  BY <1>1 DEF IInv, TypeOK, ArcInv, ThreadOK
<1>3. CatalogInv' /\ FileOK(disk)' /\ AnswerOK' /\ HaveIsSupplied' /\ (restarts \in Nat)'
  BY <1>1 DEF IInv, CatalogInv, FileOK, AnswerOK, HaveIsSupplied, NoAnswer
<1>4. DiskInSync' /\ StepOK
  BY <1>1 DEF IInv, DiskInSync, View, StepOK, OnlyGoneDropped, SupplyKeptWithEntry
<1> QED
  BY <1>2, <1>3, <1>4 DEF IInv

(* A restart gives every line of the file one entry: as many positions as   *)
(* lines, each line at one of them, so none at two.                         *)
LEMMA RestartIInv ==
    ASSUME IInv, NEW order \in Orders(disk), Restart(order)
    PROVE  IInv' /\ StepOK
<1> DEFINE n == Cardinality(disk)
           Line == [key: Keys, path: Paths, derived: BOOLEAN]
<1>0. disk \in SUBSET Line /\ IsFiniteSet(disk) /\ FileOK(disk)
  BY DEF IInv, TypeOK, FileOK
<1>1. n \in Nat /\ IsFiniteSet(1..n) /\ Cardinality(1..n) = n
  BY <1>0, FS_CardinalityType, FS_Interval
<1>2. order \in [1..n -> disk] /\ \A r \in disk : \E i \in 1..n : order[i] = r
  BY DEF Orders
<1>3. \A i, j \in 1..n : order[i] = order[j] => i = j
  <2>1. order \in Surjection(1..n, disk)
    BY <1>2 DEF Surjection
  <2>2. order \in Injection(1..n, disk)
    BY <1>1, <2>1, FS_SurjSameCardinalityImpliesInj
  <2> QED
    BY <2>2 DEF Injection, IsInjective
<1>4. /\ arc' = [i \in 1..n |-> NewEntry(order[i].key, order[i].path, order[i].derived)]
      /\ entries' = 1..n /\ catalog' = {i \in 1..n : order[i].derived}
      /\ th' = [t \in Threads |-> Idle] /\ answer' = NoAnswer
      /\ restarts' = restarts + 1 /\ restarts \in Nat
      /\ gone' = {i \in 1..n : order[i].path \notin store} /\ UNCHANGED <<store, disk>>
  BY <1>2 DEF Restart, IInv
<1> HIDE DEF n
<1>5. ASSUME NEW i \in 1..n
      PROVE  /\ arc'[i] \in Entry /\ order[i] \in disk
             /\ arc'[i].key = order[i].key /\ arc'[i].path = order[i].path
             /\ (arc'[i].digest = "verified") = order[i].derived
  <2>1. order[i] \in Line
    BY <1>0, <1>2
  <2>2. arc'[i] = [key |-> order[i].key, path |-> order[i].path,
                   digest |-> IF order[i].derived THEN "verified" ELSE "none"]
    BY <1>4 DEF NewEntry
  <2>3. CASE order[i].derived = TRUE
    BY <1>2, <2>1, <2>2, <2>3 DEF Entry
  <2>4. CASE order[i].derived = FALSE
    BY <1>2, <2>1, <2>2, <2>4 DEF Entry
  <2> QED
    BY <2>1, <2>3, <2>4
<1>6. arc' \in Seq(Entry) /\ DOMAIN arc' = 1..n
  <2>1. arc' \in [1..n -> Entry]
    BY <1>4, <1>5
  <2> QED
    BY <1>1, <2>1, SeqDef
<1>7. \A u \in Threads : ThreadOK(th[u])'
  BY <1>4, IdleOK DEF ThreadOK, Looking
<1>8. TypeOK'
  <2>1. th' \in [Threads -> ThreadState]
    BY <1>4, IdleOK
  <2>2. \A i, j \in entries' : arc'[i].key = arc'[j].key => i = j
    BY <1>0, <1>3, <1>4, <1>5 DEF FileOK
  <2>3. store' \in SUBSET Paths /\ disk' \in SUBSET Line
    BY <1>0, <1>4 DEF IInv, TypeOK
  <2> QED
    BY <1>4, <1>6, <1>7, <2>1, <2>2, <2>3 DEF TypeOK, ThreadOK, Looking
<1>9. ArcInv'
  <2>1. \A i \in 1..n : arc'[i].digest = "verified" => NarHashOf[arc'[i].path] = arc'[i].key
    BY <1>0, <1>5 DEF FileOK
  <2> QED
    BY <1>4, <1>5, <1>6, <2>1 DEF ArcInv
<1>10. CatalogInv'
  BY <1>4, <1>5 DEF CatalogInv
<1>11. FileOK(disk)' /\ AnswerOK' /\ HaveIsSupplied' /\ (restarts \in Nat)'
  BY <1>0, <1>4 DEF FileOK, AnswerOK, HaveIsSupplied, NoAnswer
<1>12. DiskInSync'
  <2> DEFINE L(i) == [key |-> arc'[i].key, path |-> arc'[i].path,
                      derived |-> arc'[i].digest = "verified"]
  <2>1. ASSUME NEW i \in 1..n PROVE L(i) = order[i]
    <3>1. L(i) = [key |-> order[i].key, path |-> order[i].path, derived |-> order[i].derived]
      BY <1>5, Zenon
    <3> QED
      BY <1>0, <1>5, <3>1
  <2>2. View(entries, arc)' = {L(i) : i \in 1..n}
    BY <1>4 DEF View
  <2> HIDE DEF L
  <2>3. {L(i) : i \in 1..n} = disk
    <3>1. \A i \in 1..n : L(i) \in disk
      BY <1>5, <2>1
    <3>2. \A r \in disk : \E i \in 1..n : L(i) = r
      BY <1>2, <2>1
    <3> QED
      BY <3>1, <3>2
  <2> QED
    BY <1>4, <2>2, <2>3 DEF DiskInSync
<1>13. StepOK
  BY <1>4 DEF StepOK, OnlyGoneDropped, SupplyKeptWithEntry
<1> QED
  BY <1>7, <1>8, <1>9, <1>10, <1>11, <1>12, <1>13 DEF IInv

-----------------------------------------------------------------------------
(* The inductive invariant, and what follows from it                        *)

LEMMA InitIInv == Init => IInv
<1> SUFFICES ASSUME Init PROVE IInv
  OBVIOUS
<1>1. arc \in Seq(Entry) /\ DOMAIN arc = {} /\ IsFiniteSet({})
  BY EmptySeq, FS_EmptySet DEF Init
<1>2. \A t \in Threads : th[t] = Idle /\ ThreadOK(th[t])
  BY IdleOK DEF Init
<1>3. TypeOK
  BY <1>1, <1>2, IdleOK DEF Init, TypeOK
<1>4. ArcInv /\ CatalogInv /\ FileOK(disk) /\ AnswerOK /\ HaveIsSupplied
  BY <1>1 DEF Init, ArcInv, CatalogInv, FileOK, AnswerOK, HaveIsSupplied, NoAnswer
<1>5. DiskInSync
  BY DEF Init, DiskInSync, View
<1> QED
  BY <1>2, <1>3, <1>4, <1>5 DEF IInv, Init

LEMMA NextIInv == ASSUME IInv, [Next]_vars PROVE IInv' /\ (vars' # vars => StepOK)
<1>1. ASSUME NEW t \in Threads, ThreadStep(t) PROVE IInv' /\ StepOK
  <2>1. ASSUME NEW saved \in BOOLEAN,
               RegisterVerified(t, saved) \/ Drop(t, saved) \/ Publish(t, saved)
        PROVE  IInv' /\ StepOK
    BY <2>1, RegisterVerifiedIInv, DropIInv, PublishIInv
  <2> QED
    BY <1>1, <2>1, UnlockedIInv, DumpOkIInv DEF ThreadStep
<1>2. ASSUME NEW k \in Keys, NEW p \in Paths, NEW saved \in BOOLEAN, Register(k, p, saved)
      PROVE  IInv' /\ StepOK
  BY <1>2, RegisterIInv
<1>3. ASSUME NEW k \in Keys, NEW saved \in BOOLEAN, Unregister(k, saved)
      PROVE  IInv' /\ StepOK
  BY <1>3, UnregisterIInv
<1>4. ASSUME NEW order \in Orders(disk), Restart(order) PROVE IInv' /\ StepOK
  BY <1>4, RestartIInv
<1>5. ASSUME NEW p \in Paths, Import(p) \/ Collect(p) PROVE IInv' /\ StepOK
  BY <1>5, ImportIInv, CollectIInv
<1>6. CASE UNCHANGED vars
  <2>1. TypeOK' /\ ArcInv' /\ \A u \in Threads : ThreadOK(th[u])'
    BY <1>6 DEF vars, IInv, TypeOK, ArcInv, ThreadOK
  <2>2. CatalogInv' /\ FileOK(disk)' /\ AnswerOK' /\ HaveIsSupplied' /\ (restarts \in Nat)'
    BY <1>6 DEF vars, IInv, CatalogInv, FileOK, AnswerOK, HaveIsSupplied
  <2>3. DiskInSync'
    BY <1>6 DEF vars, IInv, DiskInSync, View
  <2> QED
    BY <1>6, <2>1, <2>2, <2>3 DEF IInv
<1> QED
  BY <1>1, <1>2, <1>3, <1>4, <1>5, <1>6 DEF Next

(* The inductive invariant holds of every behaviour.                        *)
LEMMA SpecIInv == Spec => []IInv
<1>1. IInv /\ [Next]_vars => IInv'
  BY NextIInv
<1> QED
  BY <1>1, InitIInv, PTL DEF Spec

(* Entries, threads and file keep their shape, and the map never holds two  *)
(* entries of one key, restarts included.                                   *)
THEOREM TypeCorrect == Spec => []TypeOK
<1>1. IInv => TypeOK
  BY DEF IInv
<1> QED
  BY <1>1, SpecIInv, PTL

(* However slow a derivation, and whoever replaces, drops or prunes in the  *)
(* meantime, the serve path finds only records of entries that the map      *)
(* holds now and that dump to the NarHash they are registered for.          *)
THEOREM SupplySound == Spec => []SupplyIsSound
<1>1. IInv => SupplyIsSound
  <2> SUFFICES ASSUME IInv, NEW i \in catalog
               PROVE  i \in entries /\ arc[i].digest = "verified"
                      /\ NarHashOf[arc[i].path] = arc[i].key
    BY DEF SupplyIsSound
  <2>1. i \in entries /\ arc[i].digest = "verified" /\ i \in DOMAIN arc
    BY ArcTyped DEF IInv, CatalogInv
  <2> QED
    BY <2>1 DEF IInv, ArcInv
<1> QED
  BY <1>1, SpecIInv, PTL

(* An answered Have is backed by a supply, the file is the map unless a     *)
(* save failed or is owed, a prune drops only what was gone at some time,   *)
(* and what stays registered keeps its supply.                              *)
THEOREM Coherent == Spec => IndexIsCoherent
<1> DEFINE Step == TypeOK' /\ HaveIsSupplied' /\ DiskInSync' /\ OnlyGoneDropped
                   /\ SupplyKeptWithEntry
<1>1. IInv /\ [Next]_vars => [Step]_vars
  BY NextIInv DEF IInv, StepOK
<1>2. Spec => [][Step]_vars
  BY <1>1, SpecIInv, PTL DEF Spec
<1> QED
  BY <1>2 DEF IndexIsCoherent
=============================================================================
