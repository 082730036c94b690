-------------------------- MODULE PublicAllowlist --------------------------
(***************************************************************************)
(* The list of NARs proven public, and its append-only file                *)
(* (daemon-core/src/public_allowlist.rs).  Daemons that share a state      *)
(* directory append under a file lock; each step of an append may fail, a  *)
(* daemon may be killed between two steps, and the power may go: then what *)
(* was not synced, the name of a new file included, may be gone.           *)
(***************************************************************************)
EXTENDS Naturals, Sequences, SequencesExt, TLAPS

CONSTANTS Daemons, Nars,
          Provable,       \* NARs some trusted key has signed
          Readable,       \* whole lines within MAX_ALLOWLIST_FILE_BYTES
          PowerFails      \* the power may go

ASSUME AllowlistAssumption ==
    /\ Provable \subseteq Nars /\ Readable \in Nat /\ PowerFails \in BOOLEAN
    /\ "nobody" \notin Daemons /\ "corrupt" \notin Nars

VARIABLES
    up,         \* the daemons that run
    entries,    \* entries[d]: its list in memory
    appended,   \* appended[d]: what it has itself learned since it started
    op,         \* op[d]: its append under way: step, nar, existed
    lines,      \* the file: complete lines, NARs or "corrupt"
    torn,       \* it ends in a partial line
    exists,     \* there is a file of that name
    synced,     \* the lines known to be on disk
    named,      \* the name is known to be on disk
    lock,       \* who holds the exclusive lock
    overran     \* an append went past the byte bound (history)

allowlistVars ==
    <<up, entries, appended, op, lines, torn, exists, synced, named, lock, overran>>

Nobody == "nobody"
Corrupt == "corrupt"
NoAppend == [step |-> "idle"]

AllowlistTypeOK ==
    /\ up \subseteq Daemons /\ entries \in [Daemons -> SUBSET Nars]
    /\ appended \in [Daemons -> SUBSET Nars]
    /\ \A d \in Daemons : op[d].step \in {"idle", "open", "lock", "trim", "write", "sync",
                                          "name", "admit"}
    /\ lines \in Seq(Nars \cup {Corrupt}) /\ torn \in BOOLEAN /\ exists \in BOOLEAN
    /\ ToSet(synced) \subseteq Nars \cup {Corrupt} /\ named \in BOOLEAN
    /\ lock \in Daemons \cup {Nobody} /\ overran \in BOOLEAN

AllowlistInit ==
    /\ up = {} /\ entries = [d \in Daemons |-> {}]
    /\ appended = [d \in Daemons |-> {}] /\ op = [d \in Daemons |-> NoAppend]
    /\ lines = <<>> /\ torn = FALSE /\ exists = FALSE
    /\ synced = <<>> /\ named = FALSE /\ lock = Nobody
    /\ overran = FALSE

listFile == <<lines, torn, exists, synced, named, overran>>

(* The lines of the bytes an append reads, which stop at the byte bound.     *)
Committed == IF Len(lines) > Readable THEN SubSeq(lines, 1, Readable) ELSE lines

----------------------------------------------------------------------------
(* open: load under a shared lock.  A corrupt line and a file over the byte  *)
(* bound are refused; a partial last line is dropped.                        *)
OpenList(d) ==
    /\ d \notin up
    /\ lock = Nobody
    /\ Corrupt \notin ToSet(lines)
    /\ Len(lines) <= Readable
    /\ up' = up \cup {d}
    /\ entries' = [entries EXCEPT ![d] = ToSet(lines)]
    /\ UNCHANGED <<appended, op, lock, listFile>>

(* prove_public, and the correlation with the request. *)
Proves(nar, requested) == nar \in Provable /\ requested = nar

(* learn: the map's mutex is held until the append has ended. *)
Learn(d, nar, requested) ==
    /\ d \in up
    /\ op[d] = NoAppend
    /\ Proves(nar, requested)
    /\ nar \notin entries[d]
    /\ op' = [op EXCEPT ![d] = [step |-> "open", nar |-> nar, existed |-> exists]]
    /\ UNCHANGED <<up, entries, appended, lock, listFile>>

To(d, step) == op' = [op EXCEPT ![d].step = step]

(* PersistFailed, from any step: nothing is admitted. *)
AppendFails(d) ==
    /\ op[d].step \in {"open", "lock", "trim", "write", "sync", "name"}
    /\ op' = [op EXCEPT ![d] = NoAppend]
    /\ lock' = IF lock = d THEN Nobody ELSE lock
    /\ UNCHANGED <<up, entries, appended, listFile>>

(* open_strict creates the file. *)
OpenFile(d) ==
    /\ op[d].step = "open"
    /\ exists' = TRUE
    /\ To(d, "lock")
    /\ UNCHANGED <<up, entries, appended, lines, torn, synced, named, lock, overran>>

LockFile(d) ==
    /\ op[d].step = "lock"
    /\ lock = Nobody
    /\ lock' = d
    /\ To(d, "trim")
    /\ UNCHANGED <<up, entries, appended, listFile>>

(* Mutant of TrimTail: a partial line stays. *)
TrimTailNever(d, aligned) ==
    /\ op[d].step = "trim"
    /\ aligned => Len(lines) > Readable
    /\ To(d, "write")
    /\ UNCHANGED <<up, entries, appended, listFile, lock>>

(* The committed prefix is kept and the rest cut off, unless the byte bound  *)
(* falls on the end of a line: then nothing is torn in the bytes read, and   *)
(* what is past them stays until it is written over.                         *)
TrimTail(d, aligned) ==
    /\ op[d].step = "trim"
    /\ aligned => Len(lines) > Readable
    /\ lines' = IF aligned THEN lines ELSE Committed
    /\ torn' = FALSE
    /\ To(d, "write")
    /\ UNCHANGED <<up, entries, appended, exists, synced, named, lock, overran>>

(* The line is written at the end of the committed prefix, in part or whole. *)
(* What is left after it of a file past the bound is never read.             *)
WriteLine(d, whole) ==
    /\ op[d].step = "write"
    /\ torn' = ~whole
    /\ lines' = IF ~whole THEN lines
                ELSE Append(Committed, IF torn THEN Corrupt ELSE op[d].nar)
    /\ op' = [op EXCEPT ![d] = IF whole THEN [@ EXCEPT !.step = "sync"] ELSE NoAppend]
    /\ lock' = IF whole THEN lock ELSE Nobody
    /\ overran' = (overran \/ Len(lines') > Readable)
    /\ UNCHANGED <<up, entries, appended, exists, synced, named>>

(* sync_all, then the directory if the file was new. *)
SyncFile(d) ==
    /\ op[d].step = "sync"
    /\ synced' = lines
    /\ To(d, IF op[d].existed THEN "admit" ELSE "name")
    /\ UNCHANGED <<up, entries, appended, lines, torn, exists, named, lock, overran>>

SyncName(d) ==
    /\ op[d].step = "name"
    /\ named' = TRUE
    /\ To(d, "admit")
    /\ UNCHANGED <<up, entries, appended, lines, torn, exists, synced, lock, overran>>

(* The lock is released and the entry admitted. *)
Admit(d) ==
    /\ op[d].step = "admit"
    /\ lock' = Nobody
    /\ entries' = [entries EXCEPT ![d] = @ \cup {op[d].nar}]
    /\ appended' = [appended EXCEPT ![d] = @ \cup {op[d].nar}]
    /\ op' = [op EXCEPT ![d] = NoAppend]
    /\ UNCHANGED <<up, listFile>>

----------------------------------------------------------------------------
(* Faults (external) *)

(* The kernel drops the lock; a write may have been cut short. *)
KillDaemon(d) ==
    /\ d \in up
    /\ up' = up \ {d}
    /\ entries' = [entries EXCEPT ![d] = {}]
    /\ appended' = [appended EXCEPT ![d] = {}]
    /\ op' = [op EXCEPT ![d] = NoAppend]
    /\ lock' = IF lock = d THEN Nobody ELSE lock
    /\ torn' \in (IF op[d].step = "write" THEN {torn, TRUE} ELSE {torn})
    /\ UNCHANGED <<lines, exists, synced, named, overran>>

(* What was not synced may be on disk all the same, or a part of it. *)
PowerLoss ==
    /\ PowerFails
    /\ up # {}
    /\ up' = {}
    /\ entries' = [d \in Daemons |-> {}] /\ appended' = [d \in Daemons |-> {}]
    /\ op' = [d \in Daemons |-> NoAppend]
    /\ lock' = Nobody
    /\ \/ \E kept \in {lines, synced} \cup {p \in Prefixes(lines) : IsPrefix(synced, p)} :
            lines' = kept /\ exists' = exists /\ torn' \in {FALSE, torn \/ kept # lines}
       \/ ~named /\ lines' = <<>> /\ exists' = FALSE /\ torn' = FALSE
    /\ synced' = lines' /\ named' = exists'
    /\ overran' = (Len(lines') > Readable)

AllowlistNext ==
    \/ PowerLoss
    \/ \E d \in Daemons :
         \/ OpenList(d) \/ AppendFails(d) \/ OpenFile(d) \/ LockFile(d)
         \/ SyncFile(d) \/ SyncName(d) \/ Admit(d) \/ KillDaemon(d)
         \/ \E aligned \in BOOLEAN : TrimTail(d, aligned)
         \/ \E whole \in BOOLEAN : WriteLine(d, whole)
         \/ \E nar, requested \in Nars : Learn(d, nar, requested)

AllowlistSpec == AllowlistInit /\ [][AllowlistNext]_allowlistVars

----------------------------------------------------------------------------
(* approve: what a publisher may announce. *)
Approved(d) == IF d \in up THEN entries[d] ELSE {}

(* Only what a trusted key has signed is ever approved, and the file can     *)
(* always be loaded again, whatever append was torn, whoever appended next:  *)
(* no record is concatenated onto a partial line, so no committed line is    *)
(* corrupt.                                                                  *)
AllowlistIsSound ==
    /\ \A d \in Daemons : Approved(d) \subseteq Provable
    /\ Corrupt \notin ToSet(lines)
    /\ lock # Nobody => op[lock] # NoAppend

(* What a daemon holds in memory is in the file, and what it has learned     *)
(* itself was synced: no other append, whole or torn, takes it away, as long *)
(* as no append has gone past the byte bound.                                *)
AdmittedIsFlushed ==
    ~overran =>
        \A d \in up : /\ entries[d] \subseteq ToSet(lines)
                      /\ appended[d] \subseteq ToSet(synced)

(* However many daemons append to the list, fail, crash or lose power, it    *)
(* holds only what was proved public, every line a daemon reads back was     *)
(* written whole, and what a daemon admitted in memory was flushed first     *)
(* (AllowlistStore::append, PublicAllowlist::learn).                         *)
AllowlistIsKept == AllowlistTypeOK /\ AllowlistIsSound /\ AdmittedIsFlushed

----------------------------------------------------------------------------
(* Proof.  The invariant that carries it relates every append under way to   *)
(* the lock, the file and what is synced.                                    *)

(* What an append under way carries.                                        *)
Appends ==
    [step: {"open", "lock", "trim", "write", "sync", "name", "admit"},
     nar: Provable, existed: BOOLEAN]

Locked == {"trim", "write", "sync", "name", "admit"}

(* The running daemons hold and append only what is provable, and an append *)
(* past its lock is the holder's.                                           *)
HolderInv ==
    /\ up \subseteq Daemons
    /\ entries \in [Daemons -> SUBSET Provable]
    /\ appended \in [Daemons -> SUBSET Provable]
    /\ \A d \in Daemons \ up : appended[d] = {}
    /\ op \in [Daemons -> {NoAppend} \cup Appends]
    /\ lock \in Daemons \cup {Nobody}
    /\ \A d \in Daemons : lock = d <=> op[d].step \in Locked
    /\ \A d \in Daemons : op[d] # NoAppend => d \in up

(* The file holds only what is provable, and whoever is about to write has  *)
(* cut off the partial line.                                                *)
LinesInv ==
    /\ lines \in Seq(Provable) /\ synced \in Seq(Provable)
    /\ torn \in BOOLEAN /\ exists \in BOOLEAN /\ named \in BOOLEAN /\ overran \in BOOLEAN
    /\ \A d \in Daemons : op[d].step = "write" => ~torn

(* Within the bound nothing that was synced leaves the file; a line is in   *)
(* it from its write on, and synced before its name is admitted.            *)
FlushedInv ==
    ~overran =>
        /\ Len(lines) <= Readable
        /\ ToSet(synced) \subseteq ToSet(lines)
        /\ \A d \in up : /\ entries[d] \subseteq ToSet(lines)
                         /\ appended[d] \subseteq ToSet(synced)
        /\ \A d \in Daemons :
              /\ op[d].step = "sync" => op[d].nar \in ToSet(lines)
              /\ op[d].step \in {"name", "admit"} => op[d].nar \in ToSet(synced)

ListInv == HolderInv /\ LinesInv /\ FlushedInv

(* A partial sequence has its elements from the whole one.                  *)
LEMMA SomeLines ==
    ASSUME NEW S, NEW q \in Seq(S), NEW n \in 0..Len(q)
    PROVE  /\ SubSeq(q, 1, n) \in Seq(S)
           /\ Len(SubSeq(q, 1, n)) = n
OBVIOUS

(* An append adds its line to the others.                                   *)
LEMMA OneMoreLine ==
    ASSUME NEW S, NEW q \in Seq(S), NEW x \in S
    PROVE  /\ Append(q, x) \in Seq(S) /\ Len(Append(q, x)) = Len(q) + 1
           /\ ToSet(Append(q, x)) = ToSet(q) \cup {x}
<1>1. Append(q, x) \in Seq(S) /\ Len(Append(q, x)) = Len(q) + 1
  OBVIOUS
<1>2. /\ DOMAIN q = 1..Len(q) /\ DOMAIN Append(q, x) = 1..(Len(q) + 1) /\ Len(q) \in Nat
      /\ \A i \in 1..Len(q) : Append(q, x)[i] = q[i]
      /\ Append(q, x)[Len(q) + 1] = x
  OBVIOUS
<1>3. ToSet(Append(q, x)) = ToSet(q) \cup {x}
  <2> DEFINE e == Append(q, x)
  <2>1. \A i \in DOMAIN e : e[i] \in ToSet(q) \cup {x}
    BY <1>2 DEF ToSet
  <2>2. \A i \in DOMAIN q : q[i] \in ToSet(e)
    BY <1>2 DEF ToSet
  <2>3. x \in ToSet(e)
    BY <1>2 DEF ToSet
  <2>4. ToSet(e) = ToSet(q) \cup {x}
    <3> HIDE DEF e
    <3> QED
      BY <2>1, <2>2, <2>3, Zenon DEF ToSet
  <2> QED
    BY <2>4
<1> QED
  BY <1>1, <1>3

(* The committed prefix is a sequence of the same lines.                    *)
LEMMA CommittedLines ==
    ASSUME lines \in Seq(Provable)
    PROVE  /\ Committed \in Seq(Provable)
           /\ Len(lines) <= Readable => Committed = lines
           /\ Len(Committed) \in Nat
<1>1. CASE Len(lines) > Readable
  BY <1>1, SomeLines, AllowlistAssumption DEF Committed
<1>2. CASE ~(Len(lines) > Readable)
  BY <1>2, AllowlistAssumption DEF Committed
<1> QED
  BY <1>1, <1>2, AllowlistAssumption

(* The invariant gives the property.                                        *)
LEMMA ListInvKeeps == ListInv => AllowlistIsKept
<1> SUFFICES ASSUME ListInv PROVE AllowlistIsKept
  OBVIOUS
<1>1. /\ ToSet(lines) \subseteq Provable /\ ToSet(synced) \subseteq Provable
      /\ lines \in Seq(Nars \cup {Corrupt})
  BY AllowlistAssumption DEF ListInv, LinesInv, ToSet
<1>2. \A d \in Daemons : op[d].step \in {"idle", "open", "lock", "trim", "write", "sync",
                                          "name", "admit"}
  BY DEF ListInv, HolderInv, Appends, NoAppend
<1>3. AllowlistTypeOK
  <2>1. entries \in [Daemons -> SUBSET Nars] /\ appended \in [Daemons -> SUBSET Nars]
    BY AllowlistAssumption DEF ListInv, HolderInv
  <2> QED
    BY <1>1, <1>2, <2>1, AllowlistAssumption DEF AllowlistTypeOK, ListInv, HolderInv, LinesInv
<1>4. AllowlistIsSound
  <2>1. lock # Nobody => op[lock] # NoAppend
    BY DEF ListInv, HolderInv, Locked, NoAppend
  <2> QED
    BY <1>1, <2>1, AllowlistAssumption DEF AllowlistIsSound, Approved, ListInv, HolderInv, Corrupt
<1> QED
  BY <1>3, <1>4 DEF AllowlistIsKept, AdmittedIsFlushed, ListInv, FlushedInv

(* It holds of the empty list.                                              *)
LEMMA ListInitInv == AllowlistInit => ListInv
<1> SUFFICES ASSUME AllowlistInit PROVE ListInv
  OBVIOUS
<1>1. HolderInv
  BY AllowlistAssumption DEF AllowlistInit, HolderInv, NoAppend, Locked, Nobody
<1>2. LinesInv
  <2>1. \A d \in Daemons : op[d].step = "idle"
    BY DEF AllowlistInit, NoAppend
  <2>2. <<>> \in Seq(Provable)
    OBVIOUS
  <2> QED
    BY <2>1, <2>2, Zenon DEF AllowlistInit, LinesInv
<1>3. FlushedInv
  BY AllowlistAssumption DEF AllowlistInit, FlushedInv, NoAppend, ToSet
<1> QED
  BY <1>1, <1>2, <1>3 DEF ListInv

(* What op becomes when d's append is e and the others stay.                *)
LEMMA OpMoves ==
    ASSUME HolderInv, NEW d \in Daemons, NEW e \in {NoAppend} \cup Appends,
           op' = [op EXCEPT ![d] = e]
    PROVE  /\ op' \in [Daemons -> {NoAppend} \cup Appends] /\ op'[d] = e
           /\ \A c \in Daemons \ {d} : op'[c] = op[c]
BY DEF HolderInv

(* The next step of an append that is under way.                            *)
LEMMA NextStep ==
    ASSUME HolderInv, NEW d \in Daemons, op[d].step # "idle",
           NEW step \in {"open", "lock", "trim", "write", "sync", "name", "admit"}
    PROVE  /\ op[d] \in Appends /\ [op[d] EXCEPT !.step = step] \in Appends
           /\ [op[d] EXCEPT !.step = step].step = step
           /\ [op[d] EXCEPT !.step = step].nar = op[d].nar
           /\ d \in up
<1>1. op[d] \in Appends /\ op[d] # NoAppend
  BY DEF HolderInv, NoAppend, Appends
<1> QED
  BY <1>1 DEF Appends, HolderInv

(* Nothing of the append's and the daemon's but op and the lock change.     *)
LEMMA QuietStep ==
    ASSUME ListInv, NEW d \in Daemons, NEW e \in {NoAppend} \cup Appends,
           op' = [op EXCEPT ![d] = e],
           e # NoAppend => d \in up,
           lock' \in Daemons \cup {Nobody},
           lock' = d <=> e.step \in Locked,
           \A c \in Daemons \ {d} : lock' = c <=> lock = c,
           UNCHANGED <<up, entries, appended, lines, torn, synced, overran>>,
           exists' \in BOOLEAN, named' \in BOOLEAN,
           e.step = "write" => ~torn,
           ~overran => /\ e.step = "sync" => e.nar \in ToSet(lines)
                       /\ e.step \in {"name", "admit"} => e.nar \in ToSet(synced)
    PROVE  ListInv'
<1>1. /\ op' \in [Daemons -> {NoAppend} \cup Appends] /\ op'[d] = e
      /\ \A c \in Daemons \ {d} : op'[c] = op[c]
  BY OpMoves DEF ListInv
<1>2. HolderInv'
  <2>1. \A c \in Daemons : lock' = c <=> op'[c].step \in Locked
    BY <1>1 DEF ListInv, HolderInv
  <2>2. \A c \in Daemons : op'[c] # NoAppend => c \in up'
    BY <1>1 DEF ListInv, HolderInv
  <2> QED
    BY <1>1, <2>1, <2>2 DEF ListInv, HolderInv
<1>3. LinesInv'
  BY <1>1 DEF ListInv, LinesInv
<1>4. FlushedInv'
  BY <1>1 DEF ListInv, FlushedInv
<1> QED
  BY <1>2, <1>3, <1>4 DEF ListInv

(* A daemon starts with what the file holds.                                *)
LEMMA OpenListKept == ASSUME ListInv, NEW d \in Daemons, OpenList(d) PROVE ListInv'
<1>1. ToSet(lines) \subseteq Provable
  BY DEF ListInv, LinesInv, ToSet
<1>2. HolderInv'
  BY <1>1 DEF ListInv, HolderInv, OpenList, listFile
<1>3. LinesInv'
  BY DEF ListInv, LinesInv, OpenList, listFile
<1>4. FlushedInv'
  BY DEF ListInv, FlushedInv, HolderInv, OpenList, listFile
<1> QED
  BY <1>2, <1>3, <1>4 DEF ListInv

(* The steps that leave the lines, what is synced and the memory alone.     *)
LEMMA QuietKept ==
    ASSUME ListInv, NEW d \in Daemons,
           \/ \E nar, requested \in Nars : Learn(d, nar, requested)
           \/ AppendFails(d) \/ OpenFile(d) \/ LockFile(d) \/ SyncName(d)
    PROVE  ListInv'
<1>n. NoAppend.step = "idle" /\ Nobody \notin Daemons
  BY AllowlistAssumption DEF NoAppend, Nobody
<1>t. /\ lock \in Daemons \cup {Nobody} /\ exists \in BOOLEAN /\ named \in BOOLEAN
      /\ \A c \in Daemons : lock = c <=> op[c].step \in Locked
      /\ \A c \in Daemons : op[c] # NoAppend => c \in up
      /\ op \in [Daemons -> {NoAppend} \cup Appends]
  BY DEF ListInv, HolderInv, LinesInv
<1>1. ASSUME NEW nar \in Nars, NEW requested \in Nars, Learn(d, nar, requested)
      PROVE  ListInv'
  <2> DEFINE e == [step |-> "open", nar |-> nar, existed |-> exists]
  <2>1. e \in Appends /\ e.step = "open"
    BY <1>t, <1>1 DEF Learn, Proves, Appends
  <2>2. op[d].step = "idle"
    BY <1>n, <1>1 DEF Learn
  <2>3. /\ op' = [op EXCEPT ![d] = e] /\ d \in up
        /\ UNCHANGED <<up, entries, appended, lock, lines, torn, exists, synced, named, overran>>
    BY <1>1 DEF Learn, listFile
  <2> HIDE DEF e
  <2> QED
    BY <1>t, <2>1, <2>2, <2>3, QuietStep DEF Locked
<1>2. CASE AppendFails(d)
  <2>1. /\ op' = [op EXCEPT ![d] = NoAppend]
        /\ lock' = (IF lock = d THEN Nobody ELSE lock)
        /\ UNCHANGED <<up, entries, appended, lines, torn, exists, synced, named, overran>>
    BY <1>2 DEF AppendFails, listFile
  <2> QED
    BY <1>n, <1>t, <2>1, QuietStep DEF Locked
<1>3. ASSUME NEW step \in {"open", "lock", "trim", "write", "sync", "name", "admit"},
             op[d].step # "idle", To(d, step)
      PROVE  /\ op' = [op EXCEPT ![d] = [op[d] EXCEPT !.step = step]]
             /\ [op[d] EXCEPT !.step = step] \in Appends
             /\ [op[d] EXCEPT !.step = step].step = step
             /\ [op[d] EXCEPT !.step = step].nar = op[d].nar
             /\ d \in up
  BY <1>t, <1>3, NextStep DEF To, ListInv
<1>4. CASE OpenFile(d)
  <2> DEFINE e == [op[d] EXCEPT !.step = "lock"]
  <2>1. /\ op[d].step = "open" /\ exists' = TRUE /\ To(d, "lock")
        /\ UNCHANGED <<up, entries, appended, lines, torn, synced, named, lock, overran>>
    BY <1>4 DEF OpenFile
  <2>2. op' = [op EXCEPT ![d] = e] /\ e \in Appends /\ e.step = "lock" /\ d \in up
    BY <1>3, <2>1
  <2> HIDE DEF e
  <2> QED
    BY <1>t, <2>1, <2>2, QuietStep DEF Locked
<1>5. CASE LockFile(d)
  <2> DEFINE e == [op[d] EXCEPT !.step = "trim"]
  <2>1. /\ op[d].step = "lock" /\ lock = Nobody /\ lock' = d /\ To(d, "trim")
        /\ UNCHANGED <<up, entries, appended, lines, torn, exists, synced, named, overran>>
    BY <1>5 DEF LockFile, listFile
  <2>2. op' = [op EXCEPT ![d] = e] /\ e \in Appends /\ e.step = "trim" /\ d \in up
    BY <1>3, <2>1
  <2> HIDE DEF e
  <2> QED
    BY <1>n, <1>t, <2>1, <2>2, QuietStep DEF Locked
<1>6. CASE SyncName(d)
  <2> DEFINE e == [op[d] EXCEPT !.step = "admit"]
  <2>1. /\ op[d].step = "name" /\ named' = TRUE /\ To(d, "admit")
        /\ UNCHANGED <<up, entries, appended, lines, torn, exists, synced, lock, overran>>
    BY <1>6 DEF SyncName
  <2>2. /\ op' = [op EXCEPT ![d] = e] /\ e \in Appends /\ e.step = "admit" /\ d \in up
        /\ e.nar = op[d].nar
    BY <1>3, <2>1
  <2>3. ~overran => op[d].nar \in ToSet(synced)
    BY <2>1 DEF ListInv, FlushedInv
  <2> HIDE DEF e
  <2> QED
    BY <1>t, <2>1, <2>2, <2>3, QuietStep DEF Locked
<1> QED
  BY <1>1, <1>2, <1>4, <1>5, <1>6

(* Only the holder of the lock is past it.                                  *)
LEMMA OneHolder ==
    ASSUME HolderInv, NEW d \in Daemons, op[d].step \in Locked
    PROVE  lock = d /\ \A c \in Daemons \ {d} : op[c].step \notin Locked
BY DEF HolderInv

(* The partial line goes; whole lines go only past the bound.               *)
LEMMA TrimTailKept ==
    ASSUME ListInv, NEW d \in Daemons, NEW aligned \in BOOLEAN, TrimTail(d, aligned)
    PROVE  ListInv'
<1> DEFINE e == [op[d] EXCEPT !.step = "write"]
<1>1. /\ op[d].step = "trim" /\ op' = [op EXCEPT ![d] = e] /\ torn' = FALSE
      /\ lines' = (IF aligned THEN lines ELSE Committed)
      /\ UNCHANGED <<up, entries, appended, exists, synced, named, lock, overran>>
  BY DEF TrimTail, To, ListInv, HolderInv
<1>2. e \in Appends /\ e.step = "write" /\ d \in up
  BY <1>1, NextStep DEF ListInv
<1>3. /\ lines' \in Seq(Provable)
      /\ Len(lines) <= Readable => lines' = lines
  BY <1>1, CommittedLines DEF ListInv, LinesInv
<1> HIDE DEF e
<1>4. /\ op' \in [Daemons -> {NoAppend} \cup Appends] /\ op'[d] = e
      /\ \A c \in Daemons \ {d} : op'[c] = op[c]
  BY <1>1, <1>2, OpMoves DEF ListInv
<1>5. lock = d /\ \A c \in Daemons \ {d} : op[c].step \notin Locked
  BY <1>1, OneHolder DEF ListInv, Locked
<1>6. HolderInv'
  <2>1. \A c \in Daemons : lock' = c <=> op'[c].step \in Locked
    BY <1>1, <1>2, <1>4, <1>5 DEF ListInv, HolderInv, Locked
  <2> QED
    BY <1>1, <1>2, <1>4, <2>1 DEF ListInv, HolderInv
<1>7. LinesInv'
  BY <1>1, <1>3, Zenon DEF ListInv, LinesInv
<1>8. FlushedInv'
  <2> SUFFICES ASSUME ~overran PROVE FlushedInv'
    BY <1>1 DEF FlushedInv
  <2>1. lines' = lines
    BY <1>3 DEF ListInv, FlushedInv
  <2> QED
    BY <1>1, <1>2, <1>4, <2>1 DEF ListInv, FlushedInv
<1> QED
  BY <1>6, <1>7, <1>8 DEF ListInv

(* A line joins the others, or a part of it is left.                        *)
LEMMA WriteLineKept ==
    ASSUME ListInv, NEW d \in Daemons, NEW whole \in BOOLEAN, WriteLine(d, whole)
    PROVE  ListInv'
<1> DEFINE e == IF whole THEN [op[d] EXCEPT !.step = "sync"] ELSE NoAppend
<1>1. /\ op[d].step = "write" /\ op' = [op EXCEPT ![d] = e] /\ torn' = ~whole
      /\ lines' = (IF ~whole THEN lines
                   ELSE Append(Committed, IF torn THEN Corrupt ELSE op[d].nar))
      /\ lock' = (IF whole THEN lock ELSE Nobody)
      /\ overran' = (overran \/ Len(lines') > Readable)
      /\ UNCHANGED <<up, entries, appended, exists, synced, named>>
  BY DEF WriteLine, ListInv, HolderInv
<1>2. /\ op[d] \in Appends /\ d \in up
      /\ e \in {NoAppend} \cup Appends
      /\ whole => e.step = "sync" /\ e.nar = op[d].nar
      /\ ~whole => e.step = "idle"
  BY <1>1, NextStep DEF ListInv, NoAppend
<1>3. ~torn /\ op[d].nar \in Provable
  BY <1>1, <1>2 DEF ListInv, LinesInv, Appends
<1>4. /\ lines' \in Seq(Provable)
      /\ Len(lines) <= Readable /\ whole => ToSet(lines') = ToSet(lines) \cup {op[d].nar}
      /\ ~whole => lines' = lines
  <2>1. lines \in Seq(Provable) /\ Committed \in Seq(Provable)
        /\ (Len(lines) <= Readable => Committed = lines)
    BY CommittedLines DEF ListInv, LinesInv
  <2> QED
    BY <1>1, <1>3, <2>1, OneMoreLine
<1> HIDE DEF e
<1>5. /\ op' \in [Daemons -> {NoAppend} \cup Appends] /\ op'[d] = e
      /\ \A c \in Daemons \ {d} : op'[c] = op[c]
  BY <1>1, <1>2, OpMoves DEF ListInv
<1>6. lock = d /\ \A c \in Daemons \ {d} : op[c].step \notin Locked
  BY <1>1, OneHolder DEF ListInv, Locked
<1>7. HolderInv'
  <2>1. \A c \in Daemons : lock' = c <=> op'[c].step \in Locked
    BY <1>1, <1>2, <1>5, <1>6, AllowlistAssumption DEF ListInv, HolderInv, Locked, Nobody
  <2> QED
    BY <1>1, <1>2, <1>5, <2>1 DEF ListInv, HolderInv
<1>8. LinesInv'
  <2>1. \A c \in Daemons : op'[c].step # "write"
    BY <1>2, <1>5, <1>6 DEF Locked
  <2> QED
    BY <1>1, <1>4, <2>1 DEF ListInv, LinesInv
<1>9. FlushedInv'
  <2> SUFFICES ASSUME ~overran' PROVE FlushedInv'
    BY DEF FlushedInv
  <2>1. /\ ~overran /\ Len(lines') <= Readable
    <3>1. Len(lines') \in Nat
      BY <1>4
    <3>2. ~overran /\ ~(Len(lines') > Readable)
      BY <1>1, Zenon
    <3> QED
      BY <3>1, <3>2, AllowlistAssumption
  <2>2. Len(lines) <= Readable /\ ToSet(lines) \subseteq ToSet(lines')
    BY <1>4, <2>1 DEF ListInv, FlushedInv
  <2>3. \A c \in Daemons :
              /\ op'[c].step = "sync" => op'[c].nar \in ToSet(lines')
              /\ op'[c].step \in {"name", "admit"} => op'[c].nar \in ToSet(synced)
    BY <1>2, <1>4, <1>5, <1>6, <2>2 DEF Locked
  <2> QED
    BY <1>1, <2>1, <2>2, <2>3 DEF ListInv, FlushedInv
<1> QED
  BY <1>7, <1>8, <1>9 DEF ListInv

(* What the file holds is what is synced.                                   *)
LEMMA SyncFileKept == ASSUME ListInv, NEW d \in Daemons, SyncFile(d) PROVE ListInv'
<1> DEFINE next == IF op[d].existed THEN "admit" ELSE "name"
           e == [op[d] EXCEPT !.step = next]
<1>0. next \in {"name", "admit"}
  OBVIOUS
<1>1. /\ op[d].step = "sync" /\ op' = [op EXCEPT ![d] = e] /\ synced' = lines
      /\ UNCHANGED <<up, entries, appended, lines, torn, exists, named, lock, overran>>
  BY DEF SyncFile, To, ListInv, HolderInv
<1> HIDE DEF next
<1>2. e \in Appends /\ e.step = next /\ e.nar = op[d].nar /\ d \in up
  BY <1>0, <1>1, NextStep DEF ListInv
<1> HIDE DEF e
<1>3. /\ op' \in [Daemons -> {NoAppend} \cup Appends] /\ op'[d] = e
      /\ \A c \in Daemons \ {d} : op'[c] = op[c]
  BY <1>1, <1>2, OpMoves DEF ListInv
<1>4. lock = d /\ \A c \in Daemons \ {d} : op[c].step \notin Locked
  BY <1>1, OneHolder DEF ListInv, Locked
<1>5. HolderInv'
  <2>1. \A c \in Daemons : lock' = c <=> op'[c].step \in Locked
    BY <1>0, <1>1, <1>2, <1>3, <1>4 DEF ListInv, HolderInv, Locked
  <2> QED
    BY <1>1, <1>2, <1>3, <2>1 DEF ListInv, HolderInv
<1>6. LinesInv'
  <2>1. \A c \in Daemons : op'[c].step # "write"
    BY <1>0, <1>2, <1>3, <1>4 DEF Locked
  <2> QED
    BY <1>1, <2>1 DEF ListInv, LinesInv
<1>7. FlushedInv'
  <2> SUFFICES ASSUME ~overran PROVE FlushedInv'
    BY <1>1 DEF FlushedInv
  <2>1. \A c \in Daemons :
              /\ op'[c].step = "sync" => op'[c].nar \in ToSet(lines')
              /\ op'[c].step \in {"name", "admit"} => op'[c].nar \in ToSet(synced')
    BY <1>0, <1>1, <1>2, <1>3, <1>4 DEF Locked, ListInv, FlushedInv
  <2> QED
    BY <1>1, <2>1 DEF ListInv, FlushedInv
<1> QED
  BY <1>5, <1>6, <1>7 DEF ListInv

(* What is admitted has been synced.                                        *)
LEMMA ListAdmitKept == ASSUME ListInv, NEW d \in Daemons, Admit(d) PROVE ListInv'
<1> DEFINE n == op[d].nar
<1>1. /\ op[d].step = "admit" /\ op' = [op EXCEPT ![d] = NoAppend] /\ lock' = Nobody
      /\ entries' = [entries EXCEPT ![d] = @ \cup {n}]
      /\ appended' = [appended EXCEPT ![d] = @ \cup {n}]
      /\ UNCHANGED <<up, lines, torn, exists, synced, named, overran>>
  BY DEF Admit, listFile
<1>2. op[d] \in Appends /\ d \in up /\ n \in Provable
  BY <1>1, NextStep DEF ListInv, Appends
<1>3. /\ op' \in [Daemons -> {NoAppend} \cup Appends] /\ op'[d] = NoAppend
      /\ \A c \in Daemons \ {d} : op'[c] = op[c]
  BY <1>1, OpMoves DEF ListInv
<1>4. lock = d /\ \A c \in Daemons \ {d} : op[c].step \notin Locked
  BY <1>1, OneHolder DEF ListInv, Locked
<1>5. ~overran => n \in ToSet(synced)
  BY <1>1 DEF ListInv, FlushedInv
<1> HIDE DEF n
<1>6. /\ entries' \in [Daemons -> SUBSET Provable] /\ appended' \in [Daemons -> SUBSET Provable]
      /\ entries'[d] = entries[d] \cup {n} /\ appended'[d] = appended[d] \cup {n}
      /\ \A c \in Daemons \ {d} : entries'[c] = entries[c] /\ appended'[c] = appended[c]
  BY <1>1, <1>2 DEF ListInv, HolderInv
<1>7. HolderInv'
  <2>1. \A c \in Daemons : lock' = c <=> op'[c].step \in Locked
    BY <1>1, <1>3, <1>4, AllowlistAssumption DEF Locked, Nobody, NoAppend
  <2>2. \A c \in Daemons \ up : appended'[c] = {}
    BY <1>2, <1>6 DEF ListInv, HolderInv
  <2> QED
    BY <1>1, <1>2, <1>3, <1>6, <2>1, <2>2 DEF ListInv, HolderInv
<1>8. LinesInv'
  BY <1>1, <1>3 DEF ListInv, LinesInv, NoAppend
<1>9. FlushedInv'
  <2> SUFFICES ASSUME ~overran PROVE FlushedInv'
    BY <1>1 DEF FlushedInv
  <2>1. \A c \in up : /\ entries'[c] \subseteq ToSet(lines)
                      /\ appended'[c] \subseteq ToSet(synced)
    BY <1>5, <1>6 DEF ListInv, FlushedInv, HolderInv
  <2> QED
    BY <1>1, <1>3, <2>1 DEF ListInv, FlushedInv, NoAppend
<1> QED
  BY <1>7, <1>8, <1>9 DEF ListInv

(* A killed daemon leaves at most a partial line.                           *)
LEMMA KillDaemonKept == ASSUME ListInv, NEW d \in Daemons, KillDaemon(d) PROVE ListInv'
<1>1. /\ op' = [op EXCEPT ![d] = NoAppend]
      /\ lock' = (IF lock = d THEN Nobody ELSE lock)
      /\ up' = up \ {d}
      /\ entries' = [entries EXCEPT ![d] = {}] /\ appended' = [appended EXCEPT ![d] = {}]
      /\ torn' \in (IF op[d].step = "write" THEN {torn, TRUE} ELSE {torn})
      /\ UNCHANGED <<lines, exists, synced, named, overran>>
  BY DEF KillDaemon
<1>2. /\ op' \in [Daemons -> {NoAppend} \cup Appends] /\ op'[d] = NoAppend
      /\ \A c \in Daemons \ {d} : op'[c] = op[c]
  BY <1>1, OpMoves DEF ListInv
<1>3. /\ entries' \in [Daemons -> SUBSET Provable] /\ appended' \in [Daemons -> SUBSET Provable]
      /\ appended'[d] = {}
      /\ \A c \in Daemons \ {d} : entries'[c] = entries[c] /\ appended'[c] = appended[c]
  BY <1>1 DEF ListInv, HolderInv
<1>4. HolderInv'
  <2>1. \A c \in Daemons : lock' = c <=> op'[c].step \in Locked
    BY <1>1, <1>2, AllowlistAssumption DEF ListInv, HolderInv, Locked, Nobody, NoAppend
  <2>2. /\ \A c \in Daemons \ up' : appended'[c] = {}
        /\ \A c \in Daemons : op'[c] # NoAppend => c \in up'
    BY <1>1, <1>2, <1>3 DEF ListInv, HolderInv
  <2> QED
    BY <1>1, <1>2, <1>3, <2>1, <2>2 DEF ListInv, HolderInv
<1>5. LinesInv'
  <2>1. torn' \in BOOLEAN
    BY <1>1 DEF ListInv, LinesInv
  <2>2. ASSUME NEW c \in Daemons, op'[c].step = "write" PROVE ~torn'
    <3>1. c # d /\ op[c].step = "write"
      BY <1>2, <2>2 DEF NoAppend
    <3>2. op[d].step # "write"
      BY <3>1, OneHolder DEF ListInv, Locked
    <3> QED
      BY <1>1, <3>1, <3>2 DEF ListInv, LinesInv
  <2> QED
    BY <1>1, <2>1, <2>2 DEF ListInv, LinesInv
<1>6. FlushedInv'
  BY <1>1, <1>2, <1>3 DEF ListInv, FlushedInv, HolderInv, NoAppend
<1> QED
  BY <1>4, <1>5, <1>6 DEF ListInv

(* After a power loss nobody remembers anything, and the file is whole      *)
(* lines.                                                                   *)
LEMMA PowerLossKept == ASSUME ListInv, PowerLoss PROVE ListInv'
<1>1. /\ up' = {} /\ entries' = [d \in Daemons |-> {}] /\ appended' = [d \in Daemons |-> {}]
      /\ op' = [d \in Daemons |-> NoAppend] /\ lock' = Nobody
      /\ synced' = lines' /\ named' = exists' /\ overran' = (Len(lines') > Readable)
  BY DEF PowerLoss
<1>2. lines' \in Seq(Provable) /\ torn' \in BOOLEAN /\ exists' \in BOOLEAN
  <2>1. CASE lines' = <<>> /\ exists' = FALSE /\ torn' = FALSE
    <3>1. <<>> \in Seq(Provable)
      OBVIOUS
    <3> QED
      BY <2>1, <3>1, Zenon
  <2>2. ASSUME NEW kept \in {lines, synced} \cup {p \in Prefixes(lines) : IsPrefix(synced, p)},
               lines' = kept, exists' = exists, torn' \in {FALSE, torn \/ kept # lines}
        PROVE  lines' \in Seq(Provable) /\ torn' \in BOOLEAN /\ exists' \in BOOLEAN
    <3>1. ASSUME NEW p \in Prefixes(lines) PROVE p \in Seq(Provable)
      BY <3>1, SomeLines DEF Prefixes, ListInv, LinesInv
    <3> QED
      BY <2>2, <3>1 DEF ListInv, LinesInv
  <2> QED
    BY <2>1, <2>2 DEF PowerLoss
<1>3. HolderInv'
  BY <1>1, AllowlistAssumption DEF HolderInv, NoAppend, Locked, Nobody
<1>4. LinesInv'
  <2>1. \A d \in Daemons : op'[d].step # "write"
    BY <1>1 DEF NoAppend
  <2> QED
    BY <1>1, <1>2, <2>1 DEF LinesInv
<1>5. FlushedInv'
  <2>1. \A d \in Daemons : op'[d].step = "idle"
    BY <1>1 DEF NoAppend
  <2>2. Len(lines') \in Nat
    BY <1>2
  <2>3. ~overran' => Len(lines') <= Readable
    <3>1. ~(Len(lines') > Readable) => Len(lines') <= Readable
      BY <2>2, AllowlistAssumption
    <3> QED
      BY <1>1, <3>1, Zenon
  <2>4. \A d \in Daemons : op'[d].step \notin {"sync", "name", "admit"}
    BY <2>1
  <2> QED
    BY <1>1, <2>3, <2>4, Zenon DEF FlushedInv
<1> QED
  BY <1>3, <1>4, <1>5 DEF ListInv

(* The list is kept for any number of daemons and NARs and any byte bound:   *)
(* only what was proved public is held or approved, the file can be read     *)
(* back after every crash, and what a daemon admitted was flushed and stays  *)
(* in the file until an append goes past the bound.                          *)
THEOREM AllowlistAlwaysKept == AllowlistSpec => []AllowlistIsKept
<1>1. ASSUME ListInv, [AllowlistNext]_allowlistVars PROVE ListInv'
  <2>1. CASE UNCHANGED allowlistVars
    BY <1>1, <2>1 DEF allowlistVars, ListInv, HolderInv, LinesInv, FlushedInv
  <2>2. CASE AllowlistNext
    BY <1>1, <2>2, PowerLossKept, OpenListKept, QuietKept, TrimTailKept, WriteLineKept,
       SyncFileKept, ListAdmitKept, KillDaemonKept DEF AllowlistNext
  <2> QED
    BY <1>1, <2>1, <2>2
<1> QED
  BY <1>1, ListInitInv, ListInvKeeps, PTL DEF AllowlistSpec
=============================================================================
