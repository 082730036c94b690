---------------------------- MODULE ServingProofs ----------------------------
(***************************************************************************)
(* The serve gate implements bounded counters, and what it serves is paid  *)
(* for, for any streams, gates, budgets, sizes, bodies and clock readings. *)
(***************************************************************************)
EXTENDS Serving, FiniteSetTheorems, TLAPS

-----------------------------------------------------------------------------
(* Units: n of them for each stream, of which stream s has h[s]             *)

UnitsOf(h, n) == {u \in Streams \X (1..n) : u[2] <= h[u[1]]}

LEMMA UnitsFinite ==
    ASSUME NEW n \in Nat, NEW h \in [Streams -> Nat]
    PROVE  IsFiniteSet(UnitsOf(h, n)) /\ Cardinality(UnitsOf(h, n)) \in Nat
<1>1. IsFiniteSet(1..n)
  BY FS_Interval
<1>2. IsFiniteSet(Streams \X (1..n))
  BY Zenon, <1>1, FS_Product, ServingAssumption
<1>3. UnitsOf(h, n) \in SUBSET (Streams \X (1..n))
  BY DEF UnitsOf
<1>4. IsFiniteSet(UnitsOf(h, n))
  BY <1>2, <1>3, FS_Subset
<1> QED
  BY <1>4, FS_CardinalityType

(* A stream that has no unit takes k of them.                               *)
LEMMA UnitsTaken ==
    ASSUME NEW n \in Nat, NEW h \in [Streams -> Nat], NEW g \in [Streams -> Nat],
           NEW s \in Streams, NEW k \in 0..n,
           h[s] = 0, g[s] = k, \A r \in Streams \ {s} : g[r] = h[r]
    PROVE  Cardinality(UnitsOf(g, n)) = Cardinality(UnitsOf(h, n)) + k
<1> DEFINE new == {s} \X (1..k)
<1>1. UnitsOf(g, n) = UnitsOf(h, n) \cup new
  <2>1. ASSUME NEW u \in Streams \X (1..n)
        PROVE  u \in UnitsOf(g, n) <=> u \in UnitsOf(h, n) \cup new
    <3>1. PICK r \in Streams, i \in 1..n : u = <<r, i>>
      BY <2>1
    <3>2. u[1] = r /\ u[2] = i
      BY <3>1
    <3>3. u \in new <=> r = s /\ i <= k
      BY <3>1
    <3>4. u \in UnitsOf(g, n) <=> i <= g[r]
      BY <2>1, <3>2 DEF UnitsOf
    <3>5. u \in UnitsOf(h, n) <=> i <= h[r]
      BY <2>1, <3>2 DEF UnitsOf
    <3> QED
      BY <3>3, <3>4, <3>5
  <2>2. new \subseteq Streams \X (1..n)
    OBVIOUS
  <2> QED
    BY <2>1, <2>2 DEF UnitsOf
<1>2. UnitsOf(h, n) \cap new = {}
  <2> SUFFICES ASSUME NEW u \in UnitsOf(h, n), u \in new
               PROVE  FALSE
    OBVIOUS
  <2>1. u[1] = s /\ u[2] \in 1..k
    OBVIOUS
  <2> QED
    BY <2>1 DEF UnitsOf
<1>3. IsFiniteSet({s}) /\ Cardinality({s}) = 1
  BY FS_Singleton
<1>4. IsFiniteSet(1..k) /\ Cardinality(1..k) = k
  <2>1. 1 \in Int /\ k \in Int /\ k >= 0
    OBVIOUS
  <2>2. IsFiniteSet(1..k) /\ Cardinality(1..k) = IF 1 > k THEN 0 ELSE k - 1 + 1
    BY <2>1, FS_Interval
  <2> QED
    BY <2>1, <2>2
<1>5. IsFiniteSet(new) /\ Cardinality(new) = Cardinality({s}) * Cardinality(1..k)
  BY <1>3, <1>4, FS_Product
<1>6. IsFiniteSet(new) /\ Cardinality(new) = k
  BY <1>3, <1>4, <1>5
<1>7. IsFiniteSet(UnitsOf(h, n)) /\ Cardinality(UnitsOf(h, n)) \in Nat
  BY UnitsFinite
<1>8. Cardinality(UnitsOf(h, n) \cup new)
        = Cardinality(UnitsOf(h, n)) + Cardinality(new) - Cardinality(UnitsOf(h, n) \cap new)
  BY <1>6, <1>7, FS_Union
<1>9. Cardinality(UnitsOf(h, n) \cap new) = 0
  BY <1>2, FS_EmptySet
<1> HIDE DEF new
<1> QED
  BY <1>1, <1>6, <1>7, <1>8, <1>9

(* A stream gives its units back; it had them.                              *)
LEMMA UnitsGiven ==
    ASSUME NEW n \in Nat, NEW h \in [Streams -> Nat], NEW g \in [Streams -> Nat],
           NEW s \in Streams, h[s] <= n,
           g[s] = 0, \A r \in Streams \ {s} : g[r] = h[r]
    PROVE  /\ Cardinality(UnitsOf(g, n)) = Cardinality(UnitsOf(h, n)) - h[s]
           /\ h[s] <= Cardinality(UnitsOf(h, n))
<1>1. h[s] \in 0..n
  OBVIOUS
<1>2. Cardinality(UnitsOf(h, n)) = Cardinality(UnitsOf(g, n)) + h[s]
  BY <1>1, UnitsTaken
<1>3. Cardinality(UnitsOf(g, n)) \in Nat /\ Cardinality(UnitsOf(h, n)) \in Nat
  BY UnitsFinite
<1> QED
  BY <1>1, <1>2, <1>3

-----------------------------------------------------------------------------
(* The inductive invariant                                                  *)

Places == Before \cup Exchange \cup After \cup {"respond"}

Stream == [at : Places, gate : Gates \cup {None}, permit : BOOLEAN, seen : Nat,
           kind : {"none", "memory", "process"}, size : Nat, reserved : Nat,
           bao : BOOLEAN, cancel : BOOLEAN, declined : BOOLEAN, paid : Nat,
           wrote : Nat, tail : BOOLEAN]

Window == [start : Nat, bytes : Nat, dumps : Int]

TypeInv ==
    /\ st \in [Streams -> Stream]
    /\ serves \in Nat /\ inflight \in [Gates -> Nat]
    /\ gate \in [Gates -> {"new", "serving", "stopped", "gone"}]
    /\ slot \in Gates \cup {None}
    /\ budget \in Budgets
    /\ time \in 0..budget.horizon
    /\ upload \in Window
    /\ proc \in [ServeJobs -> {"idle", "accepted", "running", "gone"}]
    /\ charged \in [ServeJobs -> BOOLEAN]
    /\ ticket \in [ServeJobs -> {"open", "reaped", "lost"}]

(* What a stream holds at each place of its life.                           *)
StageInv(s) ==
    /\ st[s].at \in {"idle", "drop", "done"} => st[s].gate = None
    /\ st[s].at \in {"idle", "count", "done"} => ~st[s].permit
    /\ st[s].at \in Before \cup {"drop", "done"} => st[s].reserved = 0
    /\ st[s].at \in Exchange \cup {"cancelling"} => st[s].reserved > 0
    /\ st[s].at \in {"admit", "reserve"} => st[s].size > 0
    /\ st[s].at = "reserve" => st[s].gate # None
    /\ st[s].reserved > 0 => st[s].gate # None
    /\ budget.serves > 0 /\ st[s].gate # None /\ st[s].at # "count" => st[s].permit

Settled(j) == proc[j] = "idle" \/ ticket[j] # "open"

(* Where a stream's dumps stand: none before its pass, and none that is not *)
(* settled once its stream has gone on, but for an expired reap tail.       *)
DumpInv(s) ==
    /\ st[s].at \in Before \cup {"respond", "wait1"} => proc[<<s, 1>>] = "idle"
    /\ st[s].at \in Before \cup {"respond", "wait1", "pass1", "busy", "wait2"} =>
          proc[<<s, 2>>] = "idle"
    /\ st[s].kind # "process" /\ st[s].at \notin {"drop", "done"} =>
          proc[<<s, 1>>] = "idle" /\ proc[<<s, 2>>] = "idle"
    /\ st[s].at \in {"busy", "wait2", "pass2", "closing"} => Settled(<<s, 1>>)
    /\ st[s].at = "closing" => Settled(<<s, 2>>)
    /\ st[s].at \in {"return", "drop", "done"} =>
          st[s].tail \/ (Settled(<<s, 1>>) /\ Settled(<<s, 2>>))
    /\ \A pass \in Passes : ticket[<<s, pass>>] = "reaped" => proc[<<s, pass>>] = "gone"

(* What a stream has paid, and what its dumps have by that.                 *)
PaidInv(s) ==
    /\ st[s].paid \in {0, Dumps}
    /\ charged[<<s, 1>>] <=> st[s].paid = Dumps
    /\ proc[<<s, 1>>] \in {"idle", "accepted"} => st[s].paid = 0
    /\ proc[<<s, 1>>] = "running" => st[s].paid = Dumps
    /\ proc[<<s, 2>>] # "idle" => st[s].paid = Dumps
    /\ st[s].at = "wait2" /\ st[s].kind = "process" => st[s].paid = Dumps
    /\ st[s].declined => proc[<<s, 1>>] = "gone" /\ st[s].paid = 0

StreamInv(s) == StageInv(s) /\ DumpInv(s) /\ PaidInv(s)

(* A counter is the number of units that are held, and within its limit.    *)
CountInv ==
    \A c \in Counters :
        /\ TotalOf[c] = Cardinality(UnitsOf(HeldBy[c], LimitOf[c]))
        /\ TotalOf[c] <= LimitOf[c]
        /\ \A s \in Streams : HeldBy[c][s] <= LimitOf[c]

(* The octets that the admitted streams may still write.                    *)
Sending(s) == st[s].at \in {"reserve"} \cup Exchange

Unsent == {u \in Streams \X (1..Octets) : Sending(u[1]) /\ u[2] > st[u[1]].wrote}

(* The window and what may still be written to it: what is unsent was       *)
(* admitted below the cap.                                                  *)
UploadInv ==
    budget.serves > 0 =>
        upload.bytes + Cardinality(Unsent) < UploadCap + budget.serves * Octets

IInv ==
    /\ TypeInv
    /\ \A s \in Streams : StreamInv(s)
    /\ CountInv
    /\ UploadInv

(* A step of the abstract counters, or none.                                *)
Counted == UNCHANGED <<HeldBy, TotalOf, LimitOf>> \/ Ceilings!CounterNext

-----------------------------------------------------------------------------
(* The counters                                                             *)

LEMMA CountTypes ==
    ASSUME TypeInv
    PROVE  /\ HeldBy \in [Counters -> [Streams -> Nat]]
           /\ TotalOf \in [Counters -> Nat]
           /\ LimitOf \in [Counters -> Nat]
<1>1. \A s \in Streams : st[s].permit \in BOOLEAN /\ st[s].reserved \in Nat
  BY DEF TypeInv, Stream
<1>2. budget.serves \in Nat /\ budget.inflight \in Nat
  BY ServingAssumption DEF TypeInv
<1>3. \A c \in Counters : c # "serves" => c \in Gates
  BY DEF Counters
<1> QED
  BY <1>1, <1>2, <1>3 DEF TypeInv, HeldBy, TotalOf, LimitOf

(* The cardinality that BoundedCounters counts with is the one used here.   *)
LEMMA CardinalityIsOne ==
    \A S : Ceilings!Cardinality(S) = Cardinality(S)
  BY Zenon DEF Ceilings!Cardinality, Cardinality

LEMMA CountSame ==
    ASSUME CountInv, UNCHANGED <<HeldBy, TotalOf, LimitOf>>
    PROVE  CountInv' /\ Counted
  BY DEF CountInv, Counted, UnitsOf

LEMMA HeldExcept ==
    ASSUME NEW c \in Counters, NEW s \in Streams, NEW k,
           \A d \in Counters, r \in Streams :
               HeldBy'[d][r] = IF d = c /\ r = s THEN k ELSE HeldBy[d][r]
    PROVE  HeldBy' = [HeldBy EXCEPT ![c][s] = k]
<1>1. /\ HeldBy = [d \in Counters |-> HeldBy[d]]
      /\ HeldBy' = [d \in Counters |-> HeldBy'[d]]
  BY DEF HeldBy
<1>2. \A d \in Counters : /\ HeldBy[d] = [r \in Streams |-> HeldBy[d][r]]
                          /\ HeldBy'[d] = [r \in Streams |-> HeldBy'[d][r]]
  BY DEF HeldBy
<1>3. HeldBy'[c] = [HeldBy[c] EXCEPT ![s] = k]
  BY Zenon, <1>2
<1>4. \A d \in Counters \ {c} : HeldBy'[d] = HeldBy[d]
  BY Zenon, <1>2
<1> QED
  BY <1>1, <1>3, <1>4

LEMMA CountTake ==
    ASSUME TypeInv, CountInv, NEW c \in Counters, NEW s \in Streams, NEW k \in Nat \ {0},
           HeldBy[c][s] = 0, TotalOf[c] + k <= LimitOf[c],
           HeldBy' = [HeldBy EXCEPT ![c][s] = k],
           TotalOf' = [TotalOf EXCEPT ![c] = @ + k],
           LimitOf' = LimitOf
    PROVE  CountInv' /\ Counted
<1>1. /\ HeldBy \in [Counters -> [Streams -> Nat]]
      /\ TotalOf \in [Counters -> Nat] /\ LimitOf \in [Counters -> Nat]
  BY CountTypes
<1>2. TotalOf[c] = Cardinality(UnitsOf(HeldBy[c], LimitOf[c]))
  BY DEF CountInv
<1>3. /\ HeldBy'[c] \in [Streams -> Nat] /\ HeldBy'[c][s] = k
      /\ \A r \in Streams \ {s} : HeldBy'[c][r] = HeldBy[c][r]
      /\ TotalOf'[c] = TotalOf[c] + k
  BY <1>1
<1>4. Cardinality(UnitsOf(HeldBy'[c], LimitOf[c]))
        = Cardinality(UnitsOf(HeldBy[c], LimitOf[c])) + k
  <2>1. k \in 0..LimitOf[c] /\ HeldBy[c] \in [Streams -> Nat] /\ LimitOf[c] \in Nat
    BY <1>1
  <2> QED
    BY <1>3, <2>1, UnitsTaken
<1>5. \A d \in Counters \ {c} : HeldBy'[d] = HeldBy[d] /\ TotalOf'[d] = TotalOf[d]
  BY <1>1
<1>6. ASSUME NEW d \in Counters
      PROVE  /\ TotalOf'[d] = Cardinality(UnitsOf(HeldBy'[d], LimitOf'[d]))
             /\ TotalOf'[d] <= LimitOf'[d]
             /\ \A r \in Streams : HeldBy'[d][r] <= LimitOf'[d]
  <2>1. CASE d = c
    <3>1. \A r \in Streams : HeldBy[c][r] <= LimitOf[c]
      BY DEF CountInv
    <3>2. k <= LimitOf[c]
      BY <1>1
    <3> QED
      BY <1>1, <1>2, <1>3, <1>4, <2>1, <3>1, <3>2
  <2>2. CASE d # c
    BY <1>5, <2>2 DEF CountInv
  <2> QED
    BY <2>1, <2>2
<1>7. CountInv'
  BY Zenon, <1>6 DEF CountInv, UnitsOf
<1>8. Ceilings!Take(c, s)
  <2>1. Ceilings!HeldOf(c) = Cardinality(UnitsOf(HeldBy[c], LimitOf[c]))
    BY CardinalityIsOne, Zenon DEF Ceilings!HeldOf, UnitsOf
  <2>2. TotalOf'[c] - TotalOf[c] = k
    BY <1>1, <1>3
  <2>3. /\ TotalOf'[c] - TotalOf[c] > 0
        /\ HeldBy[c][s] = 0
        /\ Ceilings!HeldOf(c) + (TotalOf'[c] - TotalOf[c]) <= LimitOf[c]
        /\ HeldBy' = [HeldBy EXCEPT ![c][s] = TotalOf'[c] - TotalOf[c]]
        /\ TotalOf' = [TotalOf EXCEPT ![c] = @ + (TotalOf'[c] - TotalOf[c])]
        /\ LimitOf' = LimitOf
    <3>1. k > 0 /\ Ceilings!HeldOf(c) + k <= LimitOf[c]
      BY <1>1, <1>2, <2>1
    <3> QED
      BY Zenon, <2>2, <3>1
  <2> QED
    BY Zenon, <2>3 DEF Ceilings!Take
<1> QED
  BY <1>7, <1>8 DEF Counted, Ceilings!CounterNext

LEMMA CountGiveBack ==
    ASSUME TypeInv, CountInv, NEW c \in Counters, NEW s \in Streams,
           HeldBy[c][s] > 0,
           HeldBy' = [HeldBy EXCEPT ![c][s] = 0],
           TotalOf' = [TotalOf EXCEPT ![c] = @ - HeldBy[c][s]],
           LimitOf' = LimitOf
    PROVE  CountInv' /\ Counted
<1>1. /\ HeldBy \in [Counters -> [Streams -> Nat]]
      /\ TotalOf \in [Counters -> Nat] /\ LimitOf \in [Counters -> Nat]
  BY CountTypes
<1>2. /\ TotalOf[c] = Cardinality(UnitsOf(HeldBy[c], LimitOf[c]))
      /\ TotalOf[c] <= LimitOf[c]
      /\ \A r \in Streams : HeldBy[c][r] <= LimitOf[c]
  BY DEF CountInv
<1>3. /\ HeldBy'[c] \in [Streams -> Nat] /\ HeldBy'[c][s] = 0
      /\ \A r \in Streams \ {s} : HeldBy'[c][r] = HeldBy[c][r]
      /\ TotalOf'[c] = TotalOf[c] - HeldBy[c][s]
  BY <1>1
<1>4. Cardinality(UnitsOf(HeldBy'[c], LimitOf[c]))
        = Cardinality(UnitsOf(HeldBy[c], LimitOf[c])) - HeldBy[c][s]
  <2>1. HeldBy[c] \in [Streams -> Nat] /\ LimitOf[c] \in Nat /\ HeldBy[c][s] <= LimitOf[c]
    BY <1>1, <1>2
  <2> QED
    BY <1>3, <2>1, UnitsGiven
<1>5. \A d \in Counters \ {c} : HeldBy'[d] = HeldBy[d] /\ TotalOf'[d] = TotalOf[d]
  BY <1>1
<1>6. ASSUME NEW d \in Counters
      PROVE  /\ TotalOf'[d] = Cardinality(UnitsOf(HeldBy'[d], LimitOf'[d]))
             /\ TotalOf'[d] <= LimitOf'[d]
             /\ \A r \in Streams : HeldBy'[d][r] <= LimitOf'[d]
  <2>1. CASE d = c
    BY <1>1, <1>2, <1>3, <1>4, <2>1
  <2>2. CASE d # c
    BY <1>5, <2>2 DEF CountInv
  <2> QED
    BY <2>1, <2>2
<1>7. CountInv'
  BY Zenon, <1>6 DEF CountInv, UnitsOf
<1>8. Ceilings!GiveBack(c, s)
  <2>1. TotalOf'[c] < TotalOf[c]
    BY <1>1, <1>3
  <2> QED
    BY <2>1 DEF Ceilings!GiveBack
<1> QED
  BY <1>7, <1>8 DEF Counted, Ceilings!CounterNext

-----------------------------------------------------------------------------
(* Frames                                                                   *)

(* The dumps of a stream are as they were.                                  *)
SameDumps(r) ==
    \A pass \in Passes : /\ proc'[<<r, pass>>] = proc[<<r, pass>>]
                         /\ charged'[<<r, pass>>] = charged[<<r, pass>>]
                         /\ ticket'[<<r, pass>>] = ticket[<<r, pass>>]

LEMMA OtherStream ==
    ASSUME NEW r \in Streams, StreamInv(r), budget' = budget, st'[r] = st[r], SameDumps(r)
    PROVE  StreamInv(r)'
<1>1. /\ proc'[<<r, 1>>] = proc[<<r, 1>>] /\ proc'[<<r, 2>>] = proc[<<r, 2>>]
      /\ charged'[<<r, 1>>] = charged[<<r, 1>>]
      /\ ticket'[<<r, 1>>] = ticket[<<r, 1>>] /\ ticket'[<<r, 2>>] = ticket[<<r, 2>>]
  BY DEF SameDumps, Passes
<1>2. StageInv(r)'
  BY DEF StreamInv, StageInv
<1>3. DumpInv(r)'
  BY <1>1 DEF StreamInv, DumpInv, Settled, Passes
<1>4. PaidInv(r)'
  BY <1>1 DEF StreamInv, PaidInv
<1> QED
  BY <1>2, <1>3, <1>4 DEF StreamInv

LEMMA CountUntouched ==
    ASSUME TypeInv, CountInv, budget' = budget, serves' = serves, inflight' = inflight,
           \A r \in Streams : /\ st'[r].permit = st[r].permit
                              /\ st'[r].reserved = st[r].reserved
                              /\ st'[r].gate = st[r].gate \/ st[r].reserved = 0
    PROVE  CountInv' /\ Counted
<1>1. HeldBy' = HeldBy
  BY DEF HeldBy
<1>2. TotalOf' = TotalOf /\ LimitOf' = LimitOf
  BY DEF TotalOf, LimitOf
<1> QED
  BY <1>1, <1>2, CountSame

LEMMA UnsentFinite ==
    /\ IsFiniteSet(Unsent) /\ Cardinality(Unsent) \in Nat
    /\ IsFiniteSet(Unsent') /\ Cardinality(Unsent') \in Nat
<1>1. IsFiniteSet(1..Octets)
  BY FS_Interval, ServingAssumption
<1>2. IsFiniteSet(Streams \X (1..Octets))
  BY <1>1, FS_Product, ServingAssumption
<1>3. /\ Unsent \in SUBSET (Streams \X (1..Octets))
      /\ Unsent' \in SUBSET (Streams \X (1..Octets))
  BY DEF Unsent
<1>4. IsFiniteSet(Unsent) /\ IsFiniteSet(Unsent')
  BY <1>2, <1>3, FS_Subset
<1> QED
  BY <1>4, FS_CardinalityType

LEMMA UploadKept ==
    ASSUME TypeInv, TypeInv', UploadInv, budget' = budget, upload'.bytes <= upload.bytes,
           \A r \in Streams : Sending(r)' => Sending(r) /\ st'[r].wrote >= st[r].wrote
    PROVE  UploadInv'
<1>1. \A r \in Streams : st[r].wrote \in Nat /\ st'[r].wrote \in Nat
  BY DEF TypeInv, Stream
<1>2. Unsent' \in SUBSET Unsent
  <2> SUFFICES ASSUME NEW u \in Unsent'
               PROVE  u \in Unsent
    OBVIOUS
  <2>1. u \in Streams \X (1..Octets) /\ Sending(u[1])' /\ u[2] > st'[u[1]].wrote
    BY DEF Unsent
  <2>2. u[1] \in Streams /\ u[2] \in Int
    BY <2>1, ServingAssumption
  <2>3. Sending(u[1]) /\ st'[u[1]].wrote >= st[u[1]].wrote
    BY <2>1, <2>2 DEF Sending
  <2>4. u[2] > st[u[1]].wrote
    BY <1>1, <2>1, <2>2, <2>3
  <2> QED
    BY <2>1, <2>3, <2>4 DEF Unsent
<1>3. Cardinality(Unsent') <= Cardinality(Unsent)
  BY <1>2, UnsentFinite, FS_Subset
<1>4. Cardinality(Unsent) \in Nat /\ Cardinality(Unsent') \in Nat
  BY UnsentFinite
<1>5. upload.bytes \in Nat /\ upload'.bytes \in Nat
  BY DEF TypeInv, Window
<1>6. budget.serves \in Nat /\ UploadCap \in Nat /\ Octets \in Nat
  BY ServingAssumption, LedgerAssumption DEF TypeInv
<1>7. budget.serves * Octets \in Nat
  BY <1>6
<1> QED
  BY <1>3, <1>4, <1>5, <1>6, <1>7 DEF UploadInv

(* A step of one stream that takes and gives back nothing, and writes       *)
(* nothing to the wire.                                                     *)
LEMMA QuietStep ==
    ASSUME IInv, NEW s \in Streams, TypeInv', StreamInv(s)',
           \A r \in Streams \ {s} : st'[r] = st[r] /\ SameDumps(r),
           st'[s].permit = st[s].permit, st'[s].reserved = st[s].reserved,
           st'[s].gate = st[s].gate \/ st[s].reserved = 0,
           st'[s].wrote = st[s].wrote, Sending(s)' => Sending(s),
           UNCHANGED <<serves, inflight, upload, budget>>
    PROVE  IInv' /\ Counted
<1>1. TypeInv /\ CountInv /\ UploadInv /\ \A r \in Streams : StreamInv(r)
  BY DEF IInv
<1>2. \A r \in Streams : StreamInv(r)'
  BY <1>1, OtherStream
<1>3. CountInv' /\ Counted
  BY <1>1, CountUntouched
<1>4. UploadInv'
  <2>1. upload.bytes \in Nat /\ \A r \in Streams : st[r].wrote \in Nat
    BY <1>1 DEF TypeInv, Window, Stream
  <2>2. \A r \in Streams : Sending(r)' => Sending(r) /\ st'[r].wrote >= st[r].wrote
    BY <2>1 DEF Sending
  <2>3. upload'.bytes <= upload.bytes
    BY <2>1
  <2> QED
    BY <1>1, <2>2, <2>3, UploadKept
<1> QED
  BY <1>2, <1>3, <1>4 DEF IInv

-----------------------------------------------------------------------------
(* The steps that only move a stream                                        *)

(* What a step sets in its stream's record: its place, and any of the       *)
(* fields that no counter reads.                                            *)
LEMMA GotoFrame ==
    ASSUME TypeInv, NEW s \in Streams, NEW to \in Places, Goto(s, to)
    PROVE  /\ st' \in [Streams -> Stream]
           /\ st'[s] = [st[s] EXCEPT !.at = to]
           /\ \A r \in Streams \ {s} : st'[r] = st[r]
<1>1. st \in [Streams -> Stream] /\ st[s] \in Stream
  BY DEF TypeInv
<1>2. [st[s] EXCEPT !.at = to] \in Stream
  BY <1>1 DEF Stream
<1> QED
  BY <1>1, <1>2 DEF Goto

LEMMA DumpsUntouched ==
    ASSUME UNCHANGED dumpVars
    PROVE  \A r \in Streams : SameDumps(r)
  BY DEF SameDumps, dumpVars

(* The same, from what the step makes of the stream's record.               *)
LEMMA QuietMove ==
    ASSUME IInv, NEW s \in Streams, NEW v \in Stream, st' = [st EXCEPT ![s] = v],
           v.permit = st[s].permit, v.reserved = st[s].reserved,
           v.gate = st[s].gate \/ st[s].reserved = 0, v.wrote = st[s].wrote,
           v.at \in {"reserve"} \cup Exchange => Sending(s),
           UNCHANGED <<serves, inflight, gate, slot, budget, time, upload, dumpVars>>,
           StreamInv(s)'
    PROVE  IInv' /\ Counted
<1>1. TypeInv
  BY DEF IInv
<1>2. /\ st' \in [Streams -> Stream] /\ st'[s] = v
      /\ \A r \in Streams \ {s} : st'[r] = st[r]
  BY <1>1 DEF TypeInv
<1>3. TypeInv'
  BY <1>1, <1>2 DEF TypeInv, dumpVars
<1>4. \A r \in Streams \ {s} : st'[r] = st[r] /\ SameDumps(r)
  BY <1>2, DumpsUntouched
<1>5. Sending(s)' => Sending(s)
  BY <1>2 DEF Sending
<1> QED
  BY <1>2, <1>3, <1>4, <1>5, QuietStep

(* RequestEnds, Respond, CloseServed, CancelDone                            *)
LEMMA ReturnIInv ==
    ASSUME IInv, NEW s \in Streams,
           RequestEnds(s) \/ Respond(s) \/ CloseServed(s) \/ CancelDone(s)
    PROVE  IInv' /\ Counted
<1>1. TypeInv /\ StreamInv(s)
  BY DEF IInv
<1>2. /\ st[s].at \in {"request", "respond", "busy", "closing", "cancelling"}
      /\ st[s].at = "cancelling" => Reaped(s)
      /\ Goto(s, "return")
      /\ UNCHANGED <<serves, inflight, gate, slot, budget, time, upload, dumpVars>>
  BY DEF RequestEnds, Respond, CloseServed, CancelDone, acceptRest, exchangeRest, shared
<1>3. /\ st' \in [Streams -> Stream]
      /\ st'[s] = [st[s] EXCEPT !.at = "return"]
      /\ \A r \in Streams \ {s} : st'[r] = st[r]
  BY <1>1, <1>2, GotoFrame DEF Places, After
<1>4. TypeInv'
  BY <1>1, <1>2, <1>3 DEF TypeInv, dumpVars
<1>5. st[s] \in Stream /\ st'[s].at = "return"
  BY <1>1, <1>3 DEF TypeInv, Stream
<1>6. StageInv(s)'
  BY <1>1, <1>2, <1>3, <1>5 DEF StreamInv, StageInv, Stream, Before, Exchange
<1>7. DumpInv(s)'
  BY <1>1, <1>2, <1>3, <1>5
     DEF StreamInv, DumpInv, Stream, Settled, Reaped, Passes, Before, Exchange, dumpVars
<1>8. PaidInv(s)'
  BY <1>1, <1>2, <1>3, <1>5 DEF StreamInv, PaidInv, Stream, dumpVars
<1>9. ~Sending(s)'
  BY <1>5 DEF Sending, Exchange
<1> QED
  <2>1. \A r \in Streams \ {s} : st'[r] = st[r] /\ SameDumps(r)
    BY <1>2, <1>3, DumpsUntouched
  <2>2. /\ st'[s].permit = st[s].permit /\ st'[s].reserved = st[s].reserved
        /\ st'[s].gate = st[s].gate /\ st'[s].wrote = st[s].wrote
    BY <1>3, <1>5 DEF Stream
  <2>3. StreamInv(s)'
    BY <1>6, <1>7, <1>8 DEF StreamInv
  <2> QED
    BY <1>2, <1>4, <1>9, <2>1, <2>2, <2>3, QuietStep

(* Accept1: the gate and the counter are read; nothing is held yet.         *)
LEMMA Accept1IInv ==
    ASSUME IInv, NEW s \in Streams, Accept1(s)
    PROVE  IInv' /\ Counted
<1>1. TypeInv /\ StreamInv(s) /\ st \in [Streams -> Stream] /\ st[s] \in Stream
  BY DEF IInv, TypeInv
<1>2. /\ st[s].at = "idle"
      /\ UNCHANGED <<serves, inflight, gate, slot, budget, time, upload, dumpVars>>
  BY DEF Accept1, acceptRest, shared
<1>3. PICK v \in Stream :
         /\ st' = [st EXCEPT ![s] = v]
         /\ \/ v = [st[s] EXCEPT !.at = "done"]
            \/ /\ slot = None \/ budget.serves = 0
               /\ v = [st[s] EXCEPT !.at = "request", !.gate = slot]
            \/ v = [st[s] EXCEPT !.at = "count", !.gate = slot, !.seen = serves]
  <2>1. CASE Goto(s, "done")
    <3>1. [st[s] EXCEPT !.at = "done"] \in Stream
      BY <1>1 DEF Stream, Places, After
    <3> QED
      BY Zenon, <1>1, <2>1, <3>1 DEF Goto
  <2>2. CASE /\ slot = None \/ budget.serves = 0
             /\ st' = [st EXCEPT ![s].at = "request", ![s].gate = slot]
    <3>1. [st[s] EXCEPT !.at = "request", !.gate = slot] \in Stream
      BY Zenon, <1>1 DEF Stream, Places, Before, TypeInv
    <3> QED
      BY Zenon, <1>1, <2>2, <3>1
  <2>3. CASE st' = [st EXCEPT ![s].at = "count", ![s].gate = slot, ![s].seen = serves]
    <3>1. [st[s] EXCEPT !.at = "count", !.gate = slot, !.seen = serves] \in Stream
      BY Zenon, <1>1 DEF Stream, Places, Before, TypeInv
    <3> QED
      BY Zenon, <1>1, <2>3, <3>1
  <2> QED
    BY <2>1, <2>2, <2>3 DEF Accept1
<1>4. /\ v.at \in {"done", "request", "count"}
      /\ v.permit = st[s].permit /\ v.reserved = st[s].reserved /\ v.wrote = st[s].wrote
      /\ v.kind = st[s].kind /\ v.paid = st[s].paid /\ v.declined = st[s].declined
      /\ v.tail = st[s].tail
      /\ v.at = "done" => v.gate = st[s].gate
      /\ v.at = "request" => v.gate = None \/ budget.serves = 0
  <2>1. CASE v = [st[s] EXCEPT !.at = "done"]
    BY <1>1, <2>1 DEF Stream
  <2>2. CASE /\ slot = None \/ budget.serves = 0
             /\ v = [st[s] EXCEPT !.at = "request", !.gate = slot]
    BY <1>1, <2>2 DEF Stream
  <2>3. CASE v = [st[s] EXCEPT !.at = "count", !.gate = slot, !.seen = serves]
    BY <1>1, <2>3 DEF Stream
  <2> QED
    BY <1>3, <2>1, <2>2, <2>3
<1>5. st'[s] = v
  BY <1>1, <1>3
<1>6. StageInv(s)'
  BY <1>1, <1>2, <1>4, <1>5 DEF StreamInv, StageInv, Stream, Before, Exchange
<1>7. DumpInv(s)'
  BY <1>1, <1>2, <1>4, <1>5
     DEF StreamInv, DumpInv, Settled, Passes, Before, Exchange, dumpVars
<1>8. PaidInv(s)'
  BY <1>1, <1>2, <1>4, <1>5 DEF StreamInv, PaidInv, dumpVars
<1>9. st[s].reserved = 0
  BY <1>1, <1>2 DEF StreamInv, StageInv, Before
<1> QED
  BY Zenon, <1>2, <1>3, <1>4, <1>6, <1>7, <1>8, <1>9, QuietMove DEF StreamInv, Exchange

(* AcquireServeCount: the loop gives up, takes the permit or tries again.   *)
LEMMA AcquireServeCountIInv ==
    ASSUME IInv, NEW s \in Streams, AcquireServeCount(s)
    PROVE  IInv' /\ Counted
<1>1. TypeInv /\ StreamInv(s) /\ st \in [Streams -> Stream] /\ st[s] \in Stream
  BY DEF IInv, TypeInv
<1>2. /\ st[s].at = "count"
      /\ UNCHANGED <<inflight, gate, slot, budget, time, upload, dumpVars>>
  BY DEF AcquireServeCount, acceptRest, shared
<1>3. st[s].reserved = 0 /\ ~st[s].permit
  BY <1>1, <1>2 DEF StreamInv, StageInv, Before
<1>4. budget.serves \in Nat /\ serves \in Nat /\ st[s].seen \in Nat
  BY <1>1, ServingAssumption DEF TypeInv, Stream
<1>5. CASE /\ st' = [st EXCEPT ![s].at = "done", ![s].gate = None, ![s].seen = 0]
           /\ serves' = serves
  <2> DEFINE v == [st[s] EXCEPT !.at = "done", !.gate = None, !.seen = 0]
  <2>1. v \in Stream
    BY Zenon, <1>1 DEF Stream, Places, After
  <2>2. st' = [st EXCEPT ![s] = v] /\ st'[s] = v
    BY Zenon, <1>1, <1>5
  <2>3. /\ v.at = "done" /\ v.gate = None
        /\ v.permit = st[s].permit /\ v.reserved = st[s].reserved /\ v.wrote = st[s].wrote
        /\ v.kind = st[s].kind /\ v.paid = st[s].paid /\ v.declined = st[s].declined
        /\ v.tail = st[s].tail
    BY <1>1 DEF Stream
  <2> HIDE DEF v
  <2>4. StageInv(s)'
    BY <1>1, <1>2, <1>3, <2>2, <2>3 DEF StreamInv, StageInv, Before, Exchange
  <2>5. DumpInv(s)'
    BY <1>1, <1>2, <2>2, <2>3
       DEF StreamInv, DumpInv, Settled, Passes, Before, dumpVars
  <2>6. PaidInv(s)'
    BY <1>1, <1>2, <2>2, <2>3 DEF StreamInv, PaidInv, dumpVars
  <2> QED
    BY Zenon, <1>2, <1>3, <1>5, <2>1, <2>2, <2>3, <2>4, <2>5, <2>6, QuietMove DEF StreamInv, Exchange
<1>6. CASE /\ st' = [st EXCEPT ![s].seen = serves]
           /\ serves' = serves
  <2> DEFINE v == [st[s] EXCEPT !.seen = serves]
  <2>1. v \in Stream
    BY <1>1, <1>4 DEF Stream
  <2>2. st' = [st EXCEPT ![s] = v] /\ st'[s] = v
    BY <1>1, <1>6
  <2>3. /\ v.at = "count" /\ v.gate = st[s].gate
        /\ v.permit = st[s].permit /\ v.reserved = st[s].reserved /\ v.wrote = st[s].wrote
        /\ v.kind = st[s].kind /\ v.paid = st[s].paid /\ v.declined = st[s].declined
        /\ v.tail = st[s].tail
    BY <1>1, <1>2 DEF Stream
  <2> HIDE DEF v
  <2>4. StageInv(s)'
    BY <1>1, <1>2, <1>3, <2>2, <2>3 DEF StreamInv, StageInv, Before, Exchange
  <2>5. DumpInv(s)'
    BY <1>1, <1>2, <2>2, <2>3
       DEF StreamInv, DumpInv, Settled, Passes, Before, dumpVars
  <2>6. PaidInv(s)'
    BY <1>1, <1>2, <2>2, <2>3 DEF StreamInv, PaidInv, dumpVars
  <2> QED
    BY Zenon, <1>2, <1>3, <1>6, <2>1, <2>2, <2>3, <2>4, <2>5, <2>6, QuietMove DEF StreamInv, Exchange
<1>7. CASE /\ st[s].seen + 1 <= budget.serves /\ serves = st[s].seen
           /\ st' = [st EXCEPT ![s].at = "request", ![s].permit = TRUE, ![s].seen = 0]
           /\ serves' = serves + 1
  <2> DEFINE v == [st[s] EXCEPT !.at = "request", !.permit = TRUE, !.seen = 0]
  <2>1. v \in Stream
    BY Zenon, <1>1 DEF Stream, Places, Before
  <2>2. /\ st' = [st EXCEPT ![s] = v] /\ st'[s] = v /\ st' \in [Streams -> Stream]
        /\ \A r \in Streams \ {s} : st'[r] = st[r]
    BY Zenon, <1>1, <1>7, <2>1
  <2>3. /\ v.at = "request" /\ v.gate = st[s].gate /\ v.permit
        /\ v.reserved = st[s].reserved /\ v.wrote = st[s].wrote
        /\ v.kind = st[s].kind /\ v.paid = st[s].paid /\ v.declined = st[s].declined
        /\ v.tail = st[s].tail
    BY <1>1 DEF Stream
  <2> HIDE DEF v
  <2>4. StageInv(s)'
    BY Zenon, <1>1, <1>2, <1>3, <2>2, <2>3 DEF StreamInv, StageInv, Before, Exchange
  <2>5. DumpInv(s)'
    BY <1>1, <1>2, <2>2, <2>3
       DEF StreamInv, DumpInv, Settled, Passes, Before, dumpVars
  <2>6. PaidInv(s)'
    BY <1>1, <1>2, <2>2, <2>3 DEF StreamInv, PaidInv, dumpVars
  <2>7. TypeInv'
    BY <1>1, <1>2, <1>4, <1>7, <2>2 DEF TypeInv, dumpVars
  <2>8. \A r \in Streams : StreamInv(r)'
    <3>1. \A r \in Streams \ {s} : StreamInv(r) /\ SameDumps(r)
      BY <1>2, DumpsUntouched DEF IInv
    <3> QED
      BY <1>2, <2>2, <2>4, <2>5, <2>6, <3>1, OtherStream DEF StreamInv
  <2>9. CountInv' /\ Counted
    <3>1. "serves" \in Counters /\ HeldBy["serves"][s] = 0
      BY <1>3 DEF Counters, HeldBy
    <3>2. TotalOf["serves"] = serves /\ LimitOf["serves"] = budget.serves
      BY DEF Counters, TotalOf, LimitOf
    <3>3. HeldBy' = [HeldBy EXCEPT !["serves"][s] = 1]
      <4>1. ASSUME NEW c \in Counters, NEW r \in Streams
            PROVE  HeldBy'[c][r] = IF c = "serves" /\ r = s THEN 1 ELSE HeldBy[c][r]
        BY <1>3, <2>2, <2>3 DEF HeldBy
      <4> QED
        BY <3>1, <4>1, HeldExcept
    <3>4. TotalOf' = [TotalOf EXCEPT !["serves"] = @ + 1]
      BY Zenon, <1>2, <1>7 DEF TotalOf, Counters
    <3>5. LimitOf' = LimitOf
      BY <1>2 DEF LimitOf
    <3>6. TotalOf["serves"] + 1 <= LimitOf["serves"]
      BY <1>4, <1>7, <3>2
    <3>7. CountInv /\ 1 \in Nat \ {0}
      BY DEF IInv
    <3> QED
      BY Zenon, <1>1, <3>1, <3>3, <3>4, <3>5, <3>6, <3>7, CountTake
  <2>10. UploadInv'
    <3>1. \A r \in Streams : st[r].wrote \in Nat
      BY <1>1 DEF Stream
    <3>2. \A r \in Streams : Sending(r)' => Sending(r) /\ st'[r].wrote >= st[r].wrote
      BY <2>2, <2>3, <3>1 DEF Sending, Exchange
    <3>3. upload'.bytes <= upload.bytes
      BY <1>1, <1>2 DEF TypeInv, Window
    <3> QED
      BY <1>1, <1>2, <2>7, <3>2, <3>3, UploadKept DEF IInv
  <2> QED
    BY <2>7, <2>8, <2>9, <2>10 DEF IInv
<1> QED
  BY <1>4, <1>5, <1>6, <1>7 DEF AcquireServeCount

-----------------------------------------------------------------------------
(* Admission                                                                *)

LEMMA ReadRequestIInv ==
    ASSUME IInv, NEW s \in Streams, ReadRequest(s)
    PROVE  IInv' /\ Counted
<1>1. TypeInv /\ StreamInv(s) /\ st \in [Streams -> Stream] /\ st[s] \in Stream
  BY DEF IInv, TypeInv
<1>2. /\ st[s].at = "request"
      /\ UNCHANGED <<serves, inflight, gate, slot, budget, time, upload, dumpVars>>
  BY DEF ReadRequest, acceptRest, shared
<1>3. PICK kind \in {"none"} \cup budget.kinds, size \in Sizes :
         st' = [st EXCEPT ![s].at = "admit", ![s].kind = kind, ![s].size = size]
  BY Zenon DEF ReadRequest
<1>4. kind \in {"none", "memory", "process"} /\ size \in Nat /\ size > 0
  BY <1>1, ServingAssumption DEF TypeInv
<1> DEFINE v == [st[s] EXCEPT !.at = "admit", !.kind = kind, !.size = size]
<1>5. v \in Stream
  BY Zenon, <1>1, <1>4 DEF Stream, Places, Before
<1>6. st' = [st EXCEPT ![s] = v] /\ st'[s] = v
  BY Zenon, <1>1, <1>3
<1>7. /\ v.at = "admit" /\ v.gate = st[s].gate /\ v.size > 0
      /\ v.permit = st[s].permit /\ v.reserved = st[s].reserved /\ v.wrote = st[s].wrote
      /\ v.paid = st[s].paid /\ v.declined = st[s].declined /\ v.tail = st[s].tail
  BY <1>1, <1>4 DEF Stream
<1> HIDE DEF v
<1>8. StageInv(s)'
  BY <1>1, <1>2, <1>6, <1>7 DEF StreamInv, StageInv, Before, Exchange
<1>9. DumpInv(s)'
  BY <1>1, <1>2, <1>6, <1>7 DEF StreamInv, DumpInv, Settled, Passes, Before, dumpVars
<1>10. PaidInv(s)'
  BY <1>1, <1>2, <1>6, <1>7 DEF StreamInv, PaidInv, dumpVars
<1> QED
  BY Zenon, <1>2, <1>5, <1>6, <1>7, <1>8, <1>9, <1>10, QuietMove DEF StreamInv, Exchange

(* A reading rolls the upload window or leaves it.                          *)
LEMMA WindowOK ==
    ASSUME NEW w \in Window, NEW now \in Nat
    PROVE  /\ CurrentWindow(w, now) \in Window
           /\ CurrentWindow(w, now).bytes \in {0, w.bytes}
<1>1. OpenedAt(now) \in Window /\ OpenedAt(now).bytes = 0
  BY DEF OpenedAt, Window
<1> QED
  BY <1>1 DEF CurrentWindow, RollIfExpired

(* With a ceiling on serves, what is unsent is at most a body for each of   *)
(* the permits that are out.                                                *)
LEMMA UnsentBound ==
    ASSUME TypeInv', CountInv', \A s \in Streams : StageInv(s)', budget'.serves > 0
    PROVE  Cardinality(Unsent') <= budget'.serves * Octets
<1> DEFINE P == {s \in Streams : st'[s].permit}
<1>1. budget'.serves \in Nat /\ Octets \in Nat \ {0}
  BY ServingAssumption DEF TypeInv
<1>2. IsFiniteSet(P) /\ Cardinality(P) \in Nat
  <2>1. IsFiniteSet(P)
    BY FS_Subset, ServingAssumption
  <2> QED
    BY <2>1, FS_CardinalityType
<1>3. Unsent' \in SUBSET (P \X (1..Octets))
  <2> SUFFICES ASSUME NEW u \in Unsent'
               PROVE  u \in P \X (1..Octets)
    OBVIOUS
  <2>1. u \in Streams \X (1..Octets) /\ Sending(u[1])'
    BY DEF Unsent
  <2>2. PICK r \in Streams, i \in 1..Octets : u = <<r, i>>
    BY <2>1
  <2>3. u[1] = r
    BY <2>2
  <2>4. st'[r].at \in {"reserve"} \cup Exchange
    BY <2>1, <2>3 DEF Sending
  <2>5. st'[r].permit
    BY <2>4 DEF StageInv, Exchange
  <2> QED
    BY <2>2, <2>5
<1>4. IsFiniteSet(1..Octets) /\ Cardinality(1..Octets) = Octets
  <2>1. 1 \in Int /\ Octets \in Int /\ Octets >= 1
    BY <1>1
  <2>2. IsFiniteSet(1..Octets) /\ Cardinality(1..Octets) = IF 1 > Octets THEN 0 ELSE Octets - 1 + 1
    BY <2>1, FS_Interval
  <2> QED
    BY <2>1, <2>2
<1>5. IsFiniteSet(P \X (1..Octets)) /\ Cardinality(P \X (1..Octets)) = Cardinality(P) * Octets
  <2>1. /\ IsFiniteSet(P \X (1..Octets))
        /\ Cardinality(P \X (1..Octets)) = Cardinality(P) * Cardinality(1..Octets)
    BY Zenon, <1>2, <1>4, FS_Product
  <2> HIDE DEF P
  <2> QED
    BY <1>4, <2>1
<1>6. Cardinality(P) <= budget'.serves
  <2>1. "serves" \in Counters
    BY DEF Counters
  <2>2. LimitOf'["serves"] = budget'.serves
    BY <2>1 DEF LimitOf
  <2>3. \A r \in Streams : HeldBy'["serves"][r] = IF st'[r].permit THEN 1 ELSE 0
    BY <2>1 DEF HeldBy
  <2>4. Cardinality(UnitsOf(HeldBy'["serves"], budget'.serves)) <= budget'.serves
    BY <2>1, <2>2 DEF CountInv, UnitsOf
  <2>5. UnitsOf(HeldBy'["serves"], budget'.serves) = P \X {1}
    <3>1. ASSUME NEW u \in Streams \X (1..budget'.serves)
          PROVE  u \in UnitsOf(HeldBy'["serves"], budget'.serves) <=> u \in P \X {1}
      <4>1. PICK r \in Streams, i \in 1..budget'.serves : u = <<r, i>>
        BY <3>1
      <4>2. u[1] = r /\ u[2] = i
        BY <4>1
      <4>3. u \in UnitsOf(HeldBy'["serves"], budget'.serves) <=> i <= HeldBy'["serves"][r]
        BY <3>1, <4>2 DEF UnitsOf
      <4>4. u \in P \X {1} <=> st'[r].permit /\ i = 1
        BY <4>1
      <4>5. i \in Nat /\ i >= 1
        BY <1>1
      <4> QED
        BY <2>3, <4>3, <4>4, <4>5
    <3>2. P \X {1} \subseteq Streams \X (1..budget'.serves)
      BY <1>1
    <3> QED
      BY <3>1, <3>2 DEF UnitsOf
  <2>6. Cardinality(P \X {1}) = Cardinality(P) * Cardinality({1}) /\ Cardinality({1}) = 1
    BY Zenon, <1>2, FS_Product, FS_Singleton
  <2> HIDE DEF P
  <2> QED
    BY <1>2, <2>4, <2>5, <2>6
<1>7. Cardinality(Unsent') <= Cardinality(P) * Octets
  BY <1>3, <1>5, FS_Subset
<1>8. \A a, b, c \in Nat : a <= b => a * c <= b * c
  OBVIOUS
<1>9. Cardinality(P) * Octets <= budget'.serves * Octets
  BY <1>1, <1>2, <1>6, <1>8
<1>10. Cardinality(Unsent') \in Nat
  BY UnsentFinite
<1> HIDE DEF P
<1> QED
  BY <1>1, <1>2, <1>7, <1>9, <1>10

(* AdmitPlan: the answer is short, or the stream is admitted by a window    *)
(* that is below its cap.                                                   *)
LEMMA AdmitPlanIInv ==
    ASSUME IInv, NEW s \in Streams, AdmitPlan(s)
    PROVE  IInv' /\ Counted
<1>1. TypeInv /\ StreamInv(s) /\ st \in [Streams -> Stream] /\ st[s] \in Stream
  BY DEF IInv, TypeInv
<1>2. /\ st[s].at = "admit"
      /\ UNCHANGED <<serves, inflight, gate, slot, budget, time, dumpVars>>
  BY DEF AdmitPlan, shared
<1>3. PICK now \in Readings :
         \/ Goto(s, "respond") /\ upload' \in {upload, CurrentWindow(upload, now)}
         \/ /\ st[s].gate # None
            /\ upload' = CurrentWindow(upload, now) /\ AdmitUpload(upload, now)
            /\ st' = [st EXCEPT ![s].at = "reserve", ![s].seen = inflight[st[s].gate]]
  BY DEF AdmitPlan
<1>4. now \in Nat /\ upload \in Window
  BY <1>1, ServingAssumption DEF Readings, TypeInv
<1>5. /\ upload' \in Window /\ upload'.bytes \in Nat /\ upload'.bytes <= upload.bytes
      /\ upload.bytes \in Nat
  <2>1. CurrentWindow(upload, now) \in Window /\ CurrentWindow(upload, now).bytes \in {0, upload.bytes}
    BY <1>4, WindowOK
  <2>2. upload' \in {upload, CurrentWindow(upload, now)}
    BY <1>3
  <2>3. upload.bytes \in Nat
    BY <1>4 DEF Window
  <2> QED
    BY <1>4, <2>1, <2>2, <2>3
<1>6. PICK v \in Stream :
         /\ st' = [st EXCEPT ![s] = v]
         /\ v.permit = st[s].permit /\ v.reserved = st[s].reserved /\ v.wrote = st[s].wrote
         /\ v.gate = st[s].gate /\ v.kind = st[s].kind /\ v.size = st[s].size
         /\ v.paid = st[s].paid /\ v.declined = st[s].declined /\ v.tail = st[s].tail
         /\ \/ v.at = "respond"
            \/ v.at = "reserve" /\ st[s].gate # None /\ upload'.bytes < UploadCap
  <2>1. CASE Goto(s, "respond")
    <3> DEFINE v == [st[s] EXCEPT !.at = "respond"]
    <3>1. /\ v \in Stream /\ v.at = "respond"
          /\ v.permit = st[s].permit /\ v.reserved = st[s].reserved /\ v.wrote = st[s].wrote
          /\ v.gate = st[s].gate /\ v.kind = st[s].kind /\ v.size = st[s].size
          /\ v.paid = st[s].paid /\ v.declined = st[s].declined /\ v.tail = st[s].tail
      BY <1>1 DEF Stream, Places
    <3>2. st' = [st EXCEPT ![s] = v]
      BY <1>1, <2>1 DEF Goto
    <3> HIDE DEF v
    <3> QED
      BY Zenon, <3>1, <3>2
  <2>2. CASE /\ st[s].gate # None
             /\ upload' = CurrentWindow(upload, now) /\ AdmitUpload(upload, now)
             /\ st' = [st EXCEPT ![s].at = "reserve", ![s].seen = inflight[st[s].gate]]
    <3>1. st[s].gate \in Gates /\ inflight[st[s].gate] \in Nat
      BY <1>1, <2>2 DEF Stream, TypeInv
    <3> DEFINE v == [st[s] EXCEPT !.at = "reserve", !.seen = inflight[st[s].gate]]
    <3>2. /\ v \in Stream /\ v.at = "reserve"
          /\ v.permit = st[s].permit /\ v.reserved = st[s].reserved /\ v.wrote = st[s].wrote
          /\ v.gate = st[s].gate /\ v.kind = st[s].kind /\ v.size = st[s].size
          /\ v.paid = st[s].paid /\ v.declined = st[s].declined /\ v.tail = st[s].tail
      BY Zenon, <1>1, <3>1 DEF Stream, Places, Before
    <3>3. st' = [st EXCEPT ![s] = v]
      BY Zenon, <1>1, <2>2
    <3>4. upload'.bytes < UploadCap
      BY <2>2 DEF AdmitUpload
    <3> HIDE DEF v
    <3> QED
      BY Zenon, <2>2, <3>2, <3>3, <3>4
  <2> QED
    BY <1>3, <2>1, <2>2
<1>7. /\ st' \in [Streams -> Stream] /\ st'[s] = v
      /\ \A r \in Streams \ {s} : st'[r] = st[r]
  BY <1>1, <1>6
<1>8. TypeInv'
  BY <1>1, <1>2, <1>5, <1>7 DEF TypeInv, dumpVars
<1>9. StreamInv(s)'
  <2>1. StageInv(s)'
    BY Zenon, <1>1, <1>2, <1>6, <1>7 DEF StreamInv, StageInv, Before, Exchange
  <2>2. DumpInv(s)'
    BY Zenon, <1>1, <1>2, <1>6, <1>7 DEF StreamInv, DumpInv, Settled, Passes, Before, dumpVars
  <2>3. PaidInv(s)'
    BY Zenon, <1>1, <1>2, <1>6, <1>7 DEF StreamInv, PaidInv, dumpVars
  <2> QED
    BY <2>1, <2>2, <2>3 DEF StreamInv
<1>10. \A r \in Streams : StreamInv(r)'
  <2>1. \A r \in Streams \ {s} : StreamInv(r) /\ SameDumps(r)
    BY <1>2, DumpsUntouched DEF IInv
  <2> QED
    BY Zenon, <1>2, <1>7, <1>9, <2>1, OtherStream
<1>11. CountInv' /\ Counted
  <2>1. \A r \in Streams : /\ st'[r].permit = st[r].permit
                           /\ st'[r].reserved = st[r].reserved
                           /\ st'[r].gate = st[r].gate
    BY <1>6, <1>7
  <2> QED
    BY <1>1, <1>2, <2>1, CountUntouched DEF IInv
<1>12. UploadInv'
  <2>1. CASE v.at = "respond"
    <3>1. \A r \in Streams : st[r].wrote \in Nat
      BY <1>1 DEF Stream
    <3>2. \A r \in Streams : Sending(r)' => Sending(r) /\ st'[r].wrote >= st[r].wrote
      BY <1>7, <2>1, <3>1 DEF Sending, Exchange
    <3> QED
      BY <1>1, <1>2, <1>5, <1>8, <3>2, UploadKept DEF IInv
  <2>2. CASE upload'.bytes < UploadCap
    <3> SUFFICES ASSUME budget'.serves > 0
                 PROVE  upload'.bytes + Cardinality(Unsent') < UploadCap + budget'.serves * Octets
      BY DEF UploadInv
    <3>1. Cardinality(Unsent') <= budget'.serves * Octets
      BY <1>8, <1>10, <1>11, UnsentBound DEF StreamInv
    <3>2. budget'.serves \in Nat /\ UploadCap \in Nat /\ Octets \in Nat
      BY <1>8, ServingAssumption, LedgerAssumption DEF TypeInv
    <3>3. budget'.serves * Octets \in Nat
      BY <3>2
    <3>4. Cardinality(Unsent') \in Nat
      BY UnsentFinite
    <3> QED
      BY <1>5, <2>2, <3>1, <3>2, <3>3, <3>4
  <2> QED
    BY Zenon, <1>6, <2>1, <2>2
<1> QED
  BY <1>8, <1>10, <1>11, <1>12 DEF IInv

(* ReserveBytes: the loop gives up, reserves or tries again.                *)
LEMMA ReserveBytesIInv ==
    ASSUME IInv, NEW s \in Streams, ReserveBytes(s)
    PROVE  IInv' /\ Counted
<1>1. TypeInv /\ StreamInv(s) /\ st \in [Streams -> Stream] /\ st[s] \in Stream
  BY DEF IInv, TypeInv
<1>2. /\ st[s].at = "reserve"
      /\ UNCHANGED <<serves, gate, slot, budget, time, upload, dumpVars>>
  BY DEF ReserveBytes, shared
<1>3. /\ st[s].gate \in Gates /\ st[s].size \in Nat /\ st[s].size > 0 /\ st[s].reserved = 0
      /\ budget.serves > 0 => st[s].permit
  BY <1>1, <1>2 DEF StreamInv, StageInv, Before, Stream
<1>4. inflight \in [Gates -> Nat] /\ inflight[st[s].gate] \in Nat /\ st[s].seen \in Nat
  BY <1>1, <1>3 DEF TypeInv, Stream
<1>5. CASE /\ Goto(s, "respond") \/ st' = [st EXCEPT ![s].seen = inflight[st[s].gate]]
           /\ inflight' = inflight
  <2>1. PICK v \in Stream :
           /\ st' = [st EXCEPT ![s] = v] /\ v.at \in {"respond", "reserve"}
           /\ v.permit = st[s].permit /\ v.reserved = st[s].reserved /\ v.wrote = st[s].wrote
           /\ v.gate = st[s].gate /\ v.kind = st[s].kind /\ v.size = st[s].size
           /\ v.paid = st[s].paid /\ v.declined = st[s].declined /\ v.tail = st[s].tail
    <3>1. CASE Goto(s, "respond")
      <4> DEFINE v == [st[s] EXCEPT !.at = "respond"]
      <4>1. /\ v \in Stream /\ v.at = "respond"
            /\ v.permit = st[s].permit /\ v.reserved = st[s].reserved /\ v.wrote = st[s].wrote
            /\ v.gate = st[s].gate /\ v.kind = st[s].kind /\ v.size = st[s].size
            /\ v.paid = st[s].paid /\ v.declined = st[s].declined /\ v.tail = st[s].tail
        BY <1>1 DEF Stream, Places
      <4>2. st' = [st EXCEPT ![s] = v]
        BY <1>1, <3>1 DEF Goto
      <4> HIDE DEF v
      <4> QED
        BY Zenon, <4>1, <4>2
    <3>2. CASE st' = [st EXCEPT ![s].seen = inflight[st[s].gate]]
      <4> DEFINE v == [st[s] EXCEPT !.seen = inflight[st[s].gate]]
      <4>1. /\ v \in Stream /\ v.at = "reserve"
            /\ v.permit = st[s].permit /\ v.reserved = st[s].reserved /\ v.wrote = st[s].wrote
            /\ v.gate = st[s].gate /\ v.kind = st[s].kind /\ v.size = st[s].size
            /\ v.paid = st[s].paid /\ v.declined = st[s].declined /\ v.tail = st[s].tail
        BY <1>1, <1>2, <1>4 DEF Stream
      <4>2. st' = [st EXCEPT ![s] = v]
        BY <1>1, <3>2
      <4> HIDE DEF v
      <4> QED
        BY Zenon, <4>1, <4>2
    <3> QED
      BY <1>5, <3>1, <3>2
  <2>2. st'[s] = v
    BY <1>1, <2>1
  <2>3. StageInv(s)'
    BY Zenon, <1>1, <1>2, <1>3, <2>1, <2>2 DEF StreamInv, StageInv, Before, Exchange
  <2>4. DumpInv(s)'
    BY Zenon, <1>1, <1>2, <2>1, <2>2 DEF StreamInv, DumpInv, Settled, Passes, Before, dumpVars
  <2>5. PaidInv(s)'
    BY <1>1, <1>2, <2>1, <2>2 DEF StreamInv, PaidInv, dumpVars
  <2>6. Sending(s)
    BY <1>2 DEF Sending
  <2> QED
    BY Zenon, <1>2, <1>5, <2>1, <2>3, <2>4, <2>5, <2>6, QuietMove DEF StreamInv
<1>6. CASE /\ st[s].seen + st[s].size <= budget.inflight
           /\ inflight[st[s].gate] = st[s].seen
           /\ inflight' = [inflight EXCEPT ![st[s].gate] = st[s].seen + st[s].size]
           /\ \E next \in {"respond", "wait1"} :
                st' = [st EXCEPT ![s].at = next, ![s].reserved = st[s].size, ![s].seen = 0]
  <2>1. PICK v \in Stream :
           /\ st' = [st EXCEPT ![s] = v] /\ v.at \in {"respond", "wait1"}
           /\ v.permit = st[s].permit /\ v.reserved = st[s].size /\ v.wrote = st[s].wrote
           /\ v.gate = st[s].gate /\ v.kind = st[s].kind
           /\ v.paid = st[s].paid /\ v.declined = st[s].declined /\ v.tail = st[s].tail
    <3>1. PICK next \in {"respond", "wait1"} :
             st' = [st EXCEPT ![s].at = next, ![s].reserved = st[s].size, ![s].seen = 0]
      BY Zenon, <1>6
    <3> DEFINE v == [st[s] EXCEPT !.at = next, !.reserved = st[s].size, !.seen = 0]
    <3>2. /\ v \in Stream /\ v.at = next
          /\ v.permit = st[s].permit /\ v.reserved = st[s].size /\ v.wrote = st[s].wrote
          /\ v.gate = st[s].gate /\ v.kind = st[s].kind
          /\ v.paid = st[s].paid /\ v.declined = st[s].declined /\ v.tail = st[s].tail
      BY Zenon, <1>1 DEF Stream, Places, Exchange
    <3>3. st' = [st EXCEPT ![s] = v]
      BY Zenon, <1>1, <3>1
    <3> HIDE DEF v
    <3> QED
      BY Zenon, <3>2, <3>3
  <2>2. /\ st' \in [Streams -> Stream] /\ st'[s] = v
        /\ \A r \in Streams \ {s} : st'[r] = st[r]
    BY <1>1, <2>1
  <2>3. StageInv(s)'
    BY Zenon, <1>1, <1>2, <1>3, <2>1, <2>2 DEF StreamInv, StageInv, Before, Exchange
  <2>4. DumpInv(s)'
    BY Zenon, <1>1, <1>2, <2>1, <2>2 DEF StreamInv, DumpInv, Settled, Passes, Before, dumpVars
  <2>5. PaidInv(s)'
    BY <1>1, <1>2, <2>1, <2>2 DEF StreamInv, PaidInv, dumpVars
  <2>6. inflight' \in [Gates -> Nat]
    BY <1>3, <1>4, <1>6
  <2>7. TypeInv'
    BY Zenon, <1>1, <1>2, <2>2, <2>6 DEF TypeInv, dumpVars
  <2>8. \A r \in Streams : StreamInv(r)'
    <3>1. \A r \in Streams \ {s} : StreamInv(r) /\ SameDumps(r)
      BY <1>2, DumpsUntouched DEF IInv
    <3> QED
      BY <1>2, <2>2, <2>3, <2>4, <2>5, <3>1, OtherStream DEF StreamInv
  <2>9. CountInv' /\ Counted
    <3> DEFINE c == st[s].gate
               k == st[s].size
    <3>1. c \in Counters /\ c # "serves" /\ k \in Nat \ {0}
      BY <1>3, ServingAssumption DEF Counters
    <3>2. HeldBy[c][s] = 0 /\ TotalOf[c] = inflight[c] /\ LimitOf[c] = budget.inflight
      BY <1>3, <3>1 DEF HeldBy, TotalOf, LimitOf
    <3>3. \A d \in Counters, r \in Streams :
             HeldBy'[d][r] = IF d = c /\ r = s THEN k ELSE HeldBy[d][r]
      BY <1>3, <2>1, <2>2, <3>1 DEF HeldBy
    <3>4. TotalOf' = [TotalOf EXCEPT ![c] = @ + k]
      BY <1>2, <1>3, <1>4, <1>6, <3>1 DEF TotalOf, Counters
    <3>5. LimitOf' = LimitOf
      BY <1>2 DEF LimitOf
    <3>6. TotalOf[c] + k <= LimitOf[c]
      BY <1>6, <3>2
    <3>7. CountInv
      BY DEF IInv
    <3> HIDE DEF c, k
    <3>8. HeldBy' = [HeldBy EXCEPT ![c][s] = k]
      BY <3>1, <3>3, HeldExcept
    <3> QED
      BY Zenon, <1>1, <3>1, <3>2, <3>4, <3>5, <3>6, <3>7, <3>8, CountTake
  <2>10. UploadInv'
    <3>1. \A r \in Streams : st[r].wrote \in Nat
      BY <1>1 DEF Stream
    <3>2. \A r \in Streams : Sending(r)' => Sending(r) /\ st'[r].wrote >= st[r].wrote
      BY <1>2, <2>1, <2>2, <3>1 DEF Sending
    <3>3. upload'.bytes <= upload.bytes
      BY <1>1, <1>2 DEF TypeInv, Window
    <3> QED
      BY <1>1, <1>2, <2>7, <3>2, <3>3, UploadKept DEF IInv
  <2> QED
    BY <2>7, <2>8, <2>9, <2>10 DEF IInv
<1>7. budget.inflight \in Nat
  BY <1>1, ServingAssumption DEF TypeInv
<1> QED
  BY <1>3, <1>4, <1>5, <1>6, <1>7 DEF ReserveBytes

-----------------------------------------------------------------------------
(* The dumps                                                                *)

(* One job changes: those of the other streams and the other job of its own *)
(* stream do not.                                                           *)
LEMMA OneJob ==
    ASSUME TypeInv, NEW s \in Streams, NEW pass \in Passes,
           NEW p \in {"idle", "accepted", "running", "gone"}, NEW c \in BOOLEAN,
           NEW t \in {"open", "reaped", "lost"},
           proc' = [proc EXCEPT ![<<s, pass>>] = p],
           charged' = [charged EXCEPT ![<<s, pass>>] = c],
           ticket' = [ticket EXCEPT ![<<s, pass>>] = t]
    PROVE  /\ proc' \in [ServeJobs -> {"idle", "accepted", "running", "gone"}]
           /\ charged' \in [ServeJobs -> BOOLEAN]
           /\ ticket' \in [ServeJobs -> {"open", "reaped", "lost"}]
           /\ \A r \in Streams \ {s} : SameDumps(r)
           /\ proc'[<<s, pass>>] = p /\ charged'[<<s, pass>>] = c /\ ticket'[<<s, pass>>] = t
           /\ \A q \in Passes \ {pass} : /\ proc'[<<s, q>>] = proc[<<s, q>>]
                                         /\ charged'[<<s, q>>] = charged[<<s, q>>]
                                         /\ ticket'[<<s, q>>] = ticket[<<s, q>>]
<1>1. \A r \in Streams, q \in Passes : <<r, q>> \in ServeJobs
  BY DEF ServeJobs, Passes
<1>2. \A r \in Streams, q \in Passes : <<r, q>> = <<s, pass>> <=> r = s /\ q = pass
  OBVIOUS
<1>3. /\ proc \in [ServeJobs -> {"idle", "accepted", "running", "gone"}]
      /\ charged \in [ServeJobs -> BOOLEAN]
      /\ ticket \in [ServeJobs -> {"open", "reaped", "lost"}]
  BY DEF TypeInv
<1>4. \A r \in Streams \ {s} : SameDumps(r)
  BY <1>1, <1>2, <1>3 DEF SameDumps
<1> QED
  BY <1>1, <1>2, <1>3, <1>4

(* LaunchSecond, CancelledBeforeLaunch, DumpEnds, DumpTold: the stream has  *)
(* no part in them.                                                         *)
LEMMA JobMoves ==
    ASSUME IInv, NEW s \in Streams, NEW pass \in Passes,
           \/ pass = 2 /\ LaunchSecond(s)
           \/ CancelledBeforeLaunch(s, pass) \/ DumpEnds(s, pass) \/ DumpTold(s, pass)
    PROVE  IInv' /\ Counted
<1>1. TypeInv /\ StreamInv(s) /\ st \in [Streams -> Stream] /\ st[s] \in Stream
  BY DEF IInv, TypeInv
<1>2. /\ st' = st
      /\ UNCHANGED <<serves, inflight, gate, slot, budget, time, upload>>
  BY Zenon DEF LaunchSecond, CancelledBeforeLaunch, DumpEnds, DumpTold, exchangeRest, shared
<1> DEFINE j == <<s, pass>>
<1>3. /\ j \in ServeJobs
      /\ proc \in [ServeJobs -> {"idle", "accepted", "running", "gone"}]
      /\ charged \in [ServeJobs -> BOOLEAN]
      /\ ticket \in [ServeJobs -> {"open", "reaped", "lost"}]
  BY <1>1 DEF TypeInv, ServeJobs, Passes
<1>4. PICK p \in {"accepted", "running", "gone"}, c \in BOOLEAN, t \in {"open", "reaped", "lost"} :
         /\ proc' = [proc EXCEPT ![j] = p] /\ charged' = [charged EXCEPT ![j] = c]
         /\ ticket' = [ticket EXCEPT ![j] = t]
         /\ proc[j] # "idle"
         /\ \/ pass = 2 /\ proc[j] = "accepted" /\ p \in {"running", "gone"} /\ t = ticket[j]
            \/ proc[j] = "accepted" /\ p = "gone" /\ ~c /\ t = ticket[j]
            \/ proc[j] = "running" /\ p = "gone" /\ c = charged[j] /\ t = ticket[j]
            \/ p = proc[j] /\ c = charged[j] /\ ticket[j] = "open"
                 /\ (t = "lost" \/ (t = "reaped" /\ proc[j] = "gone"))
  <2>1. CASE pass = 2 /\ Launch(j)
    BY Zenon, <1>3, <2>1 DEF Launch
  <2>2. CASE pass = 2 /\ NeverRuns(j, TRUE)
    BY Zenon, <1>3, <2>2 DEF NeverRuns
  <2>3. CASE NeverRuns(j, FALSE)
    BY Zenon, <1>3, <2>3 DEF NeverRuns
  <2>4. CASE Reap(j)
    BY <1>3, <2>4 DEF Reap
  <2>5. CASE Tell(j)
    BY <1>3, <2>5 DEF Tell
  <2>6. CASE Lose(j)
    BY <1>3, <2>6 DEF Lose
  <2> QED
    BY Zenon, <2>1, <2>2, <2>3, <2>4, <2>5, <2>6
       DEF LaunchSecond, CancelledBeforeLaunch, DumpEnds, DumpTold
<1>5. /\ proc' \in [ServeJobs -> {"idle", "accepted", "running", "gone"}]
      /\ charged' \in [ServeJobs -> BOOLEAN]
      /\ ticket' \in [ServeJobs -> {"open", "reaped", "lost"}]
      /\ \A r \in Streams \ {s} : SameDumps(r)
      /\ proc'[<<s, pass>>] = p /\ charged'[<<s, pass>>] = c /\ ticket'[<<s, pass>>] = t
      /\ \A q \in Passes \ {pass} : /\ proc'[<<s, q>>] = proc[<<s, q>>]
                                    /\ charged'[<<s, q>>] = charged[<<s, q>>]
                                    /\ ticket'[<<s, q>>] = ticket[<<s, q>>]
  BY ZenonT(30), <1>1, <1>4, OneJob
<1>6. TypeInv'
  BY <1>1, <1>2, <1>5 DEF TypeInv
<1>7. StageInv(s)'
  BY <1>1, <1>2 DEF StreamInv, StageInv
<1>8. CASE pass = 1
  <2>1. /\ proc'[<<s, 1>>] = p /\ charged'[<<s, 1>>] = c /\ ticket'[<<s, 1>>] = t
        /\ proc'[<<s, 2>>] = proc[<<s, 2>>] /\ ticket'[<<s, 2>>] = ticket[<<s, 2>>]
    <3>1. 2 \in Passes \ {1}
      BY DEF Passes
    <3> QED
      BY Zenon, <1>5, <1>8, <3>1
  <2>2. /\ proc[<<s, 1>>] # "idle"
        /\ \/ proc[<<s, 1>>] = "accepted" /\ p = "gone" /\ ~c /\ t = ticket[<<s, 1>>]
           \/ proc[<<s, 1>>] = "running" /\ p = "gone" /\ c = charged[<<s, 1>>] /\ t = ticket[<<s, 1>>]
           \/ p = proc[<<s, 1>>] /\ c = charged[<<s, 1>>] /\ ticket[<<s, 1>>] = "open"
                /\ (t = "lost" \/ (t = "reaped" /\ proc[<<s, 1>>] = "gone"))
    BY <1>4, <1>8
  <2>3. DumpInv(s)'
    BY ZenonT(30), <1>1, <1>2, <2>1, <2>2 DEF StreamInv, DumpInv, Settled, Passes
  <2>4. charged[<<s, 1>>] \in BOOLEAN
    BY <1>3, <1>8
  <2>5. PaidInv(s)'
    <3>1. Dumps # 0
      BY DEF Dumps
    <3> QED
      BY Zenon, <1>1, <1>2, <2>1, <2>2, <2>4, <3>1 DEF StreamInv, PaidInv
  <2> QED
    BY ZenonT(30), <1>2, <1>5, <1>6, <1>7, <2>3, <2>5, QuietStep DEF StreamInv, Sending
<1>9. CASE pass = 2
  <2>1. /\ proc'[<<s, 2>>] = p /\ ticket'[<<s, 2>>] = t
        /\ proc'[<<s, 1>>] = proc[<<s, 1>>] /\ ticket'[<<s, 1>>] = ticket[<<s, 1>>]
        /\ charged'[<<s, 1>>] = charged[<<s, 1>>]
    <3>1. 1 \in Passes \ {2}
      BY DEF Passes
    <3> QED
      BY Zenon, <1>5, <1>9, <3>1
  <2>2. /\ proc[<<s, 2>>] # "idle"
        /\ \/ proc[<<s, 2>>] = "accepted" /\ t = ticket[<<s, 2>>]
           \/ proc[<<s, 2>>] = "running" /\ p = "gone" /\ t = ticket[<<s, 2>>]
           \/ p = proc[<<s, 2>>] /\ ticket[<<s, 2>>] = "open"
                /\ (t = "lost" \/ (t = "reaped" /\ proc[<<s, 2>>] = "gone"))
    BY <1>4, <1>9
  <2>3. DumpInv(s)'
    BY ZenonT(30), <1>1, <1>2, <2>1, <2>2 DEF StreamInv, DumpInv, Settled, Passes
  <2>4. PaidInv(s)'
    BY Zenon, <1>1, <1>2, <2>1, <2>2 DEF StreamInv, PaidInv, Dumps
  <2> QED
    BY Zenon, <1>2, <1>5, <1>6, <1>7, <2>3, <2>4, QuietStep DEF StreamInv, Sending
<1> QED
  BY <1>8, <1>9 DEF Passes

(* LaunchFirst: the charge for both passes, taken or refused.               *)
LEMMA LaunchFirstIInv ==
    ASSUME IInv, NEW s \in Streams, LaunchFirst(s)
    PROVE  IInv' /\ Counted
<1>1. TypeInv /\ StreamInv(s) /\ st \in [Streams -> Stream] /\ st[s] \in Stream
  BY DEF IInv, TypeInv
<1>2. /\ proc[<<s, 1>>] = "accepted"
      /\ UNCHANGED <<serves, inflight, gate, slot, budget, time, upload>>
  BY DEF LaunchFirst, exchangeRest, shared
<1>3. st[s].paid = 0 /\ ~st[s].declined /\ proc[<<s, 2>>] = "idle"
  BY <1>1, <1>2 DEF StreamInv, PaidInv, Dumps
<1>4. /\ <<s, 1>> \in ServeJobs
      /\ proc \in [ServeJobs -> {"idle", "accepted", "running", "gone"}]
      /\ charged \in [ServeJobs -> BOOLEAN]
      /\ ticket \in [ServeJobs -> {"open", "reaped", "lost"}]
  BY <1>1 DEF TypeInv, ServeJobs
<1>5. PICK v \in Stream, p \in {"running", "gone"}, c \in BOOLEAN :
         /\ st' = [st EXCEPT ![s] = v]
         /\ proc' = [proc EXCEPT ![<<s, 1>>] = p]
         /\ charged' = [charged EXCEPT ![<<s, 1>>] = c]
         /\ ticket' = [ticket EXCEPT ![<<s, 1>>] = ticket[<<s, 1>>]]
         /\ v.at = st[s].at /\ v.gate = st[s].gate /\ v.size = st[s].size
         /\ v.permit = st[s].permit /\ v.reserved = st[s].reserved /\ v.wrote = st[s].wrote
         /\ v.kind = st[s].kind /\ v.tail = st[s].tail
         /\ \/ c /\ v.paid = Dumps /\ ~v.declined
            \/ ~c /\ v.paid = 0 /\ v.declined /\ p = "gone"
  <2>1. CASE /\ st' = [st EXCEPT ![s].paid = st[s].paid + Dumps]
             /\ Launch(<<s, 1>>) \/ NeverRuns(<<s, 1>>, TRUE)
    <3> DEFINE v == [st[s] EXCEPT !.paid = st[s].paid + Dumps]
    <3>1. /\ v \in Stream /\ v.paid = Dumps /\ ~v.declined
          /\ v.at = st[s].at /\ v.gate = st[s].gate /\ v.size = st[s].size
          /\ v.permit = st[s].permit /\ v.reserved = st[s].reserved /\ v.wrote = st[s].wrote
          /\ v.kind = st[s].kind /\ v.tail = st[s].tail
      BY <1>1, <1>3 DEF Stream, Dumps
    <3>2. st' = [st EXCEPT ![s] = v]
      BY <1>1, <2>1
    <3> HIDE DEF v
    <3>3. \E p \in {"running", "gone"} :
             /\ proc' = [proc EXCEPT ![<<s, 1>>] = p]
             /\ charged' = [charged EXCEPT ![<<s, 1>>] = TRUE]
             /\ ticket' = [ticket EXCEPT ![<<s, 1>>] = ticket[<<s, 1>>]]
      BY <1>4, <2>1 DEF Launch, NeverRuns
    <3> QED
      BY Zenon, <3>1, <3>2, <3>3
  <2>2. CASE /\ st' = [st EXCEPT ![s].declined = TRUE]
             /\ NeverRuns(<<s, 1>>, FALSE)
    <3> DEFINE v == [st[s] EXCEPT !.declined = TRUE]
    <3>1. /\ v \in Stream /\ v.paid = 0 /\ v.declined
          /\ v.at = st[s].at /\ v.gate = st[s].gate /\ v.size = st[s].size
          /\ v.permit = st[s].permit /\ v.reserved = st[s].reserved /\ v.wrote = st[s].wrote
          /\ v.kind = st[s].kind /\ v.tail = st[s].tail
      BY Zenon, <1>1, <1>3 DEF Stream
    <3>2. st' = [st EXCEPT ![s] = v]
      BY <1>1, <2>2
    <3> HIDE DEF v
    <3>3. /\ proc' = [proc EXCEPT ![<<s, 1>>] = "gone"]
          /\ charged' = [charged EXCEPT ![<<s, 1>>] = FALSE]
          /\ ticket' = [ticket EXCEPT ![<<s, 1>>] = ticket[<<s, 1>>]]
      BY <1>4, <2>2 DEF NeverRuns
    <3> QED
      BY Zenon, <3>1, <3>2, <3>3
  <2> QED
    BY Zenon, <2>1, <2>2 DEF LaunchFirst
<1>6. /\ proc' \in [ServeJobs -> {"idle", "accepted", "running", "gone"}]
      /\ charged' \in [ServeJobs -> BOOLEAN]
      /\ ticket' \in [ServeJobs -> {"open", "reaped", "lost"}]
      /\ \A r \in Streams \ {s} : SameDumps(r)
      /\ proc'[<<s, 1>>] = p /\ charged'[<<s, 1>>] = c /\ ticket'[<<s, 1>>] = ticket[<<s, 1>>]
      /\ \A q \in Passes \ {1} : /\ proc'[<<s, q>>] = proc[<<s, q>>]
                                 /\ charged'[<<s, q>>] = charged[<<s, q>>]
                                 /\ ticket'[<<s, q>>] = ticket[<<s, q>>]
  <2>1. 1 \in Passes /\ ticket[<<s, 1>>] \in {"open", "reaped", "lost"}
    BY <1>4 DEF Passes
  <2> QED
    BY ZenonT(30), <1>1, <1>5, <2>1, OneJob
<1>7. proc'[<<s, 2>>] = "idle" /\ ticket'[<<s, 2>>] = ticket[<<s, 2>>]
  BY <1>3, <1>6 DEF Passes
<1>8. /\ st' \in [Streams -> Stream] /\ st'[s] = v
      /\ \A r \in Streams \ {s} : st'[r] = st[r]
  BY <1>1, <1>5
<1>9. TypeInv'
  BY <1>1, <1>2, <1>6, <1>8 DEF TypeInv
<1>10. StageInv(s)'
  BY Zenon, <1>1, <1>2, <1>5, <1>8 DEF StreamInv, StageInv
<1>11. DumpInv(s)'
  BY <1>1, <1>2, <1>3, <1>5, <1>6, <1>7, <1>8 DEF StreamInv, DumpInv, Settled, Passes
<1>12. PaidInv(s)'
  BY <1>1, <1>2, <1>3, <1>5, <1>6, <1>7, <1>8 DEF StreamInv, PaidInv, Dumps
<1>13. Sending(s)' => Sending(s)
  BY <1>5, <1>8 DEF Sending
<1> QED
  BY <1>2, <1>5, <1>6, <1>8, <1>9, <1>10, <1>11, <1>12, <1>13, QuietStep DEF StreamInv

-----------------------------------------------------------------------------
(* The passes                                                               *)

LEMMA StartPassIInv ==
    ASSUME IInv, NEW s \in Streams, NEW pass \in Passes, StartPass(s, pass)
    PROVE  IInv' /\ Counted
<1>1. TypeInv /\ StreamInv(s) /\ st \in [Streams -> Stream] /\ st[s] \in Stream
  BY DEF IInv, TypeInv
<1>2. /\ UNCHANGED <<serves, inflight, gate, slot, budget, time, upload>>
      /\ \/ pass = 1 /\ st[s].at = "wait1"
         \/ pass = 2 /\ st[s].at = "wait2"
  BY DEF StartPass, exchangeRest, shared, Passes
<1>3. /\ <<s, pass>> \in ServeJobs
      /\ proc \in [ServeJobs -> {"idle", "accepted", "running", "gone"}]
      /\ charged \in [ServeJobs -> BOOLEAN]
      /\ ticket \in [ServeJobs -> {"open", "reaped", "lost"}]
  BY <1>1 DEF TypeInv, ServeJobs, Passes
<1>4. PICK v \in Stream, p \in {"idle", "accepted", "running", "gone"} :
         /\ st' = [st EXCEPT ![s] = v]
         /\ v.gate = st[s].gate /\ v.size = st[s].size
         /\ v.permit = st[s].permit /\ v.reserved = st[s].reserved /\ v.wrote = st[s].wrote
         /\ v.kind = st[s].kind /\ v.tail = st[s].tail
         /\ v.paid = st[s].paid /\ v.declined = st[s].declined
         /\ \/ /\ (v.at = "pass1" /\ pass = 1) \/ (v.at = "pass2" /\ pass = 2)
               /\ \/ st[s].kind = "process" /\ p = "accepted" /\ proc[<<s, pass>>] = "idle"
                  \/ p = proc[<<s, pass>>]
            \/ v.at = "return" /\ p = proc[<<s, pass>>]
         /\ proc' = [proc EXCEPT ![<<s, pass>>] = p]
         /\ charged' = charged /\ ticket' = ticket
  <2>1. CASE /\ st' = [st EXCEPT ![s].at = <<"pass1", "pass2">>[pass], ![s].bao = TRUE]
             /\ IF st[s].kind = "process" THEN Accept(<<s, pass>>) ELSE UNCHANGED dumpVars
    <3> DEFINE to == <<"pass1", "pass2">>[pass]
               v == [st[s] EXCEPT !.at = to, !.bao = TRUE]
    <3>1. (pass = 1 /\ to = "pass1") \/ (pass = 2 /\ to = "pass2")
      BY DEF Passes
    <3> HIDE DEF to
    <3>2. /\ v \in Stream /\ v.at = to
          /\ v.gate = st[s].gate /\ v.size = st[s].size
          /\ v.permit = st[s].permit /\ v.reserved = st[s].reserved /\ v.wrote = st[s].wrote
          /\ v.kind = st[s].kind /\ v.tail = st[s].tail
          /\ v.paid = st[s].paid /\ v.declined = st[s].declined
      BY Zenon, <1>1, <3>1 DEF Stream, Places, Exchange
    <3>3. st' = [st EXCEPT ![s] = v]
      BY Zenon, <1>1, <2>1 DEF to
    <3> HIDE DEF v
    <3>4. \E p \in {"idle", "accepted", "running", "gone"} :
             /\ \/ st[s].kind = "process" /\ p = "accepted" /\ proc[<<s, pass>>] = "idle"
                \/ p = proc[<<s, pass>>]
             /\ proc' = [proc EXCEPT ![<<s, pass>>] = p]
             /\ charged' = charged /\ ticket' = ticket
      BY <1>3, <2>1 DEF Accept, dumpVars
    <3> QED
      BY Zenon, <3>1, <3>2, <3>3, <3>4
  <2>2. CASE Goto(s, "return") /\ UNCHANGED dumpVars
    <3> DEFINE v == [st[s] EXCEPT !.at = "return"]
    <3>1. /\ v \in Stream /\ v.at = "return"
          /\ v.gate = st[s].gate /\ v.size = st[s].size
          /\ v.permit = st[s].permit /\ v.reserved = st[s].reserved /\ v.wrote = st[s].wrote
          /\ v.kind = st[s].kind /\ v.tail = st[s].tail
          /\ v.paid = st[s].paid /\ v.declined = st[s].declined
      BY <1>1 DEF Stream, Places, After
    <3>2. st' = [st EXCEPT ![s] = v]
      BY <1>1, <2>2 DEF Goto
    <3> HIDE DEF v
    <3>3. /\ proc[<<s, pass>>] \in {"idle", "accepted", "running", "gone"}
          /\ proc' = [proc EXCEPT ![<<s, pass>>] = proc[<<s, pass>>]]
          /\ charged' = charged /\ ticket' = ticket
      BY <1>3, <2>2 DEF dumpVars
    <3> QED
      BY Zenon, <3>1, <3>2, <3>3
  <2> QED
    BY <2>1, <2>2 DEF StartPass
<1>5. /\ proc' \in [ServeJobs -> {"idle", "accepted", "running", "gone"}]
      /\ \A r \in Streams \ {s} : SameDumps(r)
      /\ proc'[<<s, pass>>] = p
      /\ \A q \in Passes \ {pass} : proc'[<<s, q>>] = proc[<<s, q>>]
  <2>1. PICK c \in BOOLEAN, t \in {"open", "reaped", "lost"} :
           /\ charged' = [charged EXCEPT ![<<s, pass>>] = c]
           /\ ticket' = [ticket EXCEPT ![<<s, pass>>] = t]
    <3>1. /\ charged[<<s, pass>>] \in BOOLEAN /\ ticket[<<s, pass>>] \in {"open", "reaped", "lost"}
          /\ charged' = [charged EXCEPT ![<<s, pass>>] = charged[<<s, pass>>]]
          /\ ticket' = [ticket EXCEPT ![<<s, pass>>] = ticket[<<s, pass>>]]
      BY <1>3, <1>4
    <3> QED
      BY Zenon, <3>1
  <2>2. proc' = [proc EXCEPT ![<<s, pass>>] = p]
    BY <1>4
  <2>3. /\ proc' \in [ServeJobs -> {"idle", "accepted", "running", "gone"}]
        /\ charged' \in [ServeJobs -> BOOLEAN]
        /\ ticket' \in [ServeJobs -> {"open", "reaped", "lost"}]
        /\ \A r \in Streams \ {s} : SameDumps(r)
        /\ proc'[<<s, pass>>] = p /\ charged'[<<s, pass>>] = c /\ ticket'[<<s, pass>>] = t
        /\ \A q \in Passes \ {pass} : /\ proc'[<<s, q>>] = proc[<<s, q>>]
                                      /\ charged'[<<s, q>>] = charged[<<s, q>>]
                                      /\ ticket'[<<s, q>>] = ticket[<<s, q>>]
    BY ZenonT(30), <1>1, <2>1, <2>2, OneJob
  <2> QED
    BY <2>3
<1>6. /\ st' \in [Streams -> Stream] /\ st'[s] = v
      /\ \A r \in Streams \ {s} : st'[r] = st[r]
  BY <1>1, <1>4
<1>7. TypeInv'
  BY <1>1, <1>2, <1>4, <1>5, <1>6 DEF TypeInv
<1>8. v.at \in {"pass1", "pass2", "return"} /\ st[s].at \in {"wait1", "wait2"}
  BY <1>2, <1>4
<1>9. StageInv(s)'
  BY <1>1, <1>2, <1>4, <1>6, <1>8 DEF StreamInv, StageInv, Before, Exchange
<1>10. DumpInv(s)' /\ PaidInv(s)'
  <2>1. CASE pass = 1
    <3>1. /\ proc'[<<s, 1>>] = p /\ proc'[<<s, 2>>] = proc[<<s, 2>>]
          /\ st[s].at = "wait1" /\ v.at \in {"pass1", "return"}
          /\ \/ p = "accepted" /\ st[s].kind = "process" /\ v.at = "pass1"
             \/ p = proc[<<s, 1>>]
      <4>1. 2 \in Passes \ {1}
        BY DEF Passes
      <4> QED
        BY Zenon, <1>2, <1>4, <1>5, <2>1, <4>1
    <3>2. DumpInv(s)'
      BY ZenonT(30), <1>1, <1>4, <1>6, <3>1 DEF StreamInv, DumpInv, Settled, Passes, Before
    <3>3. PaidInv(s)'
      BY ZenonT(30), <1>1, <1>4, <1>6, <3>1 DEF StreamInv, PaidInv, DumpInv
    <3> QED
      BY <3>2, <3>3
  <2>2. CASE pass = 2
    <3>1. /\ proc'[<<s, 2>>] = p /\ proc'[<<s, 1>>] = proc[<<s, 1>>]
          /\ st[s].at = "wait2" /\ v.at \in {"pass2", "return"}
          /\ \/ p = "accepted" /\ st[s].kind = "process" /\ v.at = "pass2"
             \/ p = proc[<<s, 2>>]
      <4>1. 1 \in Passes \ {2}
        BY DEF Passes
      <4> QED
        BY Zenon, <1>2, <1>4, <1>5, <2>2, <4>1
    <3>2. ticket[<<s, 2>>] # "reaped"
      BY Zenon, <1>1, <3>1 DEF StreamInv, DumpInv, Passes
    <3>3. DumpInv(s)'
      BY ZenonT(30), <1>1, <1>4, <1>6, <3>1, <3>2 DEF StreamInv, DumpInv, Settled, Passes, Before
    <3>4. PaidInv(s)'
      BY Zenon, <1>1, <1>4, <1>6, <3>1 DEF StreamInv, PaidInv
    <3> QED
      BY <3>3, <3>4
  <2> QED
    BY <2>1, <2>2 DEF Passes
<1>11. Sending(s)
  BY <1>8 DEF Sending, Exchange
<1> QED
  BY <1>2, <1>4, <1>5, <1>6, <1>7, <1>9, <1>10, <1>11, QuietStep DEF StreamInv

(* The stream goes on to a place of the exchange or out of it, and may be   *)
(* cancelled, let its worker go or give up on its reap tail.                *)
MovesOn(s, v) ==
    /\ st' = [st EXCEPT ![s] = v]
    /\ v.gate = st[s].gate /\ v.size = st[s].size
    /\ v.permit = st[s].permit /\ v.reserved = st[s].reserved /\ v.wrote = st[s].wrote
    /\ v.kind = st[s].kind /\ v.paid = st[s].paid /\ v.declined = st[s].declined
    /\ UNCHANGED <<serves, inflight, gate, slot, budget, time, upload, dumpVars>>

LEMMA MovesOnIInv ==
    ASSUME IInv, NEW s \in Streams, NEW v \in Stream, MovesOn(s, v),
           st[s].at \in Exchange \cup {"respond", "cancelling"},
           \/ v.at \in Exchange \ {"wait1"} /\ st[s].at \in Exchange
           \/ v.at = "cancelling" /\ st[s].at \in Exchange
           \/ v.at = "return",
           v.tail = st[s].tail \/ (v.tail /\ v.at = "return"),
           DumpInv(s)', PaidInv(s)'
    PROVE  IInv' /\ Counted
<1>1. TypeInv /\ StreamInv(s) /\ st \in [Streams -> Stream] /\ st[s] \in Stream
  BY DEF IInv, TypeInv
<1>2. st'[s] = v /\ budget' = budget
  BY Zenon, <1>1 DEF MovesOn
<1>3. StageInv(s)'
  BY <1>1, <1>2 DEF MovesOn, StreamInv, StageInv, Before, Exchange
<1>4. v.at \in {"reserve"} \cup Exchange => Sending(s)
  BY ZenonT(30) DEF Sending, Exchange
<1> QED
  BY ZenonT(30), <1>3, <1>4, QuietMove DEF MovesOn, StreamInv

LEMMA FirstPassEndsIInv ==
    ASSUME IInv, NEW s \in Streams, FirstPassEnds(s)
    PROVE  IInv' /\ Counted
<1>1. TypeInv /\ StreamInv(s) /\ st \in [Streams -> Stream] /\ st[s] \in Stream
  BY DEF IInv, TypeInv
<1>2. /\ st[s].at = "pass1" /\ Told(s, 1)
      /\ UNCHANGED <<serves, inflight, gate, slot, budget, time, upload, dumpVars>>
  BY DEF FirstPassEnds, exchangeRest, shared
<1>3. PICK next \in {"busy", "return", "wait2"} :
         /\ st' = [st EXCEPT ![s].at = next, ![s].bao = FALSE]
         /\ next = "wait2" => st[s].kind = "memory" \/ charged[<<s, 1>>]
  BY Zenon DEF FirstPassEnds
<1> DEFINE v == [st[s] EXCEPT !.at = next, !.bao = FALSE]
<1>4. v \in Stream /\ v.at = next /\ v.tail = st[s].tail
  BY Zenon, <1>1 DEF Stream, Places, Exchange, After
<1>5. MovesOn(s, v)
  <2>1. /\ v.gate = st[s].gate /\ v.size = st[s].size
        /\ v.permit = st[s].permit /\ v.reserved = st[s].reserved /\ v.wrote = st[s].wrote
        /\ v.kind = st[s].kind /\ v.paid = st[s].paid /\ v.declined = st[s].declined
    BY <1>1 DEF Stream
  <2>2. st' = [st EXCEPT ![s] = v]
    BY Zenon, <1>1, <1>3
  <2> HIDE DEF v
  <2> QED
    BY <1>2, <2>1, <2>2 DEF MovesOn
<1> HIDE DEF v
<1>6. st'[s] = v
  BY <1>1, <1>5 DEF MovesOn
<1>7. DumpInv(s)'
  BY Zenon, <1>1, <1>2, <1>4, <1>5, <1>6
     DEF MovesOn, StreamInv, DumpInv, Told, Settled, Passes, Before, dumpVars
<1>8. PaidInv(s)'
  BY Zenon, <1>1, <1>2, <1>3, <1>4, <1>5, <1>6 DEF MovesOn, StreamInv, PaidInv, dumpVars
<1> QED
  BY Zenon, <1>2, <1>4, <1>5, <1>7, <1>8, MovesOnIInv DEF Exchange

LEMMA SecondPassEndsIInv ==
    ASSUME IInv, NEW s \in Streams, SecondPassEnds(s)
    PROVE  IInv' /\ Counted
<1>1. TypeInv /\ StreamInv(s) /\ st \in [Streams -> Stream] /\ st[s] \in Stream
  BY DEF IInv, TypeInv
<1>2. /\ st[s].at = "pass2" /\ Told(s, 2)
      /\ UNCHANGED <<serves, inflight, gate, slot, budget, time, upload, dumpVars>>
  BY DEF SecondPassEnds, exchangeRest, shared
<1>3. PICK next \in {"return", "closing"} :
         st' = [st EXCEPT ![s].at = next, ![s].bao = FALSE]
  BY Zenon DEF SecondPassEnds
<1> DEFINE v == [st[s] EXCEPT !.at = next, !.bao = FALSE]
<1>4. v \in Stream /\ v.at = next /\ v.tail = st[s].tail
  BY Zenon, <1>1 DEF Stream, Places, Exchange, After
<1>5. MovesOn(s, v)
  <2>1. /\ v.gate = st[s].gate /\ v.size = st[s].size
        /\ v.permit = st[s].permit /\ v.reserved = st[s].reserved /\ v.wrote = st[s].wrote
        /\ v.kind = st[s].kind /\ v.paid = st[s].paid /\ v.declined = st[s].declined
    BY <1>1 DEF Stream
  <2>2. st' = [st EXCEPT ![s] = v]
    BY Zenon, <1>1, <1>3
  <2> HIDE DEF v
  <2> QED
    BY <1>2, <2>1, <2>2 DEF MovesOn
<1> HIDE DEF v
<1>6. st'[s] = v
  BY <1>1, <1>5 DEF MovesOn
<1>7. DumpInv(s)'
  BY ZenonT(30), <1>1, <1>2, <1>4, <1>5, <1>6
     DEF MovesOn, StreamInv, DumpInv, Told, Settled, Passes, Before, dumpVars
<1>8. PaidInv(s)'
  BY Zenon, <1>1, <1>2, <1>4, <1>5, <1>6 DEF MovesOn, StreamInv, PaidInv, dumpVars
<1> QED
  BY <1>2, <1>4, <1>5, <1>7, <1>8, MovesOnIInv DEF Exchange

(* WireFails: the place does not change, the dump is cancelled.             *)
LEMMA WireFailsIInv ==
    ASSUME IInv, NEW s \in Streams, WireFails(s)
    PROVE  IInv' /\ Counted
<1>1. TypeInv /\ StreamInv(s) /\ st \in [Streams -> Stream] /\ st[s] \in Stream
  BY DEF IInv, TypeInv
<1>2. /\ st[s].at = "pass2"
      /\ UNCHANGED <<serves, inflight, gate, slot, budget, time, upload, dumpVars>>
      /\ st' = [st EXCEPT ![s].cancel = TRUE]
  BY DEF WireFails, exchangeRest, shared
<1> DEFINE v == [st[s] EXCEPT !.cancel = TRUE]
<1>3. v \in Stream /\ v.at = "pass2" /\ v.tail = st[s].tail
  BY Zenon, <1>1, <1>2 DEF Stream
<1>4. MovesOn(s, v)
  <2>1. /\ v.gate = st[s].gate /\ v.size = st[s].size
        /\ v.permit = st[s].permit /\ v.reserved = st[s].reserved /\ v.wrote = st[s].wrote
        /\ v.kind = st[s].kind /\ v.paid = st[s].paid /\ v.declined = st[s].declined
    BY <1>1 DEF Stream
  <2>2. st' = [st EXCEPT ![s] = v]
    BY <1>1, <1>2
  <2> HIDE DEF v
  <2> QED
    BY Zenon, <1>2, <2>1, <2>2 DEF MovesOn
<1> HIDE DEF v
<1>5. st'[s] = v
  BY <1>1, <1>4 DEF MovesOn
<1>6. DumpInv(s)'
  BY <1>1, <1>2, <1>3, <1>4, <1>5
     DEF MovesOn, StreamInv, DumpInv, Settled, Passes, Before, dumpVars
<1>7. PaidInv(s)'
  BY <1>1, <1>2, <1>3, <1>4, <1>5 DEF MovesOn, StreamInv, PaidInv, dumpVars
<1> QED
  BY <1>2, <1>3, <1>4, <1>6, <1>7, MovesOnIInv DEF Exchange

(* WriteBody: an octet moves from what is unsent to the window.             *)
LEMMA WriteBodyIInv ==
    ASSUME IInv, NEW s \in Streams, WriteBody(s)
    PROVE  IInv' /\ Counted
<1>1. TypeInv /\ StreamInv(s) /\ st \in [Streams -> Stream] /\ st[s] \in Stream
  BY DEF IInv, TypeInv
<1>2. /\ st[s].at = "pass2" /\ st[s].wrote < Octets
      /\ UNCHANGED <<serves, inflight, gate, slot, budget, time, dumpVars>>
      /\ st' = [st EXCEPT ![s].wrote = st[s].wrote + 1]
  BY DEF WriteBody, exchangeRest, shared
<1>3. st[s].wrote \in Nat /\ Octets \in Nat /\ st[s].wrote + 1 \in 1..Octets
  BY <1>1, <1>2, ServingAssumption DEF Stream
<1> DEFINE v == [st[s] EXCEPT !.wrote = st[s].wrote + 1]
<1>4. /\ v \in Stream /\ v.at = "pass2" /\ v.wrote = st[s].wrote + 1
      /\ v.gate = st[s].gate /\ v.size = st[s].size
      /\ v.permit = st[s].permit /\ v.reserved = st[s].reserved
      /\ v.kind = st[s].kind /\ v.paid = st[s].paid /\ v.declined = st[s].declined
      /\ v.tail = st[s].tail
  BY <1>1, <1>2, <1>3 DEF Stream
<1>5. /\ st' \in [Streams -> Stream] /\ st'[s] = v
      /\ \A r \in Streams \ {s} : st'[r] = st[r]
  BY <1>1, <1>2, <1>4
<1> HIDE DEF v
<1>6. upload' \in Window /\ upload'.bytes \in Nat /\ upload.bytes \in Nat
      /\ upload'.bytes <= upload.bytes + 1
  <2>1. PICK now \in Readings : upload' = ChargeWireOctets(upload, now, 1)
    BY DEF WriteBody
  <2>2. now \in Nat /\ upload \in Window
    BY <1>1, ServingAssumption DEF Readings, TypeInv
  <2> DEFINE w == CurrentWindow(upload, now)
  <2>3. w \in Window /\ w.bytes \in {0, upload.bytes}
    BY <2>2, WindowOK
  <2>4. upload' = [w EXCEPT !.bytes = @ + 1, !.dumps = @ + 0]
    BY <2>1 DEF ChargeWireOctets, Spend
  <2> HIDE DEF w
  <2>5. w.bytes \in Nat /\ upload.bytes \in Nat
    BY <2>2, <2>3 DEF Window
  <2>6. upload' \in Window /\ upload'.bytes = w.bytes + 1
    <3>1. upload' = [start |-> w.start, bytes |-> w.bytes + 1, dumps |-> w.dumps + 0]
      BY Zenon, <2>3, <2>4 DEF Window
    <3>2. w.start \in Nat /\ w.dumps \in Int
      BY <2>3 DEF Window
    <3> QED
      BY <2>5, <3>1, <3>2 DEF Window
  <2> QED
    BY <2>3, <2>5, <2>6
<1>7. TypeInv'
  BY <1>1, <1>2, <1>5, <1>6 DEF TypeInv, dumpVars
<1>8. StreamInv(s)'
  <2>1. StageInv(s)'
    BY <1>1, <1>2, <1>4, <1>5 DEF StreamInv, StageInv
  <2>2. DumpInv(s)'
    BY <1>1, <1>2, <1>4, <1>5 DEF StreamInv, DumpInv, Settled, Passes, dumpVars
  <2>3. PaidInv(s)'
    BY <1>1, <1>2, <1>4, <1>5 DEF StreamInv, PaidInv, dumpVars
  <2> QED
    BY <2>1, <2>2, <2>3 DEF StreamInv
<1>9. \A r \in Streams : StreamInv(r)'
  <2>1. \A r \in Streams \ {s} : StreamInv(r) /\ SameDumps(r)
    BY <1>2, DumpsUntouched DEF IInv
  <2> QED
    BY <1>2, <1>5, <1>8, <2>1, OtherStream
<1>10. CountInv' /\ Counted
  <2>1. \A r \in Streams : /\ st'[r].permit = st[r].permit
                           /\ st'[r].reserved = st[r].reserved
                           /\ st'[r].gate = st[r].gate
    BY <1>4, <1>5
  <2> QED
    BY <1>1, <1>2, <2>1, CountUntouched DEF IInv
<1>11. Cardinality(Unsent') + 1 <= Cardinality(Unsent)
  <2> DEFINE o == <<s, st[s].wrote + 1>>
  <2>1. o \in Unsent
    <3>1. o \in Streams \X (1..Octets) /\ o[1] = s /\ o[2] = st[s].wrote + 1
      BY <1>3
    <3>2. Sending(s)
      BY <1>2 DEF Sending, Exchange
    <3> HIDE DEF o
    <3> QED
      BY <1>3, <3>1, <3>2 DEF Unsent
  <2>2. Unsent' \in SUBSET (Unsent \ {o})
    <3> SUFFICES ASSUME NEW u \in Unsent'
                 PROVE  u \in Unsent /\ u # o
      OBVIOUS
    <3>1. u \in Streams \X (1..Octets) /\ Sending(u[1])' /\ u[2] > st'[u[1]].wrote
      BY DEF Unsent
    <3>2. u[1] \in Streams /\ u[2] \in Nat
      BY <1>3, <3>1
    <3>3. Sending(u[1])
      BY <1>2, <1>4, <1>5, <3>1, <3>2 DEF Sending, Exchange
    <3>4. st[u[1]].wrote \in Nat
      BY <1>1, <3>2 DEF Stream
    <3>5. st'[u[1]].wrote = IF u[1] = s THEN st[s].wrote + 1 ELSE st[u[1]].wrote
      BY <1>4, <1>5, <3>2
    <3>6. u[2] > st[u[1]].wrote
      BY <1>3, <3>1, <3>2, <3>4, <3>5
    <3>7. u # o
      <4>1. o[1] = s /\ o[2] = st[s].wrote + 1
        OBVIOUS
      <4> HIDE DEF o
      <4> QED
        BY <1>3, <3>1, <3>2, <3>5, <4>1
    <3> QED
      BY <3>1, <3>3, <3>6, <3>7 DEF Unsent
  <2> HIDE DEF o
  <2>3. IsFiniteSet(Unsent \ {o}) /\ Cardinality(Unsent \ {o}) = Cardinality(Unsent) - 1
    BY <2>1, UnsentFinite, FS_RemoveElement
  <2>4. Cardinality(Unsent') <= Cardinality(Unsent \ {o})
    BY <2>2, <2>3, FS_Subset
  <2> QED
    BY <2>3, <2>4, UnsentFinite
<1>12. UploadInv'
  <2>1. budget.serves \in Nat /\ UploadCap \in Nat
    BY <1>1, ServingAssumption, LedgerAssumption DEF TypeInv
  <2>2. budget.serves * Octets \in Nat
    BY <1>3, <2>1
  <2>3. UploadInv /\ Cardinality(Unsent) \in Nat /\ Cardinality(Unsent') \in Nat
    BY UnsentFinite DEF IInv
  <2>4. budget' = budget
    BY <1>2
  <2> QED
    BY <1>6, <1>11, <2>1, <2>2, <2>3, <2>4 DEF UploadInv
<1> QED
  BY <1>7, <1>9, <1>10, <1>12 DEF IInv

-----------------------------------------------------------------------------
(* The ends                                                                 *)

(* ServeDeadline, ConsumerHungUp, ReapTailExpires                           *)
LEMMA CutShortIInv ==
    ASSUME IInv, NEW s \in Streams,
           ServeDeadline(s) \/ ConsumerHungUp(s) \/ ReapTailExpires(s)
    PROVE  IInv' /\ Counted
<1>1. TypeInv /\ StreamInv(s) /\ st \in [Streams -> Stream] /\ st[s] \in Stream
  BY DEF IInv, TypeInv
<1>2. UNCHANGED <<serves, inflight, gate, slot, budget, time, upload, dumpVars>>
  BY DEF ServeDeadline, ConsumerHungUp, ReapTailExpires, exchangeRest, shared
<1>3. \/ /\ st[s].at \in Exchange /\ st[s].kind = "process"
         /\ st' = [st EXCEPT ![s].at = "cancelling", ![s].cancel = TRUE]
      \/ /\ st[s].at \in Exchange \cup {"respond"}
         /\ st[s].kind # "process" \/ st[s].at = "respond"
         /\ st' = [st EXCEPT ![s].at = "return"]
      \/ /\ st[s].at = "cancelling"
         /\ st' = [st EXCEPT ![s].at = "return", ![s].tail = TRUE]
  BY DEF ServeDeadline, ConsumerHungUp, ReapTailExpires, Goto, Exchange
<1>4. PICK v \in Stream :
         /\ MovesOn(s, v)
         /\ \/ /\ st[s].at \in Exchange /\ st[s].kind = "process"
               /\ v.at = "cancelling" /\ v.tail = st[s].tail
            \/ /\ st[s].at \in Exchange \cup {"respond"}
               /\ st[s].kind # "process" \/ st[s].at = "respond"
               /\ v.at = "return" /\ v.tail = st[s].tail
            \/ st[s].at = "cancelling" /\ v.at = "return" /\ v.tail
  <2>1. CASE /\ st[s].at \in Exchange /\ st[s].kind = "process"
             /\ st' = [st EXCEPT ![s].at = "cancelling", ![s].cancel = TRUE]
    <3> DEFINE v == [st[s] EXCEPT !.at = "cancelling", !.cancel = TRUE]
    <3>1. /\ v \in Stream /\ v.at = "cancelling" /\ v.tail = st[s].tail
          /\ v.gate = st[s].gate /\ v.size = st[s].size
          /\ v.permit = st[s].permit /\ v.reserved = st[s].reserved /\ v.wrote = st[s].wrote
          /\ v.kind = st[s].kind /\ v.paid = st[s].paid /\ v.declined = st[s].declined
      BY Zenon, <1>1 DEF Stream, Places, After
    <3>2. st' = [st EXCEPT ![s] = v]
      BY Zenon, <1>1, <2>1
    <3> HIDE DEF v
    <3> QED
      BY Zenon, <1>2, <2>1, <3>1, <3>2 DEF MovesOn
  <2>2. CASE /\ st[s].at \in Exchange \cup {"respond"}
             /\ st[s].kind # "process" \/ st[s].at = "respond"
             /\ st' = [st EXCEPT ![s].at = "return"]
    <3> DEFINE v == [st[s] EXCEPT !.at = "return"]
    <3>1. /\ v \in Stream /\ v.at = "return" /\ v.tail = st[s].tail
          /\ v.gate = st[s].gate /\ v.size = st[s].size
          /\ v.permit = st[s].permit /\ v.reserved = st[s].reserved /\ v.wrote = st[s].wrote
          /\ v.kind = st[s].kind /\ v.paid = st[s].paid /\ v.declined = st[s].declined
      BY <1>1 DEF Stream, Places, After
    <3>2. st' = [st EXCEPT ![s] = v]
      BY <1>1, <2>2
    <3> HIDE DEF v
    <3> QED
      BY Zenon, <1>2, <2>2, <3>1, <3>2 DEF MovesOn
  <2>3. CASE /\ st[s].at = "cancelling"
             /\ st' = [st EXCEPT ![s].at = "return", ![s].tail = TRUE]
    <3> DEFINE v == [st[s] EXCEPT !.at = "return", !.tail = TRUE]
    <3>1. /\ v \in Stream /\ v.at = "return" /\ v.tail
          /\ v.gate = st[s].gate /\ v.size = st[s].size
          /\ v.permit = st[s].permit /\ v.reserved = st[s].reserved /\ v.wrote = st[s].wrote
          /\ v.kind = st[s].kind /\ v.paid = st[s].paid /\ v.declined = st[s].declined
      BY Zenon, <1>1 DEF Stream, Places, After
    <3>2. st' = [st EXCEPT ![s] = v]
      BY Zenon, <1>1, <2>3
    <3> HIDE DEF v
    <3> QED
      BY Zenon, <1>2, <2>3, <3>1, <3>2 DEF MovesOn
  <2> QED
    BY <1>3, <2>1, <2>2, <2>3
<1>5. st'[s] = v
  BY <1>1, <1>4 DEF MovesOn
<1>6. DumpInv(s)'
  BY ZenonT(30), <1>1, <1>2, <1>4, <1>5
     DEF MovesOn, StreamInv, DumpInv, Settled, Passes, Before, Exchange, dumpVars
<1>7. PaidInv(s)'
  BY Zenon, <1>1, <1>2, <1>4, <1>5 DEF MovesOn, StreamInv, PaidInv, Exchange, dumpVars
<1> QED
  BY Zenon, <1>4, <1>6, <1>7, MovesOnIInv

LEMMA WorkerUnwindsIInv ==
    ASSUME IInv, NEW s \in Streams, WorkerUnwinds(s)
    PROVE  IInv' /\ Counted
<1>1. TypeInv /\ StreamInv(s) /\ st \in [Streams -> Stream] /\ st[s] \in Stream
  BY DEF IInv, TypeInv
<1>2. /\ st[s].at \in {"return", "drop", "done"}
      /\ UNCHANGED <<serves, inflight, gate, slot, budget, time, upload, dumpVars>>
      /\ st' = [st EXCEPT ![s].bao = FALSE]
  BY DEF WorkerUnwinds, exchangeRest, shared
<1> DEFINE v == [st[s] EXCEPT !.bao = FALSE]
<1>3. /\ v \in Stream /\ v.at = st[s].at /\ v.tail = st[s].tail
      /\ v.gate = st[s].gate /\ v.size = st[s].size
      /\ v.permit = st[s].permit /\ v.reserved = st[s].reserved /\ v.wrote = st[s].wrote
      /\ v.kind = st[s].kind /\ v.paid = st[s].paid /\ v.declined = st[s].declined
  BY Zenon, <1>1 DEF Stream
<1>4. st' = [st EXCEPT ![s] = v] /\ st'[s] = v
  BY <1>1, <1>2
<1> HIDE DEF v
<1>5. StageInv(s)'
  BY <1>1, <1>2, <1>3, <1>4 DEF StreamInv, StageInv
<1>6. DumpInv(s)'
  BY <1>1, <1>2, <1>3, <1>4 DEF StreamInv, DumpInv, Settled, Passes, dumpVars
<1>7. PaidInv(s)'
  BY <1>1, <1>2, <1>3, <1>4 DEF StreamInv, PaidInv, dumpVars
<1> QED
  BY Zenon, <1>2, <1>3, <1>4, <1>5, <1>6, <1>7, QuietMove DEF StreamInv, Exchange

(* What a stream holds of a counter is in the counter.                      *)
LEMMA HeldIsCounted ==
    ASSUME TypeInv, CountInv, NEW c \in Counters, NEW s \in Streams
    PROVE  HeldBy[c][s] <= TotalOf[c]
<1>1. HeldBy[c] \in [Streams -> Nat] /\ LimitOf[c] \in Nat
  BY CountTypes
<1>2. HeldBy[c][s] <= LimitOf[c] /\ TotalOf[c] = Cardinality(UnitsOf(HeldBy[c], LimitOf[c]))
  BY DEF CountInv
<1>3. PICK g \in [Streams -> Nat] : g[s] = 0 /\ \A r \in Streams \ {s} : g[r] = HeldBy[c][r]
  <2>1. [HeldBy[c] EXCEPT ![s] = 0] \in [Streams -> Nat]
    BY <1>1
  <2>2. /\ [HeldBy[c] EXCEPT ![s] = 0][s] = 0
        /\ \A r \in Streams \ {s} : [HeldBy[c] EXCEPT ![s] = 0][r] = HeldBy[c][r]
    BY <1>1
  <2> QED
    BY Zenon, <2>1, <2>2
<1> QED
  BY <1>1, <1>2, <1>3, UnitsGiven

(* DropReservation: the bytes go back to the gate they were taken from.     *)
LEMMA DropReservationIInv ==
    ASSUME IInv, NEW s \in Streams, DropReservation(s)
    PROVE  IInv' /\ Counted
<1>1. TypeInv /\ CountInv /\ StreamInv(s) /\ st \in [Streams -> Stream] /\ st[s] \in Stream
  BY DEF IInv, TypeInv
<1>2. /\ st[s].at = "return"
      /\ UNCHANGED <<serves, gate, slot, budget, time, upload, dumpVars>>
      /\ st' = [st EXCEPT ![s].at = "drop", ![s].gate = None, ![s].kind = "none",
                          ![s].size = 0, ![s].seen = 0, ![s].reserved = 0, ![s].wrote = 0]
      /\ inflight' = [g \in Gates |-> IF g = st[s].gate THEN inflight[g] - st[s].reserved
                                                        ELSE inflight[g]]
  BY DEF DropReservation, shared
<1> DEFINE v == [st[s] EXCEPT !.at = "drop", !.gate = None, !.kind = "none",
                              !.size = 0, !.seen = 0, !.reserved = 0, !.wrote = 0]
<1>3. /\ v \in Stream /\ v.at = "drop" /\ v.gate = None /\ v.reserved = 0 /\ v.wrote = 0
      /\ v.permit = st[s].permit /\ v.paid = st[s].paid /\ v.declined = st[s].declined
      /\ v.tail = st[s].tail
  BY Zenon, <1>1 DEF Stream, Places, After
<1>4. /\ st' \in [Streams -> Stream] /\ st'[s] = v
      /\ \A r \in Streams \ {s} : st'[r] = st[r]
  BY <1>1, <1>2, <1>3
<1> HIDE DEF v
<1>5. st[s].reserved \in Nat /\ inflight \in [Gates -> Nat]
  BY <1>1 DEF Stream, TypeInv
<1>6. ASSUME NEW g \in Gates, g = st[s].gate
      PROVE  st[s].reserved <= inflight[g]
  <2>1. g \in Counters /\ g # "serves"
    BY ServingAssumption DEF Counters
  <2>2. HeldBy[g][s] = st[s].reserved /\ TotalOf[g] = inflight[g]
    BY <1>6, <2>1 DEF HeldBy, TotalOf
  <2> QED
    BY <1>1, <2>1, <2>2, HeldIsCounted
<1>7. inflight' \in [Gates -> Nat]
  BY <1>2, <1>5, <1>6
<1>8. TypeInv'
  BY Zenon, <1>1, <1>2, <1>4, <1>7 DEF TypeInv, dumpVars
<1>9. StreamInv(s)'
  <2>1. StageInv(s)'
    BY <1>1, <1>2, <1>3, <1>4 DEF StreamInv, StageInv, Before, Exchange
  <2>2. DumpInv(s)'
    <3>1. st[s].tail \/ (Settled(<<s, 1>>) /\ Settled(<<s, 2>>))
      BY Zenon, <1>1, <1>2 DEF StreamInv, DumpInv
    <3>2. \A pass \in Passes : ticket[<<s, pass>>] = "reaped" => proc[<<s, pass>>] = "gone"
      BY Zenon, <1>1 DEF StreamInv, DumpInv
    <3>3. proc' = proc /\ ticket' = ticket /\ st'[s].at = "drop" /\ st'[s].tail = st[s].tail
      BY Zenon, <1>2, <1>3, <1>4 DEF dumpVars
    <3> QED
      BY <3>1, <3>2, <3>3 DEF DumpInv, Settled, Before
  <2>3. PaidInv(s)'
    BY <1>1, <1>2, <1>3, <1>4 DEF StreamInv, PaidInv, dumpVars
  <2> QED
    BY <2>1, <2>2, <2>3 DEF StreamInv
<1>10. \A r \in Streams : StreamInv(r)'
  <2>1. \A r \in Streams \ {s} : StreamInv(r) /\ SameDumps(r)
    BY <1>2, DumpsUntouched DEF IInv
  <2> QED
    BY <1>2, <1>4, <1>9, <2>1, OtherStream
<1>11. CountInv' /\ Counted
  <2>1. CASE st[s].reserved = 0
    <3>1. inflight' = inflight
      BY <1>2, <1>5, <2>1
    <3>2. \A r \in Streams : /\ st'[r].permit = st[r].permit
                             /\ st'[r].reserved = st[r].reserved
                             /\ st'[r].gate = st[r].gate \/ st[r].reserved = 0
      BY <1>3, <1>4, <2>1
    <3> QED
      BY <1>1, <1>2, <3>1, <3>2, CountUntouched
  <2>2. CASE st[s].reserved > 0
    <3> DEFINE c == st[s].gate
    <3>1. c \in Gates
      BY <1>1, <2>2 DEF StreamInv, StageInv, Stream
    <3>2. c \in Counters /\ c # "serves" /\ c # None
      BY <3>1, ServingAssumption DEF Counters, None
    <3>3. HeldBy[c][s] = st[s].reserved
      BY <3>2 DEF HeldBy
    <3>4. \A d \in Counters, r \in Streams :
             HeldBy'[d][r] = IF d = c /\ r = s THEN 0 ELSE HeldBy[d][r]
      <4>1. \A d \in Gates : d # None
        BY ServingAssumption DEF None
      <4>2. ASSUME NEW d \in Counters, NEW r \in Streams
            PROVE  HeldBy'[d][r] = IF d = c /\ r = s THEN 0 ELSE HeldBy[d][r]
        <5>1. CASE r = s
          <6>1. HeldBy'[d][r] = IF d = "serves" THEN IF v.permit THEN 1 ELSE 0 ELSE 0
            BY <1>3, <1>4, <5>1 DEF HeldBy
          <6> QED
            BY <1>3, <3>2, <5>1, <6>1 DEF HeldBy
        <5>2. CASE r # s
          BY <1>4, <5>2 DEF HeldBy
        <5> QED
          BY <5>1, <5>2
      <4> QED
        BY <4>2
    <3>5. TotalOf' = [TotalOf EXCEPT ![c] = @ - HeldBy[c][s]]
      <4>1. TotalOf' = [TotalOf EXCEPT ![c] = @ - st[s].reserved]
        BY Zenon, <1>2, <1>5, <3>1, <3>2 DEF TotalOf, Counters
      <4> QED
        BY <3>3, <4>1
    <3>6. LimitOf' = LimitOf
      BY <1>2 DEF LimitOf
    <3>7. HeldBy[c][s] > 0
      BY <2>2, <3>3
    <3> HIDE DEF c
    <3>8. HeldBy' = [HeldBy EXCEPT ![c][s] = 0]
      BY <3>2, <3>4, HeldExcept
    <3> QED
      BY Zenon, <1>1, <3>2, <3>5, <3>6, <3>7, <3>8, CountGiveBack
  <2> QED
    BY <1>5, <2>1, <2>2
<1>12. UploadInv'
  <2>1. \A r \in Streams : st[r].wrote \in Nat
    BY <1>1 DEF Stream
  <2>2. \A r \in Streams : Sending(r)' => Sending(r) /\ st'[r].wrote >= st[r].wrote
    BY <1>3, <1>4, <2>1 DEF Sending, Exchange
  <2>3. upload'.bytes <= upload.bytes
    BY <1>1, <1>2 DEF TypeInv, Window
  <2> QED
    BY <1>1, <1>2, <1>8, <2>2, <2>3, UploadKept DEF IInv
<1> QED
  BY <1>8, <1>10, <1>11, <1>12 DEF IInv

(* DropPermit: the permit goes back, if there was one.                      *)
LEMMA DropPermitIInv ==
    ASSUME IInv, NEW s \in Streams, DropPermit(s)
    PROVE  IInv' /\ Counted
<1>1. TypeInv /\ CountInv /\ StreamInv(s) /\ st \in [Streams -> Stream] /\ st[s] \in Stream
  BY DEF IInv, TypeInv
<1>2. /\ st[s].at = "drop"
      /\ UNCHANGED <<inflight, gate, slot, budget, time, upload, dumpVars>>
      /\ st' = [st EXCEPT ![s].at = "done", ![s].permit = FALSE]
      /\ serves' = IF st[s].permit THEN serves - 1 ELSE serves
  BY DEF DropPermit, acceptRest, shared
<1>3. "serves" \in Counters /\ TotalOf["serves"] = serves
  BY DEF Counters, TotalOf
<1>4. HeldBy["serves"][s] = IF st[s].permit THEN 1 ELSE 0
  BY <1>3 DEF HeldBy
<1>5. serves \in Nat /\ serves' \in Nat
  <2>1. HeldBy["serves"][s] <= serves
    BY <1>1, <1>3, HeldIsCounted
  <2>2. serves \in Nat
    BY <1>1 DEF TypeInv
  <2> QED
    BY <1>2, <1>4, <2>1, <2>2
<1> DEFINE v == [st[s] EXCEPT !.at = "done", !.permit = FALSE]
<1>6. /\ v \in Stream /\ v.at = "done" /\ ~v.permit
      /\ v.gate = st[s].gate /\ v.reserved = st[s].reserved /\ v.kind = st[s].kind
      /\ v.paid = st[s].paid /\ v.declined = st[s].declined /\ v.tail = st[s].tail
  BY Zenon, <1>1 DEF Stream, Places, After
<1>7. /\ st' \in [Streams -> Stream] /\ st'[s] = v
      /\ \A r \in Streams \ {s} : st'[r] = st[r]
  BY <1>1, <1>2, <1>6
<1> HIDE DEF v
<1>8. TypeInv'
  BY <1>1, <1>2, <1>5, <1>7 DEF TypeInv, dumpVars
<1>9. StreamInv(s)'
  <2>1. StageInv(s)'
    BY <1>1, <1>2, <1>6, <1>7 DEF StreamInv, StageInv, Before, Exchange
  <2>2. DumpInv(s)'
    BY <1>1, <1>2, <1>6, <1>7 DEF StreamInv, DumpInv, Settled, Passes, Before, dumpVars
  <2>3. PaidInv(s)'
    BY <1>1, <1>2, <1>6, <1>7 DEF StreamInv, PaidInv, dumpVars
  <2> QED
    BY <2>1, <2>2, <2>3 DEF StreamInv
<1>10. \A r \in Streams : StreamInv(r)'
  <2>1. \A r \in Streams \ {s} : StreamInv(r) /\ SameDumps(r)
    BY <1>2, DumpsUntouched DEF IInv
  <2> QED
    BY <1>2, <1>7, <1>9, <2>1, OtherStream
<1>11. CountInv' /\ Counted
  <2>1. CASE ~st[s].permit
    <3>1. \A r \in Streams : /\ st'[r].permit = st[r].permit
                             /\ st'[r].reserved = st[r].reserved
                             /\ st'[r].gate = st[r].gate
      <4>1. st[s].permit \in BOOLEAN /\ v.permit \in BOOLEAN
        BY <1>1, <1>6 DEF Stream
      <4> QED
        BY <1>6, <1>7, <2>1, <4>1
    <3> QED
      BY Zenon, <1>1, <1>2, <2>1, <3>1, CountUntouched
  <2>2. CASE st[s].permit
    <3>1. HeldBy["serves"][s] = 1
      BY <1>4, <2>2
    <3>2. \A d \in Counters, r \in Streams :
             HeldBy'[d][r] = IF d = "serves" /\ r = s THEN 0 ELSE HeldBy[d][r]
      BY <1>6, <1>7 DEF HeldBy
    <3>3. HeldBy' = [HeldBy EXCEPT !["serves"][s] = 0]
      BY <1>3, <3>2, HeldExcept
    <3>4. TotalOf' = [TotalOf EXCEPT !["serves"] = @ - HeldBy["serves"][s]]
      <4>1. TotalOf' = [TotalOf EXCEPT !["serves"] = @ - 1]
        BY Zenon, <1>2, <2>2 DEF TotalOf, Counters
      <4> QED
        BY <3>1, <4>1
    <3>5. LimitOf' = LimitOf
      BY <1>2 DEF LimitOf
    <3>6. HeldBy["serves"][s] > 0
      BY <3>1
    <3> QED
      BY Zenon, <1>1, <1>3, <3>3, <3>4, <3>5, <3>6, CountGiveBack
  <2> QED
    BY <2>1, <2>2
<1>12. UploadInv'
  <2>1. \A r \in Streams : st[r].wrote \in Nat
    BY <1>1 DEF Stream
  <2>2. \A r \in Streams : Sending(r)' => Sending(r) /\ st'[r].wrote >= st[r].wrote
    BY <1>6, <1>7, <2>1 DEF Sending, Exchange
  <2>3. upload'.bytes <= upload.bytes
    BY <1>1, <1>2 DEF TypeInv, Window
  <2> QED
    BY Zenon, <1>1, <1>2, <1>8, <2>2, <2>3, UploadKept DEF IInv
<1> QED
  BY <1>8, <1>10, <1>11, <1>12 DEF IInv

(* Serve, Stop, Uninstall, Tick and a stuttering step: no stream moves.     *)
LEMMA NoStreamMoves ==
    ASSUME IInv, UNCHANGED <<st, serves, inflight, budget, upload, dumpVars>>,
           /\ gate' \in [Gates -> {"new", "serving", "stopped", "gone"}]
           /\ slot' \in Gates \cup {None} /\ time' \in 0..budget.horizon
    PROVE  IInv' /\ Counted
<1>1. TypeInv /\ CountInv /\ UploadInv /\ \A s \in Streams : StreamInv(s)
  BY DEF IInv
<1>2. TypeInv'
  BY <1>1 DEF TypeInv, dumpVars
<1>3. \A s \in Streams : StreamInv(s)'
  BY <1>1, DumpsUntouched, OtherStream
<1>4. CountInv' /\ Counted
  BY Zenon, <1>1, CountUntouched
<1>5. UploadInv'
  BY <1>1 DEF UploadInv, Unsent, Sending
<1> QED
  BY <1>2, <1>3, <1>4, <1>5 DEF IInv

LEMMA ServerIInv ==
    ASSUME IInv, \/ \E g \in Gates : Serve(g) \/ Stop(g) \/ Uninstall(g)
                 \/ Tick
                 \/ UNCHANGED servingVars
    PROVE  IInv' /\ Counted
<1>1. /\ gate \in [Gates -> {"new", "serving", "stopped", "gone"}] /\ slot \in Gates \cup {None}
      /\ time \in 0..budget.horizon /\ budget.horizon \in Nat
  BY ServingAssumption DEF IInv, TypeInv
<1>2. CASE \E g \in Gates : Serve(g) \/ Stop(g) \/ Uninstall(g)
  <2>1. UNCHANGED <<st, serves, inflight, budget, time, upload, dumpVars>>
    BY <1>2 DEF Serve, Stop, Uninstall, shared
  <2>2. gate' \in [Gates -> {"new", "serving", "stopped", "gone"}]
    BY <1>1, <1>2 DEF Serve, Stop, Uninstall
  <2>3. slot' \in Gates \cup {None}
    BY <1>1, <1>2 DEF Serve, Stop, Uninstall
  <2> QED
    BY Zenon, <1>1, <2>1, <2>2, <2>3, NoStreamMoves
<1>3. CASE Tick
  <2>1. UNCHANGED <<st, serves, inflight, budget, gate, slot, upload, dumpVars>>
    BY <1>3 DEF Tick, shared
  <2>2. time' \in 0..budget.horizon
    BY <1>1, <1>3 DEF Tick
  <2> QED
    BY <1>1, <2>1, <2>2, NoStreamMoves
<1>4. CASE UNCHANGED servingVars
  <2>1. UNCHANGED <<st, serves, inflight, budget, gate, slot, time, upload, dumpVars>>
    BY <1>4 DEF servingVars, shared
  <2> QED
    BY <1>1, <2>1, NoStreamMoves
<1> QED
  BY <1>2, <1>3, <1>4

-----------------------------------------------------------------------------
(* The theorems                                                             *)

LEMMA StreamSteps ==
    ASSUME IInv, NEW s \in Streams,
           \/ Accept1(s) \/ AdmissionStep(s) \/ DumpStep(s) \/ PassStep(s) \/ EndStep(s)
           \/ ServeDeadline(s) \/ ConsumerHungUp(s)
    PROVE  IInv' /\ Counted
<1>1. CASE Accept1(s) \/ AdmissionStep(s)
  <2>1. CASE RequestEnds(s)
    BY <2>1, ReturnIInv
  <2> QED
    BY <1>1, <2>1, Accept1IInv, AcquireServeCountIInv, ReadRequestIInv, AdmitPlanIInv,
       ReserveBytesIInv DEF AdmissionStep
<1>2. CASE DumpStep(s)
  <2>1. CASE LaunchFirst(s)
    BY <2>1, LaunchFirstIInv
  <2>2. CASE LaunchSecond(s)
    BY <2>2, JobMoves DEF Passes
  <2>3. CASE \E pass \in Passes : CancelledBeforeLaunch(s, pass) \/ DumpEnds(s, pass) \/ DumpTold(s, pass)
    BY <2>3, JobMoves
  <2> QED
    BY <1>2, <2>1, <2>2, <2>3 DEF DumpStep
<1>3. CASE PassStep(s)
  <2>1. CASE CloseServed(s)
    BY <2>1, ReturnIInv
  <2> QED
    BY <1>3, <2>1, StartPassIInv, FirstPassEndsIInv, WriteBodyIInv, WireFailsIInv,
       SecondPassEndsIInv DEF PassStep
<1>4. CASE EndStep(s) \/ ServeDeadline(s) \/ ConsumerHungUp(s)
  <2>1. CASE Respond(s) \/ CancelDone(s)
    BY <2>1, ReturnIInv
  <2>2. CASE ReapTailExpires(s) \/ ServeDeadline(s) \/ ConsumerHungUp(s)
    BY <2>2, CutShortIInv
  <2> QED
    BY <1>4, <2>1, <2>2, DropReservationIInv, DropPermitIInv, WorkerUnwindsIInv DEF EndStep
<1> QED
  BY <1>1, <1>2, <1>3, <1>4

LEMMA NextIInv ==
    ASSUME IInv, [ServingNext]_servingVars
    PROVE  IInv' /\ Counted
  BY StreamSteps, ServerIInv DEF ServingNext

LEMMA InitIInv ==
    ASSUME ServingInit
    PROVE  IInv
<1>1. /\ Fresh \in Stream /\ Fresh.at = "idle" /\ Fresh.gate = None /\ ~Fresh.permit
      /\ Fresh.reserved = 0 /\ Fresh.kind = "none" /\ Fresh.paid = 0 /\ ~Fresh.declined
      /\ Fresh.wrote = 0
  BY DEF Fresh, Stream, Places, Before
<1>2. st = [s \in Streams |-> Fresh] /\ st \in [Streams -> Stream] /\ \A s \in Streams : st[s] = Fresh
  BY <1>1 DEF ServingInit
<1>3. /\ serves = 0 /\ inflight = [g \in Gates |-> 0] /\ gate = [g \in Gates |-> "new"]
      /\ slot = None /\ budget \in Budgets /\ time = 0 /\ upload = NoWindow
      /\ proc = [j \in ServeJobs |-> "idle"] /\ charged = [j \in ServeJobs |-> FALSE]
      /\ ticket = [j \in ServeJobs |-> "open"]
  BY DEF ServingInit, OwnedInit
<1>4. /\ budget.horizon \in Nat /\ budget.serves \in Nat /\ budget.inflight \in Nat
      /\ UploadCap \in Nat /\ Octets \in Nat \ {0}
  BY <1>3, ServingAssumption, LedgerAssumption
<1>5. upload \in Window /\ upload.bytes = 0
  BY <1>3 DEF NoWindow, Window
<1>6. TypeInv
  BY <1>2, <1>3, <1>4, <1>5 DEF TypeInv
<1>7. \A s \in Streams : StreamInv(s)
  <2> SUFFICES ASSUME NEW s \in Streams
               PROVE  StreamInv(s)
    OBVIOUS
  <2>1. \A q \in Passes : /\ proc[<<s, q>>] = "idle" /\ ~charged[<<s, q>>]
                          /\ ticket[<<s, q>>] = "open"
    BY <1>3 DEF ServeJobs, Passes
  <2>2. proc[<<s, 1>>] = "idle" /\ proc[<<s, 2>>] = "idle" /\ ~charged[<<s, 1>>]
    BY <2>1 DEF Passes
  <2>3. StageInv(s)
    BY <1>1, <1>2 DEF StageInv, Before, Exchange
  <2>4. DumpInv(s)
    BY Zenon, <1>1, <1>2, <2>1, <2>2 DEF DumpInv, Settled
  <2>5. PaidInv(s)
    BY <1>1, <1>2, <2>2 DEF PaidInv, Dumps
  <2> QED
    BY <2>3, <2>4, <2>5 DEF StreamInv
<1>8. CountInv
  <2> SUFFICES ASSUME NEW c \in Counters
               PROVE  /\ TotalOf[c] = Cardinality(UnitsOf(HeldBy[c], LimitOf[c]))
                      /\ TotalOf[c] <= LimitOf[c]
                      /\ \A s \in Streams : HeldBy[c][s] <= LimitOf[c]
    BY DEF CountInv
  <2>1. TotalOf[c] = 0 /\ LimitOf[c] \in Nat
    BY <1>3, <1>4 DEF TotalOf, LimitOf, Counters
  <2>2. \A s \in Streams : HeldBy[c][s] = 0
    BY <1>1, <1>2 DEF HeldBy
  <2>3. UnitsOf(HeldBy[c], LimitOf[c]) = {}
    <3> SUFFICES ASSUME NEW u \in UnitsOf(HeldBy[c], LimitOf[c])
                 PROVE  FALSE
      OBVIOUS
    <3>1. u[1] \in Streams /\ u[2] \in 1..LimitOf[c] /\ u[2] <= HeldBy[c][u[1]]
      BY DEF UnitsOf
    <3> QED
      BY <2>1, <2>2, <3>1
  <2> QED
    BY <2>1, <2>2, <2>3, FS_EmptySet
<1>9. UploadInv
  <2>1. Unsent = {}
    BY <1>1, <1>2 DEF Unsent, Sending, Exchange
  <2>2. Cardinality(Unsent) = 0
    BY <2>1, FS_EmptySet
  <2>3. \A a, b \in Nat : a > 0 /\ b > 0 => a * b > 0
    OBVIOUS
  <2>4. budget.serves > 0 => budget.serves * Octets > 0 /\ budget.serves * Octets \in Nat
    BY <1>4, <2>3
  <2> QED
    BY <1>4, <1>5, <2>2, <2>4 DEF UploadInv
<1> QED
  BY Zenon, <1>6, <1>7, <1>8, <1>9 DEF IInv

LEMMA SpecIInv == ServingSpec => []IInv
<1>1. ServingInit => IInv
  BY InitIInv
<1>2. IInv /\ [ServingNext]_servingVars => IInv'
  BY NextIInv
<1> QED
  BY <1>1, <1>2, PTL DEF ServingSpec

LEMMA WhatIInvSays ==
    ASSUME IInv
    PROVE  ServesArePaidFor
<1>1. TypeInv /\ UploadInv /\ \A s \in Streams : StageInv(s) /\ DumpInv(s) /\ PaidInv(s)
  BY DEF IInv, StreamInv
<1>2. ServingTypeOK
  <2>1. \A s \in Streams : st[s] \in Stream
    BY Zenon, <1>1 DEF TypeInv
  <2>2. \A s \in Streams : DOMAIN st[s] = DOMAIN Fresh /\ st[s].at \in Places
    BY <2>1 DEF Stream, Fresh
  <2> QED
    BY <1>1, <2>2 DEF TypeInv, ServingTypeOK, Places
<1>3. ReservedWhileRunning
  <2> SUFFICES ASSUME NEW s \in Streams, NEW pass \in Passes, proc[<<s, pass>>] = "running"
               PROVE  st[s].reserved > 0 \/ st[s].tail \/ ticket[<<s, pass>>] = "lost"
    BY DEF ReservedWhileRunning
  <2>1. ticket[<<s, pass>>] \in {"open", "reaped", "lost"} /\ ticket[<<s, pass>>] # "reaped"
    BY Zenon, <1>1 DEF TypeInv, ServeJobs, Passes, DumpInv
  <2>2. st[s].at \in Places
    BY <1>1 DEF TypeInv, Stream
  <2>3. \/ st[s].at \in Exchange \cup {"cancelling"}
        \/ st[s].at \in {"return", "drop", "done"}
    <3>1. proc[<<s, 1>>] # "idle" \/ proc[<<s, 2>>] # "idle"
      BY DEF Passes
    <3>2. st[s].at \notin Before \cup {"respond"}
      BY ZenonT(30), <1>1, <3>1 DEF DumpInv
    <3> QED
      BY <2>2, <3>2 DEF Places, After
  <2>4. CASE st[s].at \in Exchange \cup {"cancelling"}
    BY Zenon, <1>1, <2>4 DEF StageInv
  <2>5. CASE st[s].at \in {"return", "drop", "done"}
    <3>1. st[s].tail \/ Settled(<<s, pass>>)
      BY Zenon, <1>1, <2>5 DEF DumpInv, Passes
    <3> QED
      BY <2>1, <3>1 DEF Settled
  <2> QED
    BY <2>3, <2>4, <2>5
<1>4. PassesArePaidOnce
  <2> SUFFICES ASSUME NEW s \in Streams
               PROVE  /\ st[s].paid \in {0, Dumps}
                      /\ charged[<<s, 1>>] <=> st[s].paid = Dumps
                      /\ (\E pass \in Passes : proc[<<s, pass>>] = "running") => st[s].paid = Dumps
                      /\ st[s].declined => st[s].paid = 0
    BY DEF PassesArePaidOnce
  <2> QED
    BY Zenon, <1>1 DEF PaidInv, Passes
<1>5. OvershootIsBounded
  <2>1. upload.bytes \in Nat /\ budget.serves \in Nat /\ Octets \in Nat /\ UploadCap \in Nat
    BY <1>1, ServingAssumption, LedgerAssumption DEF TypeInv, Window
  <2>2. budget.serves * Octets \in Nat /\ Cardinality(Unsent) \in Nat
    BY <2>1, UnsentFinite
  <2> QED
    BY <1>1, <2>1, <2>2 DEF UploadInv, OvershootIsBounded
<1> QED
  BY <1>2, <1>3, <1>4, <1>5 DEF ServesArePaidFor

(* Whatever the streams, gates, budgets and clock readings, and however the *)
(* accept loop, deadlines, peers and supervised dumps interleave: no dump   *)
(* runs for a stream that has given its bytes back, but for an expired reap *)
(* tail or a lost ticket; a stream pays once for both passes or not at all; *)
(* and an upload window overshoots its cap by less than one body for each   *)
(* concurrent serve (nar.rs, server.rs, upload_ledger.rs).                  *)
THEOREM WhatServesIsPaidFor == ServingSpec => []ServesArePaidFor
<1>1. IInv => ServesArePaidFor
  BY WhatIInvSays
<1> QED
  BY <1>1, SpecIInv, PTL

(* The serve gate's compare-and-swap counters and their guards implement    *)
(* the counters of BoundedCounters: each counter is what its streams hold,  *)
(* stays within its ceiling, and gets back exactly what was taken           *)
(* (try_acquire_serve_count, admit_plan, InflightReservation,               *)
(* ServeCountPermit).                                                       *)
THEOREM GateImplementsCounters == ServingSpec => ImplementsCounters
<1>1. ServingInit => Ceilings!CounterInit
  <2> SUFFICES ASSUME ServingInit
               PROVE  Ceilings!CounterInit
    OBVIOUS
  <2>1. \A s \in Streams : ~st[s].permit /\ st[s].reserved = 0
    BY DEF ServingInit, Fresh
  <2>2. HeldBy = [c \in Counters |-> [s \in Streams |-> 0]]
    BY <2>1 DEF HeldBy
  <2>3. TotalOf = [c \in Counters |-> 0]
    BY DEF ServingInit, TotalOf, Counters
  <2> QED
    BY Zenon, <2>2, <2>3 DEF Ceilings!CounterInit
<1>2. IInv /\ [ServingNext]_servingVars => [Ceilings!CounterNext]_(Ceilings!counterVars)
  BY NextIInv DEF Counted, Ceilings!counterVars
<1> QED
  BY <1>1, <1>2, SpecIInv, PTL DEF ServingSpec, ImplementsCounters, Ceilings!CounterSpec

=============================================================================
