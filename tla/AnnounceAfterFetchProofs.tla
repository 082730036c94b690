----------------------- MODULE AnnounceAfterFetchProofs ----------------------
(***************************************************************************)
(* The announce ledger's safety for every set of keys, seeds and           *)
(* dispatches and every budget.                                            *)
(***************************************************************************)
EXTENDS AnnounceAfterFetch, FiniteSetTheorems, TLAPS

Growing == {"poll", "giveup", "verify", "announce", "published"}

(* A grow owns the one key it reserved, and no two grows own the same key. *)
GrowInv ==
    /\ \A d \in Dispatches :
          \/ disp[d].grow = {}
          \/ \E k \in inflight : disp[d].grow = {k}
    /\ \A d \in Dispatches : disp[d].pc \in Growing => disp[d].grow # {}
    /\ \A d \in Dispatches : disp[d].pc = "idle" => disp[d].grow = {}
    /\ \A d, e \in Dispatches : d # e => disp[d].grow \cap disp[e].grow = {}

(* The three sets of the ledger do not overlap where they must not, and    *)
(* none of them holds a seed.                                              *)
LedgerInv ==
    /\ IsFiniteSet(inflight) /\ IsFiniteSet(announced)
    /\ inflight \cap announced = {}
    /\ held \subseteq announced
    /\ (inflight \cup announced) \cap SeedOwned = {}

(* Only announced keys are withdrawn, and a withdrawal that took effect is *)
(* still the newest assertion when its caller hears of it.                 *)
WithdrawInv ==
    /\ \A d \in Dispatches : disp[d].gone \cup disp[d].cur \subseteq announced
    /\ \A d \in Dispatches : disp[d].pc = "withdrawn" =>
          \A k \in disp[d].cur : dht[k] = "withdrawn"
    /\ \A k \in Keys : dht[k] = "withdrawn" => k \in announced

IInv ==
    /\ TypeOK
    /\ GrowInv
    /\ LedgerInv
    /\ WithdrawInv
    /\ BudgetConserved
    /\ SeedsStayLive
    /\ LiveIsTracked

(* No step takes a withdrawn key back.                                     *)
StaysWithdrawn == \A k \in Keys : dht[k] = "withdrawn" => dht'[k] = "withdrawn"

-----------------------------------------------------------------------------
(* The ledger starts with its whole budget and nothing announced.          *)
LEMMA InitIInv == Init => IInv
<1> SUFFICES ASSUME Init PROVE IInv
  OBVIOUS
<1>0. IsFiniteSet({}) /\ Cardinality({}) = 0
  BY FS_EmptySet
<1>1. TypeOK
  BY KeysAssumption DEF Init, TypeOK, Idle, Places
<1>2. GrowInv /\ WithdrawInv
  BY DEF Init, GrowInv, WithdrawInv, Idle, Growing
<1>3. LedgerInv
  BY <1>0 DEF Init, LedgerInv
<1>4. BudgetConserved
  BY <1>0, KeysAssumption DEF Init, BudgetConserved
<1>5. SeedsStayLive /\ LiveIsTracked
  BY KeysAssumption DEF Init, SeedsStayLive, LiveIsTracked
<1> QED
  BY <1>1, <1>2, <1>3, <1>4, <1>5 DEF IInv

DispatchState == [pc: Places, grow: SUBSET Keys, gone: SUBSET Keys,
                  cur: SUBSET Keys]

(* A step inside one dispatch that touches neither ledger nor DHT keeps    *)
(* the invariant, when it leaves the reservation alone and lists only      *)
(* announced keys.                                                         *)
LEMMA FrameIInv ==
    ASSUME IInv, NEW d \in Dispatches, NEW v \in DispatchState,
           disp' = [disp EXCEPT ![d] = v],
           v.grow = disp[d].grow,
           v.pc \in Growing => v.grow # {},
           v.pc = "idle" => v.grow = {},
           v.pc # "withdrawn",
           disp[d].pc # "published",
           v.gone \cup v.cur \subseteq announced,
           store' \in SUBSET Keys, index' \in SUBSET Keys,
           UNCHANGED <<remaining, inflight, announced, held, budgetCap, dht>>
    PROVE  IInv' /\ StaysWithdrawn
<1>0. disp'[d] = v /\ \A e \in Dispatches \ {d} : disp'[e] = disp[e]
  BY DEF IInv, TypeOK
<1>1. TypeOK'
  BY DEF IInv, TypeOK, DispatchState
<1>2. GrowInv'
  <2>1. \A e \in Dispatches : disp'[e].grow = disp[e].grow
    BY <1>0
  <2> QED
    BY <1>0, <2>1 DEF IInv, GrowInv
<1>3. LedgerInv' /\ BudgetConserved'
  BY DEF IInv, LedgerInv, BudgetConserved
<1>4. WithdrawInv'
  BY <1>0 DEF IInv, WithdrawInv
<1>5. SeedsStayLive' /\ LiveIsTracked'
  BY <1>0 DEF IInv, SeedsStayLive, LiveIsTracked
<1>6. StaysWithdrawn
  BY DEF StaysWithdrawn
<1> QED
  BY <1>1, <1>2, <1>3, <1>4, <1>5, <1>6 DEF IInv

(* Replacing some fields of a dispatch.                                    *)
LEMMA DispatchTyped ==
    ASSUME TypeOK, NEW d \in Dispatches
    PROVE  disp[d] \in DispatchState
BY DEF TypeOK, DispatchState

(* The steps of reconcile and grow that touch neither ledger nor DHT.      *)
LEMMA QuietIInv ==
    ASSUME IInv, NEW d \in Dispatches,
           \/ Snapshot(d)
           \/ \E k \in Keys : PruneStat(d, k)
           \/ PruneDrop(d)
           \/ WithdrawFail(d)
           \/ PollSeen(d)
           \/ PollLast(d)
           \/ VerifyOk(d)
           \/ ReconcileDone(d)
    PROVE  IInv' /\ StaysWithdrawn
<1>t. disp[d] \in DispatchState
  BY DispatchTyped DEF IInv
<1>g. /\ disp[d].pc \in Growing => disp[d].grow # {}
      /\ disp[d].gone \cup disp[d].cur \subseteq announced
  BY DEF IInv, GrowInv, WithdrawInv
<1>s. store \in SUBSET Keys /\ index \in SUBSET Keys /\ held \subseteq announced
      /\ held \in SUBSET Keys
  BY DEF IInv, TypeOK, LedgerInv
<1>1. CASE Snapshot(d)
  <2> DEFINE v == [disp[d] EXCEPT !.pc = "next", !.gone = held \ store]
  <2>1. /\ v \in DispatchState /\ v.grow = disp[d].grow /\ v.pc = "next"
        /\ v.gone \cup v.cur \subseteq announced
    BY <1>t, <1>g, <1>s DEF DispatchState, Places
  <2>2. disp' = [disp EXCEPT ![d] = v]
    BY <1>1 DEF Snapshot, IInv, TypeOK
  <2>3. disp[d].pc # "published" /\ UNCHANGED <<ledger, store, index, dht>>
    BY <1>1 DEF Snapshot
  <2> HIDE DEF v
  <2> QED
    BY <1>s, <2>1, <2>2, <2>3, FrameIInv DEF Growing, ledger
<1>2. ASSUME NEW k \in Keys, PruneStat(d, k) PROVE IInv' /\ StaysWithdrawn
  <2> DEFINE v == [disp[d] EXCEPT !.pc = IF k \in index \ store THEN "prune"
                                                                ELSE "withdraw",
                                  !.gone = @ \ {k}, !.cur = {k}]
  <2>1. k \in disp[d].gone
    BY <1>2 DEF PruneStat
  <2>2. /\ v \in DispatchState /\ v.grow = disp[d].grow
        /\ v.pc \in {"prune", "withdraw"}
        /\ v.gone \cup v.cur \subseteq announced
    BY <1>t, <1>g, <2>1 DEF DispatchState, Places
  <2>3. disp' = [disp EXCEPT ![d] = v]
    BY <1>2 DEF PruneStat, IInv, TypeOK
  <2>4. disp[d].pc # "published" /\ UNCHANGED <<ledger, store, index, dht>>
    BY <1>2 DEF PruneStat
  <2> HIDE DEF v
  <2> QED
    BY <1>s, <2>2, <2>3, <2>4, FrameIInv DEF Growing, ledger
<1>3. CASE PruneDrop(d)
  <2> DEFINE v == [disp[d] EXCEPT !.pc = "withdraw"]
  <2>1. /\ v \in DispatchState /\ v.grow = disp[d].grow /\ v.pc = "withdraw"
        /\ v.gone \cup v.cur \subseteq announced
    BY <1>t, <1>g DEF DispatchState, Places
  <2>2. disp' = [disp EXCEPT ![d] = v]
    BY <1>3 DEF PruneDrop, Goto, IInv, TypeOK
  <2>3. disp[d].pc # "published" /\ UNCHANGED <<ledger, store, dht>>
        /\ index' \in SUBSET Keys
    BY <1>3, <1>s DEF PruneDrop
  <2> HIDE DEF v
  <2> QED
    BY <1>s, <2>1, <2>2, <2>3, FrameIInv DEF Growing, ledger
<1>4. CASE WithdrawFail(d)
  <2> DEFINE v == [disp[d] EXCEPT !.pc = "next", !.cur = {}]
  <2>1. /\ v \in DispatchState /\ v.grow = disp[d].grow /\ v.pc = "next"
        /\ v.gone \cup v.cur \subseteq announced
    BY <1>t, <1>g DEF DispatchState, Places
  <2>2. disp' = [disp EXCEPT ![d] = v]
    BY <1>4 DEF WithdrawFail, IInv, TypeOK
  <2>3. disp[d].pc # "published" /\ UNCHANGED <<ledger, store, index, dht>>
    BY <1>4 DEF WithdrawFail
  <2> HIDE DEF v
  <2> QED
    BY <1>s, <2>1, <2>2, <2>3, FrameIInv DEF Growing, ledger
<1>5. CASE PollSeen(d)
  <2> DEFINE v == [disp[d] EXCEPT !.pc = "verify"]
  <2>1. /\ v \in DispatchState /\ v.grow = disp[d].grow /\ v.pc = "verify"
        /\ v.gone \cup v.cur \subseteq announced
    BY <1>t, <1>g DEF DispatchState, Places
  <2>2. disp' = [disp EXCEPT ![d] = v]
    BY <1>5 DEF PollSeen, Goto, IInv, TypeOK
  <2>3. disp[d].pc = "poll" /\ UNCHANGED <<ledger, store, index, dht>>
    BY <1>5 DEF PollSeen
  <2> HIDE DEF v
  <2> QED
    BY <1>g, <1>s, <2>1, <2>2, <2>3, FrameIInv DEF Growing, ledger
<1>6. CASE VerifyOk(d)
  <2> DEFINE v == [disp[d] EXCEPT !.pc = "announce"]
  <2>1. /\ v \in DispatchState /\ v.grow = disp[d].grow /\ v.pc = "announce"
        /\ v.gone \cup v.cur \subseteq announced
    BY <1>t, <1>g DEF DispatchState, Places
  <2>2. disp' = [disp EXCEPT ![d] = v]
    BY <1>6 DEF VerifyOk, Goto, IInv, TypeOK
  <2>3. disp[d].pc = "verify" /\ UNCHANGED <<ledger, store, dht>>
        /\ index' \in SUBSET Keys
    BY <1>6, <1>s, <1>t DEF VerifyOk, DispatchState
  <2> HIDE DEF v
  <2> QED
    BY <1>g, <1>s, <2>1, <2>2, <2>3, FrameIInv DEF Growing, ledger
<1>7. CASE ReconcileDone(d)
  <2>0. disp[d].pc = "next" /\ UNCHANGED <<ledger, store, index, dht>>
    BY <1>7 DEF ReconcileDone
  <2>1. CASE disp[d].grow = {}
    <3>1. /\ Idle \in DispatchState /\ Idle.grow = disp[d].grow /\ Idle.pc = "idle"
          /\ Idle.gone \cup Idle.cur \subseteq announced
      BY <2>1 DEF DispatchState, Places, Idle
    <3>2. disp' = [disp EXCEPT ![d] = Idle]
      BY <1>7, <2>1 DEF ReconcileDone, End
    <3> QED
      BY <1>s, <2>0, <2>1, <3>1, <3>2, FrameIInv DEF Growing, ledger
  <2>2. CASE disp[d].grow # {}
    <3> DEFINE v == [disp[d] EXCEPT !.pc = "poll"]
    <3>1. /\ v \in DispatchState /\ v.grow = disp[d].grow /\ v.pc = "poll"
          /\ v.gone \cup v.cur \subseteq announced
      BY <1>t, <1>g DEF DispatchState, Places
    <3>2. disp' = [disp EXCEPT ![d] = v]
      BY <1>7, <2>2 DEF ReconcileDone, Goto, IInv, TypeOK
    <3> HIDE DEF v
    <3> QED
      BY <1>s, <2>0, <2>2, <3>1, <3>2, FrameIInv DEF Growing, ledger
  <2> QED
    BY <2>1, <2>2
<1>8. CASE PollLast(d)
  <2> DEFINE v == [disp[d] EXCEPT !.pc = "giveup"]
  <2>1. /\ v \in DispatchState /\ v.grow = disp[d].grow /\ v.pc = "giveup"
        /\ v.gone \cup v.cur \subseteq announced
    BY <1>t, <1>g DEF DispatchState, Places
  <2>2. disp' = [disp EXCEPT ![d] = v]
    BY <1>8 DEF PollLast, Goto, IInv, TypeOK
  <2>3. disp[d].pc = "poll" /\ UNCHANGED <<ledger, store, index, dht>>
    BY <1>8 DEF PollLast
  <2> HIDE DEF v
  <2> QED
    BY <1>g, <1>s, <2>1, <2>2, <2>3, FrameIInv DEF Growing, ledger
<1> QED
  BY <1>1, <1>2, <1>3, <1>4, <1>5, <1>6, <1>7, <1>8

(* begin reserves one unit for a key that no grow owns and that was never  *)
(* announced.                                                              *)
LEMMA OnFetchedIInv ==
    ASSUME IInv, NEW d \in Dispatches, NEW k \in Keys, OnFetched(d, k)
    PROVE  IInv' /\ StaysWithdrawn
<1>0. /\ disp[d].pc = "idle" /\ disp[d].grow = {}
      /\ UNCHANGED <<announced, held, budgetCap, store, index, dht>>
  BY DEF OnFetched, IInv, GrowInv
<1>1. CASE ~Proceeds(k)
  <2> DEFINE v == [pc |-> "reconcile", grow |-> {}, gone |-> {}, cur |-> {}]
  <2>1. /\ v \in DispatchState /\ v.grow = {} /\ v.pc = "reconcile"
        /\ v.gone \cup v.cur = {}
    BY DEF DispatchState, Places
  <2>2. disp' = [disp EXCEPT ![d] = v] /\ UNCHANGED <<remaining, inflight>>
    BY <1>1 DEF OnFetched
  <2>3. store \in SUBSET Keys /\ index \in SUBSET Keys
    BY DEF IInv, TypeOK
  <2> HIDE DEF v
  <2> QED
    BY <1>0, <2>1, <2>2, <2>3, FrameIInv DEF Growing
<1>2. CASE Proceeds(k)
  <2> DEFINE v == [pc |-> "reconcile", grow |-> {k}, gone |-> {}, cur |-> {}]
  <2>1. /\ v \in DispatchState /\ v.grow = {k} /\ v.pc = "reconcile"
        /\ v.gone \cup v.cur = {}
    BY DEF DispatchState, Places
  <2>2. /\ disp' = [disp EXCEPT ![d] = v]
        /\ remaining' = remaining - 1
        /\ inflight' = inflight \cup {k}
    BY <1>2 DEF OnFetched
  <2>3. k \notin SeedOwned /\ k \notin announced /\ k \notin inflight /\ remaining > 0
    BY <1>2 DEF Proceeds
  <2> HIDE DEF v
  <2>4. disp'[d] = v /\ \A e \in Dispatches \ {d} : disp'[e] = disp[e]
    BY <2>2 DEF IInv, TypeOK
  <2>5. TypeOK'
    BY <1>0, <2>1, <2>2, <2>3 DEF IInv, TypeOK, DispatchState
  <2>6. GrowInv'
    BY <2>1, <2>2, <2>3, <2>4 DEF IInv, GrowInv, Growing
  <2>7. LedgerInv' /\ BudgetConserved'
    <3>1. /\ IsFiniteSet(inflight')
          /\ Cardinality(inflight') = Cardinality(inflight) + 1
      BY <2>2, <2>3, FS_AddElement DEF IInv, LedgerInv
    <3>2. Cardinality(inflight) \in Nat /\ Cardinality(announced) \in Nat
      BY FS_CardinalityType DEF IInv, LedgerInv
    <3>3. BudgetConserved'
      BY <1>0, <2>2, <2>3, <3>1, <3>2 DEF IInv, TypeOK, BudgetConserved
    <3>4. LedgerInv'
      BY <1>0, <2>2, <2>3, <3>1 DEF IInv, LedgerInv
    <3> QED
      BY <3>3, <3>4
  <2>8. WithdrawInv'
    BY <1>0, <2>1, <2>4 DEF IInv, WithdrawInv
  <2>9. SeedsStayLive' /\ LiveIsTracked' /\ StaysWithdrawn
    BY <1>0, <2>4 DEF IInv, SeedsStayLive, LiveIsTracked, StaysWithdrawn
  <2> QED
    BY <2>5, <2>6, <2>7, <2>8, <2>9 DEF IInv
<1> QED
  BY <1>1, <1>2

(* The tombstone of a held key; never a seed's.                            *)
LEMMA WithdrawEffectIInv ==
    ASSUME IInv, NEW d \in Dispatches, WithdrawEffect(d)
    PROVE  IInv' /\ StaysWithdrawn
<1> DEFINE v == [disp[d] EXCEPT !.pc = "withdrawn"]
<1>t. disp[d] \in DispatchState
  BY DispatchTyped DEF IInv
<1>1. /\ v \in DispatchState /\ v.grow = disp[d].grow /\ v.pc = "withdrawn"
      /\ v.gone = disp[d].gone /\ v.cur = disp[d].cur
  BY <1>t DEF DispatchState, Places
<1>2. /\ disp[d].pc = "withdraw"
      /\ disp' = [disp EXCEPT ![d] = v]
      /\ dht' = [k \in Keys |-> IF k \in disp[d].cur THEN "withdrawn" ELSE dht[k]]
      /\ UNCHANGED <<remaining, inflight, announced, held, budgetCap, store, index>>
  BY DEF WithdrawEffect, Goto, ledger, IInv, TypeOK
<1> HIDE DEF v
<1>3. disp'[d] = v /\ \A e \in Dispatches \ {d} : disp'[e] = disp[e]
  BY <1>2 DEF IInv, TypeOK
<1>4. TypeOK'
  BY <1>1, <1>2 DEF IInv, TypeOK, DispatchState
<1>5. GrowInv'
  <2>1. \A e \in Dispatches : disp'[e].grow = disp[e].grow
    BY <1>1, <1>3
  <2> QED
    BY <1>1, <1>2, <1>3, <2>1 DEF IInv, GrowInv, Growing
<1>6. LedgerInv' /\ BudgetConserved'
  BY <1>2 DEF IInv, LedgerInv, BudgetConserved
<1>c. disp[d].cur \subseteq announced /\ disp[d].cur \subseteq Keys
  BY <1>t DEF IInv, WithdrawInv, DispatchState
<1>7. WithdrawInv'
  <2>1. \A e \in Dispatches : disp'[e].gone = disp[e].gone /\ disp'[e].cur = disp[e].cur
    BY <1>1, <1>3
  <2>2. \A e \in Dispatches : disp'[e].pc = "withdrawn" =>
           \A k \in disp[e].cur : dht'[k] = "withdrawn"
    <3> SUFFICES ASSUME NEW e \in Dispatches, disp'[e].pc = "withdrawn",
                        NEW k \in disp[e].cur
                 PROVE  dht'[k] = "withdrawn"
      OBVIOUS
    <3>1. k \in Keys
      BY DEF IInv, TypeOK
    <3>2. CASE e = d
      BY <1>2, <3>1, <3>2
    <3>3. CASE e # d
      BY <1>2, <1>3, <3>1, <3>3 DEF IInv, WithdrawInv
    <3> QED
      BY <3>2, <3>3
  <2>3. \A k \in Keys : dht'[k] = "withdrawn" => k \in announced
    BY <1>2, <1>c DEF IInv, WithdrawInv
  <2> QED
    BY <1>2, <2>1, <2>2, <2>3 DEF IInv, WithdrawInv
<1>8. SeedsStayLive'
  BY <1>2, <1>c, KeysAssumption DEF IInv, LedgerInv, SeedsStayLive
<1>9. LiveIsTracked'
  BY <1>1, <1>2, <1>3 DEF IInv, LiveIsTracked
<1>10. StaysWithdrawn
  BY <1>2 DEF StaysWithdrawn
<1> QED
  BY <1>4, <1>5, <1>6, <1>7, <1>8, <1>9, <1>10 DEF IInv

(* The holding is dropped once its tombstone is out.                       *)
LEMMA WithdrawOkIInv ==
    ASSUME IInv, NEW d \in Dispatches, WithdrawOk(d)
    PROVE  IInv' /\ StaysWithdrawn
<1> DEFINE v == [disp[d] EXCEPT !.pc = "next", !.cur = {}]
<1>t. disp[d] \in DispatchState
  BY DispatchTyped DEF IInv
<1>1. /\ v \in DispatchState /\ v.grow = disp[d].grow /\ v.pc = "next"
      /\ v.gone = disp[d].gone /\ v.cur = {}
  BY <1>t DEF DispatchState, Places
<1>2. /\ disp[d].pc = "withdrawn"
      /\ disp' = [disp EXCEPT ![d] = v]
      /\ held' = held \ disp[d].cur
      /\ UNCHANGED <<remaining, inflight, announced, budgetCap, store, index, dht>>
  BY DEF WithdrawOk, IInv, TypeOK
<1> HIDE DEF v
<1>3. disp'[d] = v /\ \A e \in Dispatches \ {d} : disp'[e] = disp[e]
  BY <1>2 DEF IInv, TypeOK
<1>4. TypeOK'
  BY <1>1, <1>2 DEF IInv, TypeOK, DispatchState
<1>5. GrowInv'
  <2>1. \A e \in Dispatches : disp'[e].grow = disp[e].grow
    BY <1>1, <1>3
  <2> QED
    BY <1>1, <1>2, <1>3, <2>1 DEF IInv, GrowInv, Growing
<1>6. LedgerInv' /\ BudgetConserved'
  BY <1>2 DEF IInv, LedgerInv, BudgetConserved
<1>7. WithdrawInv'
  BY <1>1, <1>2, <1>3 DEF IInv, WithdrawInv
<1>8. LiveIsTracked'
  BY <1>1, <1>2, <1>3 DEF IInv, WithdrawInv, LiveIsTracked
<1>9. SeedsStayLive' /\ StaysWithdrawn
  BY <1>2 DEF IInv, SeedsStayLive, StaysWithdrawn
<1> QED
  BY <1>4, <1>5, <1>6, <1>7, <1>8, <1>9 DEF IInv

(* A grow that ends gives its key back to exactly one place.               *)
LEMMA EndOfGrow ==
    ASSUME IInv, NEW d \in Dispatches, disp[d].pc \in Growing, End(d),
           inflight' = inflight \ disp[d].grow
    PROVE  \E k \in Keys :
             /\ disp[d].grow = {k}
             /\ k \in inflight /\ k \notin announced /\ k \notin SeedOwned
             /\ inflight' = inflight \ {k}
             /\ IsFiniteSet(inflight')
             /\ Cardinality(inflight') = Cardinality(inflight) - 1
             /\ Cardinality(inflight) \in Nat /\ Cardinality(announced) \in Nat
             /\ disp'[d] = Idle
             /\ \A e \in Dispatches \ {d} : disp'[e] = disp[e]
             /\ disp' \in [Dispatches -> DispatchState]
             /\ \A e \in Dispatches \ {d} :
                   disp[e].grow = {} \/ \E j \in inflight' : disp[e].grow = {j}
<1>1. PICK k \in inflight : disp[d].grow = {k}
  BY DEF IInv, GrowInv
<1>2. k \in Keys /\ k \notin announced /\ k \notin SeedOwned
  BY DEF IInv, TypeOK, LedgerInv
<1>3. /\ inflight' = inflight \ {k}
      /\ IsFiniteSet(inflight')
      /\ Cardinality(inflight') = Cardinality(inflight) - 1
  BY <1>1, FS_RemoveElement DEF IInv, LedgerInv
<1>4. Cardinality(inflight) \in Nat /\ Cardinality(announced) \in Nat
  BY FS_CardinalityType DEF IInv, LedgerInv
<1>5. Idle \in DispatchState
  BY DEF DispatchState, Places, Idle
<1>6. /\ disp'[d] = Idle
      /\ \A e \in Dispatches \ {d} : disp'[e] = disp[e]
      /\ disp' \in [Dispatches -> DispatchState]
  BY <1>5 DEF End, IInv, TypeOK, DispatchState
<1>7. ASSUME NEW e \in Dispatches \ {d}
      PROVE  disp[e].grow = {} \/ \E j \in inflight' : disp[e].grow = {j}
  <2>1. disp[d].grow \cap disp[e].grow = {}
    BY DEF IInv, GrowInv
  <2>2. disp[e].grow = {} \/ \E j \in inflight : disp[e].grow = {j}
    BY DEF IInv, GrowInv
  <2> QED
    BY <1>1, <1>3, <2>1, <2>2
<1> QED
  BY <1>1, <1>2, <1>3, <1>4, <1>6, <1>7

(* commit_failure refunds the unit.                                        *)
LEMMA CommitFailureIInv ==
    ASSUME IInv, NEW d \in Dispatches, disp[d].pc \in Growing,
           disp[d].pc # "published", CommitFailure(d),
           index' \in SUBSET Keys, UNCHANGED <<store, dht>>
    PROVE  IInv' /\ StaysWithdrawn
<1>0. End(d) /\ inflight' = inflight \ disp[d].grow /\ UNCHANGED <<announced, held, budgetCap>>
  BY DEF CommitFailure
<1>1. PICK k \in Keys :
             /\ disp[d].grow = {k}
             /\ k \in inflight /\ k \notin announced /\ k \notin SeedOwned
             /\ inflight' = inflight \ {k}
             /\ IsFiniteSet(inflight')
             /\ Cardinality(inflight') = Cardinality(inflight) - 1
             /\ Cardinality(inflight) \in Nat /\ Cardinality(announced) \in Nat
             /\ disp'[d] = Idle
             /\ \A e \in Dispatches \ {d} : disp'[e] = disp[e]
             /\ disp' \in [Dispatches -> DispatchState]
             /\ \A e \in Dispatches \ {d} :
                   disp[e].grow = {} \/ \E j \in inflight' : disp[e].grow = {j}
  BY <1>0, EndOfGrow
<1>2. remaining' = remaining + 1
  BY <1>1 DEF CommitFailure
<1>i. Idle.pc = "idle" /\ Idle.grow = {} /\ Idle.gone = {} /\ Idle.cur = {}
  BY DEF Idle
<1>3. TypeOK'
  BY <1>0, <1>1, <1>2 DEF IInv, TypeOK, DispatchState
<1>4. GrowInv'
  BY <1>1, <1>i DEF IInv, GrowInv, Growing
<1>5. LedgerInv' /\ BudgetConserved'
  BY <1>0, <1>1, <1>2 DEF IInv, TypeOK, LedgerInv, BudgetConserved
<1>6. WithdrawInv'
  BY <1>0, <1>1, <1>i DEF IInv, WithdrawInv
<1>7. SeedsStayLive' /\ StaysWithdrawn
  BY DEF IInv, SeedsStayLive, StaysWithdrawn
<1>8. LiveIsTracked'
  BY <1>0, <1>1 DEF IInv, LiveIsTracked
<1> QED
  BY <1>3, <1>4, <1>5, <1>6, <1>7, <1>8 DEF IInv

(* commit_success spends the unit and tracks the holding.                  *)
LEMMA AnnounceEndIInv ==
    ASSUME IInv, NEW d \in Dispatches, AnnounceEnd(d)
    PROVE  IInv' /\ StaysWithdrawn
<1>0. /\ disp[d].pc \in Growing
      /\ End(d) /\ inflight' = inflight \ disp[d].grow
      /\ announced' = announced \cup disp[d].grow
      /\ held' = held \cup disp[d].grow
      /\ UNCHANGED <<remaining, budgetCap, store, index, dht>>
  BY DEF AnnounceEnd, CommitSuccess, Growing
<1>1. PICK k \in Keys :
             /\ disp[d].grow = {k}
             /\ k \in inflight /\ k \notin announced /\ k \notin SeedOwned
             /\ inflight' = inflight \ {k}
             /\ IsFiniteSet(inflight')
             /\ Cardinality(inflight') = Cardinality(inflight) - 1
             /\ Cardinality(inflight) \in Nat /\ Cardinality(announced) \in Nat
             /\ disp'[d] = Idle
             /\ \A e \in Dispatches \ {d} : disp'[e] = disp[e]
             /\ disp' \in [Dispatches -> DispatchState]
             /\ \A e \in Dispatches \ {d} :
                   disp[e].grow = {} \/ \E j \in inflight' : disp[e].grow = {j}
  BY <1>0, EndOfGrow
<1>2. /\ IsFiniteSet(announced')
      /\ Cardinality(announced') = Cardinality(announced) + 1
  BY <1>0, <1>1, FS_AddElement DEF IInv, LedgerInv
<1>i. Idle.pc = "idle" /\ Idle.grow = {} /\ Idle.gone = {} /\ Idle.cur = {}
  BY DEF Idle
<1>3. TypeOK'
  BY <1>0, <1>1 DEF IInv, TypeOK, DispatchState
<1>4. GrowInv'
  BY <1>1, <1>i DEF IInv, GrowInv, Growing
<1>5. LedgerInv' /\ BudgetConserved'
  BY <1>0, <1>1, <1>2 DEF IInv, TypeOK, LedgerInv, BudgetConserved
<1>6. WithdrawInv'
  BY <1>0, <1>1, <1>i DEF IInv, WithdrawInv
<1>7. SeedsStayLive' /\ StaysWithdrawn
  BY <1>0 DEF IInv, SeedsStayLive, StaysWithdrawn
<1>8. LiveIsTracked'
  BY <1>0, <1>1 DEF IInv, LiveIsTracked
<1> QED
  BY <1>3, <1>4, <1>5, <1>6, <1>7, <1>8 DEF IInv

(* The record goes out for a key that was never announced before.          *)
LEMMA AnnounceEffectIInv ==
    ASSUME IInv, NEW d \in Dispatches, AnnounceEffect(d)
    PROVE  IInv' /\ StaysWithdrawn
<1> DEFINE v == [disp[d] EXCEPT !.pc = "published"]
<1>t. disp[d] \in DispatchState
  BY DispatchTyped DEF IInv
<1>1. /\ v \in DispatchState /\ v.grow = disp[d].grow /\ v.pc = "published"
      /\ v.gone = disp[d].gone /\ v.cur = disp[d].cur
  BY <1>t DEF DispatchState, Places
<1>2. /\ disp[d].pc = "announce"
      /\ disp' = [disp EXCEPT ![d] = v]
      /\ dht' = [k \in Keys |-> IF k \in disp[d].grow THEN "live" ELSE dht[k]]
      /\ UNCHANGED <<remaining, inflight, announced, held, budgetCap, store, index>>
  BY DEF AnnounceEffect, Goto, ledger, IInv, TypeOK
<1> HIDE DEF v
<1>3. disp'[d] = v /\ \A e \in Dispatches \ {d} : disp'[e] = disp[e]
  BY <1>2 DEF IInv, TypeOK
<1>g. disp[d].grow \cap announced = {} /\ disp[d].grow # {}
  BY <1>2 DEF IInv, GrowInv, LedgerInv, Growing
<1>4. TypeOK'
  BY <1>1, <1>2 DEF IInv, TypeOK, DispatchState
<1>5. GrowInv'
  <2>1. \A e \in Dispatches : disp'[e].grow = disp[e].grow
    BY <1>1, <1>3
  <2> QED
    BY <1>1, <1>2, <1>3, <1>g, <2>1 DEF IInv, GrowInv, Growing
<1>6. LedgerInv' /\ BudgetConserved'
  BY <1>2 DEF IInv, LedgerInv, BudgetConserved
<1>7. StaysWithdrawn
  BY <1>2, <1>g DEF IInv, WithdrawInv, StaysWithdrawn
<1>8. WithdrawInv'
  <2>1. \A e \in Dispatches : disp'[e].gone = disp[e].gone /\ disp'[e].cur = disp[e].cur
    BY <1>1, <1>3
  <2>2. \A e \in Dispatches : disp'[e].pc = "withdrawn" => disp[e].pc = "withdrawn"
    BY <1>1, <1>3
  <2>3. \A e \in Dispatches : disp[e].cur \subseteq Keys
    BY DEF IInv, TypeOK
  <2>4. \A k \in Keys : dht'[k] = "withdrawn" => dht[k] = "withdrawn"
    BY <1>2
  <2> QED
    BY <1>2, <1>7, <2>1, <2>2, <2>3, <2>4 DEF IInv, WithdrawInv, StaysWithdrawn
<1>9. SeedsStayLive'
  BY <1>2, KeysAssumption DEF IInv, SeedsStayLive
<1>10. LiveIsTracked'
  <2> SUFFICES ASSUME NEW k \in Keys \ SeedOwned, dht'[k] = "live", k \notin held
               PROVE  \E e \in Dispatches : disp'[e].pc = "published"
                                            /\ k \in disp'[e].grow
    BY <1>2 DEF LiveIsTracked
  <2>1. CASE k \in disp[d].grow
    BY <1>1, <1>3, <2>1
  <2>2. CASE k \notin disp[d].grow
    <3>1. PICK e \in Dispatches : disp[e].pc = "published" /\ k \in disp[e].grow
      BY <1>2, <2>2 DEF IInv, LiveIsTracked
    <3>2. e # d
      BY <1>2, <3>1
    <3> QED
      BY <1>3, <3>1, <3>2
  <2> QED
    BY <2>1, <2>2
<1> QED
  BY <1>4, <1>5, <1>6, <1>7, <1>8, <1>9, <1>10 DEF IInv

-----------------------------------------------------------------------------
(* Every step keeps the invariant and takes no withdrawn key back.         *)
LEMMA NextIInv == ASSUME IInv, [Next]_vars PROVE IInv' /\ StaysWithdrawn
<1>1. ASSUME NEW d \in Dispatches, Fetched(d) PROVE IInv' /\ StaysWithdrawn
  BY <1>1, OnFetchedIInv DEF Fetched
<1>2. ASSUME NEW d \in Dispatches, DispatchStep(d) PROVE IInv' /\ StaysWithdrawn
  <2>0. index \in SUBSET Keys /\ disp[d].grow \in SUBSET Keys
    BY DEF IInv, TypeOK
  <2>1. CASE PollTimeout(d)
    BY <2>0, <2>1, CommitFailureIInv DEF PollTimeout, Growing
  <2>2. CASE VerifyFail(d)
    <3>1. index' \in SUBSET Keys
      BY <2>0, <2>2 DEF VerifyFail
    <3> QED
      BY <2>2, <3>1, CommitFailureIInv DEF VerifyFail, Growing
  <2>3. CASE AnnounceClean(d)
    BY <2>0, <2>3, CommitFailureIInv DEF AnnounceClean, Growing
  <2> QED
    BY <1>2, <2>1, <2>2, <2>3, QuietIInv, WithdrawEffectIInv, WithdrawOkIInv,
       AnnounceEffectIInv, AnnounceEndIInv DEF DispatchStep
<1>3. ASSUME NEW k \in Keys, Import(k) \/ Collect(k) PROVE IInv' /\ StaysWithdrawn
  <2>1. store' \in SUBSET Keys
        /\ UNCHANGED <<remaining, inflight, announced, held, budgetCap, index, dht, disp>>
    BY <1>3 DEF Import, Collect, ledger, IInv, TypeOK
  <2> QED
    BY <2>1 DEF IInv, TypeOK, GrowInv, LedgerInv, WithdrawInv, BudgetConserved,
                SeedsStayLive, LiveIsTracked, StaysWithdrawn
<1>4. CASE UNCHANGED vars
  BY <1>4 DEF vars, ledger, IInv, TypeOK, GrowInv, LedgerInv, WithdrawInv,
              BudgetConserved, SeedsStayLive, LiveIsTracked, StaysWithdrawn
<1> QED
  BY <1>1, <1>2, <1>3, <1>4 DEF Next

(* The inductive invariant holds of every behaviour.                       *)
LEMMA SpecIInv == Spec => []IInv
<1>1. IInv /\ [Next]_vars => IInv'
  BY NextIInv
<1> QED
  BY <1>1, InitIInv, PTL DEF Spec

(* The ledger, the index and the dispatches keep their shape; in           *)
(* particular the remaining budget never goes below zero.                  *)
THEOREM TypeCorrect == Spec => []TypeOK
<1>1. IInv => TypeOK
  BY DEF IInv
<1> QED
  BY <1>1, SpecIInv, PTL

(* Whatever dispatches interleave, the units unspent, reserved and spent   *)
(* add up to the configured budget.                                        *)
THEOREM BudgetIsConserved == Spec => []BudgetConserved
<1>1. IInv => BudgetConserved
  BY DEF IInv
<1> QED
  BY <1>1, SpecIInv, PTL

(* The hook never tombstones a record of the durable seed leg.             *)
THEOREM SeedsUntouched == Spec => []SeedsStayLive
<1>1. IInv => SeedsStayLive
  BY DEF IInv
<1> QED
  BY <1>1, SpecIInv, PTL

(* Every live record of a fetched path is known to the ledger or to the    *)
(* grow that is publishing it.                                             *)
THEOREM NoOrphanRecord == Spec => []LiveIsTracked
<1>1. IInv => LiveIsTracked
  BY DEF IInv
<1> QED
  BY <1>1, SpecIInv, PTL

(* A key withdrawn by this hook is never announced again by it.            *)
THEOREM WithdrawalIsFinal == Spec => WithdrawnStaysWithdrawn
<1>1. IInv /\ [Next]_vars => [StaysWithdrawn]_dht
  BY NextIInv
<1>2. Spec => [][StaysWithdrawn]_dht
  BY <1>1, SpecIInv, PTL DEF Spec
<1> QED
  BY <1>2 DEF WithdrawnStaysWithdrawn, StaysWithdrawn
=============================================================================
