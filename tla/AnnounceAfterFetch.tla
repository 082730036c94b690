------------------------- MODULE AnnounceAfterFetch --------------------------
(***************************************************************************)
(* Swarm growth: Libp2pAnnounceAfterFetch (daemon-libp2p/src/lib.rs), its  *)
(* AnnounceLedger and the dispatches it spawns on every successful fetch.  *)
(* A dispatch first withdraws the holdings whose store path is gone, then, *)
(* when the budget admitted the fetch, waits for the local store to        *)
(* materialise the path, verifies it and announces it.                     *)
(*                                                                         *)
(* Dispatches are detached tasks and interleave at every await; the local  *)
(* nix imports and garbage-collects store paths at any time; an announce   *)
(* or a withdrawal may take effect although its caller sees an error.  A   *)
(* key stands for a NarHash together with its ContentKey and store path.   *)
(***************************************************************************)
EXTENDS Integers, FiniteSets

CONSTANTS
    Keys,
    SeedOwned,    \* keys the memory-resident seed leg announced at startup
    Dispatches,   \* spawned dispatches that may be in flight at once
    BudgetCaps    \* the announce_budget_counts an operator may configure

ASSUME KeysAssumption == SeedOwned \subseteq Keys /\ BudgetCaps \subseteq Nat

VARIABLES
    remaining, inflight, announced, held,   \* AnnounceLedger
    budgetCap,   \* Libp2pAnnounceAfterFetch.budget_cap, fixed at startup
    store,    \* keys whose store path exists
    index,    \* keys registered in the AvailabilityIndex
    dht,      \* per key: the assertion of ours that is newest in the DHT
    disp      \* the state of each dispatch

ledger == <<remaining, inflight, announced, held, budgetCap>>
vars == <<ledger, store, index, dht, disp>>

Idle == [pc |-> "idle", grow |-> {}, gone |-> {}, cur |-> {}]

Init ==
    /\ budgetCap \in BudgetCaps
    /\ remaining = budgetCap
    /\ inflight = {}
    /\ announced = {}
    /\ held = {}
    /\ store \in SUBSET Keys
    /\ index = {}
    /\ dht = [k \in Keys |-> IF k \in SeedOwned THEN "live" ELSE "none"]
    /\ disp = [d \in Dispatches |-> Idle]

Goto(d, place) == disp' = [disp EXCEPT ![d].pc = place]

End(d) == disp' = [disp EXCEPT ![d] = Idle]

-----------------------------------------------------------------------------
(* on_fetched: begin, then dispatch. *)

ProceedsOnceWithdrawn(k) ==
    /\ k \notin SeedOwned
    /\ k \notin held
    /\ k \notin inflight
    /\ remaining > 0

(* begin returns Begin::Proceed.                                           *)
Proceeds(k) ==
    /\ k \notin SeedOwned
    /\ k \notin announced
    /\ k \notin inflight
    /\ remaining > 0

OnFetched(d, k) ==
    /\ disp[d].pc = "idle"
    /\ IF Proceeds(k)
       THEN /\ remaining' = remaining - 1
            /\ inflight' = inflight \cup {k}
            /\ disp' = [disp EXCEPT ![d] = [pc |-> "reconcile", grow |-> {k},
                                            gone |-> {}, cur |-> {}]]
       ELSE /\ UNCHANGED <<remaining, inflight>>
            /\ disp' = [disp EXCEPT ![d] = [pc |-> "reconcile", grow |-> {},
                                            gone |-> {}, cur |-> {}]]
    /\ UNCHANGED <<announced, held, budgetCap, store, index, dht>>

-----------------------------------------------------------------------------
(* reconcile *)

SnapshotInverted(d) ==
    /\ disp[d].pc = "reconcile"
    /\ disp' = [disp EXCEPT ![d].pc = "next", ![d].gone = held \cap store]
    /\ UNCHANGED <<ledger, store, index, dht>>

(* The GC'd holdings are listed under the lock, which is then dropped.     *)
Snapshot(d) ==
    /\ disp[d].pc = "reconcile"
    /\ disp' = [disp EXCEPT ![d].pc = "next", ![d].gone = held \ store]
    /\ UNCHANGED <<ledger, store, index, dht>>

(* prune_if_gone stats the path before it takes the index lock.            *)
PruneStat(d, k) ==
    /\ disp[d].pc = "next"
    /\ k \in disp[d].gone
    /\ disp' = [disp EXCEPT ![d].pc = IF k \in index \ store THEN "prune"
                                                             ELSE "withdraw",
                            ![d].gone = @ \ {k},
                            ![d].cur = {k}]
    /\ UNCHANGED <<ledger, store, index, dht>>

PruneDrop(d) ==
    /\ disp[d].pc = "prune"
    /\ index' = index \ disp[d].cur
    /\ Goto(d, "withdraw")
    /\ UNCHANGED <<ledger, store, dht>>

(* The tombstone reaches the DHT.                                          *)
WithdrawEffect(d) ==
    /\ disp[d].pc = "withdraw"
    /\ dht' = [k \in Keys |-> IF k \in disp[d].cur THEN "withdrawn" ELSE dht[k]]
    /\ Goto(d, "withdrawn")
    /\ UNCHANGED <<ledger, store, index>>

WithdrawOk(d) ==
    /\ disp[d].pc = "withdrawn"
    /\ held' = held \ disp[d].cur
    /\ disp' = [disp EXCEPT ![d].pc = "next", ![d].cur = {}]
    /\ UNCHANGED <<remaining, inflight, announced, budgetCap, store, index, dht>>

(* withdraw reports an error, before or after it took effect: the holding  *)
(* is kept for the next dispatch.                                          *)
WithdrawFail(d) ==
    /\ disp[d].pc \in {"withdraw", "withdrawn"}
    /\ disp' = [disp EXCEPT ![d].pc = "next", ![d].cur = {}]
    /\ UNCHANGED <<ledger, store, index, dht>>

ReconcileDone(d) ==
    /\ disp[d].pc = "next"
    /\ disp[d].gone = {}
    /\ IF disp[d].grow = {} THEN End(d) ELSE Goto(d, "poll")
    /\ UNCHANGED <<ledger, store, index, dht>>

-----------------------------------------------------------------------------
(* grow and commit *)

CommitSuccess(d) ==
    /\ inflight' = inflight \ disp[d].grow
    /\ announced' = announced \cup disp[d].grow
    /\ held' = held \cup disp[d].grow
    /\ End(d)
    /\ UNCHANGED <<remaining, budgetCap>>

CommitFailureKeepsUnit(d) ==
    /\ inflight' = inflight \ disp[d].grow
    /\ End(d)
    /\ UNCHANGED <<remaining, announced, held, budgetCap>>

CommitFailure(d) ==
    /\ remaining' = IF disp[d].grow \cap inflight # {} THEN remaining + 1
                                                       ELSE remaining
    /\ inflight' = inflight \ disp[d].grow
    /\ End(d)
    /\ UNCHANGED <<announced, held, budgetCap>>

(* A poll sees the path, or the last one does not: grow then sleeps once   *)
(* more before it gives up, and the path may appear meanwhile.             *)
PollSeen(d) ==
    /\ disp[d].pc = "poll"
    /\ disp[d].grow \subseteq store
    /\ Goto(d, "verify")
    /\ UNCHANGED <<ledger, store, index, dht>>

PollLast(d) ==
    /\ disp[d].pc = "poll"
    /\ ~(disp[d].grow \subseteq store)
    /\ Goto(d, "giveup")
    /\ UNCHANGED <<ledger, store, index, dht>>

PollTimeout(d) ==
    /\ disp[d].pc = "giveup"
    /\ CommitFailure(d)
    /\ UNCHANGED <<store, index, dht>>

(* eligible_provisions registers the path, dumps and checks it.            *)
VerifyOk(d) ==
    /\ disp[d].pc = "verify"
    /\ disp[d].grow \subseteq store
    /\ index' = index \cup disp[d].grow
    /\ Goto(d, "announce")
    /\ UNCHANGED <<ledger, store, dht>>

(* Refused by the path check, the index, the size bound or the allowlist,  *)
(* or the path is gone: some of these come after the registration, and     *)
(* hold prunes a registration whose path it finds gone.                    *)
VerifyFail(d) ==
    /\ disp[d].pc = "verify"
    /\ index' \in {index, index \cup disp[d].grow, index \ disp[d].grow}
    /\ CommitFailure(d)
    /\ UNCHANGED <<store, dht>>

(* announce fails before its publish future runs: no relay hints, witness  *)
(* refused, Rejected, Persist or Ineligible.                               *)
AnnounceClean(d) ==
    /\ disp[d].pc = "announce"
    /\ CommitFailure(d)
    /\ UNCHANGED <<store, index, dht>>

AnnounceEffect(d) ==
    /\ disp[d].pc = "announce"
    /\ dht' = [k \in Keys |-> IF k \in disp[d].grow THEN "live" ELSE dht[k]]
    /\ Goto(d, "published")
    /\ UNCHANGED <<ledger, store, index>>

AnnounceEndRefunds(d) ==
    /\ disp[d].pc \in {"announce", "published"}
    /\ CommitFailure(d)
    /\ UNCHANGED <<store, index, dht>>

(* announce returns Ok, or an ambiguous error (Unreachable,                *)
(* DeadlineExceeded) whether or not the record went out.                   *)
AnnounceEnd(d) ==
    /\ disp[d].pc \in {"announce", "published"}
    /\ CommitSuccess(d)
    /\ UNCHANGED <<store, index, dht>>

-----------------------------------------------------------------------------
(* The local store, outside the daemon. *)

Import(k) ==
    /\ k \notin store
    /\ store' = store \cup {k}
    /\ UNCHANGED <<ledger, index, dht, disp>>

Collect(k) ==
    /\ k \in store
    /\ store' = store \ {k}
    /\ UNCHANGED <<ledger, index, dht, disp>>

DispatchStep(d) ==
    \/ Snapshot(d)
    \/ \E k \in Keys : PruneStat(d, k)
    \/ PruneDrop(d)
    \/ WithdrawEffect(d)
    \/ WithdrawOk(d)
    \/ WithdrawFail(d)
    \/ ReconcileDone(d)
    \/ PollSeen(d)
    \/ PollLast(d)
    \/ PollTimeout(d)
    \/ VerifyOk(d)
    \/ VerifyFail(d)
    \/ AnnounceClean(d)
    \/ AnnounceEffect(d)
    \/ AnnounceEnd(d)

Fetched(d) == \E k \in Keys : OnFetched(d, k)

Next ==
    \/ \E d \in Dispatches : Fetched(d) \/ DispatchStep(d)
    \/ \E k \in Keys : Import(k) \/ Collect(k)

Spec == Init /\ [][Next]_vars

(* A spawned dispatch is run to its end by the executor; fetches keep      *)
(* arriving; and a withdrawal that is retried for ever succeeds in the     *)
(* end.  The local store is under no obligation.                           *)
Fairness ==
    \A d \in Dispatches :
        /\ WF_vars(DispatchStep(d))
        /\ WF_vars(Fetched(d))
        /\ SF_vars(WithdrawEffect(d))
        /\ SF_vars(WithdrawOk(d))

-----------------------------------------------------------------------------
(* Properties *)

Places == {"idle", "reconcile", "next", "prune", "withdraw", "withdrawn",
           "poll", "giveup", "verify", "announce", "published"}

(* The ledger and the dispatches keep their shape.                         *)
TypeOK ==
    /\ budgetCap \in BudgetCaps
    /\ remaining \in Nat
    /\ inflight \in SUBSET Keys
    /\ announced \in SUBSET Keys
    /\ held \in SUBSET Keys
    /\ store \in SUBSET Keys
    /\ index \in SUBSET Keys
    /\ dht \in [Keys -> {"none", "live", "withdrawn"}]
    /\ disp \in [Dispatches -> [pc: Places, grow: SUBSET Keys,
                                gone: SUBSET Keys, cur: SUBSET Keys]]

(* The announce budget is conserved: every unit is unspent, reserved by    *)
(* one in-flight grow, or spent on one announced key, so that at most      *)
(* budgetCap keys are ever announced and failed grows cost nothing.        *)
BudgetConserved ==
    remaining + Cardinality(inflight) + Cardinality(announced) = budgetCap

(* The durable seed leg's records are never touched: no store GC can       *)
(* tombstone a NAR this node still serves from memory.                     *)
SeedsStayLive == \A k \in SeedOwned : dht[k] = "live"

(* No orphan: a live record of a fetched path is tracked for reconcile or  *)
(* still owned by the grow that published it, through ambiguous announces  *)
(* and failed or repeated withdrawals.                                     *)
LiveIsTracked ==
    \A k \in Keys \ SeedOwned :
        dht[k] = "live" =>
            \/ k \in held
            \/ \E d \in Dispatches : disp[d].pc = "published" /\ k \in disp[d].grow

(* One announcement per key and process: a record, once withdrawn, is not  *)
(* published again, so a tombstone is never overtaken by this hook.        *)
WithdrawnStaysWithdrawn ==
    [][\A k \in Keys : dht[k] = "withdrawn" => dht'[k] = "withdrawn"]_dht

(* Eventual coverage: a holding whose store path is gone does not stay     *)
(* announced for ever, unless the path comes back.                         *)
GoneIsWithdrawn ==
    \A k \in Keys : []<>(k \in held /\ k \notin store => dht[k] = "withdrawn")
=============================================================================
