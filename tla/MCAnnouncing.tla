---------------------------- MODULE MCAnnouncing ----------------------------
(* What a node announces of what it fetched, and what it offers on the LAN   *)
(* of what was built: both come to withdraw or to supply it again when the   *)
(* local store changes.  They share no state, so a behaviour is of one of    *)
(* them (focus), and the other one keeps its initial state.  The narinfos of *)
(* the LAN are no part of either question and are off.                       *)
EXTENDS AnnounceAfterFetch, LanSupply

(* Model-checking instances of AnnounceAfterFetch.                         *)

CONSTANTS k1, k2, s1, d1, d2

MCKeys == {k1, k2, s1}
MCSeeds == {s1}
MCDispatches == {d1, d2}
MCBudgets == {1, 2}

-----------------------------------------------------------------------------
(* Model-checking instances of LanSupply.                                  *)

CONSTANTS n1, o1, o2, l1

MCLanPaths == {o1, o2}
MCLanKeys == {n1}
MCKeyOf == [p \in MCLanPaths |-> n1]
MCNone == {}
MCLimit == {2}
MCNoCrash == [n \in MCLimit |-> 0]
MCLanLookups == {l1}
MCSaved == {TRUE}
MCNoFacts == <<>>

-----------------------------------------------------------------------------

VARIABLE focus

Off(x) == x = "off"

AnnouncingInit ==
    /\ focus \in {"announcing", "aliases"}
    /\ Init /\ (focus = "aliases" => budgetCap = 1 /\ store = {})
    /\ LanSupplyInit /\ (focus = "announcing" => lanStore = {})
    /\ Off(lanSetup) /\ Off(asking) /\ Off(heldPaths) /\ Off(seeding) /\ Off(offered)
    /\ Off(genuine) /\ Off(served)

AnnouncingNext ==
    /\ focus' = focus /\ UNCHANGED narinfoVars
    /\ \/ focus = "announcing" /\ Next /\ UNCHANGED lanSupplyVars
       \/ focus = "aliases" /\ LanSupplyNext /\ UNCHANGED vars

AnnouncingSpec ==
    /\ AnnouncingInit /\ [][AnnouncingNext]_<<vars, lanSupplyVars, narinfoVars, focus>>
    /\ \/ focus = "announcing" /\ Fairness
       \/ focus = "aliases" /\ LanSupplyFairness
=============================================================================
