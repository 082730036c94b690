--------------------------- MODULE MCAvailability ---------------------------
(* What a provider can serve: its index of store paths and their supply, the *)
(* file the index is kept in and the production of a supply.  None of them   *)
(* shares state with another, so a behaviour is of one of them (focus), and  *)
(* the variables of the others are off, those of the index at their initial  *)
(* values.                                                                   *)
EXTENDS AvailabilityIndex, SupplyStore, TLC

(* Model-checking instances of AvailabilityIndex.                          *)

CONSTANTS k1, k2, p1, p2, q, t1, t2

MCKeys1 == {k1}
MCPaths1 == {p1}
MCPaths == {p1, p2, q}
MCThreads2 == {t1, t2}

(* p1 and p2 hold the NAR of k1; q holds another one.                      *)
MCNarHashOf == [p \in MCPaths |-> IF p = q THEN k2 ELSE k1]
MCNarHashOf1 == [p \in MCPaths1 |-> k1]

-----------------------------------------------------------------------------
(* Two holders of up to two paths, and NARs of one or two chunks.            *)

MCDumps == {<<1>>, <<1, 2>>}

-----------------------------------------------------------------------------

VARIABLE focus

Off(x) == x = "off"

FileOff == Off(held) /\ Off(saving) /\ Off(onDisk) /\ Off(durable) /\ Off(acked)
        /\ Off(begun) /\ Off(edits) /\ Off(bindings) /\ Off(mishaps)
ProductionOff == Off(dumper) /\ Off(files) /\ Off(owners) /\ Off(records) /\ Off(holder)
              /\ Off(supply) /\ Off(child) /\ Off(changed)

AvailabilityInit ==
    /\ focus \in {"index", "file", "production"}
    /\ Init /\ (focus # "index" => store = {})
    /\ IF focus = "file" THEN IndexInit ELSE FileOff
    /\ IF focus = "production" THEN SupplyInit ELSE ProductionOff

(* The component in focus takes a step and the others do not.              *)
Rests(x, v) == IF focus = x THEN TRUE ELSE UNCHANGED v
Alone ==
    /\ focus' = focus
    /\ Rests("index", vars) /\ Rests("file", indexVars) /\ Rests("production", supplyVars)

AvailabilityNext ==
    \/ focus = "index" /\ Next /\ Alone
    \/ focus = "file" /\ IndexNext /\ Alone
    \/ focus = "production" /\ SupplyNext /\ Alone

availabilityVars == <<vars, indexVars, supplyVars, focus>>

AvailabilitySpec ==
    /\ AvailabilityInit /\ [][AvailabilityNext]_availabilityVars

(* What was saved last is read after a crash, a catalog record is of a live *)
(* holder, and what a supply delivers is what was asked (the index file,    *)
(* supply_catalog.rs).                                                      *)
SupplyIsAsRegistered ==
    /\ focus = "file" => IndexSurvives
    /\ focus = "production" => CatalogAgrees /\ SuppliedIsAsked

AvailabilitySymmetry == Permutations(MCThreads2) \cup Permutations({p1, p2})
=============================================================================
