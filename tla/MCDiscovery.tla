---------------------------- MODULE MCDiscovery -----------------------------
(* How a consumer finds out who has a NAR: the directory node it asks, the  *)
(* registry that consults several mechanisms, the book of what holders on   *)
(* the LAN claim, the relays and routes of the libp2p node, and the cache   *)
(* of the narinfos that name the NAR.  A behaviour is of one of them        *)
(* (focus); the directory rests, and the variables of the others are off,   *)
(* while another one runs.                                                   *)
EXTENDS Directory, Resolver, FabricNode, NarinfoCache, TLC

(* Model-checking instances of Directory.                                  *)

CONSTANTS k1, p1, p2, l1, l2

A(kind, k, p, sequence, expiry) ==
    [kind |-> kind, key |-> k, provider |-> p, sequence |-> sequence,
     issued |-> 0, expiry |-> expiry]

MCKeys == {k1}
MCProviders == {p1, p2}
MCLookups == {l1, l2}
MCBudgets == {1}

(* One provider publishes, withdraws and publishes again; the other        *)
(* publishes.  The store keeps one slot of the two.                        *)
MCAssertions == {A("provide", k1, p1, 1, 1), A("withdraw", k1, p1, 2, 2),
                 A("provide", k1, p1, 3, 2), A("provide", k1, p2, 1, 1)}

SymmetryLookups == Permutations(MCLookups)

-----------------------------------------------------------------------------
(* Two registered mechanisms; a plan may name one that is not registered.  *)

MCRegistered == <<"a", "b">>
MCPlans == [order : {<<>>, <<"b", "a">>, <<"a", "x">>}, parallel : {FALSE}, stop : {"FirstHolder", "AllMechanisms"}]
             \cup {[order |-> <<>>, parallel |-> TRUE, stop |-> "FirstHolder"]}

-----------------------------------------------------------------------------
(* One configuration for every behaviour that may be off.                  *)

Plain == [scope |-> "valid", kadServer |-> TRUE, relayServer |-> FALSE, mdns |-> FALSE,
          confined |-> FALSE, book |-> FALSE, known |-> {}]
MCNodeConfigs == {Plain, [Plain EXCEPT !.known = {1, 3}], [Plain EXCEPT !.mdns = TRUE, !.book = TRUE],
                  [Plain EXCEPT !.scope = "invalid"], [Plain EXCEPT !.relayServer = TRUE, !.confined = TRUE]}

-----------------------------------------------------------------------------
(* Model-checking instance of NarinfoCache: two store paths with one NAR,  *)
(* so that their narinfos share a token, one of which the upstream may     *)
(* compress again, and a path it does not have; two entries fit.           *)

CONSTANTS d1, d2, d3, t1, t2, r1, r2

MCHashes == {1, 2, 3}
MCDocs == {d1, d2, d3}
MCAnswersOf == (1 :> {d1}) @@ (2 :> {d2, d3}) @@ (3 :> {Absent})
MCTokens == {t1, t2}
MCTokenOf == (d1 :> t1) @@ (d2 :> t1) @@ (d3 :> t2)
MCRequests == {r1, r2}

Symmetry == Permutations(MCRequests)

-----------------------------------------------------------------------------

VARIABLE focus

Off(x) == x = "off"

ResolverOff == Off(plan) /\ Off(stage) /\ Off(at) /\ Off(asked) /\ Off(cursor) /\ Off(inner)
               /\ Off(innerCut) /\ Off(acc) /\ Off(expired) /\ Off(outcome)
               /\ Off(resource) /\ Off(told)
BookOff == Off(book) /\ Off(places) /\ Off(bookNow) /\ Off(said) /\ Off(touched)
FabricOff == Off(nodeConfig) /\ Off(behaviours) /\ Off(step) /\ Off(peersKnown) /\ Off(booked)
             /\ Off(queried) /\ Off(links) /\ Off(changes) /\ Off(policyUsed) /\ Off(signed)
             /\ Off(dialPlan) /\ Off(perHint) /\ Off(taken) /\ Off(requested) /\ Off(circuits)
             /\ Off(hintWait)
CacheOff == Off(cacheNow) /\ Off(files) /\ Off(synced) /\ Off(sidecar) /\ Off(records)
            /\ Off(index) /\ Off(req) /\ Off(faults) /\ Off(stale) /\ Off(deleted)
            /\ Off(orphans) /\ Off(unlinked)

DiscoveryInit ==
    /\ Init
    /\ \/ focus = "directory" /\ ResolverOff /\ BookOff /\ FabricOff /\ CacheOff
       \/ focus = "registry" /\ ResolverInit /\ BookOff /\ FabricOff /\ CacheOff
       \/ focus = "book" /\ BookInit /\ ResolverOff /\ FabricOff /\ CacheOff
       \/ focus = "fabric" /\ FabricInit /\ ResolverOff /\ BookOff /\ CacheOff
       \/ focus = "cache" /\ CacheInit /\ ResolverOff /\ BookOff /\ FabricOff

DiscoveryNext ==
    /\ focus' = focus
    /\ \/ focus = "directory" /\ Next /\ UNCHANGED <<resolverVars, bookVars, fabricVars, cacheVars>>
       \/ focus = "registry" /\ ResolverNext /\ UNCHANGED <<vars, bookVars, fabricVars, cacheVars>>
       \/ focus = "book" /\ BookNext /\ UNCHANGED <<vars, resolverVars, fabricVars, cacheVars>>
       \/ focus = "fabric" /\ FabricNext /\ UNCHANGED <<vars, resolverVars, bookVars, cacheVars>>
       \/ focus = "cache" /\ CacheNext /\ UNCHANGED <<vars, resolverVars, bookVars, fabricVars>>

DiscoverySpec ==
    DiscoveryInit
    /\ [][DiscoveryNext]_<<vars, resolverVars, bookVars, fabricVars, cacheVars, focus>>

DiscoverySymmetry == SymmetryLookups \cup Permutations(MCRequests)

(* What several sources say about a key is put together without inventing  *)
(* absence or presence: a Miss is unanimous, a batch is Completed only if  *)
(* nothing went wrong anywhere, and a resolution of the claim book names a *)
(* content with exactly its live holders and does not flap when they       *)
(* announce it again (ResolverRegistry::resolve_many, ClaimBook).          *)
ClaimsAreWeighed ==
    [][/\ focus = "registry" => (MissIsUnanimous /\ CompletedIsHonest)'
       /\ focus = "book" => ResolvedIsAgreed' /\ RefreshIsNeutral]_<<resolverVars, bookVars>>

(* A fetch runs over a route its offer signed or the operator configured,  *)
(* and everything the node discloses to find it is in the ledger           *)
(* (connect_transient, the exposure ledger).                               *)
RoutesAreDisclosed == focus = "fabric" => RouteIsSigned /\ DisclosuresAreBooked

(* The narinfo cache stays coherent under concurrent installs, failed      *)
(* writes, corruption and crashes: files, book, sidecar and token index    *)
(* agree, a correlation is of the token asked for, and an install evicts   *)
(* only records older than those it keeps (NarInfoCache).                  *)
CacheIsCoherent ==
    [][focus = "cache" =>
         (CacheTypeOK /\ StorageAgrees /\ TokenIndexAgrees /\ CorrelationIsTrue)' /\ OldestEvicted]_cacheVars
=============================================================================
