----------------------------- MODULE FabricNode -----------------------------
(***************************************************************************)
(* A libp2p node from its configuration to the connection that carries a    *)
(* fetch: Node::start and Libp2pFabric::assemble, join_bootstraps, the       *)
(* node locator (fabric-libp2p/src/locator.rs) and the route the transport   *)
(* takes from its dial plan.  On the other side, the provider derives the    *)
(* relay hints it signs from its live circuit listeners (keys.rs,            *)
(* wait_for_live_relay_hints).                                               *)
(*                                                                           *)
(* An address is its class: "public" stands for loopback too, "private" for  *)
(* link-local too, "circuit" for any /p2p-circuit address.  A circuit        *)
(* candidate is a relay and one of its addresses.  The Kademlia network, the *)
(* relays and the connections that come and go are external.                 *)
(***************************************************************************)
EXTENDS Naturals, FiniteSets, Sequences, SequencesExt

CONSTANTS NodeConfigs,     \* the NodeConfigs a node may be started with
          Relays,          \* numbers, in the order of their identities
          RelayAddresses,  \* numbers: direct addresses a relay may be placed at
          MaxRelayHints,   \* MAX_LIBP2P_RELAY_HINTS
          MinPeers,        \* min_peers of join_bootstraps
          MaxRouteChanges  \* bound: connections that come and go by themselves

ASSUME FabricAssumption ==
    /\ Relays \subseteq Nat /\ RelayAddresses \subseteq Nat
    /\ MaxRelayHints \in Nat \ {0} /\ MinPeers \in Nat

VARIABLES nodeConfig, behaviours,
          step,       \* how far the consumer is
          peersKnown, \* entries of the routing table
          booked,     \* the exposure ledger
          queried,    \* the nodes whose addresses were asked of the network
          links,      \* live connections to the provider: Direct, or their relay
          changes,
          policyUsed, \* the resolution policy of the lookup
          signed,     \* the relay hints of the offer, in order
          dialPlan,   \* direct addresses, circuit candidates, what absence means
          perHint,    \* candidates of each hint resolved so far
          taken,      \* the connection that carries the fetch
          requested,  \* provider: the reservations it asked for
          circuits,   \* provider: its live circuit listeners
          hintWait    \* provider: wait_for_live_relay_hints

consumerVars == <<nodeConfig, behaviours, step, peersKnown, booked, queried, links,
                  changes, policyUsed, dialPlan, perHint, taken>>
providerVars == <<signed, requested, circuits, hintWait>>
fabricVars == <<consumerVars, providerVars>>

(* NodeConfig, the fields that decide something here.                      *)
NodeConfig == [scope : {"valid", "invalid"}, kadServer : BOOLEAN, relayServer : BOOLEAN,
               mdns : BOOLEAN, confined : BOOLEAN, book : BOOLEAN, known : SUBSET Relays]

Target == 0
NoPlan == [direct |-> {}, routes |-> <<>>, absence |-> "none"]

(* Numbers that name no relay: a direct connection, the provider itself,   *)
(* a peer without an ed25519 identity, a circuit address.                  *)
Direct == 100
Self == 101
Nameless == 102
Circuit == 103

(* What a circuit listener may name before /p2p-circuit: a relay, the      *)
(* provider itself, or no ed25519 peer.                                    *)
Named == Relays \cup {Self, Nameless}

Exposures == {<<"dht", "our-id">>, <<"dht", "queried-id">>, <<"relay", "our-id">>,
              <<"bootstrap", "our-id">>, <<"lan", "our-id">>, <<"lan", "our-address">>}

FabricInit ==
    /\ nodeConfig \in NodeConfigs \cap NodeConfig
    /\ behaviours = {} /\ step = "start" /\ peersKnown = 0
    /\ booked = {} /\ queried = {} /\ links = {} /\ changes = 0
    /\ policyUsed = "none" /\ dialPlan = NoPlan /\ perHint = <<>> /\ taken = {}
    /\ signed = <<>>
    /\ requested \in SUBSET Relays
    /\ circuits = {} /\ hintWait = "polling"

----------------------------------------------------------------------------
(* The provider.                                                           *)

Ordered(S) == SetToSortSeq(S, LAMBDA a, b : a < b)

(* relay_hints_from_circuit_addresses.                                     *)
DeriveHints(named) ==
    IF named \subseteq Relays /\ Cardinality(named) <= MaxRelayHints THEN named ELSE {Nameless}

(* The relays accept and lose reservations.                                *)
ReservationChanges(r) ==
    /\ hintWait = "polling"
    /\ circuits' = IF r \in circuits THEN circuits \ {r} ELSE circuits \cup {r}
    /\ UNCHANGED <<signed, requested, hintWait, consumerVars>>

(* wait_for_live_relay_hints_with: one poll of the listeners.              *)
PollHints ==
    /\ hintWait = "polling"
    /\ LET live == DeriveHints(circuits)
       IN  \/ live = {Nameless} /\ hintWait' = "failed" /\ UNCHANGED signed
           \/ /\ live # {Nameless} /\ requested \subseteq live
              /\ hintWait' = "done" /\ signed' = Ordered(live)
    /\ UNCHANGED <<requested, circuits, consumerVars>>

HintsTimeOut ==
    /\ hintWait = "polling"
    /\ hintWait' = "failed"
    /\ UNCHANGED <<signed, requested, circuits, consumerVars>>

----------------------------------------------------------------------------
(* The consumer starts and joins.                                          *)

To(s) == step' = s
Book(S) == booked' = booked \cup S

(* Behaviour: what is installed, from the configuration.                   *)
BehavioursOf(c) ==
    {"kad", "identify", "stream", "autonat", "relay-client", "dcutr"}
    \cup {b \in {"relay", "mdns", "lan-dial-guard"} :
             \/ b = "relay" /\ c.relayServer
             \/ b = "mdns" /\ c.mdns
             \/ b = "lan-dial-guard" /\ c.confined}

(* Node::start and assemble: mDNS discloses as soon as it is installed.    *)
StartFabric ==
    /\ step = "start" /\ hintWait # "polling"
    /\ IF nodeConfig.scope = "invalid" THEN To("refused") /\ UNCHANGED <<behaviours, booked>>
       ELSE /\ To("join")
            /\ behaviours' = BehavioursOf(nodeConfig)
            /\ Book(IF "mdns" \in behaviours'
                    THEN {<<"lan", "our-id">>, <<"lan", "our-address">>} ELSE {})
    /\ UNCHANGED <<nodeConfig, peersKnown, queried, links, changes, policyUsed, dialPlan,
                   perHint, taken, providerVars>>

(* The routing table fills and empties by itself.                          *)
RoutingChanges(n) ==
    /\ step \in {"join", "ready"}
    /\ n # peersKnown
    /\ peersKnown' = n
    /\ UNCHANGED <<nodeConfig, behaviours, step, booked, queried, links, changes,
                   policyUsed, dialPlan, perHint, taken, providerVars>>

(* join_bootstraps: every dial fails at once, or the table is polled until *)
(* it is large enough or the deadline passes.                              *)
JoinBootstraps ==
    /\ step = "join"
    /\ \/ peersKnown >= MinPeers /\ To("ready")
       \/ To("refused")
    /\ UNCHANGED <<nodeConfig, behaviours, peersKnown, booked, queried, links, changes,
                   policyUsed, dialPlan, perHint, taken, providerVars>>

(* Connections to the provider come and go: an incidental circuit through  *)
(* any relay, a hole punch, a loss.                                        *)
LinkChanges(l) ==
    /\ step \notin {"start", "join", "refused", "over"}
    /\ changes < MaxRouteChanges
    /\ changes' = changes + 1
    /\ links' = IF l \in links THEN links \ {l} ELSE links \cup {l}
    /\ UNCHANGED <<nodeConfig, behaviours, step, peersKnown, booked, queried,
                   policyUsed, dialPlan, perHint, taken, providerVars>>

----------------------------------------------------------------------------
(* The locator.                                                            *)

locateRest == <<nodeConfig, behaviours, peersKnown, links, changes, policyUsed, taken,
                providerVars>>

Begin(policy) ==
    /\ step = "ready"
    /\ policyUsed' = policy
    /\ To(IF policy = "explicit" THEN "book" ELSE "query")
    /\ UNCHANGED <<nodeConfig, behaviours, peersKnown, booked, queried, links, changes,
                   dialPlan, perHint, taken, providerVars>>

(* locate_via_book: a local map.                                           *)
LocateViaBook ==
    /\ step = "book"
    /\ dialPlan' = IF nodeConfig.book THEN [NoPlan EXCEPT !.direct = {"public"}]
                   ELSE [NoPlan EXCEPT !.absence = "miss"]
    /\ To("over")
    /\ UNCHANGED <<booked, queried, perHint, locateRest>>

(* query_peer_addresses: the answers the network may give, and what an     *)
(* absence of candidates would then mean.                                  *)
Placements(node) ==
    IF node = Target THEN SUBSET {"public", "private", "circuit"}
    ELSE SUBSET (RelayAddresses \cup {Circuit})

QueryAnswers(node) ==
    IF peersKnown = 0 THEN {[found |-> {}, absence |-> "insufficient"]}
    ELSE {[found |-> S, absence |-> "miss"] : S \in Placements(node)}
         \cup {[found |-> {}, absence |-> a] : a \in {"insufficient", "deadline", "backend"}}

Asked(node) ==
    IF peersKnown = 0 THEN UNCHANGED <<booked, queried>>
    ELSE /\ Book({<<"dht", "our-id">>, <<"dht", "queried-id">>})
         /\ queried' = queried \cup {node}

QueryProvider ==
    /\ step = "query"
    /\ Asked(Target)
    /\ \E a \in QueryAnswers(Target) :
          dialPlan' = [direct |-> a.found \ {"circuit"}, routes |-> <<>>,
                       absence |-> a.absence]
    /\ To("relays")
    /\ UNCHANGED <<perHint, locateRest>>

(* locate_via_dht: circuits the raw query may have opened are accounted.   *)
ReadRelays ==
    /\ step = "relays"
    /\ Book(IF links \cap Relays # {} THEN {<<"relay", "our-id">>} ELSE {})
    /\ To("path")
    /\ UNCHANGED <<queried, dialPlan, perHint, locateRest>>

HasAlternative == signed # <<>> \/ nodeConfig.known # {}

ReadPath ==
    /\ step = "path"
    /\ To(IF Direct \in links \/ "public" \in dialPlan.direct THEN "connect"
          ELSE IF HasAlternative /\ dialPlan.direct # {} THEN "probe" ELSE "hints")
    /\ UNCHANGED <<booked, queried, dialPlan, perHint, locateRest>>

(* probe_direct_reachable: the dial may connect, any direct connection     *)
(* counts, and the budget ends it.                                         *)
Probe ==
    /\ step = "probe"
    /\ \/ Direct \in links /\ To("connect") /\ UNCHANGED links
       \/ links' = links \cup {Direct} /\ To("connect")
       \/ To("hints") /\ UNCHANGED links
    /\ UNCHANGED <<booked, queried, dialPlan, perHint, nodeConfig, behaviours, peersKnown,
                   changes, policyUsed, taken, providerVars>>

(* resolve_hinted_circuits: one hint.                                      *)
ResolveHint ==
    /\ step = "hints" /\ Len(perHint) < Len(signed)
    /\ LET relay == signed[Len(perHint) + 1]
       IN  /\ Asked(relay)
           /\ \E a \in QueryAnswers(relay) :
                perHint' = Append(perHint, [i \in 1..Cardinality(a.found \ {Circuit}) |->
                              <<relay, Ordered(a.found \ {Circuit})[i]>>])
    /\ UNCHANGED <<step, dialPlan, locateRest>>

(* The candidates, the first of every hint before the second of any.       *)
Interleaved(lists) ==
    LET depth == {Len(lists[i]) : i \in DOMAIN lists}
        last == CHOOSE n \in depth \cup {0} : \A m \in depth : m <= n
        at(d) == FlattenSeq([i \in DOMAIN lists |->
                               IF d <= Len(lists[i]) THEN <<lists[i][d]>> ELSE <<>>])
    IN  FlattenSeq([d \in 1..last |-> at(d)])

Bounded(candidates) ==
    SubSeq(candidates, 1, IF Len(candidates) < MaxRelayHints THEN Len(candidates)
                          ELSE MaxRelayHints)

(* compose_circuit_candidates of the known relays.                         *)
KnownCandidates == [i \in 1..Cardinality(nodeConfig.known) |->
                       <<Ordered(nodeConfig.known)[i], 0>>]

(* Mutant of CircuitsOf: the known relays help out when no hint resolves.  *)
CircuitsOfAny(lists) ==
    IF Interleaved(lists) # <<>> THEN Bounded(Interleaved(lists)) ELSE Bounded(KnownCandidates)

(* The known relays serve only an offer without signed hints.              *)
CircuitsOf(lists) ==
    IF signed # <<>> THEN Bounded(Interleaved(lists)) ELSE Bounded(KnownCandidates)

ComposePlan ==
    /\ step = "hints" /\ Len(perHint) = Len(signed)
    /\ dialPlan' = [dialPlan EXCEPT !.routes = CircuitsOf(perHint)]
    /\ To(IF dialPlan.direct = {} /\ dialPlan'.routes = <<>> THEN "over" ELSE "connect")
    /\ UNCHANGED <<booked, queried, perHint, locateRest>>

----------------------------------------------------------------------------
(* The transport.                                                          *)

Permitted == {dialPlan.routes[i][1] : i \in DOMAIN dialPlan.routes}

(* record_selected_relay.                                                  *)
RecordSelected(l) == Book(IF l \in Relays THEN {<<"relay", "our-id">>} ELSE {})

Select(l) ==
    /\ taken' = {l}
    /\ RecordSelected(l)
    /\ To("over")

(* establish_authorized_route and connect_authorized: a live connection    *)
(* that is direct, or through a permitted relay; else a dial of the        *)
(* circuits, or of the direct addresses when there are none.               *)
EstablishRoute ==
    /\ step = "connect"
    /\ LET reusable == IF Direct \in links THEN {Direct} ELSE links \cap Permitted
           dialed == IF dialPlan.routes # <<>> THEN Permitted
                     ELSE IF dialPlan.direct # {} THEN {Direct} ELSE {}
       IN  IF reusable # {} THEN \E l \in reusable : Select(l) /\ UNCHANGED links
           ELSE \/ To("over") /\ UNCHANGED <<taken, booked, links>>
                \/ \E l \in dialed : Select(l) /\ links' = links \cup {l}
    /\ UNCHANGED <<nodeConfig, behaviours, peersKnown, changes, policyUsed, queried,
                   dialPlan, perHint, providerVars>>

FabricNext ==
    \/ \E r \in Named : ReservationChanges(r)
    \/ PollHints \/ HintsTimeOut
    \/ StartFabric \/ JoinBootstraps
    \/ \E n \in 0..MinPeers : RoutingChanges(n)
    \/ \E l \in Relays \cup {Direct} : LinkChanges(l)
    \/ \E p \in {"explicit", "public"} : Begin(p)
    \/ LocateViaBook \/ QueryProvider \/ ReadRelays \/ ReadPath \/ Probe
    \/ ResolveHint \/ ComposePlan \/ EstablishRoute

FabricSpec == FabricInit /\ [][FabricNext]_fabricVars

----------------------------------------------------------------------------
(* The hints a provider signs are its live reservations and include every  *)
(* one it asked for; and whatever circuits are open or lost meanwhile, the *)
(* connection that carries a fetch is direct, or runs through a relay of   *)
(* the signed hints, or, only for an offer without hints, through a known  *)
(* relay; every hint that resolved is among the bounded candidates (the    *)
(* locator's header, connect_transient).                                   *)
RouteIsSigned ==
    LET hints == {signed[i] : i \in DOMAIN signed}
    IN  /\ hintWait = "done" => requested \subseteq hints /\ Len(signed) <= MaxRelayHints
        /\ taken \subseteq {Direct} \cup (IF hints # {} THEN hints ELSE nodeConfig.known)
        /\ Len(dialPlan.routes) <= MaxRelayHints
        /\ dialPlan.routes # <<>> =>
              \A i \in DOMAIN perHint : perHint[i] # <<>> => signed[i] \in Permitted

(* The ledger covers what happened, and only what declared_exposure        *)
(* announces: a query was booked before it went out, so was the relay of   *)
(* the connection in use; the explicit policy asks nobody anything; and a  *)
(* provider that is reached directly costs no query about a relay.         *)
DisclosuresAreBooked ==
    /\ booked \subseteq Exposures
    /\ queried # {} => {<<"dht", "our-id">>, <<"dht", "queried-id">>} \subseteq booked
    /\ taken \cap Relays # {} => <<"relay", "our-id">> \in booked
    /\ "mdns" \in behaviours <=> <<"lan", "our-address">> \in booked
    /\ policyUsed = "explicit" => queried = {} /\ {e \in booked : e[1] # "lan"} = {}
    /\ step = "connect" /\ dialPlan.routes = <<>> /\ dialPlan.direct # {} /\ signed # <<>>
       /\ perHint = <<>> => queried \subseteq {Target}
    /\ dialPlan.absence = "miss" /\ step = "over" /\ policyUsed = "public" => Target \in queried
=============================================================================
