----------------------------- MODULE OfferFetch -----------------------------
(***************************************************************************)
(* The composite daemon's peer source: a signed NarHash is resolved to a    *)
(* claim, and its offers are tried in order over the registered transports  *)
(* (daemon/src/transport_fetch.rs), Iroh's through the bridge               *)
(* (daemon/src/transport_iroh_bridge.rs) to IrohTransport                   *)
(* (fabric-iroh/src/transport_iroh.rs), the other tags by the in-memory     *)
(* transport.  Beside it, the Iroh fabric's locator, which asks the lookup  *)
(* authority where a node is (fabric-iroh/src/locator.rs, fabric.rs).       *)
(*                                                                          *)
(* A holder's bytes are Size leaves, right or wrong; a wrong one makes the  *)
(* digest another.  The connection and its deadlines are IrohRuntime's.     *)
(***************************************************************************)
EXTENDS Integers, Sequences, FiniteSets, SequencesExt, FiniteSetsExt

CONSTANTS Claims,     \* claims discovery may hold: whether the content id is known, and offers
          OfferSizes,      \* signed NarSizes a request may carry, 0 for none
          Size,       \* leaves of the content
          MaxLeaves   \* leaves a holder sends at most

ASSUME OfferAssumption == Size \in Nat \ {0} /\ MaxLeaves >= Size

VARIABLES wiring,     \* the registered tags, and whether the node has a lookup handle
          wanted,     \* the request: kind of key and expected size
          claim,      \* the claim discovery answered
          offerAt,         \* the offer being tried, and how far its transfer is
          tried,      \* the offers passed by: "skipped" or the error
          outcome,    \* what the source answered
          locating,   \* the locator's caller
          lookupLedger,     \* exposures recorded
          sent        \* exposures that happened

offerVars == <<wiring, wanted, claim, offerAt, tried, outcome>>
locatorVars == <<locating, lookupLedger, sent>>

Tags == {"iroh", "bittorrent", "libp2p"}
NoPathClaim == [known |-> FALSE, offers |-> <<>>]
Resting == [stage |-> "key", offer |-> 1, leaves |-> 0, right |-> TRUE]

Stage(s) == offerAt.stage = s /\ outcome = "none"
Answer(what) == outcome' = what /\ offerAt' = Resting /\ UNCHANGED <<wiring, wanted, claim>>

-----------------------------------------------------------------------------
(* TransportNarSource::resolve.                                            *)

(* A path, or a hash that is not canonical, is no key of the peer network. *)
ResolveKey ==
    /\ Stage("key")
    /\ IF wanted.key # "hash" THEN Answer("unreachable")
       ELSE offerAt' = [offerAt EXCEPT !.stage = "discover"] /\ UNCHANGED <<wiring, wanted, claim, outcome>>
    /\ UNCHANGED <<tried, locatorVars>>

(* A miss is unreachable, a claim without a usable content id an upstream  *)
(* error.                                                                  *)
DiscoverMisses ==
    /\ Stage("discover")
    /\ Answer("unreachable")
    /\ UNCHANGED <<tried, locatorVars>>

DiscoverFinds ==
    /\ Stage("discover")
    /\ \E c \in Claims :
          IF c.known
          THEN claim' = c /\ offerAt' = [offerAt EXCEPT !.stage = "offer"] /\ UNCHANGED <<wiring, wanted, outcome>>
          ELSE Answer("upstream error")
    /\ UNCHANGED <<tried, locatorVars>>

OfferOf == claim.offers[offerAt.offer]

(* The offer at hand is passed by, with the reason.                        *)
PassedBy(why) ==
    /\ tried' = Append(tried, why)
    /\ offerAt' = [Resting EXCEPT !.stage = "offer", !.offer = offerAt.offer + 1]
    /\ UNCHANGED <<wiring, wanted, claim, outcome>>

(* fetch_via_offers: no backend for the tag.                               *)
SkipOffer ==
    /\ Stage("offer")
    /\ offerAt.offer <= Len(claim.offers)
    /\ OfferOf.tag \notin wiring.tags
    /\ PassedBy("skipped")
    /\ UNCHANGED locatorVars

(* The checks of IrohTransport::fetch_inner: the node id, a known address. *)
IrohRefuses == ~OfferOf.valid \/ ~OfferOf.addressed

TryOffer ==
    /\ Stage("offer")
    /\ offerAt.offer <= Len(claim.offers)
    /\ OfferOf.tag \in wiring.tags
    /\ IF OfferOf.tag = "iroh" /\ IrohRefuses THEN PassedBy("unavailable")
       ELSE offerAt' = [offerAt EXCEPT !.stage = "transfer"] /\ UNCHANGED <<wiring, wanted, claim, tried, outcome>>
    /\ UNCHANGED locatorVars

SizeAborts(leaves) == wanted.size # 0 /\ leaves > wanted.size

(* dial_and_stream: a leaf; more bytes than were signed for end everything. *)
LeafArrives ==
    /\ Stage("transfer") /\ OfferOf.tag = "iroh"
    /\ offerAt.leaves < MaxLeaves
    /\ \E right \in BOOLEAN :
          IF SizeAborts(offerAt.leaves + 1)
          THEN /\ tried' = Append(tried, "too large") /\ outcome' = "too large"
               /\ offerAt' = [offerAt EXCEPT !.leaves = @ + 1]
               /\ UNCHANGED <<wiring, wanted, claim>>
          ELSE /\ offerAt' = [offerAt EXCEPT !.leaves = @ + 1, !.right = @ /\ right]
               /\ UNCHANGED <<wiring, wanted, claim, tried, outcome>>
    /\ UNCHANGED locatorVars

(* verify_blake3, and the check at the end of dial_and_stream.             *)
Verifies(leaves, right) == right /\ leaves = Size

TransferDone ==
    /\ Stage("transfer") /\ OfferOf.tag = "iroh"
    /\ IF Verifies(offerAt.leaves, offerAt.right)
       THEN Answer("served") /\ tried' = Append(tried, "served")
       ELSE PassedBy("integrity mismatch")
    /\ UNCHANGED locatorVars

(* The bridge: an authentication failure, a stall, a lost connection or the *)
(* total bound is unavailability.                                          *)
TransferFails ==
    /\ Stage("transfer") /\ OfferOf.tag = "iroh"
    /\ PassedBy("unavailable")
    /\ UNCHANGED locatorVars

(* The in-memory transport: what it holds for the digest, verified whole.  *)
MemoryFetch ==
    /\ Stage("transfer") /\ OfferOf.tag # "iroh"
    /\ \/ PassedBy("not held")
       \/ \E leaves \in 1..MaxLeaves, right \in BOOLEAN :
             IF Verifies(leaves, right)
             THEN Answer("served") /\ tried' = Append(tried, "served")
             ELSE PassedBy("integrity mismatch")
    /\ UNCHANGED locatorVars

OffersExhausted ==
    /\ Stage("offer")
    /\ offerAt.offer > Len(claim.offers)
    /\ Answer("unreachable")
    /\ UNCHANGED <<tried, locatorVars>>

-----------------------------------------------------------------------------
(* IrohNodeLocator::locate.  What is recorded, and what the lookup tells.  *)
Exposed == {"our node id", "queried node id"}

NotAsked == [policy |-> "none", stage |-> "idle", answer |-> "none"]

Locate ==
    /\ locating.stage = "idle"
    /\ wiring.lookup
    /\ \E policy \in {"explicit", "public"} :
          locating' = [policy |-> policy,
                       stage  |-> IF policy = "explicit" THEN "done" ELSE "record",
                       answer |-> IF policy = "explicit" THEN "miss" ELSE "none"]
    /\ UNCHANGED <<offerVars, lookupLedger, sent>>

(* Both exposures are recorded before the query.                           *)
RecordExposure ==
    /\ locating.stage = "record"
    /\ lookupLedger' = lookupLedger \cup Exposed
    /\ locating' = [locating EXCEPT !.stage = "query"]
    /\ UNCHANGED <<offerVars, sent>>

(* map_unavailable: what the lookup proves absent is a miss, anything else *)
(* leaves the question open.                                               *)
LookupAnswer(what) ==
    IF what = "candidates" THEN "found"
    ELSE IF what \in {"none", "expired", "withdrawn", "no candidate"} THEN "miss"
    ELSE IF what = "deadline" THEN "deadline" ELSE "backend"

QueryAuthority ==
    /\ locating.stage = "query"
    /\ sent' = sent \cup Exposed
    /\ \E what \in {"candidates", "none", "expired", "withdrawn", "no candidate", "deadline", "other"} :
          locating' = [locating EXCEPT !.stage = what, !.answer = LookupAnswer(what)]
    /\ UNCHANGED <<offerVars, lookupLedger>>

-----------------------------------------------------------------------------
(* IrohFabric::wrap: the locator exists when the node has a lookup.        *)
OfferInit ==
    /\ wiring \in [tags : {{"iroh"}, {"iroh", "bittorrent"}, {"bittorrent", "libp2p"}},
                   lookup : BOOLEAN]
    /\ wanted \in [key : {"path", "other", "hash"}, size : OfferSizes]
    /\ claim = NoPathClaim /\ offerAt = Resting /\ tried = <<>> /\ outcome = "none"
    /\ locating = NotAsked /\ lookupLedger = {} /\ sent = {}

OfferNext ==
    \/ ResolveKey \/ DiscoverMisses \/ DiscoverFinds \/ SkipOffer \/ TryOffer \/ LeafArrives
    \/ TransferDone \/ TransferFails \/ MemoryFetch \/ OffersExhausted
    \/ Locate \/ RecordExposure \/ QueryAuthority

OfferSpec == OfferInit /\ [][OfferNext]_<<offerVars, locatorVars>>

-----------------------------------------------------------------------------
(* The offers are tried in their order and none is lost: an answer is that *)
(* of the first offer whose bytes verify or exceed the signed size, and    *)
(* when the source gives up, every offer was skipped for want of a backend *)
(* or failed; bytes beyond the signed size are never served, and an honest *)
(* holder of a right-sized NAR is not cut off (fetch_via_offers,           *)
(* TransportNarSource::resolve).                                           *)
OffersAreTried ==
    /\ \A i \in DOMAIN tried :
          /\ tried[i] = "skipped" <=> claim.offers[i].tag \notin wiring.tags
          /\ tried[i] \in {"served", "too large"} => i = Len(tried) /\ outcome = tried[i]
          /\ tried[i] = "too large" => claim.offers[i].tag = "iroh"
    /\ outcome = "unreachable" => Len(tried) = Len(claim.offers)
    /\ outcome \in {"served", "too large"} => tried # <<>> /\ Last(tried) = outcome
    /\ Stage("transfer") /\ OfferOf.tag = "iroh" /\ wanted.size # 0 => offerAt.leaves <= wanted.size
    /\ outcome = "too large" => offerAt.leaves > wanted.size

(* Nothing leaves for the lookup authority that the exposure ledger does   *)
(* not already hold, and nothing at all under the explicit-peers policy;   *)
(* an outage of the authority is never reported as a miss (locate,         *)
(* map_unavailable).                                                       *)
LookupsAreLedgered ==
    /\ sent \subseteq lookupLedger
    /\ locating.policy = "explicit" => lookupLedger = {} /\ sent = {}
    /\ locating.answer = "miss" => locating.stage \notin {"deadline", "other"}

-----------------------------------------------------------------------------
(***************************************************************************)
(* Direct discovery over a closure: DirectDiscovery::resolve_many of       *)
(* daemon-core/src/discovery.rs asks the peers in order, one batch of at   *)
(* most MaxBatchKeys distinct keys at a time, and binds the positional     *)
(* answers, whose offers are indices into a dictionary, to the keys it     *)
(* asked for.  The three ways a batch is answered are modelled with it:    *)
(* the availability index of a node of this build (availability.rs), the   *)
(* shim that asks key by key (discovery.rs), and a node of a later build   *)
(* that offers a transport this build does not know (claim.rs decodes it). *)
(*                                                                         *)
(* A key, a content id and a transport locator are values that can only be *)
(* compared; JSON framing and the byte caps of one offer are left out.     *)
(***************************************************************************)

CONSTANTS HoldKeys,        \* NAR hashes
          AskOrder,        \* sequence of peers: the configured order
          Answerer,        \* peer -> "index", "shim" or "newer"
          Closures,        \* the key lists resolve_many may be called with
          Stock,           \* peer -> set of functions HoldKeys -> answer
          MaxBatchKeys,    \* MAX_BATCH_HOLD_KEYS
          MaxBatchOffers,  \* MAX_BATCH_HOLD_OFFERS
          MaxPerAnswer,    \* MAX_OFFERS_PER_ANSWER
          MaxBatchDerive,  \* MAX_BATCH_DERIVE_WORK
          ProbeTimeout, TotalTimeout

\* A bound of the model's instances, needed for a batch to carry a key and for
\* a probe to be able to wait at all.
ASSUME BatchAssumption ==
    /\ {MaxBatchKeys, MaxBatchOffers, MaxPerAnswer, ProbeTimeout} \subseteq Nat \ {0}
    /\ {MaxBatchDerive, TotalTimeout} \subseteq Nat

VARIABLES
    want,      \* the keys of the call
    stock,     \* what each peer would answer for each key
    derived,   \* peer -> keys whose content id an index peer has derived
    claims,    \* results: a claim or NoClaim per position
    asking,    \* index in AskOrder of the peer being asked
    pending,   \* distinct unresolved keys of this peer, [] between peers
    at,        \* how many of them have been probed
    waited,    \* time since entry
    unheard,   \* history: <<peer index, key>> that got no usable answer
    returned

batchVars == <<want, stock, derived, claims, asking, pending, at, waited, unheard, returned>>

NoClaim == [holder |-> 0, blake3 |-> "", transports |-> <<>>]
NotHeld == [have |-> FALSE, blake3 |-> "", offers |-> <<>>]
Known(o) == o.kind \in {"iroh", "bittorrent"}

BatchInit ==
    /\ want \in Closures
    /\ stock \in [ToSet(AskOrder) -> UNION {Stock[p] : p \in ToSet(AskOrder)}]
    /\ \A p \in ToSet(AskOrder) : stock[p] \in Stock[p]
    /\ derived = [p \in ToSet(AskOrder) |-> {}]
    /\ claims = [i \in DOMAIN want |-> NoClaim]
    /\ asking = 1 /\ pending = <<>> /\ at = 0 /\ waited = 0
    /\ unheard = {} /\ returned = FALSE

-----------------------------------------------------------------------------
(* The wire: a dictionary of offers and one answer per key.                *)

\* check_single_offer_bindings and keep_known_offers on one hold answer: at
\* most MaxPerAnswer offers, one per transport kind, unknown ones dropped.
SingleOk(offers) ==
    /\ Len(offers) <= MaxPerAnswer
    /\ \A i, j \in DOMAIN offers : offers[i].kind = offers[j].kind => i = j

KeepKnown(offers) == SelectSeq(offers, Known)

\* check_batch_offer_bindings: every index is in the dictionary, no answer
\* repeats an index or a transport kind, and every entry is referenced.
BindingsOk(wire) ==
    /\ Len(wire.answers) \in 1..MaxBatchKeys
    /\ Len(wire.offers) <= MaxBatchOffers
    /\ \A i \in DOMAIN wire.answers :
         LET named == wire.answers[i].indices IN
         /\ ToSet(named) \subseteq DOMAIN wire.offers
         /\ SingleOk([j \in DOMAIN named |-> wire.offers[named[j]]])
    /\ DOMAIN wire.offers = UNION {ToSet(wire.answers[i].indices) : i \in DOMAIN wire.answers}

\* compact_offer_slots: drop the unknown offers and re-index the answers.
CompactOffers(wire) ==
    LET moved(n) == Len(KeepKnown(SubSeq(wire.offers, 1, n)))
        remap(named) == LET kept == SelectSeq(named, LAMBDA n : Known(wire.offers[n]))
                        IN  [j \in DOMAIN kept |-> moved(kept[j])]
    IN  [offers  |-> KeepKnown(wire.offers),
         answers |-> [i \in DOMAIN wire.answers |->
                        [wire.answers[i] EXCEPT !.indices = remap(@)]]]

Refused == [ok |-> FALSE, wire |-> [offers |-> <<>>, answers |-> <<>>]]

\* decode_batch_hold_response for `asked' keys.
DecodeBatch(wire, asked) ==
    IF Len(wire.answers) = asked /\ BindingsOk(wire)
    THEN [ok |-> TRUE, wire |-> CompactOffers(wire)]
    ELSE Refused

\* The dictionary a batch answer is built from when every key is answered on
\* its own: an offer already in the dictionary is not entered again.
Dictionary(answers) ==
    LET entered(offers, a) ==
          offers \o SelectSeq(a.offers, LAMBDA o : ~Contains(offers, o))
        offers == FoldLeft(entered, <<>>, answers)
    IN  [offers  |-> offers,
         answers |-> [i \in DOMAIN answers |->
            [have |-> answers[i].have, blake3 |-> answers[i].blake3,
             indices |-> [j \in DOMAIN answers[i].offers |->
                            SelectInSeq(offers, LAMBDA o : o = answers[i].offers[j])]]]]

-----------------------------------------------------------------------------
(* Who answers.                                                            *)

\* AvailabilityIndex::answer_batch_for_peer: a held key is answered from its
\* derived content id; a cold one is derived while the message's allowance
\* lasts and deferred to "absent" afterwards.  `failed' are the keys whose
\* derivation fails, which are answered "absent" too.
IndexAnswers(p, keys, failed) ==
    LET step(acc, k) ==
          LET held == stock[p][k].have
              warm == k \in acc.warm
              runs == held /\ ~warm /\ acc.left > 0
              says == held /\ (warm \/ (runs /\ k \notin failed))
          IN  [said |-> Append(acc.said, IF says THEN stock[p][k] ELSE NotHeld),
               warm |-> IF says THEN acc.warm \cup {k} ELSE acc.warm,
               left |-> IF runs THEN acc.left - 1 ELSE acc.left]
    IN  FoldLeft(step, [said |-> <<>>, warm |-> derived[p], left |-> MaxBatchDerive], keys)

\* run_query_batch_shim: single queries folded into one response.  A key whose
\* own answer fails is "absent"; an undecodable answer fails the whole batch.
ShimAnswers(p, keys, failed) ==
    LET said == [i \in DOMAIN keys |->
                   IF keys[i] \in failed THEN NotHeld
                   ELSE [stock[p][keys[i]] EXCEPT !.offers = KeepKnown(@)]]
        wire == Dictionary(said)
    IN  IF /\ \A i \in DOMAIN keys :
                 keys[i] \in failed \/ SingleOk(stock[p][keys[i]].offers)
           /\ BindingsOk(wire)
        THEN [ok |-> TRUE, wire |-> wire] ELSE Refused

\* query_batch as the resolver sees it.  A later build's dictionary reaches
\* this build with its unknown transports still in it.
Reply(p, keys, failed) ==
    CASE Answerer[p] = "index" ->
           DecodeBatch(Dictionary(IndexAnswers(p, keys, failed).said), Len(keys))
      [] Answerer[p] = "shim"  -> ShimAnswers(p, keys, failed)
      [] Answerer[p] = "newer" ->
           DecodeBatch(Dictionary([i \in DOMAIN keys |->
              IF keys[i] \in failed THEN NotHeld ELSE stock[p][keys[i]]]), Len(keys))

-----------------------------------------------------------------------------
(* resolve_many.                                                           *)

Peer == AskOrder[asking]
Chunk == SubSeq(pending, at + 1, Min({at + MaxBatchKeys, Len(pending)}))
Remaining == TotalTimeout - waited
ProbeBound == Min({ProbeTimeout, Remaining})

\* The distinct keys that no earlier peer has resolved, in request order.
Unresolved ==
    FoldLeft(LAMBDA acc, i : IF claims[i] # NoClaim \/ Contains(acc, want[i])
                             THEN acc ELSE Append(acc, want[i]),
             <<>>, [i \in DOMAIN want |-> i])

\* Entering the loop for a peer: collect what is still unresolved, and stop
\* when there is nothing left or no peer left.
NextPeer ==
    /\ ~returned /\ pending = <<>>
    /\ IF asking > Len(AskOrder) \/ Unresolved = <<>>
       THEN returned' = TRUE /\ UNCHANGED pending
       ELSE pending' = Unresolved /\ UNCHANGED returned
    /\ at' = 0
    /\ UNCHANGED <<want, stock, derived, claims, asking, waited, unheard>>

\* The total budget is spent: return what there is.
OutOfTime ==
    /\ ~returned /\ pending # <<>> /\ Remaining = 0
    /\ returned' = TRUE
    /\ unheard' = unheard \cup
         ({asking} \X ToSet(SubSeq(pending, at + 1, Len(pending))))
         \cup (((asking + 1)..Len(AskOrder)) \X HoldKeys)
    /\ UNCHANGED <<want, stock, derived, claims, asking, pending, at, waited>>

\* A peer that cannot be reached, answers with an error or is silent past the
\* bound is left for good: its remaining chunks are not asked.
Abandon(t) ==
    /\ waited' = waited + t
    /\ unheard' = unheard \cup ({asking} \X ToSet(SubSeq(pending, at + 1, Len(pending))))
    /\ asking' = asking + 1 /\ pending' = <<>>
    /\ UNCHANGED <<want, stock, claims, at, returned>>

ProbeFails ==
    /\ ~returned /\ pending # <<>> /\ Remaining > 0
    /\ \E t \in 0..ProbeBound : Abandon(t)
    /\ UNCHANGED derived

\* The claims one chunk's response yields: an answer whose index is outside
\* the dictionary is dropped, a claim goes to every position of its key.
Bound(wire) ==
    LET usable(j) == /\ wire.answers[j].have
                     /\ ToSet(wire.answers[j].indices) \subseteq DOMAIN wire.offers
        bound(j) == [holder |-> asking, blake3 |-> wire.answers[j].blake3,
                     transports |-> [n \in DOMAIN wire.answers[j].indices |->
                                       wire.offers[wire.answers[j].indices[n]]]]
    IN  [i \in DOMAIN want |->
           LET js == {j \in DOMAIN Chunk : Chunk[j] = want[i] /\ claims[i] = NoClaim /\ usable(j)}
           IN  IF js = {} THEN claims[i] ELSE bound(CHOOSE j \in js : TRUE)]

\* An answer arrives within the bound: it is bound to the chunk's keys, or,
\* undecodable, it is a fault of the peer.
ProbeAnswered ==
    /\ ~returned /\ pending # <<>> /\ Remaining > 0
    /\ \E t \in 0..ProbeBound, failed \in SUBSET ToSet(Chunk) :
         LET reply == Reply(Peer, Chunk, failed)
             absent == {k \in ToSet(Chunk) : k \in failed \/
                          (Answerer[Peer] = "index" /\
                           k \notin IndexAnswers(Peer, Chunk, failed).warm)}
         IN  /\ derived' = IF Answerer[Peer] = "index"
                           THEN [derived EXCEPT ![Peer] = IndexAnswers(Peer, Chunk, failed).warm]
                           ELSE derived
             /\ IF ~reply.ok THEN Abandon(t)
                ELSE /\ claims' = IF Len(reply.wire.answers) = Len(Chunk)
                                  THEN Bound(reply.wire) ELSE claims
                     /\ waited' = waited + t
                     /\ unheard' = unheard \cup ({asking} \X absent)
                     /\ IF at + Len(Chunk) = Len(pending)
                        THEN asking' = asking + 1 /\ pending' = <<>> /\ UNCHANGED at
                        ELSE at' = at + Len(Chunk) /\ UNCHANGED <<asking, pending>>
                     /\ UNCHANGED <<want, stock, returned>>

BatchNext == NextPeer \/ OutOfTime \/ ProbeFails \/ ProbeAnswered

\* Every probe is bounded by a timer and the loop never waits otherwise.
BatchSpec == BatchInit /\ [][BatchNext]_batchVars /\ WF_batchVars(BatchNext)

-----------------------------------------------------------------------------
(* Properties.                                                             *)

BatchTypeOK ==
    /\ want \in Closures /\ asking \in 1..(Len(AskOrder) + 1)
    /\ ToSet(pending) \subseteq HoldKeys
    /\ pending # <<>> => at \in 0..(Len(pending) - 1)
    /\ returned \in BOOLEAN

\* What resolving one key alone says (DirectDiscovery::resolve): the first
\* peer in order that has it, of those that were heard on it.
Single(k) ==
    LET having == {j \in DOMAIN AskOrder :
                     stock[AskOrder[j]][k].have /\ <<j, k>> \notin unheard}
        first == Min(having)
    IN  IF having = {} THEN NoClaim
        ELSE [holder |-> first, blake3 |-> stock[AskOrder[first]][k].blake3,
              transports |-> KeepKnown(stock[AskOrder[first]][k].offers)]

\* A batched resolution says of every key, repeated or not and in whichever
\* chunk it went out, what asking for that key alone would have said: the same
\* first holder, content id and locators (resolve_many against resolve).
BatchAgreesWithSingles ==
    returned => \A i \in DOMAIN want : claims[i] = Single(want[i])

\* The whole call never waits past its total budget, however many peers and
\* chunks there are (RESOLVE_MANY_TIMEOUT).
BatchWithinBudget == waited <= TotalTimeout
=============================================================================
