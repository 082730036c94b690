----------------------------- MODULE MCTransfer -----------------------------
(* The transfer of a NAR: the serving side with its budgets and the          *)
(* supervisor of its dumps, the Bao exchange on the wire, the pipeline of    *)
(* the fetching side, the offers it goes through and the batched question    *)
(* that found them.  A behaviour is of one of them (focus).  The serving     *)
(* side and the supervisor, which implement specifications of their own,     *)
(* keep an initial state when another one is in focus; the variables of the  *)
(* others are off.                                                           *)
EXTENDS Serving, Supervisor, Fetching, OfferFetch

(* Serves and the supervisor of their dumps.  Serving takes the dumps as     *)
(* OwnedProcess promises them, and Supervisor is shown to keep that promise. *)

(* One serve at a time with windows that roll; two at a time on one Bao    *)
(* worker; a supervisor that is shut down.                                 *)
MCBudgets ==
    {[serves |-> 1, inflight |-> 2, lossy |-> FALSE, kinds |-> {"process"}, horizon |-> 1],
     [serves |-> 2, inflight |-> 2, lossy |-> FALSE, kinds |-> {"process"}, horizon |-> 0],
     [serves |-> 1, inflight |-> 1, lossy |-> TRUE, kinds |-> {"memory", "process"}, horizon |-> 0]}

-----------------------------------------------------------------------------
(* NARs of no, one, two and three leaves, the last of them full or not.       *)

MCNars == {<<>>, <<3>>, <<4, 3>>, <<3, 4, 4>>, <<3, 4, 4, 3, 4>>}

-----------------------------------------------------------------------------
(* Claims with up to two offers.                                           *)

\* Up to two offers of any tag; an Iroh offer may name no node or an unknown one.
MCOffer == {[tag |-> t, valid |-> TRUE, addressed |-> TRUE] : t \in Tags}
           \cup {[tag |-> "iroh", valid |-> FALSE, addressed |-> FALSE],
                 [tag |-> "iroh", valid |-> TRUE, addressed |-> FALSE]}
MCClaims == {[known |-> FALSE, offers |-> <<>>]}
            \cup [known : {TRUE}, offers : UNION {[1..n -> MCOffer] : n \in 0..2}]

-----------------------------------------------------------------------------
(* A closure of four keys, one of them repeated, asked of a newer build,   *)
(* an index that derives at most one content id per batch, and a shim.     *)

BatchOffer(k, i) == [kind |-> k, id |-> i]
Have(b, os) == [have |-> TRUE, blake3 |-> b, offers |-> os]
MCKeys == {"k1", "k2", "k3"}
MCOrder == <<"p1", "p2", "p3">>
MCAnswerers == [p1 |-> "newer", p2 |-> "index", p3 |-> "shim"]
MCClosures == {<<"k1", "k2", "k1", "k3">>}
NewerAnswers == {NotHeld, Have("b1", <<BatchOffer("future", "f"), BatchOffer("bittorrent", "t1")>>),
                 Have("b2", <<BatchOffer("iroh", "p1"), BatchOffer("bittorrent", "t2")>>),
                 Have("b3", <<BatchOffer("bittorrent", "t1"), BatchOffer("bittorrent", "t2")>>)}
IndexSays(held) ==
    [k \in MCKeys |-> IF k \in held THEN Have("b1", <<BatchOffer("iroh", "p2")>>) ELSE NotHeld]
ShimSays == Have("b1", <<BatchOffer("iroh", "p3"), BatchOffer("future", "f")>>)
MCStock == [p1 |-> {f \in [MCKeys -> NewerAnswers] : f["k2"] \in {NotHeld, f["k1"]}},
            p2 |-> {IndexSays({}), IndexSays({"k1", "k3"}), IndexSays(MCKeys)},
            p3 |-> {[k \in MCKeys |-> ShimSays]}]

-----------------------------------------------------------------------------

VARIABLE focus

Off(x) == x = "off"

FetchOff == Off(mode) /\ Off(phase) /\ Off(fetchResult) /\ Off(blame) /\ Off(spoke)
         /\ Off(wrong) /\ Off(pump) /\ Off(chunk) /\ Off(fetchWire) /\ Off(failure)
         /\ Off(verifier) /\ Off(pos) /\ Off(leaf) /\ Off(released) /\ Off(forward)
         /\ Off(out) /\ Off(meter) /\ Off(driver) /\ Off(consumer) /\ Off(got)
ExchangeOff == Off(ask) /\ Off(supply) /\ Off(sender) /\ Off(wire) /\ Off(altered)
            /\ Off(fetcher)
OffersOff == Off(wiring) /\ Off(wanted) /\ Off(claim) /\ Off(offerAt) /\ Off(tried)
          /\ Off(outcome) /\ Off(locating) /\ Off(lookupLedger) /\ Off(sent)
BatchOff == Off(want) /\ Off(stock) /\ Off(derived) /\ Off(claims) /\ Off(asking)
         /\ Off(pending) /\ Off(at) /\ Off(waited) /\ Off(unheard) /\ Off(returned)

TransferInit ==
    /\ focus \in {"serving", "supervisor", "fetch", "exchange", "offers", "batch"}
    /\ ServingInit /\ (focus # "serving" => budget.serves = 2)
    /\ SupInit
    /\ IF focus = "fetch" THEN FetchInit ELSE FetchOff
    /\ IF focus = "exchange" THEN ExchangeInit ELSE ExchangeOff
    /\ IF focus = "offers" THEN OfferInit ELSE OffersOff
    /\ IF focus = "batch" THEN BatchInit ELSE BatchOff

(* The component in focus takes a step and the others do not.              *)
Rests(x, v) == IF focus = x THEN TRUE ELSE UNCHANGED v
Alone ==
    /\ focus' = focus
    /\ Rests("serving", servingVars) /\ Rests("supervisor", supVars)
    /\ Rests("fetch", fetchVars) /\ Rests("exchange", exchangeVars)
    /\ Rests("offers", <<offerVars, locatorVars>>) /\ Rests("batch", batchVars)

TransferNext ==
    \/ focus = "serving" /\ ServingNext /\ Alone
    \/ focus = "supervisor" /\ SupNext /\ Alone
    \/ focus = "fetch" /\ FetchNext /\ Alone
    \/ focus = "exchange" /\ ExchangeNext /\ Alone
    \/ focus = "offers" /\ OfferNext /\ Alone
    \/ focus = "batch" /\ BatchNext /\ Alone

transferVars == <<servingVars, supVars, fetchVars, exchangeVars, offerVars, locatorVars,
                  batchVars, focus>>

TransferSpec ==
    /\ TransferInit /\ [][TransferNext]_transferVars
    /\ WF_servingVars(focus = "serving" /\ ServingProgress)
    /\ WF_supVars(focus = "supervisor" /\ SupProgress)
    /\ WF_fetchVars(focus = "fetch" /\ FetchProgress)
    /\ WF_batchVars(focus = "batch" /\ BatchNext)

(* A fetch that ends well delivered exactly the NAR that was asked for,     *)
(* within its buffers and without blaming an honest peer; every offer is    *)
(* tried in its turn, and a batched question is answered like single ones   *)
(* (nar.rs, nar_v4.rs, transport_fetch.rs, discovery.rs).                   *)
FetchIsExact ==
    /\ focus = "fetch" =>
         FetchTypeOK /\ CleanEndIsWhole /\ HandoffIsBounded /\ BlameIsFair /\ PipelineNeverStuck
    /\ focus = "exchange" => OnlyTheRequestedNar /\ ExchangeIsComplete
    /\ focus = "offers" => OffersAreTried /\ LookupsAreLedgered
    /\ focus = "batch" => BatchTypeOK /\ BatchAgreesWithSingles /\ BatchWithinBudget

(* Everything a transfer took comes back: streams end although dumps hang,  *)
(* cancelled jobs are reaped, the verifier's permit returns and a batched   *)
(* question is answered.                                                    *)
TransfersEnd ==
    <>[](/\ focus = "serving" => StreamsHaveEnded
         /\ focus = "supervisor" => CancelledAreReaped
         /\ focus = "fetch" => PermitHasReturned
         /\ focus = "batch" => returned)
=============================================================================
