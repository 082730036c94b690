----------------------------- MODULE AdminSurface -----------------------------
(***************************************************************************)
(* The operator's live view of a running daemon: the counters requests       *)
(* leave behind (RuntimeMetrics, recorded by PeerFabricNarSource and         *)
(* FallbackNarSource) and the admin listener that renders them as status and *)
(* metrics (daemon-core/src/observ.rs, SwarmStatusFacts).  Requests go on    *)
(* while a report is put together: every counter and every fact is read at   *)
(* a moment of its own.                                                      *)
(*                                                                          *)
(* Counters are read and written in one total order.                        *)
(***************************************************************************)
EXTENDS Naturals, Sequences, FiniteSets

CONSTANTS Clients,     \* NAR requests
          Bootstraps,  \* bootstrap peers, 1..n in the order they are asked
          MaxHolders,
          MaxShifts    \* how often a connection may change

VARIABLES client,      \* per request: where it is and what its lookup found
          counters,    \* RuntimeMetrics' counters
          last,        \* its last lookup, under its mutex
          linked,      \* per bootstrap peer: no connection, relayed or direct
          shifts,
          report,      \* the status being put together, and the last one shown
          scrape       \* the metrics being read, and the last ones shown

adminVars == <<client, counters, last, linked, shifts, report, scrape>>

Outcomes == {"found", "miss", "unavailable"}
ServeLabels == <<"peer", "upstream">>
LookupLabels == <<"found", "miss", "unavailable">>
NoLookup == [outcome |-> "none", holders |-> 0]
Fresh == [at |-> "start", lookup |-> NoLookup, holders |-> 0]

(* StatusFactSnapshot::none.                                               *)
NoFacts == [healthy |-> 0, path |-> "none"]
NoReport == [at |-> "idle", peer |-> 1, facts |-> NoFacts, direct |-> FALSE, relay |-> FALSE,
             shown |-> FALSE, lookup |-> NoLookup, reason |-> ""]
Unread == [peer |-> 0, upstream |-> 0, found |-> 0, miss |-> 0, unavailable |-> 0]

Bump(label) == counters' = [counters EXCEPT ![label] = @ + 1]
Goto(c, r) == client' = [client EXCEPT ![c] = r]

-----------------------------------------------------------------------------
(* PeerFabricNarSource::resolve: what a lookup records depends on whether   *)
(* an offer of a discovered provider opened a stream.                       *)
ResolveMisses(c) ==
    /\ client[c].at = "start"
    /\ \E o \in {"miss", "unavailable"} :
          Goto(c, [at |-> "count", lookup |-> [outcome |-> o, holders |-> 0], holders |-> 0])
    /\ UNCHANGED <<counters, last, linked, shifts, report, scrape>>

ResolveFinds(c) ==
    /\ client[c].at = "start"
    /\ \E n \in 1..MaxHolders : Goto(c, [client[c] EXCEPT !.at = "offers", !.holders = n])
    /\ UNCHANGED <<counters, last, linked, shifts, report, scrape>>

OffersTried(c) ==
    /\ client[c].at = "offers"
    /\ \E o \in {"found", "unavailable"} :
          Goto(c, [client[c] EXCEPT !.at = "count",
                       !.lookup = [outcome |-> o, holders |-> client[c].holders]])
    /\ UNCHANGED <<counters, last, linked, shifts, report, scrape>>

(* A stream over the bound ends the request and records no lookup.          *)
OfferIsTooLarge(c) ==
    /\ client[c].at = "offers"
    /\ Goto(c, [client[c] EXCEPT !.at = "refused"])
    /\ UNCHANGED <<counters, last, linked, shifts, report, scrape>>

(* record_lookup: the counter, then the last lookup.                       *)
RecordCount(c) ==
    /\ client[c].at = "count"
    /\ Bump(client[c].lookup.outcome)
    /\ Goto(c, [client[c] EXCEPT !.at = "last"])
    /\ UNCHANGED <<last, linked, shifts, report, scrape>>

RecordLast(c) ==
    /\ client[c].at = "last"
    /\ last' = client[c].lookup
    /\ Goto(c, [client[c] EXCEPT !.at = IF client[c].lookup.outcome = "found"
                                        THEN "peer" ELSE "upstream"])
    /\ UNCHANGED <<counters, linked, shifts, report, scrape>>

RecordPeerServe(c) ==
    /\ client[c].at = "peer"
    /\ Bump("peer")
    /\ Goto(c, [client[c] EXCEPT !.at = "by peer"])
    /\ UNCHANGED <<last, linked, shifts, report, scrape>>

(* FallbackNarSource::resolve_within: only a serve that worked is counted.  *)
FallBack(c) ==
    /\ client[c].at = "upstream"
    /\ \/ Bump("upstream") /\ Goto(c, [client[c] EXCEPT !.at = "by upstream"])
       \/ UNCHANGED counters /\ Goto(c, [client[c] EXCEPT !.at = "unserved"])
    /\ UNCHANGED <<last, linked, shifts, report, scrape>>

-----------------------------------------------------------------------------
(* SwarmStatusFacts::snapshot asks the swarm twice about each peer.         *)
Tell(r) ==
    /\ report' = r
    /\ UNCHANGED <<client, counters, last, linked, shifts, scrape>>

AdminAsksStatus ==
    /\ report.at = "idle"
    /\ Tell([NoReport EXCEPT !.at = IF Bootstraps = 0 THEN "last" ELSE "connected",
                             !.shown = report.shown, !.lookup = report.lookup])

IsConnected ==
    /\ report.at = "connected"
    /\ Tell([report EXCEPT !.at = "path",
                           !.facts.healthy = IF linked[report.peer] = "none" THEN @ ELSE @ + 1])

LookupPath(direct, relay) == IF direct THEN "direct" ELSE IF relay THEN "relay" ELSE "unknown"

ConnectionPath ==
    /\ report.at = "path"
    /\ LET direct == report.direct \/ linked[report.peer] = "direct"
           relay == report.relay \/ linked[report.peer] = "relay"
           done == report.peer = Bootstraps
       IN  Tell([report EXCEPT !.at = IF done THEN "last" ELSE "connected",
                               !.direct = direct, !.relay = relay,
                               !.facts.path = IF done THEN LookupPath(direct, relay) ELSE @,
                               !.peer = IF done THEN @ ELSE @ + 1])

FallbackReason(lookup, facts) ==
    IF Bootstraps > 0 /\ facts.healthy = 0 THEN "bootstrap-outage"
    ELSE IF lookup.outcome = "unavailable" THEN "discovery-unavailable"
    ELSE IF lookup.outcome = "miss" THEN "no-provider" ELSE ""

(* render_status takes outcome and holders under one lock: last_snapshot.   *)
RenderStatus ==
    /\ report.at = "last"
    /\ Tell([report EXCEPT !.at = "idle", !.shown = TRUE, !.lookup = last,
                           !.reason = FallbackReason(last, report.facts)])

-----------------------------------------------------------------------------

(* RuntimeMetrics::render reads the counters one by one.                    *)
RenderOrder == ServeLabels \o LookupLabels

ReadCounter ==
    LET label == RenderOrder[scrape.next]
        values == [scrape.values EXCEPT ![label] = counters[label]]
    IN  /\ scrape' = IF scrape.next = Len(RenderOrder)
                     THEN [next |-> 1, values |-> Unread, shown |-> values]
                     ELSE [scrape EXCEPT !.next = @ + 1, !.values = values]
        /\ UNCHANGED <<client, counters, last, linked, shifts, report>>

(* Connections come, go and change their path.                             *)
LinkShifts ==
    /\ shifts < MaxShifts
    /\ shifts' = shifts + 1
    /\ \E p \in 1..Bootstraps, l \in {"none", "relay", "direct"} :
          l # linked[p] /\ linked' = [linked EXCEPT ![p] = l]
    /\ UNCHANGED <<client, counters, last, report, scrape>>

AdminInit ==
    /\ client = [c \in Clients |-> Fresh]
    /\ counters = Unread
    /\ last = NoLookup
    /\ linked = [p \in 1..Bootstraps |-> "none"]
    /\ shifts = 0
    /\ report = NoReport
    /\ scrape = [next |-> 1, values |-> Unread, shown |-> Unread]

AdminNext ==
    \/ \E c \in Clients : \/ ResolveMisses(c) \/ ResolveFinds(c) \/ OffersTried(c)
                          \/ OfferIsTooLarge(c) \/ RecordCount(c) \/ RecordLast(c)
                          \/ RecordPeerServe(c) \/ FallBack(c)
    \/ AdminAsksStatus \/ IsConnected \/ ConnectionPath \/ RenderStatus \/ ReadCounter
    \/ LinkShifts

AdminSpec == AdminInit /\ [][AdminNext]_adminVars

-----------------------------------------------------------------------------
At(places) == Cardinality({c \in Clients : client[c].at \in places})

(* What an operator reads together belongs together.  A status names the    *)
(* outcome and the holders of one lookup, which is already counted; metrics *)
(* read while requests go on never show more peer serves than lookups that  *)
(* found a peer; and a request that has ended left one lookup and at most   *)
(* one serve behind (record_lookup, last_snapshot, render).                 *)
ReportsAreCoherent ==
    /\ report.shown /\ report.lookup # NoLookup =>
          /\ counters[report.lookup.outcome] > 0
          /\ \E c \in Clients : client[c].lookup = report.lookup
    /\ scrape.shown.peer <= scrape.shown.found
    /\ scrape.shown.upstream + scrape.shown.peer
           <= scrape.shown.found + scrape.shown.miss + scrape.shown.unavailable
    /\ counters.peer = At({"by peer"}) /\ counters.upstream = At({"by upstream"})
    /\ counters.found + counters.miss + counters.unavailable
           = At({"last", "peer", "by peer", "upstream", "by upstream", "unserved"})
=============================================================================
