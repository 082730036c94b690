---------------------------- MODULE LanConfinement ---------------------------
(***************************************************************************)
(* How a lan-share node keeps its traffic on the LAN                        *)
(* (fabric-libp2p/src/lan.rs and the parts of swarm.rs that use it) and how *)
(* it exchanges narinfo metadata with LAN peers (metadata.rs).              *)
(*                                                                          *)
(* Three tasks share the ledger lan_serve_conns: the swarm worker records   *)
(* and forgets connections in it, the accept loops of NAR and of metadata   *)
(* streams read it, and a metadata fetch reads it after its dial.  libp2p   *)
(* is external: connections come up and close at any time, and the worker   *)
(* hears of it later.  An address is its class: "lan" (one LAN IP literal,  *)
(* TCP or QUIC, perhaps a peer id) or "public" (anything else).             *)
(***************************************************************************)
EXTENDS Naturals, FiniteSets, FiniteSetsExt

CONSTANTS Peers,        \* remote peers, numbered
          Links,        \* connection ids, numbered in the order of their use
          Foreign,      \* the peers of another network scope
          AdmissionCap, \* MDNS_ADMISSION_CAP
          AdmissionWindow, \* MDNS_ADMISSION_WINDOW_SECS
          Fanout,       \* LAN_METADATA_FANOUT
          MetadataSlots,\* streams a metadata server handles at once
          MaxMeetings   \* bound on address events

ASSUME LanAssumption ==
    /\ Peers \subseteq Nat /\ Links \subseteq Nat /\ Foreign \subseteq Peers
    /\ AdmissionCap \in Nat \ {0} /\ AdmissionWindow \in Nat \ {0}
    /\ Fanout \in Nat \ {0} /\ MetadataSlots \in Nat \ {0}

VARIABLES confined,     \* lan_confinement: is the ledger there?
          table,        \* addresses in kad routing: <<peer, class>>
          window,       \* MdnsAdmission: its age, and the admitted peers
          link,         \* link[l]: a connection in libp2p
          ledger,       \* lan_serve_conns
          stream,       \* stream[l]: the last stream on it
          busy,         \* metadata streams being served
          fetching,     \* a metadata fetch
          cursor,       \* metadata_cursor and the lookups since the peers changed
          meetings

lanVars == <<confined, table, window, link, ledger, stream, busy,
             fetching, cursor, meetings>>

Classes == {"lan", "public"}

(* state: "none", "dialing", "up" (event queued), "replied" (the dialer was *)
(* told, not yet in the ledger), "known", "closed" (event queued), "gone".  *)
NoLink == [state |-> "none", peer |-> 0, class |-> "public", inbound |-> FALSE]
GoneLink == [NoLink EXCEPT !.state = "gone"]
NoFetch == [at |-> "idle", peer |-> 0, link |-> 0, reconnected |-> FALSE]

LiveLinks(l) == link[l].state \in {"up", "replied", "known"}
Fresh(l) == link[l].state = "none" /\ \A k \in Links : k < l => link[k].state # "none"

-----------------------------------------------------------------------------
(* Addresses: what may enter kad routing.                                  *)

(* multiaddr_lan_provenance, on a confined node.                           *)
Admissible(class) == confined => class = "lan"

(* MdnsAdmission::admit.                                                   *)
Admit(peer, w) ==
    LET now == IF w.age >= AdmissionWindow THEN [age |-> 0, admitted |-> {}] ELSE w
    IN  IF peer \in now.admitted \/ Cardinality(now.admitted) < AdmissionCap
        THEN [now EXCEPT !.admitted = @ \cup {peer}]
        ELSE now

MdnsDiscovered(p, class) ==
    /\ meetings < MaxMeetings
    /\ meetings' = meetings + 1
    /\ window' = Admit(p, window)
    /\ table' = IF p \in window'.admitted /\ Admissible(class)
                THEN table \cup {<<p, class>>} ELSE table
    /\ cursor' = [cursor EXCEPT !.rounds = 0, !.asked = {}]
    /\ UNCHANGED <<confined, link, ledger, stream, busy, fetching>>

WindowPasses ==
    /\ window.age < AdmissionWindow
    /\ window' = [window EXCEPT !.age = @ + 1]
    /\ UNCHANGED <<confined, table, link, ledger, stream, busy,
                   fetching, cursor, meetings>>

(* identify_admitted_addresses: a confined node takes LAN addresses from    *)
(* peers of its own scope.                                                 *)
IdentifyReceived(l, class) ==
    /\ meetings < MaxMeetings
    /\ LiveLinks(l)
    /\ meetings' = meetings + 1
    /\ table' = IF (confined => link[l].peer \notin Foreign) /\ Admissible(class)
                THEN table \cup {<<link[l].peer, class>>} ELSE table
    /\ cursor' = [cursor EXCEPT !.rounds = 0, !.asked = {}]
    /\ UNCHANGED <<confined, window, link, ledger, stream, busy, fetching>>

-----------------------------------------------------------------------------
(* Connections.  An explicit dial shows its address to the pending hook of  *)
(* LanDialGuard; a dial by peer id does not.                               *)

DialExplicit(l, p, class) ==
    /\ Fresh(l)
    /\ Admissible(class)
    /\ link' = [link EXCEPT ![l] = [NoLink EXCEPT !.state = "dialing",
                                       !.peer = p, !.class = class]]
    /\ UNCHANGED <<confined, table, window, ledger, stream, busy,
                   fetching, cursor, meetings>>

(* kad also dials addresses it heard of in query responses: any at all.     *)
DialByPeer(l, p, class) ==
    /\ Fresh(l)
    /\ link' = [link EXCEPT ![l] = [NoLink EXCEPT !.state = "dialing",
                                       !.peer = p, !.class = class]]
    /\ UNCHANGED <<confined, table, window, ledger, stream, busy,
                   fetching, cursor, meetings>>

(* handle_established_outbound_connection.                                 *)
OutboundAllowed(l) == Admissible(link[l].class)

TransportUp(l, ok) ==
    /\ link[l].state = "dialing"
    /\ link' = [link EXCEPT ![l] = IF ok /\ OutboundAllowed(l)
                                   THEN [@ EXCEPT !.state = "up"] ELSE GoneLink]
    /\ UNCHANGED <<confined, table, window, ledger, stream, busy,
                   fetching, cursor, meetings>>

(* The guard never refuses an inbound connection.                          *)
InboundUp(l, p, class) ==
    /\ Fresh(l)
    /\ link' = [link EXCEPT ![l] = [NoLink EXCEPT !.state = "up", !.peer = p,
                                       !.class = class, !.inbound = TRUE]]
    /\ UNCHANGED <<confined, table, window, ledger, stream, busy,
                   fetching, cursor, meetings>>

(* ConnectionEstablished in the worker: the dialer is answered first, then  *)
(* the connection is recorded.                                             *)
EstablishedReplies(l) ==
    /\ link[l].state = "up"
    /\ link' = [link EXCEPT ![l].state = "replied"]
    /\ UNCHANGED <<confined, table, window, ledger, stream, busy,
                   fetching, cursor, meetings>>

Unrecorded == {l \in Links : link[l].state = "replied"}

EstablishedRecords(l) ==
    /\ link[l].state = "replied"
    /\ link' = [link EXCEPT ![l].state = "known"]
    /\ ledger' = IF confined /\ link[l].class = "lan" THEN ledger \cup {l} ELSE ledger
    /\ cursor' = [cursor EXCEPT !.rounds = 0, !.asked = {}]
    /\ UNCHANGED <<confined, table, window, stream, busy, fetching, meetings>>

(* The connection ends; the worker hears of it when it has handled the      *)
(* events before.                                                          *)
LinkCloses(l) ==
    /\ link[l].state = "known"
    /\ link' = [link EXCEPT ![l].state = "closed"]
    /\ stream' = [stream EXCEPT ![l] = "none"]
    /\ busy' = busy \ {l}
    /\ UNCHANGED <<confined, table, window, ledger, fetching, cursor, meetings>>

ConnectionClosed(l) ==
    /\ link[l].state = "closed"
    /\ Unrecorded = {}
    /\ link' = [link EXCEPT ![l] = GoneLink]
    /\ ledger' = ledger \ {l}
    /\ cursor' = [cursor EXCEPT !.rounds = 0, !.asked = {}]
    /\ UNCHANGED <<confined, table, window, stream, busy, fetching, meetings>>

-----------------------------------------------------------------------------
(* Streams.                                                                *)

(* lan_serve_permitted.                                                    *)
Permitted(l) == confined => l \in ledger

(* The protocol names hold the scope: no stream opens across scopes.        *)
Negotiated(l) == LiveLinks(l) /\ link[l].peer \notin Foreign

(* accept_loop_core: a NAR stream that is not permitted is dropped.        *)
AcceptNar(l) ==
    /\ Negotiated(l) /\ stream[l] = "none"
    /\ Permitted(l)
    /\ stream' = [stream EXCEPT ![l] = "nar"]
    /\ UNCHANGED <<confined, table, window, link, ledger, busy,
                   fetching, cursor, meetings>>

(* serve_lan_metadata: only on a confined node, under a free slot; any      *)
(* other stream is dropped.                                                *)
AcceptMetadata(l) ==
    /\ confined
    /\ Negotiated(l) /\ stream[l] = "none"
    /\ Permitted(l) /\ Cardinality(busy) < MetadataSlots
    /\ stream' = [stream EXCEPT ![l] = "metadata"]
    /\ busy' = busy \cup {l}
    /\ UNCHANGED <<confined, table, window, link, ledger, fetching,
                   cursor, meetings>>

StreamEnds(l) ==
    /\ stream[l] # "none"
    /\ stream' = [stream EXCEPT ![l] = "none"]
    /\ busy' = busy \ {l}
    /\ UNCHANGED <<confined, table, window, link, ledger, fetching,
                   cursor, meetings>>

-----------------------------------------------------------------------------
(* Metadata fetches.                                                       *)

LanMembers ==
    {link[l].peer : l \in ledger} \cup {a[1] : a \in {b \in table : b[2] = "lan"}}

(* Mutant of CandidatesAt: the offset is taken of the fan-out.             *)
CandidatesAtFront(offset) ==
    LET place(p) == Cardinality({q \in LanMembers : q < p})
    IN  {p \in LanMembers : place(p) < Fanout}

(* MetadataPeers: the LAN peers in order, rotated by the offset, cut.       *)
CandidatesAt(offset) ==
    LET n == Cardinality(LanMembers)
        place(p) == Cardinality({q \in LanMembers : q < p})
    IN  IF n = 0 THEN {}
        ELSE {p \in LanMembers : (place(p) + n - (offset % n)) % n < Fanout}

(* lan_metadata_candidates: each lookup takes the next stretch.  The cursor *)
(* is kept below the least common multiple of the peer counts.             *)
Period == FoldSet(LAMBDA p, m : m * Cardinality({q \in Peers : q <= p}), Fanout, Peers)

(* How many lookups go round all peers.                                    *)
Turn == (Cardinality(LanMembers) + Fanout - 1) \div Fanout

MetadataPeers ==
    /\ confined
    /\ LanMembers # {}
    /\ cursor.rounds < Turn
    /\ cursor' = [at |-> (cursor.at + Fanout) % Period,
                  rounds |-> cursor.rounds + 1,
                  asked |-> cursor.asked \cup CandidatesAt(cursor.at)]
    /\ UNCHANGED <<confined, table, window, link, ledger, stream,
                   busy, fetching, meetings>>

(* fetch_lan_metadata: the route the worker knows, or a new exact dial to   *)
(* the LAN addresses.  A worker command is handled between two events.     *)
FetchRoute(p) ==
    /\ confined
    /\ fetching.at = "idle"
    /\ Unrecorded = {}
    /\ LET live == {l \in ledger : link[l].peer = p}
           lan == {a \in table : a[1] = p /\ a[2] = "lan"}
       IN  fetching' = [NoFetch EXCEPT !.peer = p,
                          !.at = IF live # {} THEN "opening"
                                 ELSE IF lan # {} THEN "dialing" ELSE "reusing",
                          !.link = IF live # {} THEN Min(live) ELSE 0]
    /\ UNCHANGED <<confined, table, window, link, ledger, stream, busy,
                   cursor, meetings>>

(* connect_authorized with no relay: a connection the worker already has, or*)
(* a new dial.  Both are direct; the existing one may be inbound and from   *)
(* anywhere.                                                               *)
FetchReuses(l) ==
    /\ fetching.at \in {"dialing", "reusing"}
    /\ link[l].state = "known" /\ link[l].peer = fetching.peer
    /\ fetching' = [fetching EXCEPT !.at = "connected", !.link = l]
    /\ UNCHANGED <<confined, table, window, link, ledger, stream, busy,
                   cursor, meetings>>

FetchDials(l) ==
    /\ fetching.at = "dialing"
    /\ Fresh(l)
    /\ link' = [link EXCEPT ![l] = [NoLink EXCEPT !.state = "dialing",
                                       !.peer = fetching.peer, !.class = "lan"]]
    /\ fetching' = [fetching EXCEPT !.at = "awaiting", !.link = l]
    /\ UNCHANGED <<confined, table, window, ledger, stream, busy, cursor, meetings>>

FetchConnected ==
    /\ fetching.at = "awaiting"
    /\ link[fetching.link].state \notin {"dialing", "up"}
    /\ fetching' = IF link[fetching.link].state = "gone" THEN NoFetch
                   ELSE [fetching EXCEPT !.at = "connected", !.reconnected = TRUE]
    /\ UNCHANGED <<confined, table, window, link, ledger, stream, busy,
                   cursor, meetings>>

(* The second metadata_peer_route: its answer is not used, but the worker   *)
(* gives it only after it has finished the event before.                   *)
FetchBarrier ==
    /\ fetching.at = "connected"
    /\ Unrecorded = {}
    /\ fetching' = [fetching EXCEPT !.at = "checking"]
    /\ UNCHANGED <<confined, table, window, link, ledger, stream, busy,
                   cursor, meetings>>

FetchChecks ==
    /\ fetching.at = "checking"
    /\ fetching' = [fetching EXCEPT !.at = IF Permitted(fetching.link)
                                           THEN "opening" ELSE "refused"]
    /\ UNCHANGED <<confined, table, window, link, ledger, stream, busy,
                   cursor, meetings>>

(* open_stream_on_connection, on that connection only.                     *)
FetchOpens ==
    /\ fetching.at = "opening"
    /\ fetching' = IF link[fetching.link].state = "known" /\ Negotiated(fetching.link)
                   THEN [fetching EXCEPT !.at = "exchanging"] ELSE NoFetch
    /\ UNCHANGED <<confined, table, window, link, ledger, stream, busy,
                   cursor, meetings>>

(* An answer, a refusal, or the timeout around all of it.                  *)
FetchEnds ==
    /\ fetching.at # "idle"
    /\ fetching' = NoFetch
    /\ UNCHANGED <<confined, table, window, link, ledger, stream, busy,
                   cursor, meetings>>

-----------------------------------------------------------------------------
(* Node::start: the ledger and the guard exist on a confined node only.    *)
LanInit ==
    /\ confined \in BOOLEAN
    /\ table = {}
    /\ window = [age |-> 0, admitted |-> {}]
    /\ link = [l \in Links |-> NoLink]
    /\ ledger = {}
    /\ stream = [l \in Links |-> "none"] /\ busy = {}
    /\ fetching = NoFetch
    /\ cursor = [at |-> 0, rounds |-> 0, asked |-> {}]
    /\ meetings = 0

LanNext ==
    \/ \E p \in Peers, class \in Classes :
          \/ MdnsDiscovered(p, class)
          \/ \E l \in Links : \/ DialExplicit(l, p, class) \/ DialByPeer(l, p, class)
                             \/ InboundUp(l, p, class)
    \/ \E l \in Links :
          \/ \E class \in Classes : IdentifyReceived(l, class)
          \/ (\E ok \in BOOLEAN : TransportUp(l, ok))
          \/ EstablishedReplies(l) \/ EstablishedRecords(l)
          \/ LinkCloses(l) \/ ConnectionClosed(l)
          \/ AcceptNar(l) \/ AcceptMetadata(l) \/ StreamEnds(l)
          \/ FetchReuses(l) \/ FetchDials(l)
    \/ \E p \in Peers : FetchRoute(p)
    \/ WindowPasses \/ MetadataPeers
    \/ FetchConnected \/ FetchBarrier \/ FetchChecks \/ FetchOpens \/ FetchEnds

LanSpec == LanInit /\ [][LanNext]_lanVars

-----------------------------------------------------------------------------
(* A confined node keeps every byte of content on the LAN: a NAR or         *)
(* metadata stream is open, and a metadata fetch talks, only over a         *)
(* connection whose far end is a LAN address; every connection it made      *)
(* itself has one, whatever addresses mDNS, identify and kad brought; and   *)
(* kad routing holds no other (LanDialGuard, lan_serve_permitted,           *)
(* identify_admitted_addresses).                                            *)
TrafficStaysOnLan ==
    confined =>
        /\ \A l \in Links :
              /\ stream[l] \in {"nar", "metadata"} => link[l].class = "lan"
              /\ LiveLinks(l) /\ ~link[l].inbound => link[l].class = "lan"
        /\ fetching.at = "exchanging" /\ LiveLinks(fetching.link)
              => link[fetching.link].class = "lan"
        /\ \A a \in table : a[2] = "lan"

(* A metadata fetch that dialed a LAN address itself is never refused for   *)
(* the ledger's delay: when the check fails, the connection has ended       *)
(* (connect_lan_metadata, the barrier before metadata_connection_permitted).*)
ReconnectIsRecognised ==
    fetching.at = "refused" /\ fetching.reconnected => ~LiveLinks(fetching.link)

(* The rotation leaves nobody out: once as many lookups as stretches cover  *)
(* the LAN peers were made with the same peers known, each has been asked   *)
(* (metadata_cursor, MetadataPeers).                                       *)
EveryPeerIsAsked ==
    LanMembers # {} /\ cursor.rounds = Turn => cursor.asked = LanMembers
=============================================================================
