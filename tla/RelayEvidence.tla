---------------------------- MODULE RelayEvidence ----------------------------
(***************************************************************************)
(* The relay evidence: a locally operated relay                             *)
(* (daemon/src/bin/iroh_relay_evidence_server.rs) and one accepting and one *)
(* connecting peer (iroh_relay_evidence_peer.rs), each of which reports one *)
(* outcome, over the relay configuration of fabric-iroh/src/iroh_relay.rs.  *)
(*                                                                          *)
(* iroh and the network are external: a connection has the paths its        *)
(* addresses allow, and one of them may come to be selected.  A relay       *)
(* recipient is its kind; timeouts may fire at any time.                    *)
(***************************************************************************)
EXTENDS Naturals, FiniteSets

CONSTANTS Arms   \* the ways the three programs are started and the network is set up

VARIABLES arm,       \* the arm of the evidence
          server,    \* the relay: where it is, and its exit code
          acceptor,  \* the accepting peer
          connector, \* the connecting peer
          link       \* the connection between them

evidenceVars == <<arm, server, acceptor, connector, link>>

(* Scenario.                                                               *)
ExpectsConnection(s) == s \in {"relay-success", "direct-positive"}
OffersDirect(s) == s \in {"direct-positive", "forced-direct-failure"}
VerifiesRelayCert(s) == s = "wrong-certificate"

(* The hosts a relay may have, by what the checks can tell of them.        *)
LocalIps == {"private", "loopback", "link-local", "unspecified", "unique-local"}
Ips == LocalIps \cup {"public", "multicast"}
LocalNames == {"localhost", "reserved name"}
Hosts == Ips \cup LocalNames \cup {"n0 name", "n0 in a reserved name", "other name", "blank"}

-----------------------------------------------------------------------------
(* iroh_relay.rs *)

ip_is_public(ip) == ip \notin LocalIps

host_is_local_only(host) ==
    /\ host # "blank"
    /\ IF host \in Ips THEN ~ip_is_public(host) ELSE host \in LocalNames

OwnerOk(owner) == owner = "named"

(* RelayTransportAuthorization::validate; "" is no objection.              *)
AuthorizationRefuses(auth, host) ==
    IF ~OwnerOk(auth.owner) THEN "untrusted_configuration"
    ELSE IF auth.class = "local"
    THEN IF host_is_local_only(host) THEN "" ELSE "untrusted_configuration"
    ELSE IF auth.reference # "named" THEN "untrusted_configuration"
    ELSE "external_relay_unsupported"

(* RelayTransportConfig::new.                                              *)
RelayConfigRefuses(url, auth) ==
    IF ~url.parses \/ url.scheme # "https" \/ url.host = "blank" THEN "wrong_relay_url"
    ELSE IF url.host \in {"n0 name", "n0 in a reserved name"} /\ auth.class = "local"
    THEN "untrusted_configuration"
    ELSE AuthorizationRefuses(auth, url.host)

-----------------------------------------------------------------------------
(* The relay server.                                                       *)

(* validate_relay_socket.                                                  *)
ValidateRelaySocket(s) ==
    /\ s.port # 0
    /\ s.ip \notin {"unspecified", "multicast"}
    /\ ~ip_is_public(s.ip)
    /\ s.ip = "link-local" => s.scoped

(* Config::validate of the server.                                         *)
ServerConfigOk(c) ==
    /\ ValidateRelaySocket(c.https)
    /\ IF c.http.port # 0 THEN ValidateRelaySocket(c.http) ELSE ~ip_is_public(c.http.ip)
    /\ c.lifetimeOk /\ c.identityOk

ServerParses ==
    /\ server.at = "start"
    /\ server' = IF ServerConfigOk(arm.server) THEN [server EXCEPT !.at = "spawn"]
                 ELSE [at |-> "done", code |-> 2]
    /\ UNCHANGED <<arm, acceptor, connector, link>>

(* Server::spawn, and the plan and ready lines.                            *)
ServerSpawns ==
    /\ server.at = "spawn"
    /\ server' \in {[server EXCEPT !.at = "ready"], [at |-> "done", code |-> 1]}
    /\ UNCHANGED <<arm, acceptor, connector, link>>

(* Its lifetime is over, a signal came, or its supervisor ended; a          *)
(* connection it carries is lost.                                          *)
ServerStops ==
    /\ server.at = "ready"
    /\ server' \in {[at |-> "done", code |-> 0], [at |-> "done", code |-> 1]}
    /\ link' = IF link.state # "none" /\ link.paths = {"relay"}
               THEN [link EXCEPT !.state = "closed"] ELSE link
    /\ UNCHANGED <<arm, acceptor, connector>>

-----------------------------------------------------------------------------
(* Both peers.                                                             *)
NoResult == [verdict |-> "none", reason |-> "", path |-> "", before |-> "", attributed |-> FALSE]

(* success_json and failure_json.                                          *)
Success(before, after) ==
    [verdict |-> "connected", reason |-> "", path |-> after, before |-> before,
     attributed |-> after = "relayed"]
Failure(why) == [NoResult EXCEPT !.verdict = "unavailable", !.reason = why]

(* main's exit code.                                                       *)
Report(p, result) ==
    [p EXCEPT !.at = "done", !.result = result,
              !.code = IF ExpectsConnection(arm.scenario) /\ result.verdict # "connected"
                       THEN 4 ELSE 0]

(* Config::validate of a peer.                                             *)
PeerConfigOk(role) ==
    /\ arm.bindOk /\ arm.identityOk
    /\ role = "connect" /\ arm.scenario # "wrong-url" => arm.peer # "none"
    /\ OffersDirect(arm.scenario) /\ role = "connect" => arm.direct # "none"

Auth == [class |-> "local", owner |-> "named", reference |-> ""]

(* Config::parse and the relay configuration, before any network use.      *)
PeerStarts(p, role) ==
    IF ~PeerConfigOk(role) THEN [p EXCEPT !.at = "done", !.code = 2]
    ELSE IF RelayConfigRefuses(arm.url, Auth) # ""
    THEN [p EXCEPT !.at = "done", !.code = 0,
                   !.result = Failure(RelayConfigRefuses(arm.url, Auth))]
    ELSE [p EXCEPT !.at = "bind"]

(* build_endpoint may fail.                                                *)
BuildEndpoint(p, bound) ==
    {Report(p, Failure("relay_outage")), [p EXCEPT !.at = bound]}

(* classify_connect_path: the selected path, else any relay path.          *)
ClassifyConnectPath ==
    IF link.selected # "none" THEN (IF link.selected = "relay" THEN "relayed" ELSE "direct")
    ELSE IF "relay" \in link.paths THEN "relayed" ELSE "direct"

(* classify_connection_path, of the address a connection came in on.       *)
ClassifyConnectionPath == IF link.came = "relay" THEN "relayed" ELSE "direct"

(* endpoint.close() ends the connection.                                   *)
Closing == IF link.state = "none" THEN link ELSE [link EXCEPT !.state = "closed"]

-----------------------------------------------------------------------------
(* The accepting peer.                                                     *)
AcceptorStarts ==
    /\ acceptor.at = "start"
    /\ acceptor' = PeerStarts(acceptor, "accept")
    /\ UNCHANGED <<arm, server, connector, link>>

AcceptorBinds ==
    /\ acceptor.at = "bind"
    /\ acceptor' \in BuildEndpoint(acceptor, "accepting")
    /\ UNCHANGED <<arm, server, connector, link>>

(* An incoming connection; its handshake may still fail.                   *)
Accepts ==
    /\ acceptor.at = "accepting" /\ link.state \in {"open", "closed"}
    /\ acceptor' \in {Report(acceptor, Failure("half_open_stream")),
                      [acceptor EXCEPT !.at = "stream", !.before = ClassifyConnectionPath,
                                       !.after = ClassifyConnectPath]}
    /\ link' = IF acceptor'.at = "done" THEN Closing ELSE link
    /\ UNCHANGED <<arm, server, connector>>

AcceptTimesOut ==
    /\ acceptor.at = "accepting"
    /\ acceptor' = Report(acceptor, Failure("deadline"))
    /\ UNCHANGED <<arm, server, connector, link>>

(* accept_bi and the echo; the half-open arm reads and does not answer.    *)
Echoes ==
    /\ acceptor.at = "stream"
    /\ link.sent \/ link.state = "closed"
    /\ acceptor' = [acceptor EXCEPT !.at = IF arm.scenario = "half-open-stream" THEN "close" ELSE "closed?"]
    /\ link' = IF link.state = "open" /\ link.sent /\ arm.scenario # "half-open-stream"
               THEN [link EXCEPT !.echo = TRUE] ELSE link
    /\ UNCHANGED <<arm, server, connector>>

(* conn.closed().await *)
AcceptorSeesClose ==
    /\ acceptor.at = "closed?" /\ link.state = "closed"
    /\ acceptor' = [acceptor EXCEPT !.at = "close"]
    /\ UNCHANGED <<arm, server, connector, link>>

AcceptorCloses ==
    /\ acceptor.at = "close"
    /\ acceptor' = Report(acceptor, Success(acceptor.before, acceptor.after))
    /\ link' = Closing
    /\ UNCHANGED <<arm, server, connector>>

-----------------------------------------------------------------------------
(* The connecting peer.                                                    *)
ConnectorStarts ==
    /\ connector.at = "start"
    /\ connector' = PeerStarts(connector, "connect")
    /\ UNCHANGED <<arm, server, acceptor, link>>

ConnectorBinds ==
    /\ connector.at = "bind"
    /\ connector' \in BuildEndpoint(connector, "peer")
    /\ UNCHANGED <<arm, server, acceptor, link>>

(* The peer's NodeId must have been given and must parse.                  *)
PeerIsNamed ==
    /\ connector.at = "peer"
    /\ connector' = IF arm.peer \in {"none", "malformed"} THEN Report(connector, Failure("wrong_identity"))
                    ELSE [connector EXCEPT !.at = "connecting"]
    /\ UNCHANGED <<arm, server, acceptor, link>>

(* The EndpointAddr: a direct arm has only the socket, any other only the  *)
(* relay's URL.                                                            *)
Addressed == IF OffersDirect(arm.scenario) THEN {"direct"} ELSE {"relay"}

(* What can carry a connection; a self-signed relay does not do where its   *)
(* certificate is verified.                                                *)
Usable ==
    {p \in Addressed :
        IF p = "relay" THEN server.at = "ready" /\ arm.reaches /\ ~VerifiesRelayCert(arm.scenario)
        ELSE arm.directOpen}

Connects ==
    /\ connector.at = "connecting" /\ arm.peer = "right" /\ acceptor.at = "accepting"
    /\ Usable # {} /\ link.state = "none"
    /\ connector' = [connector EXCEPT !.at = "connected"]
    /\ \E came \in Usable :
          link' = [link EXCEPT !.state = "open", !.paths = Usable, !.came = came]
    /\ UNCHANGED <<arm, server, acceptor>>

(* The peers find that they can reach each other directly.                 *)
PathFound ==
    /\ link.state = "open" /\ arm.directOpen /\ "direct" \notin link.paths
    /\ link' = [link EXCEPT !.paths = @ \cup {"direct"}]
    /\ UNCHANGED <<arm, server, acceptor, connector>>

(* A path is selected; a direct one is kept.                               *)
PathSelected ==
    /\ link.state = "open"
    /\ link.selected # "direct"
    /\ \E p \in link.paths \ {link.selected} : link' = [link EXCEPT !.selected = p]
    /\ UNCHANGED <<arm, server, acceptor, connector>>

(* map_connect_error.                                                      *)
ConnectErrorKind ==
    IF arm.scenario = "wrong-certificate" THEN "wrong_certificate"
    ELSE IF arm.scenario = "forced-direct-failure" THEN "forced_direct_failure"
    ELSE "relay_outage"

ConnectorGone(why) ==
    connector' = Report(connector, Failure(why)) /\ link' = Closing

(* endpoint.connect() failed, or took too long.                            *)
ConnectFails ==
    /\ connector.at = "connecting"
    /\ \E why \in {ConnectErrorKind, "deadline"} : ConnectorGone(why)
    /\ UNCHANGED <<arm, server, acceptor>>

(* drive_connected: the path is read first, then one message is sent.      *)
Sends ==
    /\ connector.at = "connected"
    /\ connector' = [connector EXCEPT !.at = "reading", !.after = ClassifyConnectPath]
    /\ link' = IF link.state = "open" THEN [link EXCEPT !.sent = TRUE] ELSE link
    /\ UNCHANGED <<arm, server, acceptor>>

EchoArrives ==
    /\ connector.at = "reading" /\ link.echo
    /\ connector' = Report(connector, Success(connector.after, connector.after))
    /\ link' = Closing
    /\ UNCHANGED <<arm, server, acceptor>>

(* The connection is gone or the exchange takes too long.                  *)
ExchangeFails ==
    /\ connector.at = "reading"
    /\ ConnectorGone("half_open_stream")
    /\ UNCHANGED <<arm, server, acceptor>>

-----------------------------------------------------------------------------
Peer0 == [at |-> "start", code |-> 9, result |-> NoResult, before |-> "", after |-> ""]

EvidenceInit ==
    /\ arm \in Arms
    /\ server = [at |-> "start", code |-> 9]
    /\ acceptor = Peer0 /\ connector = Peer0
    /\ link = [state |-> "none", paths |-> {}, came |-> "none", selected |-> "none",
               sent |-> FALSE, echo |-> FALSE]

ServerStep == ServerParses \/ ServerSpawns \/ ServerStops
AcceptorStep ==
    AcceptorStarts \/ AcceptorBinds \/ Accepts \/ AcceptTimesOut \/ Echoes
    \/ AcceptorSeesClose \/ AcceptorCloses
ConnectorStep ==
    ConnectorStarts \/ ConnectorBinds \/ PeerIsNamed \/ Connects \/ ConnectFails
    \/ Sends \/ EchoArrives \/ ExchangeFails

EvidenceNext == ServerStep \/ AcceptorStep \/ ConnectorStep \/ PathFound \/ PathSelected

(* Every program runs and every timeout fires in the end.                  *)
EvidenceSpec ==
    /\ EvidenceInit /\ [][EvidenceNext]_evidenceVars
    /\ WF_evidenceVars(ServerStep) /\ WF_evidenceVars(AcceptorStep)
    /\ WF_evidenceVars(ConnectorStep)

-----------------------------------------------------------------------------
(* An outcome says what happened: "connected" from the connecting peer      *)
(* means its message came back, and the accepting peer says the same; a     *)
(* relay is credited only if it was addressed, reachable and local, never   *)
(* in a direct arm; a positive arm exits with 0 only when connected; and    *)
(* no peer refuses the URL of a relay that runs for it (success_json, the   *)
(* exit code of both peers, validate_relay_socket and host_is_local_only).  *)
EvidenceIsTrue ==
    /\ connector.result.verdict = "connected" =>
          /\ link.echo
          /\ acceptor.at = "done" => acceptor.result.verdict = "connected"
          /\ arm.scenario \notin {"half-open-stream", "wrong-certificate"}
          /\ arm.peer = "right"
    /\ \A p \in {acceptor, connector} :
          /\ p.result.attributed =>
                /\ ~OffersDirect(arm.scenario)
                /\ "relay" \in link.paths
                /\ arm.url.host \in LocalIps \cup LocalNames
                /\ server.at \in {"ready", "done"}
          /\ p.at = "done" /\ p.code = 0 /\ ExpectsConnection(arm.scenario) =>
                p.result.verdict = "connected" \/ RelayConfigRefuses(arm.url, Auth) # ""
    /\ /\ server.at = "ready" /\ arm.url.parses /\ arm.url.scheme = "https"
       /\ arm.url.host = arm.server.https.ip
       => RelayConfigRefuses(arm.url, Auth) = ""

(* Whatever fails, the relay and both peers come to an end: no peer waits   *)
(* for ever for the other to close.                                         *)
EveryoneHasReported == server.at = "done" /\ acceptor.at = "done" /\ connector.at = "done"
=============================================================================
