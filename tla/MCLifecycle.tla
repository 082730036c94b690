---------------------------- MODULE MCLifecycle -----------------------------
(* The daemon while it runs: its start, report and stop, its libp2p swarm    *)
(* and rendezvous, the Iroh runtime and serve gate, and the relay evidence   *)
(* binaries.  None of them shares state with another, so a behaviour is of   *)
(* one of them (focus), and the variables of the others are off.             *)
EXTENDS CompositeDaemon, SwarmWorker, IrohRuntime, RelayEvidence, TLC

(***************************************************************************)
(* Command lines for CompositeDaemon: one that works for each way of using *)
(* it, every command line within one edit of one of them, and within two   *)
(* of the ones that share.                                                 *)
(***************************************************************************)

Bare == Defaults

WithIroh(c) == [c EXCEPT !.port = TRUE, !.irohState = TRUE, !.reach = "lan"]
Leecher == [Bare EXCEPT !.leech = TRUE, !.boot = {"public"}]
IrohUser == WithIroh([Bare EXCEPT !.peers = TRUE, !.claims = "known",
                                  !.lookup = TRUE, !.resolution = "all",
                                  !.boot = {"public"}])
LanSharer == WithIroh([Bare EXCEPT !.provider = TRUE, !.seeds = TRUE,
                                   !.listen = {"lan"}, !.mdns = TRUE,
                                   !.afterFetch = TRUE, !.proved = {},
                                   !.irohProvider = TRUE])
PublicSharer == WithIroh([Bare EXCEPT !.provider = TRUE, !.seeds = TRUE,
                                      !.store = TRUE, !.listen = {"public"},
                                      !.boot = {"public"}, !.state = TRUE,
                                      !.allowlist = TRUE, !.trusted = TRUE,
                                      !.publish = TRUE,
                                      !.publication = "all"])

Switches == {"leech", "provider", "afterFetch", "seeds", "store", "twice",
             "allowlist", "trusted", "budget", "hints", "mdns", "scoped",
             "identity", "state", "print", "irohProvider", "publish",
             "lookup", "peers", "port", "irohState", "inflight", "fits",
             "envelope", "preflight", "noMdns", "upstream", "cacheDir", "noCache", "supervised"}

Edited(c) ==
    {[c EXCEPT ![s] = ~c[s]] : s \in Switches}
    \cup {[c EXCEPT !.boot = v] : v \in {{}, {"lan"}, {"public"}}}
    \cup {[c EXCEPT !.listen = v] : v \in {{}, {"lan"}, {"public"}}}
    \cup {[c EXCEPT !.claims = v] : v \in {"none", "known", "stranger"}}
    \cup {[c EXCEPT !.publication = v] : v \in {"none", "some", "all"}}
    \cup {[c EXCEPT !.resolution = v] : v \in {"none", "some", "all"}}
    \cup {[c EXCEPT !.reach = v] : v \in {"unset", "lan", "global"}}
    \cup {[c EXCEPT !.proved = v] : v \in {{}, {"seed"}, {"seed", "store"}}}
    \cup {[c EXCEPT !.repeated = {v}] : v \in {"publish", "lookup", "leech"}}
    \cup {[c EXCEPT !.mode = v] : v \in {"helper", "filter"}}
    \cup {[c EXCEPT !.paths = v] : v \in {0, 2}}
    \cup {[c EXCEPT !.outOfRange = {v}] : v \in {"header-wait", "record-ttl"}}
    \cup {[c EXCEPT !.declared = v] :
             v \in {"upstream-only", "consume-only", "lan-share",
                    "public-share"}}

OneEdit == UNION {Edited(c) : c \in {Bare, Leecher, IrohUser, LanSharer, PublicSharer}}
TwoEdits == UNION {Edited(d) : d \in UNION {Edited(c) : c \in {LanSharer, PublicSharer}}}

(* The command line that sets what differs from the defaults.              *)
Line(c) == [f \in {g \in DOMAIN c : c[g] # Defaults[g]} |-> c[f]]
MCCommands == {Line(c) : c \in OneEdit \cup TwoEdits}

-----------------------------------------------------------------------------
(***************************************************************************)
(* The report over these command lines: all of them for a sound build with *)
(* its default limits, those within one edit for every build and every     *)
(* override.                                                               *)
(***************************************************************************)

BudgetOf(n, d) == [single |-> 2, inflight |-> 3, duration |-> 4, deadline |-> d,
                   rate |-> n, permits |-> n]
Sound == [parses |-> TRUE, hashed |-> TRUE, envelope |-> Envelope,
          profiles |-> [p \in SharingProfiles |-> CASE p = "lan-share" -> BudgetOf(2, 2)
                                             [] p = "public-share" -> BudgetOf(1, 2)
                                             [] OTHER -> BudgetOf(0, 2)]]
Unset == [single |-> 2, inflight |-> 3, duration |-> 2]

MCBuilds ==
    {Sound, [Sound EXCEPT !.hashed = FALSE], [Sound EXCEPT !.envelope.single = 3],
     [Sound EXCEPT !.profiles["lan-share"].inflight = 4],
     [Sound EXCEPT !.profiles["lan-share"] = BudgetOf(2, 1)],
     [Sound EXCEPT !.profiles = [p \in SharingProfiles \ {"public-share"} |-> Sound.profiles[p]]]}

MCOverrides ==
    {Unset} \cup {[Unset EXCEPT !.single = s, !.inflight = i] : s \in 1..3, i \in 1..4}
    \cup {[Unset EXCEPT !.duration = d] : d \in 1..6}

MCReportInit ==
    /\ flags \in ParsedCommands
    /\ \/ build = Sound /\ override = Unset
       \/ flags \in OneEdit
    /\ ReportInit

-----------------------------------------------------------------------------
(* Two parties each: nodes, natted or not, and the announcing or discovering tool.*)

\* A node with another node, with the tool's announce or with its discover.
MCNode(port, natted) == [kind |-> "daemon", port |-> port, natted |-> natted, hold |-> 0]
MCTool(port, hold) == [kind |-> "tool", port |-> port, natted |-> FALSE, hold |-> hold]
MCMeetings == {<<MCNode(TRUE, TRUE), MCNode(TRUE, FALSE)>>, <<MCNode(FALSE, FALSE), MCNode(TRUE, TRUE)>>,
             <<MCNode(FALSE, FALSE), MCTool(TRUE, 2)>>, <<MCNode(TRUE, FALSE), MCTool(FALSE, 0)>>}

\* Two nodes that both announce start from an empty infohash.
MCRendezvousInit == RendezvousInit /\ ((\A p \in Parties : Daemon(p) /\ meeting[p].port) => stored = {})

-----------------------------------------------------------------------------
(* Two exact dials with an inbound connection; a provider query with a     *)
(* simple one; a record and a closest-peers query; a bootstrap with a      *)
(* listener.                                                               *)

CONSTANTS c1, c2, i1, q1, q2, q3, q4, q5, l1
MCKindOf == q1 :> "providers" @@ q2 :> "simple" @@ q3 :> "record" @@ q4 :> "closest" @@ q5 :> "bootstrap"
MCMayRelay == c1 :> TRUE @@ c2 :> FALSE
MCScenarios == {{c1, c2, i1}, {q1, q2}, {q3, q4}, {q5, l1}}

-----------------------------------------------------------------------------
(* Set-ups of the Iroh runtime.                                            *)

\* Publishing or not, with every capability that may be missing, one at a time.
MCSetups ==
    {c \in [scope : {"offline", "lan"}, persistent : BOOLEAN, relay : BOOLEAN,
            lookup : {"off", "pinned"}, publish : BOOLEAN,
            allowed : {{"direct"}, {"direct", "relay"}}] :
        /\ c.persistent \/ c.relay
        /\ c.lookup = "pinned" => ~c.publish /\ c.allowed = {"direct"} /\ c.persistent}

-----------------------------------------------------------------------------
(* Every scenario, with at most two things changed from a working setup.      *)

Scenarios == {"relay-success", "direct-positive", "relay-outage", "wrong-url",
              "wrong-certificate", "wrong-identity", "half-open-stream",
              "forced-direct-failure"}

Socket(ip, port) == [ip |-> ip, port |-> port, scoped |-> TRUE]

MCServers ==
    {[https |-> Socket(ip, p), http |-> Socket(ip, 0), lifetimeOk |-> TRUE, identityOk |-> TRUE]
        : ip \in Ips, p \in 0..1}
    \cup {[https |-> Socket("private", 1), http |-> h, lifetimeOk |-> l, identityOk |-> i] :
            h \in {Socket("public", 0), Socket("private", 1), Socket("unspecified", 1)},
            l \in BOOLEAN, i \in BOOLEAN}
    \cup {[https |-> [ip |-> "link-local", port |-> 1, scoped |-> FALSE],
           http |-> Socket("private", 0), lifetimeOk |-> TRUE, identityOk |-> TRUE]}

Base(s) ==
    [scenario |-> s, bindOk |-> TRUE, identityOk |-> TRUE, peer |-> "right", direct |-> "given",
     directOpen |-> s # "forced-direct-failure", reaches |-> s # "relay-outage",
     url |-> [parses |-> s # "wrong-url", scheme |-> "https", host |-> "private"],
     server |-> [https |-> Socket("private", 1), http |-> Socket("private", 0),
                 lifetimeOk |-> TRUE, identityOk |-> TRUE]]

MCArms ==
    {Base(s) : s \in Scenarios}
    \cup {[Base(s) EXCEPT !.peer = p, !.direct = d] :
            s \in Scenarios, p \in {"none", "malformed", "wrong", "right"}, d \in {"none", "given"}}
    \cup {[Base("relay-success") EXCEPT !.url = u] :
            u \in [parses : {TRUE}, scheme : {"https", "http"}, host : Hosts]}
    \cup {[Base("relay-success") EXCEPT !.server = c, !.url.host = c.https.ip] : c \in MCServers}
    \cup {[Base(s) EXCEPT !.bindOk = b, !.identityOk = i, !.directOpen = ~@] :
            s \in Scenarios, b \in BOOLEAN, i \in BOOLEAN}

-----------------------------------------------------------------------------
(* Get-requests for a seeded blob and for a supplied one that fills the     *)
(* budget alone.                                                           *)

MCBlobs == {"b1", "b2"}
MCSizeOf == "b1" :> 1 @@ "b2" :> 2
MCSuppliable == {{}, {"b2"}}

-----------------------------------------------------------------------------

VARIABLE focus

Off(x) == x = "off"

DaemonOff == Off(flags) /\ Off(point) /\ Off(claimed) /\ Off(dir) /\ Off(iroh) /\ Off(leg)
          /\ Off(source) /\ Off(raw) /\ Off(cache) /\ Off(asked) /\ Off(code) /\ Off(build)
          /\ Off(override) /\ Off(limits)
RendezvousOff == Off(meeting) /\ Off(party) /\ Off(stored) /\ Off(mainlineFaults)
SwarmOff == Off(callers) /\ Off(call) /\ Off(inbox) /\ Off(notices) /\ Off(reply)
         /\ Off(exact) /\ Off(conn) /\ Off(route) /\ Off(routes) /\ Off(lan) /\ Off(handed)
         /\ Off(pending) /\ Off(kad) /\ Off(seen) /\ Off(found) /\ Off(truncated)
         /\ Off(listening) /\ Off(listener)
RuntimeOff == Off(setup) /\ Off(life) /\ Off(endpoint) /\ Off(router) /\ Off(closing)
           /\ Off(observed) /\ Off(moves) /\ Off(public) /\ Off(watcher) /\ Off(fatal)
           /\ Off(late) /\ Off(result) /\ Off(errors) /\ Off(fetch)
EvidenceOff == Off(arm) /\ Off(server) /\ Off(acceptor) /\ Off(connector) /\ Off(link)
GateOff == Off(retention) /\ Off(knows) /\ Off(installed) /\ Off(lifecycle) /\ Off(driver)
        /\ Off(get) /\ Off(entry) /\ Off(blobs) /\ Off(shield) /\ Off(named) /\ Off(seeding)
        /\ Off(seeded) /\ Off(armed) /\ Off(sweep)

LifecycleInit ==
    /\ focus \in {"daemon", "rendezvous", "swarm", "runtime", "evidence", "gate"}
    /\ IF focus = "daemon" THEN MCReportInit ELSE DaemonOff
    /\ IF focus = "rendezvous" THEN MCRendezvousInit ELSE RendezvousOff
    /\ IF focus = "swarm" THEN SwarmInit ELSE SwarmOff
    /\ IF focus = "runtime" THEN RuntimeInit ELSE RuntimeOff
    /\ IF focus = "evidence" THEN EvidenceInit ELSE EvidenceOff
    /\ IF focus = "gate" THEN GateInit ELSE GateOff

(* The component in focus takes a step and the others do not.              *)
Rests(x, v) == IF focus = x THEN TRUE ELSE UNCHANGED v
Alone ==
    /\ focus' = focus
    /\ Rests("daemon", <<daemon, reportVars>>) /\ Rests("rendezvous", rendezvousVars)
    /\ Rests("swarm", swarmVars) /\ Rests("runtime", runtimeVars)
    /\ Rests("evidence", evidenceVars) /\ Rests("gate", gateVars)

LifecycleNext ==
    \/ focus = "daemon" /\ ReportNext /\ Alone
    \/ focus = "rendezvous" /\ RendezvousNext /\ Alone
    \/ focus = "swarm" /\ SwarmNext /\ Alone
    \/ focus = "runtime" /\ RuntimeNext /\ Alone
    \/ focus = "evidence" /\ EvidenceNext /\ Alone
    \/ focus = "gate" /\ GateNext /\ Alone

lifecycleVars == <<daemon, reportVars, rendezvousVars, swarmVars, runtimeVars,
                   evidenceVars, gateVars, focus>>

LifecycleSpec ==
    /\ LifecycleInit /\ [][LifecycleNext]_lifecycleVars
    /\ WF_<<daemon, reportVars>>(focus = "daemon" /\ Steps /\ ReportNext)
    /\ WF_rendezvousVars(focus = "rendezvous" /\ MainlineTick)
    /\ \A p \in Parties : WF_rendezvousVars(focus = "rendezvous" /\ PartyStep(p))
    /\ WF_swarmVars(focus = "swarm" /\ WorkerStep)
    /\ WF_runtimeVars(focus = "runtime" /\ WatchStep)
    /\ WF_runtimeVars(focus = "runtime" /\ StopStep)
    /\ WF_evidenceVars(focus = "evidence" /\ ServerStep)
    /\ WF_evidenceVars(focus = "evidence" /\ AcceptorStep)
    /\ WF_evidenceVars(focus = "evidence" /\ ConnectorStep)
    /\ WF_gateVars(focus = "gate" /\ \E r \in Gets : GetStep(r))
    /\ WF_gateVars(focus = "gate" /\ CollectorStep)

(* The composite daemon leaves nothing running when it ends, runs the       *)
(* mechanisms and the profile it claims, and installs the limits that it    *)
(* reports (daemon/src/main.rs, operator.rs).                                *)
DaemonIsAsReported ==
    focus = "daemon" => NothingLeftRunning /\ CompositeRunsAsClaimed /\ ReportedIsInstalled

(* The swarm worker routes only what its policy allows, gives every exact   *)
(* dial to its awaiting caller and hands out a sample of the providers it   *)
(* saw; the rendezvous lookups stay within their cadence (swarm.rs,         *)
(* mainline-rendezvous).                                                    *)
SwarmIsDisciplined ==
    /\ focus = "swarm" => SwarmTypeOK /\ RoutesAreAuthorized /\ ExactIsAwaited /\ FanOutIsSample
    /\ focus = "rendezvous" => RendezvousIsGentle

(* The Iroh node reserves what it serves and no more, tells followers that  *)
(* a producer failed, says of a shutdown only what is so, and the relay     *)
(* evidence is never success without a relayed connection                   *)
(* (transport_iroh.rs, iroh_runtime.rs, the relay binaries).                *)
IrohIsHonest ==
    /\ focus = "gate" => ReservationsConserved /\ RetrySuffices /\ FailureReachesFollowers
    /\ focus = "runtime" => ShutdownIsHonest
    /\ focus = "evidence" => EvidenceIsTrue

(* Everything settles: members of one infohash meet, a signal stops the     *)
(* daemon, what a caller gave up is released, the published locations       *)
(* follow the endpoint, the evidence binaries report, and a store that only *)
(* serves is emptied.                                                       *)
LifecycleSettles ==
    <>[](/\ focus = "daemon" => SignalHasStopped
         /\ focus = "rendezvous" => MembersHaveMet
         /\ focus = "swarm" => GivenUpIsReleased
         /\ focus = "runtime" => RuntimeHasSettled
         /\ focus = "evidence" => EveryoneHasReported
         /\ focus = "gate" => NothingAtRest)
=============================================================================
