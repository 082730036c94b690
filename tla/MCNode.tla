------------------------------- MODULE MCNode -------------------------------
(* A node as it is set up and as it presents itself: how its configuration  *)
(* becomes what it runs, how it keeps to the LAN, and what the Iroh node     *)
(* publishes of itself, with its lookup, its endpoint, its identity and      *)
(* state files and the diagnostic that shows them at work.  None of them     *)
(* shares state with another, so a behaviour is of one of them (focus), and  *)
(* the variables of the others are off.                                      *)
EXTENDS NodeAssembly, LanConfinement, NodePublication, NodeLookup, NodeState,
        LookupEvidence, TLC

(***************************************************************************)
(* Configurations for NodeAssembly: one that works for each profile, and   *)
(* every configuration within two edits of one of them.                    *)
(***************************************************************************)

Nothing ==
    [leech |-> FALSE, provider |-> FALSE, router |-> FALSE,
     afterFetch |-> FALSE, seeds |-> FALSE, store |-> FALSE,
     allowlist |-> FALSE, trusted |-> FALSE, external |-> FALSE,
     boot |-> {}, listen |-> {}, hints |-> FALSE, mdns |-> "unset",
     mainline |-> "off", declared |-> "unset", scope |-> "unset",
     custom |-> FALSE, signer |-> FALSE, signerTrusted |-> TRUE,
     lanKeys |-> FALSE, budget |-> TRUE, state |-> TRUE, relay |-> TRUE,
     identity |-> NoSeed, preflight |-> FALSE,
     proved |-> {"seed", "store", "fetched"}, misread |-> FALSE]

Consumer == [Nothing EXCEPT !.leech = TRUE, !.boot = {"public"}]
RouterNode == [Nothing EXCEPT !.router = TRUE, !.listen = {"public"}]
LanNode == [Nothing EXCEPT !.provider = TRUE, !.seeds = TRUE, !.store = TRUE,
                           !.listen = {"lan"}, !.afterFetch = TRUE,
                           !.proved = {}]
CustomNode == [LanNode EXCEPT !.store = FALSE, !.custom = TRUE,
                              !.signer = TRUE, !.lanKeys = TRUE]
PublicNode == [Nothing EXCEPT !.provider = TRUE, !.seeds = TRUE,
                              !.store = TRUE, !.listen = {"public"},
                              !.boot = {"public"}, !.allowlist = TRUE,
                              !.trusted = TRUE]

Bases == {Nothing, Consumer, RouterNode, LanNode, CustomNode, PublicNode}

Places == {{}, {"lan"}, {"public"}, {"lan", "public"}}

Edits(c) ==
    {[c EXCEPT !.leech = v] : v \in BOOLEAN}
    \cup {[c EXCEPT !.provider = v] : v \in BOOLEAN}
    \cup {[c EXCEPT !.router = v] : v \in BOOLEAN}
    \cup {[c EXCEPT !.afterFetch = v] : v \in BOOLEAN}
    \cup {[c EXCEPT !.seeds = v] : v \in BOOLEAN}
    \cup {[c EXCEPT !.store = v] : v \in BOOLEAN}
    \cup {[c EXCEPT !.allowlist = v] : v \in BOOLEAN}
    \cup {[c EXCEPT !.trusted = v] : v \in BOOLEAN}
    \cup {[c EXCEPT !.external = v] : v \in BOOLEAN}
    \cup {[c EXCEPT !.boot = v] : v \in Places}
    \cup {[c EXCEPT !.listen = v] : v \in Places}
    \cup {[c EXCEPT !.hints = v] : v \in BOOLEAN}
    \cup {[c EXCEPT !.mdns = v] : v \in {"unset", "on", "off", "both"}}
    \cup {[c EXCEPT !.mainline = v] : v \in {"off", "bare", "on"}}
    \cup {[c EXCEPT !.declared = v] : v \in Profiles}
    \cup {[c EXCEPT !.scope = v] : v \in {"v1", "own"}}
    \cup {[c EXCEPT !.custom = v] : v \in BOOLEAN}
    \cup {[c EXCEPT !.signer = v] : v \in BOOLEAN}
    \cup {[c EXCEPT !.signerTrusted = v] : v \in BOOLEAN}
    \cup {[c EXCEPT !.lanKeys = v] : v \in BOOLEAN}
    \cup {[c EXCEPT !.budget = v] : v \in BOOLEAN}
    \cup {[c EXCEPT !.state = v] : v \in BOOLEAN}
    \cup {[c EXCEPT !.preflight = v] : v \in BOOLEAN}
    \cup {[c EXCEPT !.misread = TRUE]}
    \cup {[c EXCEPT !.proved = v] : v \in {{}, {"seed"}, {"store"}}}

MCConfigs == UNION {Edits(d) : d \in UNION {Edits(c) : c \in Bases}}

(* A node is restarted as it was, or with the flags of its identity        *)
(* changed.                                                                *)
MCRestarts(c) ==
    {c, [c EXCEPT !.identity = "explicit"], [c EXCEPT !.state = ~c.state]}

-----------------------------------------------------------------------------
(* Processes that open a directory, start on it or ask are interchangeable. *)

CONSTANTS actor1, actor2

MCActors == {actor1, actor2}

NodeSymmetry == Permutations(MCActors)

-----------------------------------------------------------------------------
(* A record, a tombstone above it and another packet with its sequence.    *)

Packets == {[seq |-> 1, body |-> "a"], [seq |-> 2, body |-> Withdrawn], [seq |-> 2, body |-> "b"]}

-----------------------------------------------------------------------------
(* The profiles an endpoint is bound with.                                 *)

\* The scopes, with LAN addresses good and bad, one of them bad at a time.
OnLan(a, b) == [scope |-> "lan", v4 |-> a, v6 |-> b, port |-> 0]
MCProfiles ==
    {[scope |-> s, v4 |-> "none", v6 |-> "none", port |-> n] : s \in {"offline", "global"}, n \in {0, 1}}
    \cup {OnLan(a, "none") : a \in {"any4", "multicast4", "broadcast4"}}
    \cup {OnLan("unicast4", b) : b \in {"none", "unicast6", "any6", "multicast6", "linklocal6"}}

-----------------------------------------------------------------------------
(***************************************************************************)
(* Addresses for the node record: good ones in both spellings and one with  *)
(* each fault.                                                              *)
(***************************************************************************)

Host == Direct("unicast", 1)
MCAddresses ==
    {Host, [Host EXCEPT !.v6 = TRUE, !.mapped = TRUE],
     [Direct("link-local", 2) EXCEPT !.v6 = TRUE],
     [Direct("link-local", 2) EXCEPT !.v6 = TRUE, !.scope = 1, !.id = 3],
     [Host EXCEPT !.port = 0, !.id = 4], Direct("multicast", 5),
     RelayAt("unicast", 1), [RelayAt("unicast", 1) EXCEPT !.exact = FALSE],
     [RelayAt("link-local", 2) EXCEPT !.v6 = TRUE]}

-----------------------------------------------------------------------------
(* Every scenario with up to two attempts, and one thing changed at a time.   *)

Scenarios == {"hanging", "bad-signature", "stale", "equal-conflict", "expired", "live-empty"}

FixtureSide == [ip |-> "private", port |-> 1, scoped |-> TRUE, namesOk |-> TRUE, ownerOk |-> TRUE,
                runBound |-> TRUE]
AuthoritySide == [ip |-> "private", port |-> 1, scoped |-> TRUE, namesOk |-> TRUE, ownerOk |-> TRUE,
                  signers |-> 1, canonical |-> TRUE, repeated |-> FALSE]
ToolSide(n) == [ip |-> "private", port |-> 1, namesOk |-> TRUE, ownerOk |-> TRUE, external |-> "none",
                flagsOk |-> TRUE, attempts |-> n, keyOk |-> TRUE, hostMatches |-> TRUE,
                namespaceMatches |-> TRUE, recipientMatches |-> TRUE]

Base(s, n) == [against |-> "fixture", scenario |-> s, fixture |-> FixtureSide,
               authority |-> AuthoritySide, tool |-> ToolSide(n), held |-> NothingHeld]

Held(s) == [status |-> 200, signed |-> TRUE, seq |-> StartSecond * MicrosPerSecond, ttl |-> 2,
            state |-> s, at |-> IF s = "live" THEN 1 ELSE 0]

Changed(t) ==
    {[t EXCEPT !.tool.keyOk = FALSE], [t EXCEPT !.tool.hostMatches = FALSE],
     [t EXCEPT !.tool.namespaceMatches = FALSE], [t EXCEPT !.tool.recipientMatches = FALSE],
     [t EXCEPT !.tool.ip = "public"], [t EXCEPT !.tool.external = "named"],
     [t EXCEPT !.tool.flagsOk = FALSE], [t EXCEPT !.fixture.ip = "unspecified"],
     [t EXCEPT !.fixture.runBound = FALSE], [t EXCEPT !.authority.signers = 0],
     [t EXCEPT !.authority.repeated = TRUE], [t EXCEPT !.authority.ip = "public"]}

MCSetups ==
    {Base(s, n) : s \in Scenarios, n \in Attempts}
    \cup Changed(Base("stale", 2))
    \cup {[Base("stale", n) EXCEPT !.against = "authority", !.held = h] :
            n \in Attempts, h \in {Held("live"), Held("withdrawn"), [NothingHeld EXCEPT !.status = 404],
                                   [NothingHeld EXCEPT !.status = 500]}}
    \cup {[t EXCEPT !.against = "authority", !.held = Held("live")] : t \in Changed(Base("stale", 1))}

-----------------------------------------------------------------------------

VARIABLE focus

Off(x) == x = "off"

AssemblyOff == Off(conf) /\ Off(stage) /\ Off(profile) /\ Off(report) /\ Off(seed)
            /\ Off(idFile) /\ Off(net) /\ Off(posted) /\ Off(ages) /\ Off(starts)
            /\ Off(losses)
LanOff == Off(confined) /\ Off(table) /\ Off(window) /\ Off(link) /\ Off(ledger)
       /\ Off(stream) /\ Off(busy) /\ Off(fetching) /\ Off(cursor) /\ Off(meetings)
PublicationOff == Off(phase) /\ Off(pubMem) /\ Off(pubDisk) /\ Off(poisoned) /\ Off(wanted)
               /\ Off(job) /\ Off(gate) /\ Off(at) /\ Off(sending) /\ Off(kind)
               /\ Off(putAnswer) /\ Off(packets) /\ Off(ended) /\ Off(sent) /\ Off(budget)
               /\ Off(clock) /\ Off(authMem) /\ Off(authDisk) /\ Off(authUp)
LookupOff == Off(mono) /\ Off(wall) /\ Off(high) /\ Off(lastWall) /\ Off(lookupOpen)
          /\ Off(ask) /\ Off(lookups) /\ Off(seen) /\ Off(given)
IdentityOff == Off(stateDir) /\ Off(linked) /\ Off(kept) /\ Off(starter) /\ Off(handed)
            /\ Off(dirLost) /\ Off(restarts) /\ Off(powerLosses) /\ Off(swaps)
BindingOff == Off(relayMap) /\ Off(aliased) /\ Off(builder) /\ Off(bound) /\ Off(heard)
NodeRecordOff == Off(draft) /\ Off(packet) /\ Off(signatureOn) /\ Off(edits) /\ Off(decoded)
StateOff == Off(role) /\ Off(files) /\ Off(inodes) /\ Off(locks) /\ Off(running)
         /\ Off(lastSaved) /\ Off(disturbed)
HttpOff == Off(request) /\ Off(reply) /\ Off(httpStage) /\ Off(received) /\ Off(elapsed)
        /\ Off(answer)
CaseOff == Off(supplied) /\ Off(caseClock) /\ Off(fixture) /\ Off(keeper) /\ Off(calls)
        /\ Off(tool)

NodeInit ==
    /\ focus \in {"assembly", "lan", "publication", "lookup", "identity", "endpoint",
                  "node record", "state", "http", "diagnostic"}
    /\ IF focus = "assembly" THEN AssemblyInit ELSE AssemblyOff
    /\ IF focus = "lan" THEN LanInit ELSE LanOff
    /\ IF focus = "publication" THEN PublicationInit ELSE PublicationOff
    /\ IF focus = "lookup" THEN LookupInit ELSE LookupOff
    /\ IF focus = "identity" THEN IdentityInit ELSE IdentityOff
    /\ IF focus = "endpoint" THEN BindingInit ELSE BindingOff
    /\ IF focus = "node record" THEN NodeRecordInit ELSE NodeRecordOff
    /\ IF focus = "state" THEN StateInit ELSE StateOff
    /\ IF focus = "http" THEN HttpInit ELSE HttpOff
    /\ IF focus = "diagnostic" THEN CaseInit ELSE CaseOff

(* The component in focus takes a step and the others do not.              *)
Rests(x, v) == IF focus = x THEN TRUE ELSE UNCHANGED v
Alone ==
    /\ focus' = focus
    /\ Rests("assembly", assembly) /\ Rests("lan", lanVars)
    /\ Rests("publication", publicationVars) /\ Rests("lookup", lookupVars)
    /\ Rests("identity", identity) /\ Rests("endpoint", bindingVars)
    /\ Rests("node record", recordVars) /\ Rests("state", stateVars)
    /\ Rests("http", httpVars) /\ Rests("diagnostic", caseVars)

NodeNext ==
    \/ focus = "assembly" /\ AssemblyNext /\ Alone
    \/ focus = "lan" /\ LanNext /\ Alone
    \/ focus = "publication" /\ PublicationNext /\ Alone
    \/ focus = "lookup" /\ LookupNext /\ Alone
    \/ focus = "identity" /\ IdentityNext /\ Alone
    \/ focus = "endpoint" /\ BindingNext /\ Alone
    \/ focus = "node record" /\ NodeRecordNext /\ Alone
    \/ focus = "state" /\ StateNext /\ Alone
    \/ focus = "http" /\ HttpNext /\ Alone
    \/ focus = "diagnostic" /\ CaseNext /\ Alone

nodeVars == <<assembly, lanVars, publicationVars, lookupVars, identity, bindingVars,
              recordVars, stateVars, httpVars, caseVars, focus>>

NodeSpec ==
    /\ NodeInit /\ [][NodeNext]_nodeVars

(* Whatever it is configured with and however often it restarts, the node   *)
(* publishes and serves what its sharing class permits and reports, keeps   *)
(* its identity, keeps a LAN share on the LAN and re-signs its seeds before *)
(* they lapse (daemon-libp2p/src/lib.rs, main.rs).                          *)
NodeIsAsConfigured ==
    focus = "assembly" =>
        /\ AssemblyTypeOK /\ LanShareStaysOnLan /\ PublishedIsPermitted /\ ReportMatchesWire
        /\ IdentityIsKept /\ SeedNeverLapses

(* A confined node talks to peers on its links only, knows a peer that it   *)
(* meets again, and asks every admitted peer in turn (lan.rs).              *)
LanIsConfined ==
    focus = "lan" => TrafficStaysOnLan /\ ReconnectIsRecognised /\ EveryPeerIsAsked

(* Over crashes, power losses and failed requests, the Iroh node never      *)
(* signs two packets with one sequence, a tombstone it made is not undone   *)
(* by a PUT given up earlier, what it says is current is held by the        *)
(* authority, and neither directory is ever left in a state that its own    *)
(* open refuses (iroh_publication.rs).                                      *)
PublicationIsSound ==
    focus = "publication" =>
        OneSequenceOnePacket /\ TombstoneHolds /\ CurrentIsHeld /\ OwnDiskIsAccepted

(* What a lookup tells never goes back and is within its lifetime, the      *)
(* response it was read from is whole and the asked signer's, its packet is *)
(* the one form of its record and gives the locations back that were        *)
(* published, and the diagnostic and its fixture agree on what happened and *)
(* end in their bounds (validate_and_advance, request_inner,                *)
(* iroh_node_record.rs, the lookup binaries).                               *)
LookupIsSound ==
    [][/\ focus = "lookup" => LookupNeverRegresses /\ LookupIsFresh'
       /\ focus = "http" => ResponseIsExact'
       /\ focus = "node record" => (DecodedIsCanonical /\ EncodedIsDecoded)'
       /\ focus = "diagnostic" => (EvidenceAgrees /\ EvidenceEnds)'
      ]_<<lookupVars, httpVars, recordVars, caseVars>>

(* Who the node is and where it may be reached do not change behind its     *)
(* back: one directory has one identity, one owner and no state older than  *)
(* the last save, unless somebody takes back or deletes all that would show *)
(* it; and the endpoint contacts what its builder was given                 *)
(* (load_or_create_identity and bind_endpoint in iroh_runtime.rs,           *)
(* iroh_publication.rs).                                                    *)
NodeStateIsKept ==
    /\ focus = "identity" => IdentityIsStable
    /\ focus = "state" => StateIsOwnedAndLatest /\ UntouchedIsReadable
    /\ focus = "endpoint" => EndpointIsAsChosen
=============================================================================
