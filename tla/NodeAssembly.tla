---------------------------- MODULE NodeAssembly -----------------------------
(***************************************************************************)
(* How the libp2p daemon becomes a running node:                           *)
(* daemon-libp2p/src/main.rs (flags, contract, preconditions, start order),*)
(* daemon-libp2p/src/lib.rs (identity seed, LAN isolation, fabric start,   *)
(* serve gate, initial announce, seed re-signing) and                      *)
(* daemon-core/src/operator.rs (sharing profiles, the operator contract).  *)
(*                                                                         *)
(* A configuration is a record of the flags that decide something.  An     *)
(* address is its class: "lan" (a direct private, loopback or link-local   *)
(* IP) or "public" (anything else: DNS, wildcard, relay, public IP).  The  *)
(* supply is at most one seeded NAR ("seed"), one store path ("store") and *)
(* one path fetched while running ("fetched"); `proved` is the part of it  *)
(* that the public allowlist approves.  A record that was published stays  *)
(* in `posted` after its process is gone: nothing withdraws it at exit.    *)
(***************************************************************************)
EXTENDS Naturals, FiniteSets

CONSTANTS Configs,   \* the configurations a node may be started with
          Restarts(_),\* those it may be restarted with, after a given one
          RecordTtl, MaxStarts, MaxLosses

ASSUME AssemblyAssumption ==
    /\ RecordTtl \in Nat /\ RecordTtl >= 2
    /\ MaxStarts \in Nat /\ MaxLosses \in Nat

VARIABLES conf,      \* the flags of this start
          stage,     \* how far main() is
          profile,   \* the sharing profile derived from the flags
          report,    \* what preflight and status say of this node
          seed,      \* the identity seed of this process
          idFile,    \* the state directory: identity file, its durable
                     \* value, and whether floor files exist
          net,       \* what this process does on the network
          posted,    \* every provider record published so far
          ages,      \* the seed record's age, the time to the next cycle
          starts, losses

assembly == <<conf, stage, profile, report, seed, idFile, net, posted, ages,
              starts, losses>>

Profiles == {"upstream-only", "consume-only", "lan-share", "public-share",
             "router"}
NoSeed == "no seed"
Stages == {"parse", "contract", "identity", "identity-saved",
           "identity-renamed", "allowlist", "branch", "supply", "fabric",
           "join", "routing", "routed", "wired", "disclosed", "serving", "authorized",
           "seeded", "announced", "rendezvous", "bind", "running",
           "down"}

(* Config: every flag that decides something.                              *)
NodeFlags ==
    [leech : BOOLEAN, provider : BOOLEAN, router : BOOLEAN, afterFetch : BOOLEAN,
     seeds : BOOLEAN, store : BOOLEAN, allowlist : BOOLEAN, trusted : BOOLEAN,
     external : BOOLEAN, boot : SUBSET {"lan", "public"}, listen : SUBSET {"lan", "public"},
     hints : BOOLEAN, mdns : {"unset", "on", "off", "both"}, mainline : {"off", "bare", "on"},
     declared : Profiles \cup {"unset"}, scope : {"unset", "v1", "own"}, custom : BOOLEAN,
     signer : BOOLEAN, signerTrusted : BOOLEAN, lanKeys : BOOLEAN, budget : BOOLEAN,
     state : BOOLEAN, relay : BOOLEAN, identity : {NoSeed, "explicit"}, preflight : BOOLEAN,
     proved : SUBSET {"seed", "store", "fetched"}, misread : BOOLEAN]

-----------------------------------------------------------------------------
(* operator.rs: what a profile does.                                       *)
Serves(p) == p \in {"lan-share", "public-share"}
RunsDhtServer(p) == Serves(p) \/ p = "router"
DhtRole(p) == IF p = "upstream-only" THEN "none"
              ELSE IF RunsDhtServer(p) THEN "server" ELSE "client"

HasSupply(c) == c.seeds \/ c.store
Announces(c) == c.afterFetch \/ HasSupply(c)
HasEntryFlag(c) == c.boot # {} \/ c.mdns = "on" \/ c.mainline # "off"

(* SharingProfile::derive, after contract_request.                         *)
DeriveRefuses(c) ==
    \/ c.leech /\ (c.provider \/ Announces(c) \/ c.allowlist)
    \/ c.router /\ (c.provider \/ Announces(c) \/ c.allowlist \/ c.leech)
    \/ /\ ~c.router /\ c.external /\ ~c.allowlist
       /\ (c.provider \/ Announces(c))
    \/ ~c.router /\ (Announces(c) \/ c.allowlist) /\ ~c.provider

Derive(c) ==
    IF c.router THEN "router"
    ELSE IF c.provider
         THEN IF c.allowlist THEN "public-share" ELSE "lan-share"
    ELSE IF c.leech \/ HasEntryFlag(c) THEN "consume-only"
    ELSE "upstream-only"

(* parse_config: what each mode flag excludes.                             *)
GiveSide(c) == c.provider \/ Announces(c) \/ c.allowlist \/ c.trusted
LeechRefuses(c) == c.leech /\ GiveSide(c)
RouterRefuses(c) == c.router /\ (GiveSide(c) \/ c.leech)

(* The explicit lan-share profile turns the provider axis on.              *)
BackFill(c) == [c EXCEPT !.provider = @ \/ c.declared = "lan-share"]

GiveRefuses(c) ==
    \/ c.afterFetch /\ ~c.provider
    \/ c.afterFetch /\ ~c.budget
    \/ c.provider /\ c.external /\ ~c.allowlist

AllowlistRefuses(c) ==
    \/ c.allowlist /\ ~c.provider
    \/ c.trusted /\ ~c.allowlist
    \/ c.allowlist /\ ~c.trusted

ProfileDisagrees(c) == c.declared # "unset" /\ c.declared # Derive(c)

MainlineRefuses(c) ==
    \/ c.mainline = "bare"
    \/ c.mainline # "off" /\ Derive(c) \in {"lan-share", "upstream-only"}

(* LAN metadata: a signing key and trusted keys for custom builds.         *)
LanMetadataRefuses(c) ==
    \/ c.custom # c.signer
    \/ /\ c.signer \/ c.lanKeys
       /\ \/ Derive(c) # "lan-share" \/ c.allowlist \/ c.scope # "unset"
          \/ c.custom /\ ~c.budget
          \/ c.custom /\ ~c.state
          \/ c.signer /\ ~c.lanKeys

(* The argument loop: a flag is unknown, lacks its value or has one that    *)
(* does not parse or is out of range; or mDNS is both asked for and refused. *)
LoopRefuses(c) == c.misread \/ c.mdns = "both"

ParseRefuses(c) ==
    \/ LoopRefuses(c)
    \/ LeechRefuses(c) \/ RouterRefuses(c) \/ GiveRefuses(c)
    \/ AllowlistRefuses(c) \/ DeriveRefuses(c) \/ ProfileDisagrees(c)
    \/ MainlineRefuses(c) \/ LanMetadataRefuses(c)

MdnsActive(c) == c.mdns = "on" \/ (c.mdns = "unset" /\ Derive(c) = "lan-share")

(* build_contract, with public_dht_participation.                          *)
Contract(c) ==
    LET p == Derive(c)
    IN  [role   |-> DhtRole(p), serves |-> Serves(p), mdns |-> MdnsActive(c),
         public |-> IF p = "router" THEN c.external ELSE p = "public-share"]

NoReport == [role |-> "unsaid", serves |-> FALSE, mdns |-> FALSE,
             public |-> FALSE]

(* check_runtime_preconditions.                                            *)
PreconditionFails(c) ==
    \/ /\ Serves(Derive(c))
       /\ \/ ~Announces(c) /\ ~c.signer /\ ~c.lanKeys
          \/ c.listen = {}
          \/ ~(MdnsActive(c) \/ c.boot # {} \/ c.hints)
    \/ /\ Derive(c) = "consume-only"
       /\ c.boot = {} /\ ~MdnsActive(c) /\ c.mainline = "off"
    \/ Derive(c) = "router" /\ c.listen = {}
    \/ /\ Derive(c) = "upstream-only"
       /\ c.listen # {} \/ c.boot # {} \/ c.hints \/ c.external

(* Mutant of IsolationRefuses: listen addresses are not looked at.         *)
IsolationRefusesDials(c) == "public" \in c.boot \/ c.hints

(* lan_share_or_refuse over every listen address, and the publication plan.*)
IsolationRefuses(c) ==
    "public" \in c.boot \/ c.hints \/ "public" \in c.listen

Plan(c) == IF c.allowlist THEN "allowlist" ELSE "lan"

(* A start without the allowlist is refused unless it stays on the LAN.    *)
DecisionRefuses(c) == Plan(c) = "lan" /\ IsolationRefuses(c)

(* The authority the announcer and each witness use for `item`.            *)
Authorizes(c, item) == Plan(c) = "lan" \/ item \in c.proved

(* What a node with no swarm does on the network, and source_config.       *)
Idle == [up |-> FALSE, scope |-> "none", confined |-> FALSE, kad |-> FALSE,
         relay |-> FALSE, mdns |-> FALSE, external |-> FALSE,
         listening |-> {}, contacts |-> {}, wired |-> FALSE,
         told |-> FALSE, serving |-> FALSE, hook |-> FALSE, resign |-> FALSE,
         mainline |-> FALSE, http |-> FALSE]

EffectiveScope(c, lan) ==
    IF c.scope # "unset" THEN c.scope ELSE IF lan THEN "lan-share.v1" ELSE "v1"

SourceConfig(c) ==
    LET lan == Serves(Derive(c)) /\ Plan(c) = "lan"
    IN  [Idle EXCEPT !.up = TRUE, !.scope = EffectiveScope(c, lan),
                     !.confined = lan,
                     !.kad = RunsDhtServer(Derive(c)),
                     !.relay = RunsDhtServer(Derive(c)) /\ c.relay,
                     !.mdns = MdnsActive(c)]

-----------------------------------------------------------------------------
Goto(to) == stage' = to

(* Every early return of main(): the process is gone, and with it all it   *)
(* did on the network except the records it published.                     *)
Leave ==
    /\ Goto("down")
    /\ net' = Idle
    /\ seed' = NoSeed
    /\ ages' = [age |-> 0, due |-> 0, missed |-> FALSE]

SameWorld == UNCHANGED <<idFile, posted, starts, losses>>

ParseConfig ==
    /\ stage = "parse"
    /\ conf' = BackFill(conf)
    /\ IF ParseRefuses(conf')
       THEN Leave /\ UNCHANGED <<profile, report>>
       ELSE /\ Goto("contract")
            /\ profile' = Derive(conf')
            /\ report' = Contract(conf')
            /\ UNCHANGED <<net, seed, ages>>
    /\ SameWorld

(* --preflight prints the contract and ends; otherwise the preconditions   *)
(* of a live node are checked.                                             *)
CheckPreconditions ==
    /\ stage = "contract"
    /\ IF conf.preflight \/ PreconditionFails(conf) THEN Leave
       ELSE Goto("identity") /\ UNCHANGED <<net, seed, ages>>
    /\ UNCHANGED <<conf, profile, report>>
    /\ SameWorld

(* resolve_durable_identity_seed.  A fresh random seed is named after the  *)
(* start that drew it.                                                     *)
FreshSeed == IF starts = 1 THEN "random one" ELSE "random two"

IdentityOrphaned == idFile.seed = NoSeed /\ idFile.floors

IdentityRefused ==
    /\ conf.state
    /\ \/ IdentityOrphaned
       \/ /\ conf.identity # NoSeed /\ idFile.seed # NoSeed
          /\ conf.identity # idFile.seed

IdentityChoice ==
    IF conf.state /\ idFile.seed # NoSeed THEN idFile.seed
    ELSE IF conf.identity # NoSeed THEN conf.identity ELSE FreshSeed

ResolveIdentity ==
    /\ stage = "identity"
    /\ IF IdentityRefused THEN Leave
       ELSE /\ seed' = IdentityChoice
            /\ Goto(IF conf.state /\ idFile.seed = NoSeed
                    THEN "identity-saved" ELSE "allowlist")
            /\ UNCHANGED <<net, ages>>
    /\ UNCHANGED <<conf, profile, report>>
    /\ SameWorld

(* save_identity_seed: temp file written and flushed, renamed over the     *)
(* identity file, directory flushed.                                       *)
RenameIdentity ==
    /\ stage = "identity-saved"
    /\ idFile' = [idFile EXCEPT !.seed = seed]
    /\ Goto("identity-renamed")
    /\ UNCHANGED <<conf, profile, report, seed, net, posted, ages, starts,
                   losses>>

SyncIdentity ==
    /\ stage = "identity-renamed"
    /\ idFile' = [idFile EXCEPT !.durable = seed]
    /\ Goto("allowlist")
    /\ UNCHANGED <<conf, profile, report, seed, net, posted, ages, starts,
                   losses>>

(* open_public_allowlist, then the branch on the profile: upstream-only    *)
(* starts no swarm, a provider decides how it publishes.                   *)
OpenAllowlist ==
    /\ stage = "allowlist"
    /\ Goto("branch")
    /\ UNCHANGED <<conf, profile, report, seed, net, ages>>
    /\ SameWorld

Branch ==
    /\ stage = "branch"
    /\ profile \notin {"consume-only", "router"}
    /\ IF Serves(profile) /\ DecisionRefuses(conf) THEN Leave
       ELSE /\ Goto(IF Serves(profile) THEN "supply" ELSE "rendezvous")
            /\ UNCHANGED <<net, seed, ages>>
    /\ UNCHANGED <<conf, profile, report>>
    /\ SameWorld

(* A consumer or router starts a fabric with no supplier, and main wraps it*)
(* so that its serve and announce axes are masked.                         *)
Consume ==
    /\ stage = "branch"
    /\ profile \in {"consume-only", "router"}
    /\ Goto("fabric")
    /\ UNCHANGED <<conf, profile, report, seed, net, ages>>
    /\ SameWorld

(* build_provider_supply: a seed leg, and a store leg with its index when  *)
(* anything may be served from the store.                                  *)
BuildSupply ==
    /\ stage = "supply"
    /\ Goto("fabric")
    /\ UNCHANGED <<conf, profile, report, seed, net, ages>>
    /\ SameWorld

(* start_and_join_libp2p: the swarm starts, its addresses are configured,  *)
(* the bootstrap peers are dialled and the address hints are added.        *)
StartFabric ==
    /\ stage = "fabric"
    /\ net' = [SourceConfig(conf) EXCEPT !.external = conf.external,
                                         !.listening = conf.listen]
    /\ Goto("join")
    /\ UNCHANGED <<conf, profile, report, seed, ages>>
    /\ SameWorld

Reached(c) ==
    c.boot \cup (IF c.hints THEN {"public"} ELSE {})
           \cup (IF MdnsActive(c) THEN {"lan"} ELSE {})

Join ==
    /\ stage = "join"
    /\ net' = [net EXCEPT !.contacts = Reached(conf)]
    /\ Goto(IF Serves(profile) THEN "routing" ELSE "rendezvous")
    /\ UNCHANGED <<conf, profile, report, seed, ages>>
    /\ SameWorld

(* build_libp2p_provider_source waits for a routing peer.  Past the window *)
(* it gives up when it had a bootstrap peer to join, and goes on alone when*)
(* it only has mDNS.                                                       *)
AwaitRouting ==
    /\ stage = "routing"
    /\ Goto("routed")
    /\ UNCHANGED <<conf, profile, report, seed, net, ages>>
    /\ SameWorld

RoutingDeadline ==
    /\ stage = "routing"
    /\ conf.boot # {}
    /\ Leave
    /\ UNCHANGED <<conf, profile, report>>
    /\ SameWorld

(* install_provider puts the derive ledger, the upload ledger and the count*)
(* ceiling of the profile on the serve path; then the disclosures are      *)
(* printed, and only then the gate opens (wire_disclose_serve_provider).   *)
WireBudgets ==
    /\ stage = "routed"
    /\ net' = [net EXCEPT !.wired = TRUE]
    /\ Goto("wired")
    /\ UNCHANGED <<conf, profile, report, seed, ages>>
    /\ SameWorld

Disclose ==
    /\ stage = "wired"
    /\ net' = [net EXCEPT !.told = TRUE]
    /\ Goto("disclosed")
    /\ UNCHANGED <<conf, profile, report, seed, ages>>
    /\ SameWorld

ActivateServe ==
    /\ stage = "disclosed"
    /\ net' = [net EXCEPT !.serving = TRUE]
    /\ Goto("serving")
    /\ UNCHANGED <<conf, profile, report, seed, ages>>
    /\ SameWorld

(* The legs of the initial announce.                                       *)
Supply(c) == (IF c.seeds THEN {"seed"} ELSE {})
             \cup (IF c.store THEN {"store"} ELSE {})

(* announce_public_supply, phase one: every leg is authorized before the   *)
(* first record is published.  A LAN plan admits everything.               *)
AuthorizeSupply ==
    /\ stage = "serving"
    /\ IF \E item \in Supply(conf) : ~Authorizes(conf, item) THEN Leave
       ELSE Goto("authorized") /\ UNCHANGED <<net, seed, ages>>
    /\ UNCHANGED <<conf, profile, report>>
    /\ SameWorld

(* A signed record; the announcer saved its sequence to the state directory*)
(* before it published.                                                    *)
Record(item) ==
    [item |-> item, signer |-> seed, kept |-> conf.state, start |-> starts,
     confined |-> net.confined, proved |-> item \in conf.proved,
     served |-> net.serving]

Publish(item) ==
    /\ posted' = posted \cup {Record(item)}
    /\ idFile' = [idFile EXCEPT !.floors = @ \/ conf.state]

AnnounceSeeds ==
    /\ stage = "authorized"
    /\ IF ~conf.seeds THEN UNCHANGED <<posted, idFile, ages>>
       ELSE /\ Authorizes(conf, "seed")
            /\ Publish("seed")
            /\ ages' = [ages EXCEPT !.age = 0]
    /\ Goto("seeded")
    /\ UNCHANGED <<conf, profile, report, seed, net, starts, losses>>

(* The store leg; its witness is checked again for each record.            *)
AnnounceStore ==
    /\ stage = "seeded"
    /\ IF ~conf.store THEN UNCHANGED <<posted, idFile>>
       ELSE Authorizes(conf, "store") /\ Publish("store")
    /\ Goto("announced")
    /\ UNCHANGED <<conf, profile, report, seed, net, ages, starts, losses>>

(* seed_resign_interval_secs.                                              *)
ResignInterval == IF RecordTtl \div 2 >= 1 THEN RecordTtl \div 2 ELSE 1

(* The rest of install_provider: the announce-after-fetch hook, the seed   *)
(* re-sign task, and the LAN metadata signer, which must be trusted.       *)
InstallGuards ==
    /\ stage = "announced"
    /\ IF conf.signer /\ ~conf.signerTrusted THEN Leave
       ELSE /\ net' = [net EXCEPT !.hook = conf.afterFetch,
                                  !.resign = conf.seeds]
            /\ ages' = [ages EXCEPT !.due = ResignInterval]
            /\ Goto("rendezvous")
            /\ UNCHANGED seed
    /\ UNCHANGED <<conf, profile, report>>
    /\ SameWorld

(* The opt-in Mainline rendezvous, once the swarm is up.                   *)
StartRendezvous ==
    /\ stage = "rendezvous"
    /\ net' = IF conf.mainline = "off" THEN net
              ELSE [net EXCEPT !.mainline = TRUE,
                               !.contacts = @ \cup {"mainline"}]
    /\ Goto("bind")
    /\ UNCHANGED <<conf, profile, report, seed, ages>>
    /\ SameWorld

(* The HTTP listener, the status listener and the narinfo cache; then the  *)
(* proxy runs.                                                             *)
Bind ==
    /\ stage = "bind"
    /\ net' = [net EXCEPT !.http = TRUE]
    /\ Goto("running")
    /\ UNCHANGED <<conf, profile, report, seed, ages>>
    /\ SameWorld

-----------------------------------------------------------------------------
(* A running provider announces what it fetched.  With LAN trusted keys but*)
(* no custom builds the hook is wrapped and passes only paths that the     *)
(* upstream cache signed.                                                  *)
UpstreamOnlySharing == conf.lanKeys /\ ~conf.custom

AnnounceFetched ==
    /\ stage = "running"
    /\ net.hook
    /\ Authorizes(conf, "fetched")
    /\ UpstreamOnlySharing => "fetched" \in conf.proved
    /\ Publish("fetched")
    /\ UNCHANGED <<conf, stage, profile, report, seed, net, ages, starts,
                   losses>>

(* run_resign_supervised: sleep, then one cycle; a failed or panicking     *)
(* cycle leaves the record as it is and the loop goes on.                  *)
ResignTick ==
    /\ stage = "running" /\ net.resign
    /\ ages.due > 0
    /\ ages.age < RecordTtl
    /\ ages' = [ages EXCEPT !.age = @ + 1, !.due = @ - 1]
    /\ UNCHANGED <<conf, stage, profile, report, seed, net>>
    /\ SameWorld

ResignCycle ==
    /\ stage = "running" /\ net.resign
    /\ ages.due = 0
    /\ Publish("seed")
    /\ ages' = [ages EXCEPT !.age = 0, !.due = ResignInterval]
    /\ UNCHANGED <<conf, stage, profile, report, seed, net, starts, losses>>

ResignFails ==
    /\ stage = "running" /\ net.resign
    /\ ages.due = 0
    /\ ages' = [ages EXCEPT !.due = ResignInterval, !.missed = TRUE]
    /\ UNCHANGED <<conf, stage, profile, report, seed, net>>
    /\ SameWorld

-----------------------------------------------------------------------------
(* The process ends at any point: an I/O error of the step it is at (an    *)
(* early return), a signal, a crash.                                       *)
Stop ==
    /\ stage # "down"
    /\ Leave
    /\ UNCHANGED <<conf, profile, report>>
    /\ SameWorld

(* Power is lost: a rename whose directory was not flushed may be undone.  *)
PowerLoss ==
    /\ stage # "down" /\ losses < MaxLosses
    /\ losses' = losses + 1
    /\ \E kept \in {idFile.seed, idFile.durable} :
           idFile' = [idFile EXCEPT !.seed = kept, !.durable = kept]
    /\ Leave
    /\ UNCHANGED <<conf, profile, report, posted, starts>>

(* The identity file is lost while the node is down, the rest survives.    *)
IdentityLost ==
    /\ stage = "down" /\ losses < MaxLosses /\ idFile.seed # NoSeed
    /\ losses' = losses + 1
    /\ idFile' = [idFile EXCEPT !.seed = NoSeed, !.durable = NoSeed]
    /\ UNCHANGED <<conf, stage, profile, report, seed, net, posted, ages,
                   starts>>

Restart ==
    /\ stage = "down" /\ starts < MaxStarts
    /\ starts' = starts + 1
    /\ conf' \in Restarts(conf)
    /\ profile' = "upstream-only"
    /\ report' = NoReport
    /\ Goto("parse")
    /\ UNCHANGED <<seed, idFile, net, posted, ages, losses>>

AssemblyInit ==
    /\ conf \in Configs \cap NodeFlags
    /\ stage = "parse"
    /\ profile = "upstream-only"
    /\ report = NoReport
    /\ seed = NoSeed
    /\ idFile = [seed |-> NoSeed, durable |-> NoSeed, floors |-> FALSE]
    /\ net = Idle
    /\ posted = {}
    /\ ages = [age |-> 0, due |-> 0, missed |-> FALSE]
    /\ starts = 1 /\ losses = 0

Progress ==
    \/ ParseConfig \/ CheckPreconditions
    \/ ResolveIdentity \/ RenameIdentity \/ SyncIdentity
    \/ OpenAllowlist \/ Branch \/ Consume \/ BuildSupply \/ StartFabric \/ Join
    \/ AwaitRouting \/ RoutingDeadline \/ WireBudgets \/ Disclose \/ ActivateServe
    \/ AuthorizeSupply \/ AnnounceSeeds \/ AnnounceStore \/ InstallGuards
    \/ StartRendezvous \/ Bind

AssemblyNext ==
    \/ Progress
    \/ AnnounceFetched \/ ResignTick \/ ResignCycle \/ ResignFails
    \/ Stop \/ PowerLoss \/ IdentityLost \/ Restart

AssemblySpec == AssemblyInit /\ [][AssemblyNext]_assembly

-----------------------------------------------------------------------------
(* Every variable keeps its type through parsing, start and restarts.      *)
AssemblyTypeOK ==
    /\ stage \in Stages /\ profile \in Profiles
    /\ net.contacts \subseteq {"lan", "public", "mainline"}
    /\ net.listening \subseteq {"lan", "public"}
    /\ starts \in 1..MaxStarts /\ losses \in 0..MaxLosses

(* A lan-share node stays on the LAN from its first packet to its last,    *)
(* whatever combination of flags produced it: it dials and is reached only *)
(* over LAN addresses, is confined, advertises no public address and never *)
(* joins Mainline (parse_config, lan_isolation_or_refuse, source_config).  *)
LanShareStaysOnLan ==
    profile = "lan-share" /\ net.up =>
        /\ net.contacts \subseteq {"lan"}
        /\ net.listening \subseteq {"lan"}
        /\ net.confined /\ ~net.external /\ ~net.mainline

(* Nothing is published that may not be: every record was proved public by *)
(* the allowlist or signed by a confined node; and one unproved part of a  *)
(* public supply stops all of it (announce_public_supply, the announce     *)
(* authority of PublicationPlan).                                          *)
PublishedIsPermitted ==
    /\ \A r \in posted : r.confined \/ r.proved
    /\ (\E r \in posted : r.start = starts /\ r.item \in Supply(conf))
           => \A item \in Supply(conf) : Authorizes(conf, item)

(* What the contract says of a node is what it does: a running node serves,*)
(* answers the DHT and multicasts exactly as reported; a record is         *)
(* published only while the serve gate is open, and the gate opens only    *)
(* with its budgets wired and after the disclosures; a node that does not  *)
(* serve publishes nothing (build_contract against install_provider).      *)
ReportMatchesWire ==
    /\ stage = "running" =>
          /\ report.serves <=> net.serving
          /\ report.role = (IF ~net.up THEN "none"
                            ELSE IF net.kad THEN "server" ELSE "client")
          /\ report.mdns <=> net.mdns
          /\ report.public => net.kad /\ ~net.confined
    /\ net.serving => net.wired /\ net.told /\ report.serves
    /\ \A r \in posted : r.served

(* A state directory has one identity for ever: no two records published   *)
(* from it carry different signers, across restarts with changed flags,    *)
(* crashes, power loss and the loss of the identity file                   *)
(* (resolve_durable_identity_seed, save_identity_seed).                    *)
IdentityIsKept ==
    \A r, s \in posted : r.kept /\ s.kept => r.signer = s.signer

(* A seed's record never reaches its signed expiry while the node runs and *)
(* no re-sign cycle has failed (seed_resign_interval_secs).                *)
SeedNeverLapses ==
    stage = "running" /\ net.resign /\ ~ages.missed => ages.age < RecordTtl
=============================================================================
