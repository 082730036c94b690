-------------------------- MODULE CompositeDaemon ---------------------------
(***************************************************************************)
(* The composite daemon, daemon/src/main.rs: one process with an HTTP       *)
(* proxy, an optional Iroh node and an optional libp2p leg.  Its flags are  *)
(* parsed and checked, the operator contract is derived, the parts are      *)
(* started one after the other, and every early return has to stop the      *)
(* parts that already run.                                                  *)
(*                                                                          *)
(* `flags` holds the flags that decide something.  An address is its class  *)
(* ("lan" or "public"), a group of companion flags is "none", "some" or     *)
(* "all" of them.  What the shared libp2p code does inside a step is the    *)
(* subject of NodeAssembly; here a step is one call that main makes.        *)
(***************************************************************************)
EXTENDS Naturals, Sequences, FiniteSets

CONSTANT Commands      \* the command lines the daemon may be started with:
                       \* from some of the flags to their values

VARIABLES flags,       \* the parsed Config
          point,       \* how far main() is
          claimed,     \* the operator contract of this process
          dir,         \* the libp2p state directory: holds an identity?
          iroh,        \* the Iroh node: its life, and its published record
          leg,         \* the libp2p leg
          source,      \* the chain of NAR sources, first to last
          raw,         \* what the raw-serve decision is made of
          cache,       \* the narinfo layer: "unopened", "disk" or "none"
          asked,       \* a shutdown signal is pending
          code         \* the exit code, or "running", or "killed"

daemon == <<flags, point, claimed, dir, iroh, leg, source, raw, cache, asked, code>>

NoLeg == [up |-> FALSE, kad |-> FALSE, confined |-> FALSE, mdns |-> FALSE,
          serving |-> FALSE, plan |-> "none", posted |-> {}, hook |-> FALSE]
NoNode == [life |-> "none", record |-> "none"]
NoClaim == [profile |-> "none", role |-> "none", mdns |-> FALSE, refs |-> {}]

-----------------------------------------------------------------------------
(* The flags.                                                              *)

(* Config: every field that decides something.                             *)
CompositeFlags ==
    [leech : BOOLEAN, provider : BOOLEAN, afterFetch : BOOLEAN, seeds : BOOLEAN,
     store : BOOLEAN, twice : BOOLEAN, allowlist : BOOLEAN, trusted : BOOLEAN,
     budget : BOOLEAN, boot : SUBSET {"lan", "public"}, hints : BOOLEAN,
     listen : SUBSET {"lan", "public"}, mdns : BOOLEAN, scoped : BOOLEAN,
     identity : BOOLEAN, state : BOOLEAN, print : BOOLEAN,
     proved : SUBSET {"seed", "store"}, irohProvider : BOOLEAN, publish : BOOLEAN,
     publication : {"none", "some", "all"}, lookup : BOOLEAN,
     resolution : {"none", "some", "all"}, peers : BOOLEAN,
     claims : {"none", "known", "stranger"}, port : BOOLEAN, irohState : BOOLEAN,
     reach : {"unset", "lan", "global"}, inflight : BOOLEAN, fits : BOOLEAN,
     envelope : BOOLEAN, preflight : BOOLEAN,
     declared : {"unset", "upstream-only", "consume-only", "lan-share", "public-share"},
     noMdns : BOOLEAN, repeated : SUBSET {"publish", "lookup", "leech"},
     mode : {"daemon", "helper", "filter"}, supervised : BOOLEAN, paths : 0..2,
     upstream : BOOLEAN, outOfRange : SUBSET {"header-wait", "connect-wait", "record-ttl"},
     cacheDir : BOOLEAN, noCache : BOOLEAN]

(* Config::default().                                                      *)
Defaults ==
    [leech |-> FALSE, provider |-> FALSE, afterFetch |-> FALSE,
     seeds |-> FALSE, store |-> FALSE, twice |-> FALSE, allowlist |-> FALSE,
     trusted |-> FALSE, budget |-> TRUE, boot |-> {}, hints |-> FALSE,
     listen |-> {}, mdns |-> FALSE, scoped |-> FALSE, identity |-> FALSE,
     state |-> FALSE, print |-> FALSE, proved |-> {"seed", "store"},
     irohProvider |-> FALSE, publish |-> FALSE, publication |-> "none",
     lookup |-> FALSE, resolution |-> "none", peers |-> FALSE,
     claims |-> "none", port |-> FALSE, irohState |-> FALSE,
     reach |-> "unset", inflight |-> TRUE, fits |-> TRUE, envelope |-> TRUE,
     preflight |-> FALSE, declared |-> "unset", noMdns |-> FALSE, repeated |-> {},
     mode |-> "daemon", supervised |-> FALSE, paths |-> 1, upstream |-> TRUE,
     outOfRange |-> {}, cacheDir |-> FALSE, noCache |-> FALSE]

(* The arms of the argument loop, in its order.  A flag sets one field, or *)
(* one part of a group; those of the node record and of its lookup may be  *)
(* given once (`repeated` has a flag of each kind that was given twice).   *)
BasicFlags == {"upstream", "outOfRange", "cacheDir", "noCache"}
IrohFlags == {"irohProvider", "irohState", "reach", "port", "publish", "publication"}
LookupFlags == {"lookup", "resolution", "inflight", "fits", "envelope", "peers", "claims"}
Libp2pFlags == {"boot", "hints", "listen", "mdns", "noMdns", "scoped", "identity",
                "state", "provider", "afterFetch", "budget", "seeds", "store", "print",
                "allowlist", "trusted", "leech"}
ReportFlags == {"declared", "preflight", "repeated"}

(* What these arms do not set: the same path listed under two flags, which   *)
(* of the listed content has a public proof, and how the program was called: *)
(* as the daemon or as one of its two filters.                               *)
Surroundings == {"twice", "proved", "mode", "supervised", "paths"}
GivenOnce == {"publish", "lookup"}

(* The argument loop: a command line gives values to some of the fields.   *)
Parsed(line) ==
    [f \in BasicFlags \cup IrohFlags \cup LookupFlags \cup Libp2pFlags \cup ReportFlags
           \cup Surroundings |->
        IF f \in DOMAIN line THEN line[f] ELSE Defaults[f]]

(* What the loop refuses by itself, besides values that do not parse.      *)
LoopRefuses(c) == c.repeated \cap GivenOnce # {} \/ (c.mdns /\ c.noMdns)

(* The waits are 1..=600000 ms, the record TTL at least two seconds.        *)
RangeRefuses(c) == c.outOfRange # {}

CacheFlagsConflict(c) == c.cacheDir /\ c.noCache

libp2p_requested(c) ==
    \/ c.boot # {} \/ c.hints \/ c.listen # {} \/ c.scoped \/ c.mdns
    \/ c.identity \/ c.state \/ c.provider \/ c.seeds \/ c.store \/ c.print
    \/ c.leech

iroh_give_side_active(c) == c.irohProvider \/ c.publish
iroh_consume_active(c) == c.peers \/ c.claims # "none"
iroh_transport_active(c) == iroh_give_side_active(c) \/ iroh_consume_active(c)
iroh_enabled(c) == iroh_transport_active(c) \/ c.lookup

(* What --libp2p-leech excludes.                                           *)
LeechExcludes(c) ==
    /\ c.leech
    /\ c.provider \/ c.afterFetch \/ c.seeds \/ c.store \/ c.allowlist
       \/ c.trusted

(* Iroh companions without the flag they belong to, and the port.          *)
IrohFlagsIncomplete(c) ==
    \/ c.publication # "none" /\ ~c.publish
    \/ c.resolution # "none" /\ ~c.lookup
    \/ iroh_enabled(c) /\ ~c.port

(* What a libp2p provider needs, and what needs a provider.                *)
ProviderFlagsIncomplete(c) ==
    \/ (c.seeds \/ c.store \/ c.print \/ c.afterFetch) /\ ~c.provider
    \/ c.provider /\ ~(c.seeds \/ c.store \/ c.afterFetch)
    \/ c.seeds /\ c.store /\ c.twice
    \/ c.afterFetch /\ ~c.budget
    \/ c.provider /\ c.listen = {}

AllowlistFlagsIncomplete(c) ==
    \/ c.allowlist /\ ~c.provider
    \/ c.trusted # c.allowlist

EntryMissing(c) == libp2p_requested(c) /\ c.boot = {} /\ ~c.mdns

(* Config::from_args.                                                      *)
Refused(c) ==
    \/ LoopRefuses(c) \/ RangeRefuses(c) \/ LeechExcludes(c) \/ IrohFlagsIncomplete(c)
    \/ ProviderFlagsIncomplete(c) \/ AllowlistFlagsIncomplete(c)
    \/ CacheFlagsConflict(c) \/ EntryMissing(c)

-----------------------------------------------------------------------------
(* derive_contract.                                                        *)

IsProvider(c) == c.provider \/ iroh_give_side_active(c)
Announcing(c) == c.afterFetch \/ c.seeds \/ c.store \/ iroh_give_side_active(c)

ProfileRefused(c) ==
    \/ c.leech /\ (IsProvider(c) \/ Announcing(c) \/ c.allowlist)
    \/ (Announcing(c) \/ c.allowlist) /\ ~IsProvider(c)

ProfileOf(c) ==
    IF IsProvider(c)
    THEN IF c.allowlist THEN "public-share" ELSE "lan-share"
    ELSE IF c.leech \/ c.boot # {} \/ c.mdns \/ iroh_consume_active(c)
         THEN "consume-only" ELSE "upstream-only"

(* A give side on a global endpoint needs the public-share profile.        *)
GlobalRefused(c) ==
    /\ iroh_give_side_active(c) /\ c.reach = "global"
    /\ ProfileOf(c) # "public-share"

ContractOf(c) ==
    [profile |-> ProfileOf(c),
     role    |-> IF c.provider \/ c.boot # {} \/ c.listen # {} \/ c.mdns
                 THEN "server" ELSE "none",
     mdns    |-> c.mdns,
     refs    |-> {m \in {"iroh-transport", "dns-pkarr"} :
                     \/ m = "iroh-transport" /\ iroh_transport_active(c)
                     \/ m = "dns-pkarr" /\ (c.lookup \/ c.publish)}]

ContractRefused(c) ==
    \/ ProfileRefused(c) \/ GlobalRefused(c)
    \/ c.declared # "unset" /\ c.declared # ProfileOf(c)

-----------------------------------------------------------------------------
Enter(p) == point' = p

(* An early return before anything was started.                            *)
Return(n) ==
    /\ Enter("exited") /\ code' = n
    /\ leg' = NoLeg

(* node.shutdown(): the record is replaced by a tombstone and the node is  *)
(* gone; or it reports a failure, and the record may still stand.          *)
ShutDown(ok) ==
    iroh' = IF iroh.life # "up" THEN iroh
            ELSE [life |-> "down",
                  record |-> IF iroh.record = "live" /\ ok
                             THEN "withdrawn" ELSE iroh.record]

(* An early return that stops the Iroh node first.                         *)
ReturnAfterShutdown ==
    \E ok \in BOOLEAN : ShutDown(ok) /\ Return("failure")

Unstarted == UNCHANGED <<iroh, source, raw, cache>>

(* __dump-raw-nar, the child that reads a store file for the daemon, works *)
(* only under its supervisor and on exactly one path.                      *)
RunRawNarHelper ==
    /\ point = "start" /\ flags.mode = "helper"
    /\ IF flags.supervised /\ flags.paths = 1
       THEN \E n \in {"success", "failure"} : Return(n)
       ELSE Return("usage")
    /\ Unstarted
    /\ UNCHANGED <<flags, claimed, dir, asked>>

(* rewrite-narinfo: stdin to stdout.                                       *)
RunRewriteNarinfoFilter ==
    /\ point = "start" /\ flags.mode = "filter"
    /\ \E n \in {"success", "failure", "rejected"} : Return(n)
    /\ Unstarted
    /\ UNCHANGED <<flags, claimed, dir, asked>>

StartDaemon ==
    /\ point = "start" /\ flags.mode = "daemon"
    /\ Enter("parse")
    /\ UNCHANGED <<flags, claimed, dir, iroh, leg, source, raw, cache, asked, code>>

(* Config::from_args.  The identity of the libp2p leg is resolved here, and *)
(* written to its state directory when it is new.                           *)
FromArgs ==
    /\ point = "parse"
    /\ IF Refused(flags) THEN Return("usage") /\ UNCHANGED dir
       ELSE \/ /\ Enter("contract")
               /\ dir' = (dir \/ (libp2p_requested(flags) /\ flags.state))
               /\ UNCHANGED <<leg, code>>
            \/ Return("usage") /\ UNCHANGED dir   \* a value or the seed is not valid
    /\ Unstarted
    /\ UNCHANGED <<flags, claimed, asked>>

DeriveContract ==
    /\ point = "contract"
    /\ IF ContractRefused(flags) THEN Return("usage") /\ UNCHANGED claimed
       ELSE /\ claimed' = ContractOf(flags)
            /\ Enter("budget")
            /\ UNCHANGED <<leg, code>>
    /\ Unstarted
    /\ UNCHANGED <<flags, dir, asked>>

(* --preflight prints the contract and ends, after the budget check.       *)
EnforceBudget ==
    /\ point = "budget"
    /\ IF ~flags.envelope THEN Return("failure")
       ELSE IF flags.preflight THEN Return("success")
       ELSE Enter("signals") /\ UNCHANGED <<leg, code>>
    /\ Unstarted
    /\ UNCHANGED <<flags, claimed, dir, asked>>

(* From here on a signal is kept for the select; before, it ends the       *)
(* process.                                                                *)
InstallShutdownSignals ==
    /\ point = "signals"
    /\ Enter("narinfo")
    /\ UNCHANGED <<flags, claimed, dir, iroh, leg, source, raw, cache, asked, code>>

(* The upstream client and the narinfo layer.  A default cache directory    *)
(* that is missing or cannot be opened is done without; an explicit one     *)
(* that cannot be opened ends the process.                                  *)
OpenNarinfoLayer ==
    /\ point = "narinfo"
    /\ IF ~flags.upstream THEN Return("usage") /\ UNCHANGED cache
       ELSE \/ /\ cache' \in IF flags.noCache THEN {"none"}
                            ELSE IF flags.cacheDir THEN {"disk"} ELSE {"disk", "none"}
               /\ Enter("iroh-plan") /\ UNCHANGED <<leg, code>>
            \/ flags.cacheDir /\ Return("failure") /\ UNCHANGED cache
    /\ UNCHANGED <<iroh, source, raw, flags, claimed, dir, asked>>

(* setup_iroh_node_with_deadline, up to the spawn.                         *)
IrohPlanRefused(c) ==
    \/ ~c.irohState \/ c.reach = "unset"
    \/ c.lookup /\ c.resolution # "all"
    \/ c.publish /\ c.publication # "all"
    \/ c.irohProvider /\ ~(c.inflight /\ c.fits)

PlanIrohNode ==
    /\ point = "iroh-plan"
    /\ IF ~iroh_enabled(flags)
       THEN Enter("allowlist") /\ UNCHANGED <<leg, code>>
       ELSE IF IrohPlanRefused(flags) THEN Return("failure")
       ELSE Enter("iroh-spawn") /\ UNCHANGED <<leg, code>>
    /\ Unstarted
    /\ UNCHANGED <<flags, claimed, dir, asked>>

(* builder.spawn(): a node whose record is visible, or an error after its  *)
(* own cleanup, which may leave a record it could not withdraw.            *)
SpawnIrohNode ==
    /\ point = "iroh-spawn"
    /\ \/ /\ iroh' = [life |-> "up",
                      record |-> IF flags.publish THEN "live" ELSE "none"]
          /\ Enter("iroh-check") /\ UNCHANGED <<leg, code>>
       \/ /\ iroh' \in {[life |-> "down", record |-> r] :
                           r \in IF flags.publish
                                 THEN {"none", "withdrawn", "live"}
                                 ELSE {"none"}}
          /\ Return("failure")
    /\ UNCHANGED <<flags, claimed, dir, source, raw, cache, asked>>

(* log_publication_status: a publishing node has a live record by now.     *)
StatusFails == flags.publish /\ ReturnAfterShutdown

CheckIrohNode ==
    /\ point = "iroh-check"
    /\ \/ /\ Enter(IF flags.irohProvider THEN "iroh-observe" ELSE "allowlist")
          /\ UNCHANGED <<iroh, leg, code>>
       \/ StatusFails
    /\ UNCHANGED <<flags, claimed, dir, source, raw, cache, asked>>

(* The provider's printed address and its observability task, which only   *)
(* reads counters and prints them; either may fail to start.               *)
ObserveProvider ==
    /\ point = "iroh-observe"
    /\ \/ Enter("allowlist") /\ UNCHANGED <<iroh, leg, code>>
       \/ ReturnAfterShutdown
    /\ UNCHANGED <<flags, claimed, dir, source, raw, cache, asked>>

(* Mutant of OpenPublicAllowlist: a failure returns at once.               *)
OpenPublicAllowlistReturns ==
    /\ point = "allowlist"
    /\ \/ Enter("iroh-layer") /\ UNCHANGED <<iroh, leg, code>>
       \/ flags.allowlist /\ Return("failure") /\ UNCHANGED iroh
    /\ UNCHANGED <<flags, claimed, dir, source, raw, cache, asked>>

OpenPublicAllowlist ==
    /\ point = "allowlist"
    /\ \/ Enter("iroh-layer") /\ UNCHANGED <<iroh, leg, code>>
       \/ flags.allowlist /\ ReturnAfterShutdown
    /\ UNCHANGED <<flags, claimed, dir, source, raw, cache, asked>>

(* Without a peer-to-peer flag the upstream is the only source.            *)
NeedsP2pSource(c) == iroh_consume_active(c) \/ libp2p_requested(c)

(* setup_p2p_source: every claim's holder has an address.                  *)
WireIrohLayer ==
    /\ point = "iroh-layer"
    /\ IF NeedsP2pSource(flags) /\ flags.claims = "stranger" THEN ReturnAfterShutdown
       ELSE /\ Enter(IF libp2p_requested(flags) THEN "libp2p-plan"
                     ELSE "chain")
            /\ UNCHANGED <<iroh, leg, code>>
    /\ UNCHANGED <<flags, claimed, dir, source, raw, cache, asked>>

(* provider_publication_decision and libp2p_source_config.                 *)
PlanOf(c) == IF ~c.provider THEN "none"
             ELSE IF c.allowlist THEN "allowlist" ELSE "lan"

LanIsolationBroken(c) == "public" \in c.boot \cup c.listen \/ c.hints

LegOf(c) ==
    [NoLeg EXCEPT !.up = TRUE, !.kad = TRUE, !.mdns = c.mdns,
                  !.plan = PlanOf(c), !.confined = PlanOf(c) = "lan"]

(* A provider decides how it publishes; a consumer starts at once, and a   *)
(* leech's fabric is masked.                                               *)
PlanLibp2pLeg ==
    /\ point = "libp2p-plan"
    /\ \/ /\ flags.provider
          /\ IF PlanOf(flags) = "lan" /\ LanIsolationBroken(flags)
             THEN ReturnAfterShutdown
             ELSE /\ Enter("libp2p-supply")
                  /\ UNCHANGED <<iroh, leg, code>>
       \/ /\ ~flags.provider
          /\ \/ ReturnAfterShutdown
             \/ leg' = LegOf(flags) /\ Enter("chain")
                /\ UNCHANGED <<iroh, code>>
    /\ UNCHANGED <<flags, claimed, dir, source, raw, cache, asked>>

(* libp2p_provider_serve_budget and build_libp2p_provider_supply.          *)
BuildLibp2pSupply ==
    /\ point = "libp2p-supply"
    /\ \/ ReturnAfterShutdown
       \/ /\ flags.inflight /\ flags.fits
          /\ Enter("libp2p-join")
          /\ UNCHANGED <<iroh, leg, code>>
    /\ UNCHANGED <<flags, claimed, dir, source, raw, cache, asked>>

JoinLibp2p ==
    /\ point = "libp2p-join"
    /\ \/ ReturnAfterShutdown
       \/ leg' = LegOf(flags) /\ Enter("libp2p-serve")
          /\ UNCHANGED <<iroh, code>>
    /\ UNCHANGED <<flags, claimed, dir, source, raw, cache, asked>>

(* wire_disclose_serve_provider.                                           *)
ServeLibp2p ==
    /\ point = "libp2p-serve"
    /\ \/ ReturnAfterShutdown
       \/ /\ leg' = [leg EXCEPT !.serving = TRUE]
          /\ Enter("libp2p-announce")
          /\ UNCHANGED <<iroh, code>>
    /\ UNCHANGED <<flags, claimed, dir, source, raw, cache, asked>>

Legs(c) == (IF c.seeds THEN {"seed"} ELSE {})
           \cup (IF c.store THEN {"store"} ELSE {})

(* The public plan authorizes the whole supply before the first record;    *)
(* the LAN plan announces seeds, then store paths.                         *)
AnnounceLibp2p ==
    /\ point = "libp2p-announce"
    /\ \/ ReturnAfterShutdown
       \/ /\ leg.plan = "allowlist" => Legs(flags) \subseteq flags.proved
          /\ leg' = [leg EXCEPT !.posted = Legs(flags)]
          /\ Enter("libp2p-guard")
          /\ UNCHANGED <<iroh, code>>
    /\ UNCHANGED <<flags, claimed, dir, source, raw, cache, asked>>

(* The hook and the re-sign task; --libp2p-print-peer-address may fail.    *)
GuardLibp2p ==
    /\ point = "libp2p-guard"
    /\ \/ flags.print /\ ReturnAfterShutdown
       \/ /\ leg' = [leg EXCEPT !.hook = flags.afterFetch]
          /\ Enter("chain")
          /\ UNCHANGED <<iroh, code>>
    /\ UNCHANGED <<flags, claimed, dir, source, raw, cache, asked>>

(* compose_nar_chain, and the raw-serve decision made of both layers.      *)
ComposedChain(c) ==
    (IF libp2p_requested(c) THEN <<"libp2p">> ELSE <<>>)
    \o (IF iroh_consume_active(c) THEN <<"iroh">> ELSE <<>>)
    \o <<"upstream">>

ComposeChain ==
    /\ point = "chain"
    /\ source' = ComposedChain(flags)
    /\ raw' = (IF flags.claims # "none" THEN {"iroh"} ELSE {})
              \cup (IF leg.up THEN {"libp2p"} ELSE {})
    /\ Enter("bind")
    /\ UNCHANGED <<flags, claimed, dir, iroh, leg, cache, asked, code>>

BindHttp ==
    /\ point = "bind"
    /\ \/ Enter("select") /\ UNCHANGED <<iroh, leg, code>>
       \/ ReturnAfterShutdown
    /\ UNCHANGED <<flags, claimed, dir, source, raw, cache, asked>>

-----------------------------------------------------------------------------
(* The select: the serve loop ends, a signal arrives, or the publication   *)
(* reports a fatal failure.                                                *)
ServeLoopEnds ==
    /\ point = "select"
    /\ code' \in {"success", "failure"}
    /\ Enter("stopping")
    /\ UNCHANGED <<flags, claimed, dir, iroh, leg, source, raw, cache, asked>>

SignalReceived ==
    /\ point = "select" /\ asked
    /\ code' = "success"
    /\ Enter("stopping")
    /\ UNCHANGED <<flags, claimed, dir, iroh, leg, source, raw, cache, asked>>

PublicationFatal ==
    /\ point = "select" /\ iroh.record = "live"
    /\ code' = "failure"
    /\ Enter("stopping")
    /\ UNCHANGED <<flags, claimed, dir, iroh, leg, source, raw, cache, asked>>

(* After the select: the Iroh node is shut down, and the exit code is      *)
(* success only when both went well.                                       *)
Finish ==
    /\ point = "stopping"
    /\ \E ok \in IF iroh.life = "up" THEN BOOLEAN ELSE {TRUE} :
          /\ ShutDown(ok)
          /\ code' = IF code = "success" /\ ok THEN "success" ELSE "failure"
    /\ leg' = NoLeg
    /\ Enter("exited")
    /\ UNCHANGED <<flags, claimed, dir, source, raw, cache, asked>>

(* SIGINT or SIGTERM.                                                      *)
Signal ==
    /\ point # "exited" /\ ~asked
    /\ IF point \in {"start", "parse", "contract", "budget", "signals"}
       THEN Return("killed") /\ UNCHANGED asked
       ELSE asked' = TRUE /\ UNCHANGED <<point, code, leg>>
    /\ UNCHANGED <<flags, claimed, dir, iroh, source, raw, cache>>

Steps ==
    \/ RunRawNarHelper \/ RunRewriteNarinfoFilter \/ StartDaemon
    \/ FromArgs \/ DeriveContract \/ EnforceBudget \/ InstallShutdownSignals
    \/ OpenNarinfoLayer \/ PlanIrohNode \/ SpawnIrohNode \/ CheckIrohNode \/ ObserveProvider
    \/ OpenPublicAllowlist \/ WireIrohLayer \/ PlanLibp2pLeg
    \/ BuildLibp2pSupply \/ JoinLibp2p \/ ServeLibp2p \/ AnnounceLibp2p
    \/ GuardLibp2p \/ ComposeChain \/ BindHttp \/ SignalReceived \/ Finish

ParsedCommands == {Parsed(line) : line \in Commands} \cap CompositeFlags

CompositeInit ==
    /\ flags \in ParsedCommands
    /\ point = "start"
    /\ claimed = NoClaim
    /\ dir = FALSE
    /\ iroh = NoNode /\ leg = NoLeg
    /\ source = <<>> /\ raw = {} /\ cache = "unopened"
    /\ asked = FALSE /\ code = "running"

CompositeNext ==
    Steps \/ ServeLoopEnds \/ PublicationFatal \/ Signal

CompositeSpec ==
    CompositeInit /\ [][CompositeNext]_daemon /\ WF_daemon(Steps)

-----------------------------------------------------------------------------
(* However the process returns, no part of it is left behind: a spawned    *)
(* Iroh node has been shut down, and a node record that was not withdrawn  *)
(* is never reported as success; a filter mode starts nothing and touches  *)
(* no state (every early return of main after setup_iroh_node, and the     *)
(* exit code).                                                             *)
NothingLeftRunning ==
    point = "exited" =>
        /\ iroh.life # "up" /\ ~leg.up
        /\ iroh.record = "live" => code = "failure"
        /\ flags.mode # "daemon" => iroh = NoNode /\ ~dir /\ cache = "unopened"

(* What runs is what the contract claims: the DHT role, mDNS, the Iroh      *)
(* mechanisms in use, a serving leg only under a serving profile, and one   *)
(* that is not confined only under public-share with every record proved    *)
(* public; and a NAR is described as raw only when a source before upstream *)
(* supplies it raw; and the narinfo cache is as the flags ask               *)
(* (derive_contract against setup_iroh_node and setup_p2p_source).          *)
CompositeRunsAsClaimed ==
    point \in {"select", "stopping"} =>
        /\ claimed.role = (IF leg.kad THEN "server" ELSE "none")
        /\ claimed.mdns <=> leg.mdns
        /\ leg.up => claimed.profile # "upstream-only"
        /\ flags.cacheDir => cache = "disk"
        /\ flags.noCache => cache = "none"
        /\ leg.serving =>
              \/ claimed.profile = "lan-share" /\ leg.confined
                 /\ flags.boot \cup flags.listen \subseteq {"lan"}
              \/ claimed.profile = "public-share"
                 /\ leg.posted \subseteq flags.proved
        /\ claimed.refs # {} <=> iroh.life = "up"
        /\ iroh.record = "live" =>
              claimed.profile \in {"lan-share", "public-share"}
        /\ \A layer \in raw : \E i \in 1..(Len(source) - 1) :
              source[i] = layer

(* A signal that finds the handlers installed comes to end the process, even *)
(* when it arrives while the node is still starting (install_shutdown_       *)
(* signals before the first fallible step, the select at the end).           *)
SignalHasStopped == asked => point = "exited"

-----------------------------------------------------------------------------
(***************************************************************************)
(* What the composite daemon tells its operator and what bounds it really   *)
(* installs: the operator contract's status and preflight                   *)
(* (daemon-core/src/operator.rs), the frozen budget artifact and the checks *)
(* that bind it to the running limits (daemon-core/src/profile_budget.rs).  *)
(* The process itself is CompositeDaemon's.                                  *)
(*                                                                          *)
(* Byte counts and times are small numbers; milliseconds become nanoseconds *)
(* in 64 bits, of which MaxU64 is the largest.                               *)
(***************************************************************************)

CONSTANTS Builds,     \* the artifacts a binary may have been built with
          Overrides,  \* the --iroh-max-* limits it may be started with
          MaxU64, NsPerMs

VARIABLES build,      \* the compiled-in artifact
          override,   \* the operator's serve limits, in bytes and milliseconds
          limits      \* the limits the running parts were given

reportVars == <<build, override, limits>>

SharingProfiles == {"upstream-only", "consume-only", "lan-share", "public-share"}

(* The normative envelope, and ResourceCaps::default().                    *)
Envelope == [single |-> 2, inflight |-> 3, duration |-> 4]
DefaultCaps == [single |-> 2, inflight |-> 3, duration |-> 2, deadline |-> 1]

NoLimits == [gate |-> FALSE, single |-> 0, inflight |-> 0, duration |-> 0,
             rate |-> 0, permits |-> 0]

Smaller(a, b) == IF a < b THEN a ELSE b

-----------------------------------------------------------------------------
(* SharingProfile.                                                         *)
serves(p) == p \in {"lan-share", "public-share"}
announces(p) == p \in {"lan-share", "public-share"}
public_participation(p) == p = "public-share"
sends_discovery_lookups(p) == p # "upstream-only"

(* Mechanism::state; the others are pending and cannot be selected.        *)
Mechanisms == {"libp2p-kad", "libp2p-nar", "iroh-transport", "lan-mdns",
               "dns-pkarr", "mainline", "bittorrent"}
Selectable == {"libp2p-kad", "libp2p-nar", "lan-mdns"}

libp2p_participating(claim) == claim.role # "none"

mechanism_active_here(claim, m) ==
    CASE m = "lan-mdns" -> claim.mdns
      [] m \in {"libp2p-kad", "libp2p-nar"} -> libp2p_participating(claim)
      [] OTHER -> m \in Selectable

-----------------------------------------------------------------------------
(* The frozen artifact: the fields whose values something enforces.        *)

(* validate_envelope.                                                      *)
EnvelopeOk(a) ==
    /\ a.envelope = Envelope
    /\ \A p \in DOMAIN a.profiles :
          \A f \in DOMAIN Envelope : a.profiles[p][f] <= Envelope[f]

(* ms_to_ns: checked, an overflow is an error.                             *)
MsToNsOk(ms) == ms * NsPerMs <= MaxU64

(* parity_with_caps.                                                       *)
ParityOk(b, caps) ==
    /\ b.single = caps.single /\ b.inflight = caps.inflight
    /\ MsToNsOk(caps.duration) /\ b.duration = caps.duration * NsPerMs
    /\ MsToNsOk(caps.deadline) /\ b.deadline = caps.deadline * NsPerMs

(* verify_raw.                                                             *)
Verified(a, p) ==
    /\ a.parses /\ a.hashed
    /\ EnvelopeOk(a)
    /\ p \in DOMAIN a.profiles
    /\ ParityOk(a.profiles[p], DefaultCaps)

(* check_serve_ms_within_envelope: the product saturates.                  *)
ServeDurationNs(ms) == Smaller(ms * NsPerMs, MaxU64)

(* check_serve_within_envelope: an override may only tighten.              *)
WithinEnvelope(o) ==
    /\ o.single <= Envelope.single
    /\ o.inflight <= Envelope.inflight
    /\ ServeDurationNs(o.duration) <= Envelope.duration

(* enforce_budget_contract.                                                *)
BudgetContractOk(a, o, p) == Verified(a, p) /\ WithinEnvelope(o)

-----------------------------------------------------------------------------
(* What each line of the budget report says: budget_lines.                 *)

BudgetTags ==
    [upload_payload |-> "declared", upload_total |-> "declared", ram |-> "declared",
     apparent_disk |-> "declared", allocated_disk |-> "declared", discovery_work |-> "declared",
     discovery_control |-> "declared", announce_wire |-> "declared", announce_rate |-> "declared",
     announce_window |-> "declared", rate |-> "shaper", rate_window |-> "shaper",
     permits |-> "semaphore", fds |-> "os", announce |-> "tunable", single |-> "enforced",
     inflight |-> "enforced", duration |-> "enforced", deadline |-> "enforced"]

MechanismInstalledFor(f, p, libp2p) ==
    CASE f \in {"single", "inflight", "duration"} -> serves(p)
      [] f \in {"rate", "rate_window", "permits"} -> serves(p) /\ libp2p
      [] f = "deadline" -> sends_discovery_lookups(p) /\ libp2p
      [] f = "announce" -> announces(p) /\ libp2p
      [] OTHER -> TRUE

LineMark(claim, f) ==
    IF MechanismInstalledFor(f, claim.profile, libp2p_participating(claim))
    THEN BudgetTags[f] ELSE "not installed"

EnforcedLines(claim) ==
    {f \in DOMAIN BudgetTags : LineMark(claim, f) \notin {"declared", "not installed"}}

(* OperatorContract::status, the lines the operator reads while it runs.   *)
Status(claim) ==
    [enabled  |-> {m \in Mechanisms : mechanism_active_here(claim, m)},
     active   |-> claim.refs,
     exposed  |-> claim.mdns,
     role     |-> claim.role]

(* OperatorContract::preflight, the participation it announces.            *)
Preflight(claim) ==
    [serves    |-> serves(claim.profile),
     publishes |-> announces(claim.profile),
     public    |-> public_participation(claim.profile),
     lookups   |-> sends_discovery_lookups(claim.profile),
     limits    |-> override,
     enforced  |-> EnforcedLines(claim)]

-----------------------------------------------------------------------------
(* The limits are given to the parts as they start: the gate of the Iroh   *)
(* node and the libp2p gate get the operator's, the libp2p accept loop and *)
(* shaper the artifact's for the profile of the publication plan.          *)
GateOf(o) == [NoLimits EXCEPT !.gate = TRUE, !.single = o.single, !.inflight = o.inflight,
                              !.duration = o.duration * NsPerMs]

PlanProfile(plan) == IF plan = "lan" THEN "lan-share" ELSE "public-share"

LimitsAfter ==
    IF leg'.serving /\ ~leg.serving
    THEN LET b == build.profiles[PlanProfile(leg.plan)]
         IN  [GateOf(override) EXCEPT !.rate = b.rate, !.permits = b.permits]
    ELSE IF iroh'.life = "up" /\ iroh.life # "up" /\ flags.irohProvider
    THEN GateOf(override)
    ELSE limits

ReportInit ==
    /\ CompositeInit
    /\ build \in Builds /\ override \in Overrides
    /\ limits = NoLimits
    /\ flags.envelope = BudgetContractOk(build, override, ProfileOf(flags))
    /\ flags.fits = (override.inflight >= override.single)

ReportNext ==
    /\ CompositeNext
    /\ limits' = LimitsAfter
    /\ UNCHANGED <<build, override>>

ReportSpec == ReportInit /\ [][ReportNext]_<<daemon, reportVars>> /\ WF_<<daemon, reportVars>>(Steps /\ ReportNext)

-----------------------------------------------------------------------------
UpAndRunning == point \in {"select", "stopping"}
IrohServes == iroh.life = "up" /\ flags.irohProvider

(* While the daemon runs, everything that serves does so within the frozen  *)
(* envelope and exactly under the limits preflight printed, whatever         *)
(* artifact the binary was built with and whatever the operator set; the    *)
(* libp2p shaper and accept loop use the frozen values of the profile the   *)
(* contract claims; and status names the mechanisms that run, and preflight *)
(* no participation that is absent or hides one that is there (verify,      *)
(* check_serve_ms_within_envelope, status and preflight against             *)
(* setup_iroh_node and install_libp2p_provider).                            *)
ReportedIsInstalled ==
    UpAndRunning =>
        /\ leg.serving \/ IrohServes =>
              /\ limits.gate
              /\ limits.single = Preflight(claimed).limits.single
              /\ limits.inflight = Preflight(claimed).limits.inflight
              /\ \A f \in DOMAIN Envelope : limits[f] <= Envelope[f]
              /\ limits.single <= limits.inflight
              /\ Preflight(claimed).serves
        /\ leg.serving =>
              /\ limits.rate = build.profiles[claimed.profile].rate
              /\ limits.permits = build.profiles[claimed.profile].permits
              /\ {"rate", "permits", "deadline"} \subseteq EnforcedLines(claimed)
        /\ leg.hook => "announce" \in EnforcedLines(claimed)
        /\ leg.posted # {} => Preflight(claimed).publishes
        /\ leg.up => Preflight(claimed).lookups
        /\ Status(claimed).enabled =
              {m \in Selectable : IF m = "lan-mdns" THEN leg.mdns ELSE leg.up}
        /\ Status(claimed).active # {} <=> iroh.life = "up"
=============================================================================
