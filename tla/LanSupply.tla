----------------------------- MODULE LanSupply ------------------------------
(***************************************************************************)
(* Sharing of locally built outputs on a LAN: LocalLanMetadata and its     *)
(* LanAliases (daemon-libp2p/src/lan_metadata.rs) over the availability    *)
(* index.                                                                  *)
(*                                                                         *)
(* A peer's lookup holds the publication mutex while a blocking worker     *)
(* verifies the output, registers it, commits its alias and answers; then  *)
(* the lookup announces it.  The lookup runs under a timeout that drops it *)
(* and its mutex guard but not the worker.  A refresh task walks the       *)
(* aliased keys under the same mutex: it re-registers and re-announces a   *)
(* key with a live alias, and withdraws one without.  The local nix may    *)
(* import and collect paths at any time, and the process may crash.        *)
(*                                                                         *)
(* The index is abstracted to the path that backs each key (its own        *)
(* concurrency is the subject of AvailabilityIndex).                       *)
(***************************************************************************)
EXTENDS Integers, Sequences, FiniteSets, TLC

CONSTANTS
    LanPaths,     \* output paths; the set of them is the local build history
    LanKeys,      \* NarHashes
    KeyOf,        \* the NarHash of each path
    Excluded,     \* keys that the static supply owns
    Lookups,
    PathLimits,   \* the path budgets an operator may configure
    Permits,      \* permits of the `work` semaphore
    SaveOutcomes, \* whether saves may fail
    MaxCrashes    \* bound: how often the process crashes, for each budget

ASSUME LanAssumption ==
    /\ KeyOf \in [LanPaths -> LanKeys]
    /\ Excluded \subseteq LanKeys
    /\ PathLimits \subseteq Nat
    /\ Permits \in Nat
    /\ SaveOutcomes \subseteq BOOLEAN
    /\ MaxCrashes \in [PathLimits -> Nat]

VARIABLES
    limit,       \* LanAliases.limit, fixed at startup
    lanStore,       \* the paths that exist
    backing,     \* the index: at most one registered path per key
    lanCatalog,     \* the registrations a hold has published
    indexFile,
    aliases,     \* LanAliases.paths
    aliasFile,
    lanRecord,         \* per key: our newest assertion
    mutex,       \* the holder of `publication`
    look,        \* each lookup: its place and the path it asks for
    work,        \* each lookup's blocking worker
    expired,     \* lookups whose VerificationDeadline has passed
    ref,         \* the refresh task
    crashes,
    saveFailed,  \* history: some save failed
    detached,    \* history: some worker outlived its lookup in this incarnation
    forgot       \* history: a refresh forgot a key's last alias unwithdrawn

lanIndex == <<backing, lanCatalog, indexFile>>
registry == <<aliases, aliasFile>>
lookups == <<look, work, expired, detached>>
world == <<limit, lanStore, crashes, forgot>>

lanSupplyVars == <<lanIndex, registry, lookups, world, lanRecord, mutex, ref, saveFailed>>

Nobody == "nobody"
Refresh == "refresh"

IdleLook == [pc |-> "idle"]
IdleRefresh == [pc |-> "idle"]

KeysOf(ps) == {KeyOf[p] : p \in ps}

OfKey(ps, k) == {p \in ps : KeyOf[p] = k}

(* The registration of p replaces the one its key had.                     *)
Backed(p) == (backing \ OfKey(backing, KeyOf[p])) \cup {p}

Reconciling == ref.pc \in {"verify", "bind", "hold", "trim"}

PermitFree ==
    Cardinality({l \in Lookups : work[l] # "none"})
        + (IF Reconciling THEN 1 ELSE 0) < Permits

LanSupplyInit ==
    /\ limit \in PathLimits
    /\ lanStore \in SUBSET LanPaths
    /\ backing = {}
    /\ lanCatalog = {}
    /\ indexFile = {}
    /\ aliases = {}
    /\ aliasFile = {}
    /\ lanRecord = [k \in LanKeys |-> "none"]
    /\ mutex = Nobody
    /\ look = [l \in Lookups |-> IdleLook]
    /\ work = [l \in Lookups |-> "none"]
    /\ expired = {}
    /\ ref = IdleRefresh
    /\ crashes = 0
    /\ saveFailed = FALSE
    /\ detached = FALSE
    /\ forgot = FALSE

(* A save fails, before or after its rename, or succeeds; both files       *)
(* refuse to grow past the path budget.                                    *)
Fits(ps) == Cardinality(ps) <= limit

SaveIndex(new, saved) ==
    /\ saved => Fits(new)
    /\ indexFile' \in IF saved THEN {new} ELSE {indexFile} \cup {n \in {new} : Fits(n)}
    /\ saveFailed' = (saveFailed \/ ~saved)

SaveAliases(new, saved) ==
    /\ saved => Fits(new)
    /\ aliasFile' \in IF saved THEN {new} ELSE {aliasFile} \cup {n \in {new} : Fits(n)}
    /\ saveFailed' = (saveFailed \/ ~saved)

(* register_binding is transactional in memory; the replaced registration's *)
(* supply is retired with it.                                              *)
BindBacking(p, saved) ==
    /\ SaveIndex(Backed(p), saved)
    /\ IF saved THEN /\ backing' = Backed(p)
                     /\ lanCatalog' = lanCatalog \ OfKey(lanCatalog, KeyOf[p])
                ELSE UNCHANGED <<backing, lanCatalog>>

(* Removing registrations retires their supply even when the save fails.   *)
DropBacking(ps, saved) ==
    /\ backing' = backing \ ps
    /\ lanCatalog' = lanCatalog \ ps
    /\ IF ps \cap backing = {} THEN saved /\ UNCHANGED <<indexFile, saveFailed>>
                                ELSE SaveIndex(backing \ ps, saved)

(* verify_store_provisions: hold publishes the registration it finds, and  *)
(* prunes one whose path is gone.                                          *)
HoldFound(k) ==
    /\ OfKey(backing, k) # {}
    /\ OfKey(backing, k) \subseteq lanStore
    /\ lanCatalog' = lanCatalog \cup OfKey(backing, k)
    /\ UNCHANGED <<backing, indexFile, saveFailed>>

HoldGone(k, saved) ==
    /\ OfKey(backing, k) \cap lanStore = {}
    /\ DropBacking(OfKey(backing, k), saved)

-----------------------------------------------------------------------------
(* lookup and produce *)

CanAdmit(p) == p \in aliases \/ Cardinality(aliases) < limit

(* Mutex and permit are taken, the path is found, and admit is spawned.  A *)
(* lookup refused before that point changes nothing.                       *)
Produce(l, p) ==
    /\ look[l].pc = "idle"
    /\ mutex = Nobody
    /\ PermitFree
    /\ p \in lanStore
    /\ KeyOf[p] \notin Excluded
    /\ CanAdmit(p)
    /\ mutex' = l
    /\ look' = [look EXCEPT ![l] = [pc |-> "await", path |-> p]]
    /\ work' = [work EXCEPT ![l] = "verify"]
    /\ expired' = expired \ {l}
    /\ UNCHANGED <<lanIndex, registry, world, lanRecord, ref, saveFailed, detached>>

PathOf(l) == look[l].path

WorkTo(l, place) ==
    /\ work' = [work EXCEPT ![l] = place]
    /\ UNCHANGED <<look, expired, detached>>

(* admit, in its worker: the dump matches and the deadline has not passed. *)
AdmitVerify(l) ==
    /\ work[l] = "verify"
    /\ PathOf(l) \in lanStore
    /\ l \notin expired
    /\ WorkTo(l, "bind")
    /\ UNCHANGED <<lanIndex, registry, world, lanRecord, mutex, ref, saveFailed>>

(* The dump or its deadline fails, or a later hold is cancelled.           *)
AdmitRefused(l) ==
    /\ work[l] \in {"verify", "hold"}
    /\ WorkTo(l, "failed")
    /\ UNCHANGED <<lanIndex, registry, world, lanRecord, mutex, ref, saveFailed>>

AdmitBind(l, saved) ==
    /\ work[l] = "bind"
    /\ BindBacking(PathOf(l), saved)
    /\ WorkTo(l, IF saved THEN "commit" ELSE "failed")
    /\ UNCHANGED <<registry, world, lanRecord, mutex, ref>>

(* Ownership is committed before any further cancellation check.           *)
AdmitCommit(l, saved) ==
    /\ work[l] = "commit"
    /\ SaveAliases(aliases \cup {PathOf(l)}, saved)
    /\ aliases' = IF saved THEN aliases \cup {PathOf(l)} ELSE aliases
    /\ WorkTo(l, IF saved THEN "hold" ELSE "failed")
    /\ UNCHANGED <<lanIndex, world, lanRecord, mutex, ref>>

AdmitHold(l, saved) ==
    /\ work[l] = "hold"
    /\ \/ saved /\ HoldFound(KeyOf[PathOf(l)]) /\ WorkTo(l, "done")
       \/ HoldGone(KeyOf[PathOf(l)], saved) /\ WorkTo(l, "failed")
    /\ UNCHANGED <<registry, world, lanRecord, mutex, ref>>

(* The worker's answer reaches its lookup, which still has the mutex.      *)
AnnounceStart(l) ==
    /\ work[l] = "done" /\ look[l].pc = "await"
    /\ work' = [work EXCEPT ![l] = "none"]
    /\ look' = [look EXCEPT ![l].pc = "announce"]
    /\ UNCHANGED <<lanIndex, registry, world, lanRecord, mutex, ref, expired, saveFailed,
                   detached>>

LanAnnounceEffect(l) ==
    /\ look[l].pc = "announce"
    /\ lanRecord' = [lanRecord EXCEPT ![KeyOf[PathOf(l)]] = "live"]
    /\ look' = [look EXCEPT ![l].pc = "announced"]
    /\ UNCHANGED <<lanIndex, registry, world, mutex, ref, work, expired, saveFailed,
                   detached>>

(* The lookup returns, or the worker that nobody waits for ends.           *)
ProduceEnd(l) ==
    /\ \/ look[l].pc \in {"announce", "announced"}
       \/ work[l] = "failed"
       \/ work[l] = "done" /\ look[l].pc = "dropped"
    /\ mutex' = IF mutex = l THEN Nobody ELSE mutex
    /\ work' = [work EXCEPT ![l] = "none"]
    /\ look' = [look EXCEPT ![l] = IdleLook]
    /\ UNCHANGED <<lanIndex, registry, world, lanRecord, ref, expired, saveFailed, detached>>

(* LAN_METADATA_TIMEOUT drops the lookup and its mutex guard, not its      *)
(* worker; the worker's own deadline is the same instant.                  *)
Timeout(l) ==
    /\ look[l].pc \in {"await", "announce", "announced"}
    /\ mutex' = Nobody
    /\ expired' = expired \cup {l}
    /\ look' = [look EXCEPT ![l] = IF work[l] = "none" THEN IdleLook
                                   ELSE [pc |-> "dropped", path |-> PathOf(l)]]
    /\ detached' = (detached \/ work[l] # "none")
    /\ UNCHANGED <<lanIndex, registry, world, lanRecord, ref, work, saveFailed>>

-----------------------------------------------------------------------------
(* refresh *)

RefTo(place) == ref' = [ref EXCEPT !.pc = place] /\ UNCHANGED mutex

NextKey == ref' = [pc |-> "next", todo |-> ref.todo] /\ mutex' = Nobody

RefreshStart ==
    /\ ref.pc = "idle"
    /\ ref' = [pc |-> "next", todo |-> KeysOf(aliases)]
    /\ UNCHANGED <<lanIndex, registry, lookups, world, lanRecord, mutex, saveFailed>>

RefreshEnd ==
    /\ ref.pc = "next" /\ ref.todo = {}
    /\ ref' = IdleRefresh
    /\ UNCHANGED <<lanIndex, registry, lookups, world, lanRecord, mutex, saveFailed>>

LiveAliases(k) == OfKey(aliases, k) \cap lanStore

ReconcileLiveUnverified(k, p) ==
    /\ ref.pc = "next" /\ k \in ref.todo
    /\ mutex = Nobody /\ PermitFree
    /\ p \in LiveAliases(k)
    /\ ref' = [pc |-> "hold", todo |-> ref.todo \ {k}, key |-> k, path |-> p]
    /\ mutex' = Refresh
    /\ UNCHANGED <<lanIndex, registry, lookups, world, lanRecord, saveFailed>>

(* A published backing that is a live alias is kept; otherwise some live   *)
(* alias is chosen to replace it.                                          *)
ReconcileLive(k, p) ==
    /\ ref.pc = "next" /\ k \in ref.todo
    /\ mutex = Nobody /\ PermitFree
    /\ p \in LiveAliases(k)
    /\ LET warm == lanCatalog \cap LiveAliases(k)
       IN  /\ warm # {} => p \in warm
           /\ ref' = [pc |-> IF warm # {} THEN "hold" ELSE "verify",
                      todo |-> ref.todo \ {k}, key |-> k, path |-> p]
    /\ mutex' = Refresh
    /\ UNCHANGED <<lanIndex, registry, lookups, world, lanRecord, saveFailed>>

(* No live alias: the key is unregistered, then withdrawn.                 *)
ReconcileNone(k, saved) ==
    /\ ref.pc = "next" /\ k \in ref.todo
    /\ mutex = Nobody /\ PermitFree
    /\ LiveAliases(k) = {}
    /\ DropBacking(OfKey(backing, k), saved)
    /\ IF saved
       THEN /\ mutex' = Refresh
            /\ ref' = [pc |-> "withdraw", todo |-> ref.todo \ {k}, key |-> k]
       ELSE /\ UNCHANGED mutex
            /\ ref' = [ref EXCEPT !.todo = @ \ {k}]
    /\ UNCHANGED <<registry, lookups, world, lanRecord>>

ReconcileVerify ==
    /\ ref.pc = "verify"
    /\ ref.path \in lanStore
    /\ RefTo("bind")
    /\ UNCHANGED <<lanIndex, registry, lookups, world, lanRecord, saveFailed>>

(* The dump fails, its budget or its deadline runs out.                    *)
ReconcileFails ==
    /\ ref.pc \in {"verify", "hold"}
    /\ NextKey
    /\ UNCHANGED <<lanIndex, registry, lookups, world, lanRecord, saveFailed>>

ReconcileBind(saved) ==
    /\ ref.pc = "bind"
    /\ BindBacking(ref.path, saved)
    /\ IF saved THEN RefTo("hold") ELSE NextKey
    /\ UNCHANGED <<registry, lookups, world, lanRecord>>

ReconcileHold(saved) ==
    /\ ref.pc = "hold"
    /\ \/ saved /\ HoldFound(ref.key) /\ RefTo("trim")
       \/ HoldGone(ref.key, saved) /\ NextKey
    /\ UNCHANGED <<registry, lookups, world, lanRecord>>

(* The aliases of the key whose path is gone by now are forgotten.         *)
ReconcileTrim(saved) ==
    /\ ref.pc = "trim"
    /\ LET kept == aliases \ (OfKey(aliases, ref.key) \ lanStore)
       IN  /\ IF kept = aliases THEN saved /\ UNCHANGED <<aliasFile, saveFailed>>
                                ELSE SaveAliases(kept, saved)
           /\ aliases' = IF saved THEN kept ELSE aliases
           /\ forgot' = (forgot \/ ref.key \notin KeysOf(kept))
    /\ IF saved THEN RefTo("announce") ELSE NextKey
    /\ UNCHANGED <<lanIndex, lookups, limit, lanStore, crashes, lanRecord>>

RefreshAnnounce(effect) ==
    /\ ref.pc = "announce"
    /\ lanRecord' = IF effect THEN [lanRecord EXCEPT ![ref.key] = "live"] ELSE lanRecord
    /\ NextKey
    /\ UNCHANGED <<lanIndex, registry, lookups, world, saveFailed>>

LanWithdrawEffect ==
    /\ ref.pc = "withdraw"
    /\ lanRecord' = [lanRecord EXCEPT ![ref.key] = "withdrawn"]
    /\ RefTo("withdrawn")
    /\ UNCHANGED <<lanIndex, registry, lookups, world, saveFailed>>

(* The withdrawal failed or timed out; the aliases stay for a retry.       *)
WithdrawFails ==
    /\ ref.pc \in {"withdraw", "withdrawn"}
    /\ NextKey
    /\ UNCHANGED <<lanIndex, registry, lookups, world, lanRecord, saveFailed>>

(* remove_key: every alias the key has by now.                             *)
RemoveKey(saved) ==
    /\ ref.pc = "withdrawn"
    /\ LET kept == {p \in aliases : KeyOf[p] # ref.key}
       IN  SaveAliases(kept, saved) /\ aliases' = IF saved THEN kept ELSE aliases
    /\ NextKey
    /\ UNCHANGED <<lanIndex, lookups, world, lanRecord>>

-----------------------------------------------------------------------------
OwnedUnchecked(registered) == registered

(* new: a registration without a committed alias is unregistered.          *)
Owned(registered) ==
    {p \in registered : KeyOf[p] \in KeysOf(aliasFile) \cup Excluded}

CrashRestart ==
    /\ crashes < MaxCrashes[limit]
    /\ crashes' = crashes + 1
    /\ aliases' = aliasFile
    /\ backing' = Owned(indexFile)
    /\ lanCatalog' = backing'
    /\ indexFile' = backing'
    /\ mutex' = Nobody
    /\ look' = [l \in Lookups |-> IdleLook]
    /\ work' = [l \in Lookups |-> "none"]
    /\ expired' = {}
    /\ ref' = IdleRefresh
    /\ detached' = FALSE
    /\ UNCHANGED <<limit, lanStore, aliasFile, lanRecord, forgot, saveFailed>>

(* The local nix.                                                          *)
LanImport(p) ==
    /\ p \notin lanStore
    /\ lanStore' = lanStore \cup {p}
    /\ UNCHANGED <<lanIndex, registry, lookups, limit, crashes, forgot, lanRecord, mutex,
                   ref, saveFailed>>

LanCollect(p) ==
    /\ p \in lanStore
    /\ lanStore' = lanStore \ {p}
    /\ UNCHANGED <<lanIndex, registry, lookups, limit, crashes, forgot, lanRecord, mutex,
                   ref, saveFailed>>

LookupStep(l) ==
    \/ \E p \in LanPaths : Produce(l, p)
    \/ AdmitVerify(l)
    \/ AdmitRefused(l)
    \/ \E saved \in SaveOutcomes :
          AdmitBind(l, saved) \/ AdmitCommit(l, saved) \/ AdmitHold(l, saved)
    \/ AnnounceStart(l)
    \/ LanAnnounceEffect(l)
    \/ ProduceEnd(l)
    \/ Timeout(l)

RefreshStep ==
    \/ RefreshStart
    \/ RefreshEnd
    \/ \E k \in LanKeys, p \in LanPaths : ReconcileLive(k, p)
    \/ \E k \in LanKeys, saved \in SaveOutcomes : ReconcileNone(k, saved)
    \/ ReconcileVerify
    \/ ReconcileFails
    \/ \E saved \in SaveOutcomes :
          \/ ReconcileBind(saved)
          \/ ReconcileHold(saved)
          \/ ReconcileTrim(saved)
          \/ RemoveKey(saved)
    \/ \E effect \in BOOLEAN : RefreshAnnounce(effect)
    \/ LanWithdrawEffect
    \/ WithdrawFails

LanSupplyNext ==
    \/ \E l \in Lookups : LookupStep(l)
    \/ RefreshStep
    \/ CrashRestart
    \/ \E p \in LanPaths : LanImport(p) \/ LanCollect(p)

LanSupplySpec == LanSupplyInit /\ [][LanSupplyNext]_lanSupplyVars

(* Workers run to their end and lookups return; the refresh interval keeps *)
(* ticking; the publication mutex is first-come first-served; a dump that  *)
(* is tried again and again succeeds at last; and the store comes to rest. *)
LanSupplyFairness ==
    /\ \A l \in Lookups :
          WF_lanSupplyVars(\/ AdmitVerify(l)
                  \/ AdmitRefused(l)
                  \/ \E saved \in SaveOutcomes : \/ AdmitBind(l, saved)
                                                 \/ AdmitCommit(l, saved)
                                                 \/ AdmitHold(l, saved)
                  \/ AnnounceStart(l)
                  \/ ProduceEnd(l))
    /\ WF_lanSupplyVars(mutex = Refresh /\ RefreshStep)
    /\ WF_lanSupplyVars(RefreshStart \/ RefreshEnd)
    /\ SF_lanSupplyVars(\E k \in LanKeys :
                  \/ \E p \in LanPaths : ReconcileLive(k, p)
                  \/ \E saved \in SaveOutcomes : ReconcileNone(k, saved))
    /\ SF_lanSupplyVars(ReconcileVerify)
    /\ SF_lanSupplyVars(ReconcileHold(TRUE))
    /\ <>[][UNCHANGED lanStore]_lanStore

-----------------------------------------------------------------------------
(* Properties *)

RefreshPlaces == {"verify", "bind", "hold", "trim", "announce", "withdraw",
                  "withdrawn"}

(* The registries, the lookups and the refresh task keep their shape, the  *)
(* index has one backing per key, only registrations are published, and    *)
(* the mutex has one holder.                                               *)
LanSupplyTypeOK ==
    /\ limit \in PathLimits
    /\ lanStore \in SUBSET LanPaths
    /\ backing \in SUBSET LanPaths
    /\ \A p, r \in backing : KeyOf[p] = KeyOf[r] => p = r
    /\ lanCatalog \in SUBSET backing
    /\ indexFile \in SUBSET LanPaths
    /\ aliases \in SUBSET LanPaths
    /\ aliasFile \in SUBSET LanPaths
    /\ lanRecord \in [LanKeys -> {"none", "live", "withdrawn"}]
    /\ mutex \in Lookups \cup {Nobody, Refresh}
    /\ \A l \in Lookups :
          mutex = l <=> look[l].pc \in {"await", "announce", "announced"}
    /\ work \in [Lookups -> {"none", "verify", "bind", "commit", "hold", "done",
                             "failed"}]
    /\ ref.pc \in RefreshPlaces \cup {"idle", "next"}
    /\ mutex = Refresh <=> ref.pc \in RefreshPlaces

Registering(k) ==
    \E l \in Lookups : work[l] = "commit" /\ KeyOf[PathOf(l)] = k

RegistrationsOwned ==
    \A p \in backing :
        \/ KeyOf[p] \in KeysOf(aliases) \cup Excluded
        \/ Registering(KeyOf[p])

(* Every dynamic registration has an alias that owns it or is about to get *)
(* one: refreshes, collections of the store and crashes between the        *)
(* registration and its alias strand none.  The only things that do are a  *)
(* failed save, a worker that outlives its lookup, and a refresh that      *)
(* forgets a key's last alias.                                             *)
OwnedUnlessDisturbed ==
    ~saveFailed /\ ~detached /\ ~forgot => RegistrationsOwned

(* A live record of ours is of a key that still has an alias, so that a    *)
(* later refresh renews or withdraws it: through timeouts, detached        *)
(* workers, crashes, and saves that fail with no crash after them.         *)
LiveIsOwnedUnlessForgotten ==
    ~forgot /\ (saveFailed => crashes = 0) =>
        \A k \in LanKeys : lanRecord[k] = "live" => k \in KeysOf(aliases)

(* Losing the backing of a key does not lose another admitted output with  *)
(* the same NAR: no alias that stays in the store is left for ever without  *)
(* a registration of its key to an existing path.                          *)
AliasIsSupplied ==
    \A p \in LanPaths :
        []<>(p \in aliases /\ p \in lanStore => OfKey(lanCatalog, KeyOf[p]) \cap lanStore # {})

(* The aliases never exceed the path budget, though two workers may have   *)
(* passed the admission check for the last place.                          *)
WithinPathLimit == Fits(aliases) /\ Fits(aliasFile)

-----------------------------------------------------------------------------
(***************************************************************************)
(* Narinfos from the LAN (daemon-libp2p/src/lan_metadata.rs): a peer signs  *)
(* what its own store says of a path, the asking node proves the answer     *)
(* against its configured keys, races the peers within the caller's budget  *)
(* and falls back to the upstream, and a path that arrived is offered to    *)
(* the LAN in its turn once Nix has imported it.                            *)
(*                                                                          *)
(* A store path is its hash. A document is the record of its narinfo lines; *)
(* a signature names its key and is the pair of the secret and the text it  *)
(* was made over. Which peers are asked is LanConfinement's, what the       *)
(* producing side admits and announces is LanSupply's.                      *)
(***************************************************************************)

CONSTANTS LanNode, LanPeers,    \* the asking node and the peers it may ask
          PathHashes,
          PathFacts,            \* what Nix says of each path
          LanSetups,            \* who signs with which key, who is trusted
          LanBudgets,           \* callers' budgets in ticks; -1: none given
          LanTimeout, LateTicks,
          MaxNarSize, FetchedSlots, FetchedTries, MaxRequests

ASSUME LanNarinfoAssumption ==
    /\ LanNode \notin LanPeers
    /\ {LanTimeout, LateTicks, MaxNarSize, FetchedSlots, FetchedTries, MaxRequests} \subseteq Nat
    /\ LanBudgets \subseteq Nat \cup {-1}

VARIABLES lanSetup,
          asking,     \* the request in progress
          heldPaths,  \* the paths in each store
          seeding,    \* the tasks on_fetched has spawned: path and tries left
          offered,    \* the paths the node announces on the LAN
          genuine,    \* the request has received a true answer of a trusted signer
          served      \* requests answered so far

narinfoVars == <<lanSetup, asking, heldPaths, seeding, offered, genuine, served>>

NoNarinfo == [path |-> 0, url |-> 0, nar |-> 0, size |-> 0, refs |-> <<>>, sigs |-> <<>>,
              repeated |-> FALSE]
NoPathFacts == [nar |-> 0, size |-> 0, refs |-> <<>>]
AtRest == [at |-> "rest", hash |-> 0, budget |-> -1, spent |-> 0, waiting |-> {},
           from |-> "nobody", doc |-> NoNarinfo, given |-> -1]

Lesser(a, b) == IF a < b THEN a ELSE b

-----------------------------------------------------------------------------
(* The signing side.                                                       *)

(* LanSigningKey::parse.                                                   *)
SigningKeyOk(s) == s.named /\ s.pairs

(* LanSigningKey::sign: over the full paths in the order given, while the  *)
(* References line lists their base names.                                 *)
SignNarinfo(s, path, nar, size, refs) ==
    [NoNarinfo EXCEPT !.path = path, !.url = nar, !.nar = nar, !.size = size, !.refs = refs,
                      !.sigs = <<[name |-> s.name, key |-> s.key, over |-> <<path, nar, size, refs>>]>>]

(* path_info: the child may not start, say too much, fail, or answer       *)
(* something else.                                                         *)
PathInfo(path) == {NoPathFacts, PathFacts[path]}

(* produce, up to the signature: an answer, or nothing.                    *)
Produced(n, path) ==
    {IF path \in heldPaths[n] /\ info.size \in 1..MaxNarSize
     THEN SignNarinfo(lanSetup.signers[n], path, info.nar, info.size, SortSeq(info.refs, <))
     ELSE NoNarinfo : info \in PathInfo(path)}

-----------------------------------------------------------------------------
(* The asking side.                                                        *)

(* TrustedNarKeys::insert_line: a malformed line is an error, a name given *)
(* twice keeps the later key.                                              *)
KeyLineOk(line) == line.ok
TrustedKeyOf(lines, name) ==
    LET at == {i \in DOMAIN lines : lines[i].name = name}
    IN  IF at = {} THEN 0 ELSE lines[CHOOSE i \in at : \A j \in at : j <= i].key

(* TrustedNarKeys::from_lines.                                             *)
KeyLinesOk(lines) == \A i \in DOMAIN lines : KeyLineOk(lines[i])

(* The fingerprint is rebuilt from the document in its canonical spelling. *)
fingerprint(d) == <<d.path, d.nar, d.size, SortSeq(d.refs, <)>>

(* field: a repeated line is refused.                                      *)
FieldsOk(d) == ~d.repeated

(* prove_public: one signature of a trusted name that verifies.            *)
ProvedPublic(d, lines) ==
    /\ FieldsOk(d)
    /\ d.size > 0
    /\ \E i \in DOMAIN d.sigs :
          /\ TrustedKeyOf(lines, d.sigs[i].name) # 0
          /\ d.sigs[i].key = TrustedKeyOf(lines, d.sigs[i].name)
          /\ d.sigs[i].over = fingerprint(d)

validate_lan_metadata(d, hash, lines) == ProvedPublic(d, lines) /\ d.path = hash

(* to_raw: what is not signed is rewritten from what is.                   *)
AsRaw(d) == [d EXCEPT !.url = d.nar]

(* What an answering program may send instead of its own true answer: that *)
(* of another path, or the answer with a line changed.                     *)
Variants(d, p) ==
    {d, [d EXCEPT !.url = 0], [d EXCEPT !.refs = [i \in DOMAIN d.refs |-> d.refs[Len(d.refs) + 1 - i]]],
     [d EXCEPT !.nar = 0], [d EXCEPT !.size = @ + 1], [d EXCEPT !.repeated = TRUE]}
    \cup UNION {Produced(p, h) : h \in PathHashes}

Limit(r) == IF r.budget = -1 THEN LanTimeout ELSE Lesser(r.budget, LanTimeout)

Keep(r) == asking' = r /\ UNCHANGED <<lanSetup, seeding, served>>

(* lookup returns a proved answer, or goes on to the peers that are left   *)
(* and gives up when there is none.                                        *)
Settle(d, waiting) ==
    IF validate_lan_metadata(d, asking.hash, lanSetup.trusted)
    THEN [asking EXCEPT !.at = "done", !.from = "lan", !.doc = AsRaw(d), !.waiting = {}]
    ELSE [asking EXCEPT !.at = IF waiting = {} THEN "upstream" ELSE "peers", !.waiting = waiting]

(* fetch_within.                                                           *)
FetchNarinfo(h, b) ==
    /\ asking.at = "rest" /\ served < MaxRequests
    /\ Keep([AtRest EXCEPT !.at = "local", !.hash = h, !.budget = b])
    /\ genuine' = FALSE
    /\ UNCHANGED <<heldPaths, offered>>

(* lookup asks the node's own store first (and so offers the path).        *)
LocalAnswers ==
    /\ asking.at = "local"
    /\ \E ps \in SUBSET LanPeers,
         d \in IF lanSetup.shares THEN Produced(LanNode, asking.hash) ELSE {NoNarinfo} :
          /\ Keep(Settle(d, ps))
          /\ offered' = IF d = NoNarinfo THEN offered ELSE offered \cup {asking.hash}
    /\ UNCHANGED <<heldPaths, genuine>>

(* join_next: an answer, an empty one, an error or a cut.                  *)
PeerAnswers(p) ==
    /\ asking.at = "peers" /\ p \in asking.waiting
    /\ \E d0 \in Produced(p, asking.hash) : \E d \in Variants(d0, p) :
          LET s == lanSetup.signers[p]
          IN  /\ Keep(Settle(d, asking.waiting \ {p}))
              /\ genuine' = (genuine \/ (d = d0 /\ d # NoNarinfo /\ TrustedKeyOf(lanSetup.trusted, s.name) = s.key))
    /\ UNCHANGED <<heldPaths, offered>>

LookupTimesOut ==
    /\ asking.at \in {"local", "peers"} /\ asking.spent >= Limit(asking)
    /\ Keep([asking EXCEPT !.at = "upstream", !.waiting = {}])
    /\ UNCHANGED <<heldPaths, offered, genuine>>

(* The upstream gets what is left of the budget.                           *)
Remaining(r) == IF r.budget = -1 THEN -1 ELSE IF r.spent > r.budget THEN 0 ELSE r.budget - r.spent

AskUpstream ==
    /\ asking.at = "upstream"
    /\ Keep([asking EXCEPT !.at = "done", !.from = "upstream", !.given = Remaining(asking)])
    /\ UNCHANGED <<heldPaths, offered, genuine>>

(* The timer fires at the limit, and the task may run a little later.      *)
NarinfoTick ==
    /\ asking.at \in {"local", "peers", "upstream"}
    /\ asking.spent < Limit(asking) + (IF asking.at = "upstream" THEN LateTicks ELSE 0)
    /\ Keep([asking EXCEPT !.spent = @ + 1])
    /\ UNCHANGED <<heldPaths, offered, genuine>>

-----------------------------------------------------------------------------
(* After the fetch.                                                        *)

(* try_acquire_owned: no free slot, no task.                               *)
TakeFetchedSlot == Len(seeding) < FetchedSlots

(* The NAR of the answer was fetched or not; on_fetched.                   *)
NarFetched ==
    /\ asking.at = "done"
    /\ asking' = AtRest /\ served' = served + 1
    /\ seeding' \in {seeding,
                     IF lanSetup.shares /\ TakeFetchedSlot
                     THEN Append(seeding, [path |-> asking.hash, tries |-> FetchedTries])
                     ELSE seeding}
    /\ UNCHANGED <<lanSetup, heldPaths, offered, genuine>>

(* External: Nix imports a path it was served.                             *)
ImportPath(h) ==
    /\ h \notin heldPaths[LanNode] /\ served > 0
    /\ heldPaths' = [heldPaths EXCEPT ![LanNode] = @ \cup {h}]
    /\ UNCHANGED <<lanSetup, asking, seeding, offered, genuine, served>>

(* One round of the task: sleep, look the path up, stop when it is there.  *)
SeedAttempt(i) ==
    LET t == seeding[i]
        rest == SubSeq(seeding, 1, i - 1) \o SubSeq(seeding, i + 1, Len(seeding))
    IN  /\ \/ /\ Produced(LanNode, t.path) # {NoNarinfo}
              /\ offered' = offered \cup {t.path} /\ seeding' = rest
           \/ /\ seeding' = IF t.tries > 1 THEN [seeding EXCEPT ![i].tries = @ - 1] ELSE rest
              /\ UNCHANGED offered
        /\ UNCHANGED <<lanSetup, asking, heldPaths, genuine, served>>

-----------------------------------------------------------------------------
NarinfoInit ==
    /\ lanSetup \in {s \in LanSetups : KeyLinesOk(s.trusted) /\ SigningKeyOk(s.signers[LanNode])}
    /\ asking = AtRest
    /\ heldPaths \in {[n \in LanPeers \cup {LanNode} |-> IF n = LanNode THEN {} ELSE lanSetup.holds[n]]}
    /\ seeding = <<>> /\ offered = {} /\ genuine = FALSE /\ served = 0

NarinfoNext ==
    \/ \E h \in PathHashes, b \in LanBudgets : FetchNarinfo(h, b)
    \/ LocalAnswers
    \/ \E p \in LanPeers : PeerAnswers(p)
    \/ LookupTimesOut
    \/ AskUpstream
    \/ NarinfoTick
    \/ NarFetched
    \/ \E h \in PathHashes : ImportPath(h)
    \/ \E i \in DOMAIN seeding : SeedAttempt(i)

NarinfoSpec == NarinfoInit /\ [][NarinfoNext]_narinfoVars

-----------------------------------------------------------------------------
(* A narinfo served from the LAN says of the requested path exactly what    *)
(* the store of a signer trusted under that name says, whatever the peers   *)
(* sent and in whichever order, and its unsigned lines follow its signed    *)
(* ones; the true answer of a trusted signer that arrived is never passed   *)
(* over for the upstream; the upstream is asked within what the caller's    *)
(* budget leaves; and the node offers only paths it holds, from no more     *)
(* tasks than it has slots for (lookup, fetch_within, on_fetched).          *)
LanAnswerIsTrue ==
    /\ asking.from = "lan" =>
          LET d == asking.doc facts == PathFacts[asking.hash]
          IN  /\ d.path = asking.hash /\ d.nar = facts.nar /\ d.size = facts.size
              /\ SortSeq(d.refs, <) = SortSeq(facts.refs, <)
              /\ d.url = d.nar
              /\ \E n \in LanPeers \cup {LanNode} :
                    LET s == lanSetup.signers[n]
                    IN  asking.hash \in heldPaths[n] /\ TrustedKeyOf(lanSetup.trusted, s.name) = s.key
    /\ genuine => asking.at \notin {"upstream"} /\ asking.from # "upstream"
    /\ asking.from = "upstream" /\ asking.budget # -1 =>
          asking.spent + asking.given <= asking.budget + LateTicks
    /\ offered \subseteq heldPaths[LanNode]
    /\ Len(seeding) <= FetchedSlots
=============================================================================
