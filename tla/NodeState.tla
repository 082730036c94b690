----------------------------- MODULE NodeState ------------------------------
(***************************************************************************)
(* What a node keeps on disk and binds before it serves: the state files,  *)
(* the identity of its iroh endpoint and the sockets of that endpoint.     *)
(***************************************************************************)
EXTENDS Naturals, FiniteSets

(***************************************************************************)
(* The files of one state directory, as the processes that share it see     *)
(* them: the publisher's (fabric-iroh/src/iroh_publication.rs) or the        *)
(* publication authority's (iroh_publication_authority.rs).  A lock file      *)
(* makes a process the only one; a checksummed state file and its rollback   *)
(* anchor are read with checks of the file itself.  Besides the processes,    *)
(* somebody may restore an old copy of a file, damage it, link it or delete   *)
(* it.                                                                       *)
(*                                                                          *)
(* The contents of the state are a version number: every save has the next   *)
(* one.  How the contents of a save come about is NodePublication's subject, *)
(* how a power failure cuts one anchored store's.                            *)
(***************************************************************************)

CONSTANTS Processes, Roles,   \* of "publisher", "authority"
          MaxVersion, MaxFit, \* the last version that MAX_STATE_BYTES holds
          MaxDisturbances,
          MaxInodes           \* no process starts once this many files were made

ASSUME StateFilesAssumption == MaxVersion \in Nat /\ MaxFit \in Nat /\ 0 \notin Processes

VARIABLES role,        \* whose directory it is
          files,       \* the directory entries
          inodes,      \* the inodes made so far
          locks,       \* [file, by]: the advisory locks of the kernel
          running,     \* what each process is doing
          lastSaved,       \* the newest version a save has returned for
          disturbed    \* the files somebody else has changed, one per change

stateVars == <<role, files, inodes, locks, running, lastSaved, disturbed>>

StateNames == {"lock", "state", "anchor"}

Gone == [inode |-> 0, stamp |-> 0, regular |-> FALSE, own |-> TRUE, mode |-> TRUE, links |-> 0,
         fits |-> TRUE, whole |-> FALSE, version |-> 0]
NewFile(n, v) == [Gone EXCEPT !.inode = n, !.regular = TRUE, !.links = 1, !.whole = TRUE, !.version = v]

Stopped == [at |-> "down", lock |-> 0, locked |-> FALSE, before |-> Gone, body |-> 0, had |-> FALSE]

-----------------------------------------------------------------------------

(* validate_secure_file.                                                   *)
validate_secure_file(f) ==
    f.regular /\ f.own /\ f.mode /\ f.links = 1 /\ f.fits

(* decode_state and decode_anchor: parsed, and the checksum matches.       *)
decode_authority_state(f) == f.whole
decode_anchor(f) == f.whole

(* encode_state: refused above MAX_STATE_BYTES, before anything is written. *)
encode_state(v) == v <= MaxFit

(* The file is still the one that was opened: st_dev, st_ino, st_size and   *)
(* st_mtime, and the directory entry.                                       *)
Unchanged(before, now) == before.inode = now.inode /\ before.stamp = now.stamp

Holder(inode) == {l.by : l \in {k \in locks : k.file = inode}}

Goes(p, r) == running' = [running EXCEPT ![p] = r]
Refuse(p) == Goes(p, [Stopped EXCEPT !.at = "refused"]) /\ locks' = {l \in locks : l.by # p}

-----------------------------------------------------------------------------
(* open: the lock file.                                                    *)

(* Created with O_EXCL, or the one that is there, if it is secure.         *)
OpenLock(p) ==
    /\ running[p].at = "lock"
    /\ IF files["lock"].inode = 0
       THEN /\ files' = [files EXCEPT !["lock"] = NewFile(inodes + 1, 0)]
            /\ inodes' = inodes + 1
            /\ Goes(p, [running[p] EXCEPT !.at = "flock", !.lock = inodes + 1])
            /\ UNCHANGED locks
       ELSE /\ IF validate_secure_file(files["lock"])
               THEN Goes(p, [running[p] EXCEPT !.at = "flock", !.lock = files["lock"].inode])
                    /\ UNCHANGED locks
               ELSE Refuse(p)
            /\ UNCHANGED <<files, inodes>>
    /\ UNCHANGED <<role, lastSaved, disturbed>>

(* flock without waiting.                                                  *)
TakeLock(p) ==
    /\ running[p].at = "flock"
    /\ IF Holder(running[p].lock) = {}
       THEN /\ locks' = locks \cup {[file |-> running[p].lock, by |-> p]}
            /\ Goes(p, [running[p] EXCEPT !.at = "read", !.locked = TRUE])
       ELSE Refuse(p)
    /\ UNCHANGED <<role, files, inodes, lastSaved, disturbed>>

(* read: the file is checked before its bytes are read.                    *)
ReadState(p) ==
    /\ running[p].at = "read"
    /\ IF files["state"].inode = 0
       THEN Goes(p, [running[p] EXCEPT !.at = "anchor", !.body = 0, !.had = FALSE])
            /\ UNCHANGED locks
       ELSE IF ~validate_secure_file(files["state"]) THEN Refuse(p)
       ELSE Goes(p, [running[p] EXCEPT !.at = "reread", !.before = files["state"]])
            /\ UNCHANGED locks
    /\ UNCHANGED <<role, files, inodes, lastSaved, disturbed>>

(* ... and after; then they are decoded.                                   *)
RereadState(p) ==
    /\ running[p].at = "reread"
    /\ LET b == running[p].before
       IN  IF /\ validate_secure_file(files["state"]) /\ Unchanged(b, files["state"])
              /\ decode_authority_state(b)
           THEN Goes(p, [running[p] EXCEPT !.at = "anchor", !.body = b.version, !.had = TRUE,
                                           !.before = Gone])
                /\ UNCHANGED locks
           ELSE Refuse(p)
    /\ UNCHANGED <<role, files, inodes, lastSaved, disturbed>>

(* Mutant of AnchorAllows: a missing anchor is made again.                 *)
AnchorAllowsMissing(p) ==
    \/ files["anchor"].inode = 0
    \/ /\ files["anchor"].inode # 0
       /\ validate_secure_file(files["anchor"]) /\ decode_anchor(files["anchor"])
       /\ running[p].body >= files["anchor"].version

(* read_anchor and the comparison of validate_or_initialize_anchor.        *)
AnchorAllows(p) ==
    \/ files["anchor"].inode = 0 /\ ~running[p].had
    \/ /\ files["anchor"].inode # 0
       /\ validate_secure_file(files["anchor"]) /\ decode_anchor(files["anchor"])
       /\ running[p].body >= files["anchor"].version

(* write_anchor: a synced temporary file replaces the anchor.              *)
write_anchor(v) == [files EXCEPT !["anchor"] = NewFile(inodes + 1, v)]

(* The anchor is made, or brought up to the state.  The publisher then       *)
(* writes the first state too, the authority only when a record comes.      *)
ReadAnchor(p) ==
    /\ running[p].at = "anchor"
    /\ IF ~AnchorAllows(p) THEN Refuse(p) /\ UNCHANGED <<files, inodes>>
       ELSE /\ IF files["anchor"].inode # 0 /\ files["anchor"].version = running[p].body
               THEN UNCHANGED <<files, inodes>>
               ELSE files' = write_anchor(running[p].body) /\ inodes' = inodes + 1
            /\ Goes(p, [running[p] EXCEPT
                          !.at = IF role = "publisher" /\ ~running[p].had THEN "fresh" ELSE "up"])
            /\ UNCHANGED locks
    /\ UNCHANGED <<role, lastSaved, disturbed>>

-----------------------------------------------------------------------------
(* write: the state is replaced, then the anchor; a failure between the two  *)
(* poisons the store until the process ends.                                *)
ReplaceState(v) == [files EXCEPT !["state"] = NewFile(inodes + 1, v)]

WriteFirst(p) ==
    /\ running[p].at = "fresh"
    /\ files' = ReplaceState(running[p].body) /\ inodes' = inodes + 1
    /\ Goes(p, [running[p] EXCEPT !.at = "saving"])
    /\ UNCHANGED <<role, locks, lastSaved, disturbed>>

Save(p) ==
    /\ running[p].at = "up" /\ running[p].body < MaxVersion
    /\ IF encode_state(running[p].body + 1)
       THEN /\ files' = ReplaceState(running[p].body + 1) /\ inodes' = inodes + 1
            /\ Goes(p, [running[p] EXCEPT !.at = "saving", !.body = @ + 1])
       ELSE UNCHANGED <<files, inodes, running>>
    /\ UNCHANGED <<role, locks, lastSaved, disturbed>>

SaveAnchor(p) ==
    /\ running[p].at = "saving"
    /\ \/ /\ files' = write_anchor(running[p].body) /\ inodes' = inodes + 1
          /\ lastSaved' = IF lastSaved < running[p].body THEN running[p].body ELSE lastSaved
          /\ Goes(p, [running[p] EXCEPT !.at = "up"])
       \/ /\ Goes(p, [running[p] EXCEPT !.at = "poisoned"])
          /\ UNCHANGED <<files, inodes, lastSaved>>
    /\ UNCHANGED <<role, locks, disturbed>>

(* PublicationStateLock::unlock: once, also when both the shutdown and the   *)
(* drop of the store call it.                                              *)
Unlock(p) ==
    /\ running[p].at \in {"up", "poisoned"} /\ running[p].locked
    /\ locks' = {l \in locks : ~(l.file = running[p].lock /\ l.by = p)}
    /\ Goes(p, [running[p] EXCEPT !.at = "dropping", !.locked = FALSE])
    /\ UNCHANGED <<role, files, inodes, lastSaved, disturbed>>

DropLock(p) ==
    /\ running[p].at = "dropping"
    /\ Goes(p, Stopped)
    /\ UNCHANGED <<role, files, inodes, locks, lastSaved, disturbed>>

(* A process starts; it dies, and the kernel releases its lock.            *)
Start(p) ==
    /\ running[p].at \in {"down", "refused"}
    /\ inodes < MaxInodes
    /\ Goes(p, [Stopped EXCEPT !.at = "lock"])
    /\ UNCHANGED <<role, files, inodes, locks, lastSaved, disturbed>>

Die(p) ==
    /\ running[p].at \notin {"down", "refused"}
    /\ Goes(p, Stopped)
    /\ locks' = {l \in locks : l.by # p}
    /\ UNCHANGED <<role, files, inodes, lastSaved, disturbed>>

(* Somebody restores an older copy, in place or as a new file; truncates or  *)
(* edits it, changes its mode, links it, or deletes it.                     *)
Touched(n) == \E d \in disturbed : d.name = n

Disturb ==
    \E n \in StateNames, how \in {"old", "other", "gone"} :
        /\ files[n].inode # 0 /\ Cardinality(disturbed) < MaxDisturbances
        /\ ~Touched(n)
        /\ disturbed' = disturbed \cup {[name |-> n, how |-> how]}
        /\ \/ /\ how = "old"
              /\ \E v \in 0..files[n].version :
                    \/ files' = [files EXCEPT ![n] = NewFile(inodes + 1, v)]
                    \/ files' = [files EXCEPT ![n].version = v, ![n].stamp = @ + 1]
           \/ /\ how = "other"
              /\ \/ files' = [files EXCEPT ![n].whole = FALSE, ![n].stamp = @ + 1]
                 \/ files' = [files EXCEPT ![n].mode = FALSE]
                 \/ files' = [files EXCEPT ![n].links = 2]
           \/ how = "gone" /\ files' = [files EXCEPT ![n] = Gone]
        /\ inodes' = inodes + 1
        /\ UNCHANGED <<role, locks, running, lastSaved>>

-----------------------------------------------------------------------------
StateInit ==
    /\ role \in Roles
    /\ files = [n \in StateNames |-> Gone]
    /\ inodes = 0 /\ locks = {} /\ lastSaved = 0 /\ disturbed = {}
    /\ running = [p \in Processes |-> Stopped]

StateNext ==
    \/ \E p \in Processes :
          \/ Start(p) \/ OpenLock(p) \/ TakeLock(p) \/ ReadState(p) \/ RereadState(p)
          \/ ReadAnchor(p) \/ WriteFirst(p) \/ Save(p) \/ SaveAnchor(p)
          \/ Unlock(p) \/ DropLock(p) \/ Die(p)
    \/ Disturb

StateSpec == StateInit /\ [][StateNext]_stateVars

-----------------------------------------------------------------------------
Opened == {"fresh", "up", "saving", "poisoned"}

(* The state and what would give its age away were taken back together.    *)
RolledBack ==
    /\ Touched("state")
    /\ \/ [name |-> "anchor", how |-> "old"] \in disturbed
       \/ {[name |-> n, how |-> "gone"] : n \in {"state", "anchor"}} \subseteq disturbed

(* One process owns the directory, as long as its lock file is left alone;  *)
(* and every process that works on it goes on from at least the last        *)
(* version that a save returned for, whatever was done to the two files,     *)
(* unless both were taken back to an older version or both deleted: an       *)
(* older, damaged or missing file is refused, or made good by the other one  *)
(* (open, validate_secure_file, decode_state,                               *)
(* validate_or_initialize_anchor).                                          *)
StateIsOwnedAndLatest ==
    ~Touched("lock") =>
        /\ \A p, q \in Processes :
              running[p].at \in Opened /\ running[q].at \in Opened => p = q
        /\ ~RolledBack =>
              \A p \in Processes : running[p].at \in Opened => running[p].body >= lastSaved

(* Files that nobody else touched can be opened: a process that is refused   *)
(* was refused for the lock, and whatever fitted when it was saved is read   *)
(* again (encode_state and validate_secure_file agree on the bound).        *)
UntouchedIsReadable ==
    disturbed = {} =>
        \A p \in Processes :
            /\ running[p].at = "anchor" => AnchorAllows(p)
            /\ running[p].at = "reread" =>
                  Unchanged(running[p].before, files["state"]) /\ files["state"].whole
            /\ running[p].at = "read" /\ files["state"].inode # 0 =>
                  validate_secure_file(files["state"])

-----------------------------------------------------------------------------
(***************************************************************************)
(* The node identity of fabric-iroh/src/iroh_runtime.rs: several processes *)
(* load or initialise the secret key of one state directory, and each may  *)
(* die, or the machine lose power, between two of its system calls.  A     *)
(* starter's steps are the system calls that read or change the directory. *)
(* What fsync has not reached is lost with the power; a directory whose    *)
(* entry in its parent was not synced is lost as a whole.                  *)
(***************************************************************************)

CONSTANTS Starters, MaxRestarts, MaxPowerLosses, MaxSwaps

NoKey == [key |-> <<"none", 0>>, whole |-> TRUE]

VARIABLES
    stateDir,    \* the directory's entry: "absent", "made" or "kept"
    linked,       \* what the identity file name links to now
    kept,        \* what it links to after a power loss
    starter,     \* each starter's progress, the key in hand and the next key
    handed,      \* history: the keys returned
    dirLost,     \* history: the directory was lost with the power
    restarts, powerLosses, swaps

identity == <<stateDir, linked, kept, starter, handed, dirLost, restarts, powerLosses, swaps>>
counts == <<restarts, powerLosses, swaps>>

IdentityInit ==
    /\ stateDir = "absent" /\ linked = NoKey /\ kept = NoKey
    /\ starter = [p \in Starters |-> [at |-> "idle", file |-> NoKey, born |-> 0]]
    /\ handed = {} /\ dirLost = FALSE
    /\ restarts = 0 /\ powerLosses = 0 /\ swaps = 0

StarterGoes(p, step) == starter' = [starter EXCEPT ![p].at = step]
StarterTakes(p, step, file) == starter' = [starter EXCEPT ![p].at = step, ![p].file = file]

\* Any system call may fail; the start is refused.
StartFails(p) ==
    /\ starter[p].at \notin {"idle", "returned", "refused"}
    /\ StarterGoes(p, "refused")
    /\ UNCHANGED <<stateDir, linked, kept, handed, dirLost, counts>>

\* open_state_directory: mkdirat, or the directory exists.
OpenStateDirectory(p) ==
    /\ starter[p].at = "idle"
    /\ stateDir' = IF stateDir = "absent" THEN "made" ELSE stateDir
    /\ StarterGoes(p, IF stateDir = "absent" THEN "made" ELSE "open")
    /\ UNCHANGED <<linked, kept, handed, dirLost, counts>>

\* Only the process that made the directory syncs its parent.
SyncParent(p) ==
    /\ starter[p].at = "made"
    /\ stateDir' = "kept" /\ StarterGoes(p, "open")
    /\ UNCHANGED <<linked, kept, handed, dirLost, counts>>

\* open_identity_file.
OpenIdentityFile(p) ==
    /\ starter[p].at = "open"
    /\ IF linked = NoKey THEN StarterGoes(p, "absent") ELSE StarterTakes(p, "read", linked)
    /\ UNCHANGED <<stateDir, linked, kept, handed, dirLost, counts>>

FreshKey(p) == [key |-> <<p, starter[p].born>>, whole |-> TRUE]

\* initialize_identity: an unnamed temporary file, written and synced.
WriteTemporary(p) ==
    /\ starter[p].at = "absent"
    /\ starter' = [starter EXCEPT ![p].at = "written", ![p].born = @ + 1, ![p].file = FreshKey(p)]
    /\ UNCHANGED <<stateDir, linked, kept, handed, dirLost, counts>>

\* linkat without replacement: won, or another starter was first.
LinkIdentity(p) ==
    /\ starter[p].at = "written"
    /\ IF linked = NoKey THEN linked' = starter[p].file /\ StarterGoes(p, "won")
       ELSE StarterTakes(p, "beaten", NoKey) /\ UNCHANGED linked
    /\ UNCHANGED <<stateDir, kept, handed, dirLost, counts>>

\* fsync of the directory, after winning or losing the link; the loser then
\* opens the winner's file.
SyncIdentityDirectory(p) ==
    /\ starter[p].at \in {"won", "beaten"}
    /\ kept' = linked
    /\ IF starter[p].at = "won" THEN StarterGoes(p, "read")
       ELSE IF linked = NoKey THEN StarterGoes(p, "refused")
       ELSE StarterTakes(p, "read", linked)
    /\ UNCHANGED <<stateDir, linked, handed, dirLost, counts>>

\* read_identity: the name must still be the inode that was read, and the
\* record decode.
ReadIdentity(p) ==
    /\ starter[p].at = "read"
    /\ StarterGoes(p, IF linked = starter[p].file /\ linked.whole THEN "checked" ELSE "refused")
    /\ UNCHANGED <<stateDir, linked, kept, handed, dirLost, counts>>

\* The last fsync of the directory, and the key is returned.
ReturnIdentity(p) ==
    /\ starter[p].at = "checked"
    /\ kept' = linked
    /\ handed' = handed \cup {starter[p].file.key} /\ StarterGoes(p, "returned")
    /\ UNCHANGED <<stateDir, linked, dirLost, counts>>

-----------------------------------------------------------------------------
(* What may happen around the starters                                     *)

\* A process ends, by itself or not, and is started again.
RestartStarter(p) ==
    /\ restarts < MaxRestarts /\ starter[p].at # "idle"
    /\ restarts' = restarts + 1
    /\ StarterTakes(p, "idle", NoKey)
    /\ UNCHANGED <<stateDir, linked, kept, handed, dirLost, powerLosses, swaps>>

\* What was not synced may or may not survive.
IdentityPowerLoss ==
    /\ powerLosses < MaxPowerLosses
    /\ powerLosses' = powerLosses + 1
    /\ starter' = [p \in Starters |-> [starter[p] EXCEPT !.at = "idle", !.file = NoKey]]
    /\ \/ /\ stateDir # "absent" /\ stateDir' = "kept"
          /\ linked' \in {kept, linked} /\ kept' = linked'
          /\ UNCHANGED dirLost
       \/ /\ stateDir = "made" /\ stateDir' = "absent"
          /\ linked' = NoKey /\ kept' = NoKey /\ dirLost' = TRUE
    /\ UNCHANGED <<handed, restarts, swaps>>

\* The operator puts another identity file in place.
SwapIdentity ==
    /\ swaps < MaxSwaps /\ linked # NoKey
    /\ swaps' = swaps + 1
    /\ linked' = [key |-> <<"swapped", 0>>, whole |-> TRUE] /\ kept' = linked'
    /\ UNCHANGED <<stateDir, starter, handed, dirLost, restarts, powerLosses>>

IdentityNext ==
    \/ \E p \in Starters :
          \/ StartFails(p) \/ OpenStateDirectory(p) \/ SyncParent(p) \/ OpenIdentityFile(p)
          \/ WriteTemporary(p) \/ LinkIdentity(p) \/ SyncIdentityDirectory(p) \/ ReadIdentity(p)
          \/ ReturnIdentity(p) \/ RestartStarter(p)
    \/ IdentityPowerLoss \/ SwapIdentity

IdentitySpec == IdentityInit /\ [][IdentityNext]_identity

-----------------------------------------------------------------------------
\* One directory has one identity, whoever asks and whenever they die: all the
\* keys ever returned are the same one, and it is the one a power loss leaves
\* in the directory, whole.  An operator's swap ends the comparison, and so
\* does the loss of a directory nobody synced (load_or_create_identity).
IdentityIsStable ==
    /\ kept.whole
    /\ swaps = 0 /\ ~dirLost => handed \subseteq {kept.key}

-----------------------------------------------------------------------------
(***************************************************************************)
(* How one iroh endpoint is configured, bound and asked about itself:       *)
(* fabric-iroh/src/iroh_runtime.rs (the builder's calls one by one, the     *)
(* raw bind of tests and benchmarks, bind_endpoint_with_secret, the         *)
(* handle's queries) and the address adapter of iroh_node_lookup.rs.        *)
(*                                                                          *)
(* A custom relay map is shared with whoever made it, who may change it at  *)
(* any moment.  What happens to the endpoint after it is bound is           *)
(* IrohRuntime's.                                                           *)
(***************************************************************************)

CONSTANTS
    BindProfiles,         \* the endpoint profiles a caller may ask for
    Alpns,            \* protocol identifiers; "" is the empty one
    Relays,           \* relays a custom map may hold
    MaxCalls,         \* bound on the builder's optional calls
    MaxAliasChanges   \* bound on changes of the shared map

VARIABLES
    relayMap,   \* the caller's custom relay map
    aliased,    \* how often it was changed
    builder,    \* the builder, and where it is
    bound,      \* the bound endpoint
    heard       \* the last answer about the endpoint

bindingVars == <<relayMap, aliased, builder, bound, heard>>

NoBuilder == [at |-> "none", profile |-> CHOOSE p \in BindProfiles : TRUE, persistent |-> FALSE,
              relay |-> "off", lookup |-> "off", publish |-> "off", protocols |-> {},
              deadlines |-> {}, calls |-> 0]
NoEndpoint == [up |-> FALSE, raw |-> FALSE, sockets |-> {}, shared |-> FALSE, relays |-> {}, lookup |-> "off",
               relayEnabled |-> FALSE, services |-> 0, nodeLookup |-> FALSE]
Unasked == [kind |-> "none", names |-> {}]

BindingInit ==
    /\ relayMap \in SUBSET Relays /\ aliased = 0
    /\ builder = NoBuilder /\ bound = NoEndpoint /\ heard = Unasked

-----------------------------------------------------------------------------
(* Capabilities                                                            *)

\* EndpointScope and the sockets bind_endpoint_with_secret asks for; a LAN
\* profile names its own addresses.
SocketsOf(p) ==
    CASE p.scope = "offline" -> {"loopback4", "loopback6"}
      [] p.scope = "lan"     -> {p.v4, p.v6} \ {"none"}
      [] p.scope = "global"  -> {"any4", "any6"}

\* EndpointProfile::same_configuration.
same_configuration(p, q) ==
    /\ p.scope = q.scope /\ p.port = q.port
    /\ p.scope = "lan" => p.v4 = q.v4 /\ p.v6 = q.v6

\* RelayMode::relay_map: only a custom map is the caller's own.
RelayMapOf(mode) == CASE mode = "custom"  -> relayMap
                      [] mode = "default" -> {"n0"}
                      [] OTHER            -> {}

\* validate_relay_capability.
RelayOk(mode) == mode = "off" \/ RelayMapOf(mode) # {}

\* The endpoint gets a map of its own, and none that is empty.
snapshot_relay_capability(mode) ==
    [ok |-> RelayOk(mode), shared |-> FALSE, relays |-> RelayMapOf(mode)]

\* IrohRuntimeBuilder::new.
NewRefuses(p, relay, lookup) ==
    \/ p.scope = "lan" /\ (p.v4 \in {"any4", "multicast4", "broadcast4"}
                           \/ p.v6 \in {"any6", "multicast6", "linklocal6"})
    \/ p.scope = "offline" /\ (relay # "off" \/ lookup # "off")
    \/ ~RelayOk(relay)

\* IrohRuntimeBuilder::node_publication; where names what is published.
PublicationRefuses(where) ==
    \/ builder.profile.scope = "offline" \/ ~builder.persistent
    \/ where = "relay" /\ builder.relay = "off"

-----------------------------------------------------------------------------
(* The builder                                                             *)

New(p, persistent, relay, lookup) ==
    /\ builder.at = "none"
    /\ builder' = IF NewRefuses(p, relay, lookup) THEN [NoBuilder EXCEPT !.at = "configuration"]
                  ELSE [NoBuilder EXCEPT !.at = "building", !.profile = p, !.persistent = persistent,
                                         !.relay = relay, !.lookup = lookup]
    /\ UNCHANGED <<relayMap, aliased, bound, heard>>

\* A call consumes the builder and gives it back, unless it refuses.
Call(refusal, next) ==
    /\ builder.at = "building" /\ builder.calls < MaxCalls
    /\ builder' = IF refusal # "none" THEN [NoBuilder EXCEPT !.at = refusal]
                  ELSE [next EXCEPT !.calls = @ + 1]
    /\ UNCHANGED <<relayMap, aliased, bound, heard>>

ChoosePublication(where) ==
    Call(IF PublicationRefuses(where) THEN "configuration" ELSE "none",
         [builder EXCEPT !.publish = where])

\* accept: no empty and no second registration of a protocol.
Accept(alpn) ==
    Call(IF alpn = "" THEN "configuration" ELSE IF alpn \in builder.protocols THEN "duplicate" ELSE "none",
         [builder EXCEPT !.protocols = @ \cup {alpn}])

\* shutdown_deadline: positive.
ShutdownDeadline(positive) ==
    Call(IF positive THEN "none" ELSE "configuration", [builder EXCEPT !.deadlines = @ \cup {"shutdown"}])

\* publication_startup_deadline: not yet elapsed.
StartupDeadline(ahead) ==
    Call(IF ahead THEN "none" ELSE "configuration", [builder EXCEPT !.deadlines = @ \cup {"startup"}])

\* The owner of the custom map changes it.
AliasChanges ==
    /\ aliased < MaxAliasChanges /\ aliased' = aliased + 1
    /\ relayMap' \in SUBSET Relays \ {relayMap}
    /\ UNCHANGED <<builder, bound, heard>>

-----------------------------------------------------------------------------
(* Binding                                                                 *)

\* bind_endpoint_with_secret: the sockets of the scope, the snapshot's relays
\* and one lookup; the operating system has the last word.
BindEndpoint(p, relay, lookup, raw) ==
    LET taken == snapshot_relay_capability(relay) IN
    IF ~taken.ok THEN /\ builder' = [NoBuilder EXCEPT !.at = "configuration"]
                      /\ UNCHANGED bound
    ELSE \/ /\ builder' = [NoBuilder EXCEPT !.at = "bind"] /\ UNCHANGED bound
         \/ /\ SocketsOf(p) \cap {"multicast4", "broadcast4", "multicast6", "linklocal6"} = {}
            /\ bound' = [up |-> TRUE, raw |-> raw, sockets |-> SocketsOf(p), shared |-> taken.shared,
                         relays |-> taken.relays, lookup |-> lookup,
                         relayEnabled |-> relay # "off",
                         services |-> IF lookup = "off" THEN 0 ELSE 1,
                         nodeLookup |-> lookup = "pinned"]
            /\ builder' = [builder EXCEPT !.at = "spawned", !.profile = p]

\* spawn up to the endpoint: the identity and the pinned lookup may fail.
Spawn ==
    /\ builder.at = "building"
    /\ \/ /\ builder.persistent /\ builder' = [NoBuilder EXCEPT !.at = "identity"]
          /\ UNCHANGED bound
       \/ /\ builder.lookup = "pinned" /\ builder' = [NoBuilder EXCEPT !.at = "configuration"]
          /\ UNCHANGED bound
       \/ BindEndpoint(builder.profile, builder.relay, builder.lookup, FALSE)
    /\ UNCHANGED <<relayMap, aliased, heard>>

\* bind_endpoint, as tests and benchmarks call it: no builder, no owner, and
\* no pinned lookup.
BindRaw(p, relay, lookup) ==
    /\ builder.at = "none"
    /\ IF (p.scope = "offline" /\ (relay # "off" \/ lookup # "off")) \/ lookup = "pinned"
       THEN builder' = [NoBuilder EXCEPT !.at = "configuration"] /\ UNCHANGED bound
       ELSE BindEndpoint(p, relay, lookup, TRUE)
    /\ UNCHANGED <<relayMap, aliased, heard>>

\* The runtime drops its owner; handles are weak and answer Closed.
DropOwner ==
    /\ bound.up /\ bound' = NoEndpoint
    /\ builder' = [NoBuilder EXCEPT !.at = "closed"]
    /\ UNCHANGED <<relayMap, aliased, heard>>

-----------------------------------------------------------------------------
(* Questions                                                               *)

Hear(answer) == heard' = answer /\ UNCHANGED <<relayMap, aliased, builder, bound>>

\* bound_socket_addrs, and reachable_socket_addrs without the wildcards.
Concrete == bound.sockets \ {"any4", "any6"}

\* endpoint_addr.
AskAddress ==
    /\ builder.at \in {"spawned", "closed"}
    /\ Hear(IF ~bound.up THEN [Unasked EXCEPT !.kind = "closed"]
            ELSE IF Concrete = {} THEN [Unasked EXCEPT !.kind = "bind"]
            ELSE [kind |-> "address", names |-> Concrete])

\* NodeLookupResult::endpoint_addr: all candidates, or none if one relay URL
\* is not one iroh accepts.
ResultAddress(candidates) ==
    IF "unparsable" \in candidates THEN [Unasked EXCEPT !.kind = "failed"]
    ELSE [kind |-> "item", names |-> candidates]

\* resolve_registered_node_lookup through the registered adapter: a lookup in
\* memory knows nobody.
AskRegistered(valid, candidates) ==
    /\ builder.at \in {"spawned", "closed"} /\ ~bound.raw
    /\ \/ Hear(IF ~bound.up THEN [Unasked EXCEPT !.kind = "closed"]
               ELSE IF ~valid \/ bound.lookup # "pinned" THEN [Unasked EXCEPT !.kind = "failed"]
               ELSE ResultAddress(candidates))
       \/ bound.up /\ Hear([Unasked EXCEPT !.kind = "failed"])

-----------------------------------------------------------------------------
Relaying == {"off", "disabled", "default", "custom"}
Lookups == {"off", "memory", "pinned"}
Candidates == {{"direct"}, {"direct", "relay"}, {"direct", "unparsable"}}

BindingNext ==
    \/ \E p \in BindProfiles, relay \in Relaying, lookup \in Lookups :
          \/ \E persistent \in BOOLEAN : New(p, persistent, relay, lookup)
          \/ BindRaw(p, relay, lookup)
    \/ \E where \in {"direct", "relay"} : ChoosePublication(where)
    \/ \E alpn \in Alpns : Accept(alpn)
    \/ \E given \in BOOLEAN : ShutdownDeadline(given) \/ StartupDeadline(given)
    \/ AliasChanges \/ Spawn \/ DropOwner \/ AskAddress
    \/ \E valid \in BOOLEAN, c \in Candidates : AskRegistered(valid, c)

BindingSpec == BindingInit /\ [][BindingNext]_bindingVars

-----------------------------------------------------------------------------
\* The relays the endpoint may contact now.
Recipients == IF bound.shared THEN relayMap ELSE bound.relays

\* A bound endpoint contacts what its builder was given and reports: relays
\* exactly when the capability state says so, whatever the owner of the map
\* has done to it since any of the checks; no relay, lookup or foreign socket
\* in the hermetic scope; a relay location published only where a relay is
\* used, and only by a node with a lasting identity; an address told to others
\* names no wildcard.  BindProfiles that compare equal bind the same sockets.
EndpointIsAsChosen ==
    /\ bound.up =>
          /\ bound.relayEnabled <=> Recipients # {}
          /\ bound.nodeLookup <=> bound.lookup = "pinned"
          /\ builder.profile.scope = "offline" =>
                Recipients = {} /\ bound.services = 0 /\ builder.publish = "off"
          /\ ~bound.raw /\ builder.profile.scope = "lan" =>
                bound.sockets \subseteq {"loopback4", "loopback6", "unicast4", "unicast6"}
          /\ builder.publish # "off" => builder.persistent /\ ~bound.raw
          /\ builder.publish = "relay" => Recipients # {}
          /\ "" \notin builder.protocols
          /\ \A q \in BindProfiles : same_configuration(builder.profile, q) => SocketsOf(q) = bound.sockets
    /\ heard.kind = "address" => heard.names # {} /\ heard.names \cap {"any4", "any6"} = {}
    /\ heard.names \cap {"unparsable"} = {}
=============================================================================
