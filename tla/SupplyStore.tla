---------------------------- MODULE SupplyStore -----------------------------
(***************************************************************************)
(* The availability state of a node at rest: the file the index is saved   *)
(* in, and the production of the supply that fills it.                     *)
(***************************************************************************)
EXTENDS Naturals, Sequences, FiniteSets

(***************************************************************************)
(* The availability index on disk: StoredValue and JsonFileStore of         *)
(* daemon-core/src/availability.rs, and open, which loads it.               *)
(*                                                                          *)
(* save writes and syncs a sibling, renames it over the file and syncs the  *)
(* directory.  Any of these calls may fail; the power may go at any moment, *)
(* which tears bytes not yet synced and may undo a rename not yet synced.   *)
(* Between two runs of the node somebody may edit the file.                 *)
(***************************************************************************)

CONSTANTS
    IndexKeys,    \* NarHash keys
    IndexPaths,   \* store paths
    Utf8Paths,    \* those that are valid UTF-8
    MaxBindings,  \* bound on changes of the registrations
    MaxMishaps    \* bound on failed calls, power losses and edits

ASSUME IndexFileAssumption == Utf8Paths \subseteq IndexPaths /\ Utf8Paths # {}

VARIABLES
    held,      \* the registrations in memory
    saving,    \* the call that runs: where save is, and the text it writes
    onDisk,    \* the file as processes see it
    durable,   \* the file as it would be after a power loss
    acked,     \* the registrations of the last save that returned Ok
    begun,     \* those of the saves since that did not
    edits,     \* what was done to the file by hand since it was saved
    bindings, mishaps

indexVars == <<held, saving, onDisk, durable, acked, begun, edits, bindings, mishaps>>

\* A registration: no path is no registration.
Unbound == [path |-> "none", derived |-> FALSE]
Registration == {Unbound} \cup [path : IndexPaths, derived : BOOLEAN]
Nothing == [k \in IndexKeys |-> Unbound]

-----------------------------------------------------------------------------
(* The text                                                                *)

\* StoredValue: a bare path, or an object with the derived digest and size.
\* key, fields and extra are as written, or damaged.
NoValue == [shape |-> "none", path |-> "none", key |-> "canonical", fields |-> "good", extra |-> FALSE]

\* serialize.
Serialize(r) == [NoValue EXCEPT !.shape = IF r = Unbound THEN "none" ELSE IF r.derived THEN "object" ELSE "string",
                                !.path = r.path]

\* deserialize: the visitor takes a string or an object with all its fields,
\* and ignores fields it does not know.
ValueOk(v) == v.shape \in {"none", "string"} \/ (v.shape = "object" /\ v.fields = "good")

NoIndexFile == [kind |-> "absent", values |-> [k \in IndexKeys |-> NoValue], synced |-> TRUE]
Torn == [NoIndexFile EXCEPT !.kind = "torn"]
Text(regs) == [kind |-> "json", values |-> [k \in IndexKeys |-> Serialize(regs[k])], synced |-> FALSE]

\* load: no file is an empty index; one bad value or key fails it whole.
Load(f) ==
    IF f.kind = "absent" THEN [ok |-> TRUE, regs |-> Nothing]
    ELSE IF f.kind = "torn" \/ \E k \in IndexKeys : ~ValueOk(f.values[k]) \/ f.values[k].key # "canonical"
    THEN [ok |-> FALSE, regs |-> Nothing]
    ELSE [ok |-> TRUE,
          regs |-> [k \in IndexKeys |-> [path |-> f.values[k].path, derived |-> f.values[k].shape = "object"]]]

-----------------------------------------------------------------------------
NoSave == [at |-> "idle", regs |-> Nothing, temp |-> NoIndexFile]
Down == [NoSave EXCEPT !.at = "down"]

\* The first start, or one after an older node, which wrote only paths.
IndexInit ==
    /\ \E r \in Registration : /\ r.path = "none" \/ (r.path \in Utf8Paths /\ ~r.derived)
                               /\ acked = [Nothing EXCEPT ![CHOOSE k \in IndexKeys : TRUE] = r]
    /\ held = Nothing /\ saving = Down /\ begun = {} /\ edits = {}
    /\ onDisk = IF acked = Nothing THEN NoIndexFile ELSE [Text(acked) EXCEPT !.synced = TRUE]
    /\ durable = onDisk
    /\ bindings = 0 /\ mishaps = 0

\* AvailabilityIndex::open: a file that cannot be read is an error and stays.
Open ==
    /\ saving.at = "down"
    /\ Load(onDisk).ok
    /\ held' = Load(onDisk).regs /\ saving' = NoSave
    /\ UNCHANGED <<onDisk, durable, acked, begun, edits, bindings, mishaps>>

\* A registration is bound, derived or dropped, and the whole set is saved;
\* a path that is not UTF-8 fails the save before it touches the disk.
Change(k, r) ==
    /\ saving.at = "idle" /\ bindings < MaxBindings /\ r # held[k]
    /\ bindings' = bindings + 1
    /\ held' = [held EXCEPT ![k] = r]
    /\ IF \E j \in IndexKeys : held'[j].path \notin Utf8Paths \cup {"none"}
       THEN UNCHANGED <<saving, begun>>
       ELSE saving' = [at |-> "create", regs |-> held', temp |-> NoIndexFile] /\ begun' = begun \cup {held'}
    /\ UNCHANGED <<onDisk, durable, acked, edits, mishaps>>

\* The calls of save, in order.
WriteTemp ==
    /\ saving.at = "create"
    /\ saving' = [saving EXCEPT !.at = "sync", !.temp = Text(saving.regs)]
    /\ UNCHANGED <<held, onDisk, durable, acked, begun, edits, bindings, mishaps>>

\* Mutant of SyncTemp: the sibling is renamed without being synced.
SyncTempSkipped ==
    /\ saving.at = "sync"
    /\ saving' = [saving EXCEPT !.at = "rename"]
    /\ UNCHANGED <<held, onDisk, durable, acked, begun, edits, bindings, mishaps>>

SyncTemp ==
    /\ saving.at = "sync"
    /\ saving' = [saving EXCEPT !.at = "rename", !.temp.synced = TRUE]
    /\ UNCHANGED <<held, onDisk, durable, acked, begun, edits, bindings, mishaps>>

RenameTemp ==
    /\ saving.at = "rename"
    /\ onDisk' = saving.temp
    /\ saving' = [saving EXCEPT !.at = "settle"]
    /\ UNCHANGED <<held, durable, acked, begun, edits, bindings, mishaps>>

SyncIndexDirectory ==
    /\ saving.at = "settle"
    /\ durable' = onDisk /\ acked' = saving.regs /\ begun' = {} /\ edits' = {} /\ saving' = NoSave
    /\ UNCHANGED <<held, onDisk, bindings, mishaps>>

\* A call of save fails and save returns; a sibling may stay behind.
SaveFails ==
    /\ saving.at \notin {"idle", "down"} /\ mishaps < MaxMishaps /\ mishaps' = mishaps + 1
    /\ saving' = NoSave
    /\ UNCHANGED <<held, onDisk, durable, acked, begun, edits, bindings>>

\* The process ends: a crash keeps what was written, a power loss only what
\* was synced.
Lost(f) == IF f.synced THEN f ELSE Torn

Crash ==
    /\ saving.at # "down" /\ mishaps < MaxMishaps /\ mishaps' = mishaps + 1
    /\ saving' = Down /\ held' = Nothing
    /\ \/ UNCHANGED <<onDisk, durable>>
       \/ \E f \in {durable, onDisk} : onDisk' = Lost(f) /\ durable' = Lost(f)
    /\ UNCHANGED <<acked, begun, edits, bindings>>

\* While the node is down the file is rewritten: by an older node that keeps
\* only the path, by a newer one that adds a field, or badly.
Edited(v, how) ==
    CASE how = "legacy" -> [v EXCEPT !.shape = "string"]
      [] how = "newer"  -> [v EXCEPT !.extra = TRUE]
      [] how = "digest" -> [v EXCEPT !.fields = "bad"]
      [] how = "key"    -> [v EXCEPT !.key = "other"]
      [] how = "shape"  -> [v EXCEPT !.shape = "number"]

Edit(k, how) ==
    /\ saving.at = "down" /\ onDisk.kind = "json" /\ mishaps < MaxMishaps /\ mishaps' = mishaps + 1
    /\ onDisk.values[k].shape # "none" /\ how \in {"newer", "digest"} => onDisk.values[k].shape = "object"
    /\ onDisk' = [onDisk EXCEPT !.values[k] = Edited(@, how), !.synced = TRUE] /\ durable' = onDisk'
    /\ edits' = edits \cup {how}
    /\ UNCHANGED <<held, saving, acked, begun, bindings>>

IndexNext ==
    \/ Open \/ WriteTemp \/ SyncTemp \/ RenameTemp \/ SyncIndexDirectory \/ SaveFails \/ Crash
    \/ \E k \in IndexKeys : \/ \E r \in Registration : Change(k, r)
                            \/ \E how \in {"legacy", "newer", "digest", "key", "shape"} : Edit(k, how)

IndexSpec == IndexInit /\ [][IndexNext]_indexVars

-----------------------------------------------------------------------------
\* Whatever a loaded set may be: the last acknowledged one or a later one.
Possible == {acked} \cup begun

\* A node that comes back holds a set of registrations it once saved, and none
\* older than the last save that succeeded, whichever call failed or lost
\* power: never an empty or a mixed one.  A file written by an older node or a
\* newer one loads with every path, a derived digest never appears that was
\* not saved, and a damaged file refuses the start instead of losing a
\* registration (JsonFileStore::save and load, StoredValue).
IndexSurvives ==
    saving.at = "down" =>
        LET now == Load(onDisk)
            Harm == {"digest", "key", "shape"}
        IN  /\ edits = {} => now.ok /\ now.regs \in Possible
            /\ edits \cap Harm = {} => now.ok
            /\ now.ok => \E regs \in Possible : \A k \in IndexKeys :
                  /\ now.regs[k].path = regs[k].path
                  /\ now.regs[k].derived => regs[k].derived

-----------------------------------------------------------------------------
(***************************************************************************)
(* From a digest to the bytes of a NAR: the supply catalog                   *)
(* (daemon-core/src/supply_catalog.rs), the suppliers that plan from it      *)
(* (fabric-libp2p/src/nar.rs, fabric-iroh/src/transport_iroh.rs), the three  *)
(* dumpers (daemon-core/src/availability.rs) and the helper process that     *)
(* copies a regular file.  Holders publish and retire their registration     *)
(* while digests are being supplied, and files change meanwhile.             *)
(*                                                                          *)
(* A NAR is a sequence of chunks and its own digest.  A file that is written *)
(* in place is seen by whoever has it open; a deleted one is still read.     *)
(* Which NAR a holder derived is AvailabilityIndex's; here it publishes what *)
(* its path held at some time.                                               *)
(***************************************************************************)

CONSTANTS Registrations,   \* numbered in the order of registration
          StorePaths, Dumps,    \* paths, and the NARs they may hold
          Dumpers,              \* of "command", "memory", and regular files that the
                                \* composite's helper ("copy") or the thin one ("thin") reads
          MaxFileChanges, MaxPublishes

ASSUME SupplyAssumption == Registrations \subseteq Nat /\ MaxPublishes \in Nat

VARIABLES dumper,    \* the index's dumper
          files,     \* files[p]: what is at a path
          owners,    \* owners[r]: the digest it has published, or Unowned, or NeverOwned
          records,   \* records[d]: the records of its owners
          holder,    \* holder[r]: its SupplyRegistration and what it is doing
          supply,    \* the one supply under way
          child,     \* its process
          changed

supplyVars == <<dumper, files, owners, records, holder, supply, child, changed>>

(* Values of a digest's shape that no NAR has.                               *)
NeverOwned == <<98>>
Unowned == <<99>>
NoRecord == [path |-> "none", size |-> 0, bytes |-> <<>>]
NoSupply == [at |-> "idle", kind |-> "none", asked |-> <<>>, record |-> NoRecord, cancelled |-> FALSE,
         bytes |-> <<>>, result |-> "none", held |-> Unowned]
NoChild == [at |-> "none", bytes |-> <<>>, size |-> 0, ok |-> FALSE, held |-> Unowned]

-----------------------------------------------------------------------------
(* The catalog.                                                            *)

(* remove_record.                                                          *)
Without(recs, d, r) ==
    IF d = Unowned \/ d = NeverOwned THEN recs ELSE [recs EXCEPT ![d][r] = NoRecord]

Owning(d) == {r \in Registrations : records[d][r] # NoRecord}

(* probe_record: the oldest owner's record, if its path is still there.    *)
Probe(d) ==
    LET first == CHOOSE r \in Owning(d) : \A q \in Owning(d) : r <= q
    IN  IF Owning(d) = {} \/ files[records[d][first].path].kind = "missing"
        THEN NoRecord ELSE records[d][first]

(* SupplyCatalog::register.                                                *)
RegisterHolder(r) ==
    /\ holder[r].at = "new"
    /\ \A q \in Registrations : q < r => holder[q].at # "new"
    /\ holder' = [holder EXCEPT ![r].at = "live"]
    /\ owners' = [owners EXCEPT ![r] = Unowned]
    /\ UNCHANGED <<dumper, files, records, supply, child, changed>>

(* publish: what is published was derived from the path before, and the     *)
(* registration is looked at before the lock and again under it.            *)
PublishBegins(r) ==
    /\ holder[r].at = "live" /\ holder[r].publishing = Unowned /\ holder[r].published < MaxPublishes
    /\ \E p \in StorePaths :
          /\ files[p].kind = "regular"
          /\ holder' = [holder EXCEPT ![r].publishing = files[p].bytes, ![r].path = p,
                                      ![r].published = @ + 1]
    /\ UNCHANGED <<dumper, files, owners, records, supply, child, changed>>

PublishCommits(r) ==
    LET d == holder[r].publishing
        goes == owners[r] # NeverOwned /\ ~holder[r].retired
    IN  /\ d # Unowned
        /\ holder' = [holder EXCEPT ![r].publishing = Unowned]
        /\ records' = IF goes
                      THEN [Without(records, owners[r], r)
                              EXCEPT ![d][r] = [path |-> holder[r].path, size |-> Len(d), bytes |-> d]]
                      ELSE records
        /\ owners' = IF goes THEN [owners EXCEPT ![r] = d] ELSE owners
        /\ UNCHANGED <<dumper, files, supply, child, changed>>

(* retire: the flag first, then the lock.                                  *)
RetireFlags(r) ==
    /\ holder[r].at = "live"
    /\ holder' = [holder EXCEPT ![r].at = "retiring", ![r].retired = TRUE]
    /\ UNCHANGED <<dumper, files, owners, records, supply, child, changed>>

RetireRemoves(r) ==
    /\ holder[r].at = "retiring"
    /\ holder' = [holder EXCEPT ![r].at = "retired"]
    /\ records' = Without(records, owners[r], r)
    /\ owners' = [owners EXCEPT ![r] = NeverOwned]
    /\ UNCHANGED <<dumper, files, supply, child, changed>>

-----------------------------------------------------------------------------
(* The files.                                                              *)

(* What a reader with the file open reads.                                 *)
Seen(pinned, p) == IF pinned = Unowned THEN files[p].bytes ELSE pinned

Kept(x) == IF x.at = "read" /\ x.held = Unowned
           THEN [x EXCEPT !.held = files[supply.record.path].bytes] ELSE x

FileChanges(p) ==
    /\ changed < MaxFileChanges
    /\ changed' = changed + 1
    /\ \/ /\ files[p].kind = "regular"
          /\ \E b \in Dumps \ {files[p].bytes} : files' = [files EXCEPT ![p].bytes = b]
          /\ UNCHANGED <<supply, child>>
       \/ /\ \E k \in {"missing", "special"} : files' = [files EXCEPT ![p] = [kind |-> k, bytes |-> <<>>]]
          /\ IF supply.record.path = p
             THEN supply' = Kept(supply) /\ child' = Kept(child)
             ELSE UNCHANGED <<supply, child>>
    /\ UNCHANGED <<dumper, owners, records, holder>>

-----------------------------------------------------------------------------
(* A supply: its size is asked of the catalog ("size") or of the dumper      *)
(* ("measure"), its bytes are wanted in the process ("raw"), or it is        *)
(* planned for a peer ("serve").                                             *)
OfFile == dumper \in {"copy", "thin"}
SupplyGoes(s) == supply' = s /\ UNCHANGED <<dumper, files, owners, records, holder, changed>>
Ended(result) == [supply EXCEPT !.at = "done", !.result = result]

SupplyBegins ==
    /\ supply.at = "idle"
    /\ \E d \in Dumps, k \in {"size", "raw", "serve"} :
          SupplyGoes([NoSupply EXCEPT !.at = "probe", !.kind = k, !.asked = d])
    /\ UNCHANGED child

MeasureBegins ==
    /\ supply.at = "idle"
    /\ \E p \in StorePaths :
          SupplyGoes([NoSupply EXCEPT !.at = "source", !.kind = "measure", !.record.path = p])
    /\ UNCHANGED child

Cancelled ==
    /\ supply.at \notin {"idle", "done"} /\ ~supply.cancelled
    /\ SupplyGoes([supply EXCEPT !.cancelled = TRUE])
    /\ UNCHANGED child

(* The catalog is asked; supply_size_cancellable needs no more than the     *)
(* record and its path.                                                     *)
SupplyProbes ==
    /\ supply.at = "probe"
    /\ LET record == Probe(supply.asked)
       IN  SupplyGoes(IF supply.cancelled /\ supply.kind # "serve" THEN Ended("cancelled")
                      ELSE IF record = NoRecord
                      THEN Ended(IF supply.kind = "raw" THEN "error" ELSE "nothing")
                      ELSE [supply EXCEPT !.at = IF supply.kind = "size" THEN "stat" ELSE "source",
                                          !.record = record])
    /\ UNCHANGED child

SizeAnswered ==
    /\ supply.at = "stat"
    /\ SupplyGoes(IF files[supply.record.path].kind = "missing" THEN Ended("nothing")
                  ELSE IF supply.cancelled THEN Ended("cancelled") ELSE Ended("size"))
    /\ UNCHANGED child

(* production_source, CatalogNarSupplier::plan and IndexNarSupplier::plan:   *)
(* a regular file is copied by a helper process, and so is never read here. *)
ByProcess == dumper = "command" \/ (OfFile /\ supply.kind = "serve")

(* NarSupplyPlan::produce.                                                 *)
ProduceRefuses(record) == Len(record.bytes) # record.size

(* MemoryNarDumper::dump and nar_size.                                     *)
SupplyFromMemory ==
    /\ supply.at = "source" /\ dumper = "memory"
    /\ SupplyGoes(IF supply.cancelled /\ supply.kind # "serve" THEN Ended("cancelled")
                  ELSE IF supply.kind = "measure" THEN Ended("measured")
                  ELSE IF supply.kind = "serve" /\ ProduceRefuses(supply.record) THEN Ended("error")
                  ELSE [supply EXCEPT !.at = "check", !.bytes = supply.record.bytes])
    /\ UNCHANGED child

(* RegularFileNarDumper::nar_size and dump: open without following, then    *)
(* stat or chunks.                                                          *)
SupplyMeasures ==
    /\ supply.at = "source" /\ OfFile /\ supply.kind = "measure"
    /\ SupplyGoes(IF supply.cancelled THEN Ended("cancelled")
                  ELSE Ended(IF files[supply.record.path].kind = "regular" THEN "measured" ELSE "error"))
    /\ UNCHANGED child

SupplyOpens ==
    /\ supply.at = "source" /\ OfFile /\ supply.kind = "raw"
    /\ SupplyGoes(IF supply.cancelled THEN Ended("cancelled")
                  ELSE IF files[supply.record.path].kind = "regular"
                  THEN [supply EXCEPT !.at = "read"] ELSE Ended("error"))
    /\ UNCHANGED child

More(have, all) == Len(have) < Len(all)

SupplyReads ==
    /\ supply.at = "read"
    /\ LET all == Seen(supply.held, supply.record.path)
       IN  SupplyGoes(IF supply.cancelled THEN Ended("cancelled")
                      ELSE IF More(supply.bytes, all)
                      THEN [supply EXCEPT !.bytes = Append(@, all[Len(@) + 1])]
                      ELSE [supply EXCEPT !.at = "check"])
    /\ UNCHANGED child

(* CommandNarDumper::dump and nar_size, or the supervised process of a serve. *)
SupplySpawns ==
    /\ supply.at = "source" /\ ByProcess
    /\ IF supply.cancelled THEN SupplyGoes(Ended("cancelled")) /\ UNCHANGED child
       ELSE \/ SupplyGoes(Ended("error")) /\ UNCHANGED child
            \/ /\ SupplyGoes([supply EXCEPT !.at = "await"])
               /\ child' = [NoChild EXCEPT !.at = "open"]

(* The exit status, and for a size its first word as a number.             *)
Taken == IF ~child.ok THEN Ended("error")
         ELSE IF supply.kind = "measure" THEN Ended("measured")
         ELSE [supply EXCEPT !.at = "check", !.bytes = child.bytes]

(* The loop: cancelled, the group is killed and waited for; else its result. *)
SupplyAwaits ==
    /\ supply.at = "await"
    /\ \/ supply.cancelled /\ SupplyGoes(Ended("cancelled")) /\ child' = NoChild
       \/ /\ ~supply.cancelled /\ child.at = "exited"
          /\ child' = NoChild
          /\ SupplyGoes(Taken)

(* supply_raw_nar_cancellable hashes what was dumped; a serve verifies      *)
(* before it emits a byte (Serving, IrohRuntime).                         *)
SupplyChecks ==
    /\ supply.at = "check"
    /\ SupplyGoes(IF supply.cancelled THEN Ended("cancelled")
                  ELSE IF supply.bytes = supply.asked THEN Ended("supplied") ELSE Ended("error"))
    /\ UNCHANGED child

-----------------------------------------------------------------------------
(* The process: nix-store --dump, or the helper with open_regular_raw_nar.  *)
ChildGoes(c) == child' = c /\ UNCHANGED <<dumper, files, owners, records, holder, supply, changed>>
Exit(ok) == [child EXCEPT !.at = "exited", !.ok = ok]

ChildOpens ==
    /\ child.at = "open"
    /\ LET f == files[supply.record.path]
       IN  /\ supply.kind # "measure"
           /\ ChildGoes(IF f.kind = "missing" \/ (f.kind # "regular" /\ OfFile) THEN Exit(FALSE)
                        ELSE [child EXCEPT !.at = "read", !.size = Len(f.bytes)])

(* nix-store --query --size knows the path from its database.              *)
ChildAnswersSize ==
    /\ child.at = "open" /\ supply.kind = "measure"
    /\ \E ok \in BOOLEAN : ChildGoes(Exit(ok))

(* stdout is capped at the declared size for a serve, and not for a dump.  *)
ChildReads ==
    /\ child.at = "read"
    /\ LET all == Seen(child.held, supply.record.path)
       IN  /\ More(child.bytes, all)
           /\ ChildGoes(IF supply.kind = "serve" /\ Len(child.bytes) = supply.record.size
                        THEN Exit(FALSE)
                        ELSE [child EXCEPT !.bytes = Append(@, all[Len(@) + 1])])

(* copy_regular_raw_nar compares what it copied with what stat had said;    *)
(* run_raw_nar_helper does not, and any of them may fail.                   *)
ChildEnds ==
    /\ child.at = "read"
    /\ ~More(child.bytes, Seen(child.held, supply.record.path))
    /\ \/ ChildGoes(Exit(dumper # "copy" \/ Len(child.bytes) = child.size))
       \/ ChildGoes(Exit(FALSE))

-----------------------------------------------------------------------------
SupplyInit ==
    /\ dumper \in Dumpers
    /\ files \in [StorePaths -> {[kind |-> "regular", bytes |-> d] : d \in Dumps}]
    /\ owners = [r \in Registrations |-> NeverOwned]
    /\ records = [d \in Dumps |-> [r \in Registrations |-> NoRecord]]
    /\ holder = [r \in Registrations |-> [at |-> "new", retired |-> FALSE, publishing |-> Unowned,
                                          path |-> "none", published |-> 0]]
    /\ supply = NoSupply /\ child = NoChild /\ changed = 0

CatalogNext ==
    \E r \in Registrations : RegisterHolder(r) \/ PublishBegins(r) \/ PublishCommits(r)
                             \/ RetireFlags(r) \/ RetireRemoves(r)

SupplyNext ==
    \/ CatalogNext \/ (\E p \in StorePaths : FileChanges(p))
    \/ SupplyBegins \/ MeasureBegins \/ Cancelled \/ SupplyProbes \/ SizeAnswered
    \/ SupplyFromMemory \/ SupplyMeasures \/ SupplyOpens \/ SupplyReads \/ SupplySpawns
    \/ SupplyAwaits \/ SupplyChecks
    \/ ChildOpens \/ ChildAnswersSize \/ ChildReads \/ ChildEnds

SupplySpec == SupplyInit /\ [][SupplyNext]_supplyVars

-----------------------------------------------------------------------------
(* The catalog's two maps agree, and a registration that was retired has    *)
(* no record, however its retirement and a late publication interleave      *)
(* (SupplyCatalog::publish and retire).                                     *)
CatalogAgrees ==
    \A r \in Registrations :
        /\ \A d \in Dumps : records[d][r] # NoRecord <=> owners[r] = d
        /\ holder[r].at = "retired" => owners[r] = NeverOwned

(* What is supplied is the NAR that was asked for, in full, whatever        *)
(* happened to the file while it was read; and a supply that is over, even  *)
(* a cancelled one, has left no process behind (supply_raw_nar_cancellable, *)
(* CommandNarDumper::dump, NarSupplyPlan).                                  *)
SuppliedIsAsked ==
    /\ supply.result = "supplied" => supply.bytes = supply.asked /\ ~supply.cancelled
    /\ supply.at \in {"idle", "done"} => child.at = "none"
    /\ supply.result = "size" => supply.record.size = Len(supply.asked)
=============================================================================
