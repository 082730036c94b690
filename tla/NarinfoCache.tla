---------------------------- MODULE NarinfoCache -----------------------------
(***************************************************************************)
(* The narinfo disk cache (daemon-core/src/narinfo_cache.rs): one entry    *)
(* file per store hash, the Bookkeeping that counts, orders and correlates *)
(* the entries, and the sidecar index that mirrors it across restarts.     *)
(*                                                                         *)
(* Requests run concurrently.  Each touches the disk on blocking threads:  *)
(* only the bookkeeping is locked, so reading an entry, renaming a new one *)
(* into place and deleting the evicted ones are separate steps, and a file *)
(* and its record may disagree in between.  A directory change is durable  *)
(* once the directory has been fsynced; a crash may undo the others.       *)
(***************************************************************************)
EXTENDS Integers, FiniteSets

CONSTANTS
    Hashes,         \* store hashes; numbers, since ties are broken by hash
    Docs,           \* well-formed narinfo documents
    AnswersOf,      \* AnswersOf[h]: what the upstream may answer for h
    Tokens,
    TokenOf,        \* TokenOf[d]: the NAR token parse_correlation finds
    Requests,       \* fetches and correlations that may run at once
    MaxEntries,     \* max_entries
    PositiveTTL,
    NegativeTTL,
    MaxCacheTime,        \* bound: the clock stops here
    MaxFaults       \* bound: crashes, failed writes and corrupted files

CONSTANTS Absent, NoToken, NoFile, Corrupt, NoRecord, NoSidecar, NoHash

ASSUME CacheAssumption ==
    /\ Hashes \subseteq Nat
    /\ AnswersOf \in [Hashes -> SUBSET (Docs \cup {Absent})]
    /\ TokenOf \in [Docs -> Tokens \cup {NoToken}]
    /\ MaxEntries \in Nat \ {0}
    /\ {PositiveTTL, NegativeTTL, MaxCacheTime, MaxFaults} \subseteq Nat
    /\ Absent \notin Docs /\ NoToken \notin Tokens /\ NoHash \notin Hashes

VARIABLES
    cacheNow,
    files,      \* the .nic files
    synced,     \* the .nic files as of the last fsync of the directory
    sidecar,    \* the records of the index file, or NoSidecar
    records,    \* Bookkeeping.records, and with them Bookkeeping.lru
    index,      \* Bookkeeping.token_index
    req,        \* the state of each request
    faults,
    stale,      \* history: the last sidecar write failed
    deleted,    \* history: hashes whose file was deleted or damaged since
                \* it was last renamed into place
    orphans,    \* history: files a restart found in no record
    unlinked    \* history: tokens lost with a record that shared them

cacheBook == <<records, index>>
cacheDisk == <<files, synced, sidecar>>
cacheHistory == <<stale, deleted, orphans, unlinked>>
cacheVars == <<cacheNow, cacheBook, cacheDisk, req, faults, cacheHistory>>

Time == 0..MaxCacheTime
Entries == [doc: Docs \cup {Absent}, at: Time]
Records == [at: Time, token: Tokens \cup {NoToken}]

Live(rs) == {h \in Hashes : rs[h] # NoRecord}
Present == {h \in Hashes : files[h] # NoFile}

(* Only a positive entry has a correlation.                                *)
DocToken(doc) == IF doc = Absent THEN NoToken ELSE TokenOf[doc]
RecordOf(entry) == [at |-> entry.at, token |-> DocToken(entry.doc)]

(* BTreeSet<(fetched_at, store_hash)>: its order.                          *)
Older(rs, g, h) == \/ rs[g].at < rs[h].at
                   \/ rs[g].at = rs[h].at /\ g < h

-----------------------------------------------------------------------------
(* Bookkeeping.  A book is a pair of the records and the token index.      *)

(* remove: the token is cleared only if it still points at h.              *)
RemoveRecord(b, h) ==
    [records |-> [b.records EXCEPT ![h] = NoRecord],
     index   |-> IF h \in Live(b.records) /\ b.records[h].token # NoToken
                    /\ b.index[b.records[h].token] = h
                 THEN [b.index EXCEPT ![b.records[h].token] = NoHash]
                 ELSE b.index]

Insert(b, h, record) ==
    [records |-> [b.records EXCEPT ![h] = record],
     index   |-> IF record.token = NoToken THEN b.index
                 ELSE [b.index EXCEPT ![record.token] = h]]

(* evict_over_cap: the oldest entries but `spare`, as many as exceed cap.  *)
Victims(rs, spare) ==
    LET candidates == Live(rs) \ spare
        excess == Cardinality(Live(rs)) - MaxEntries
    IN  {h \in candidates :
            Cardinality({g \in candidates : Older(rs, g, h)}) < excess}

(* The book after one remove per victim.                                   *)
Evict(b, victims) ==
    [records |-> [h \in Hashes |->
                    IF h \in victims THEN NoRecord ELSE b.records[h]],
     index   |-> [t \in Tokens |->
                    IF /\ b.index[t] \in victims
                       /\ b.records[b.index[t]].token = t
                    THEN NoHash ELSE b.index[t]]]

Bookkeeping == [records |-> records, index |-> index]

(* Tokens that lose their link although another record carries them.       *)
SharedLoss(b, gone) ==
    {t \in Tokens : /\ b.index[t] \in gone
                    /\ \E h \in Live(b.records) \ gone : b.records[h].token = t}

-----------------------------------------------------------------------------
NoWork == [pc |-> "idle"]
Ready(r) == req[r].pc \in {"idle", "found"}

CacheInit ==
    /\ cacheNow = 0
    /\ files = [h \in Hashes |-> NoFile]
    /\ synced = files
    /\ sidecar = [h \in Hashes |-> NoRecord]
    /\ records = [h \in Hashes |-> NoRecord]
    /\ index = [t \in Tokens |-> NoHash]
    /\ req = [r \in Requests |-> NoWork]
    /\ faults = 0
    /\ stale = FALSE
    /\ deleted = {}
    /\ orphans = {}
    /\ unlinked = {}

Goto(r, state) == req' = [req EXCEPT ![r] = state]

Fault == faults < MaxFaults /\ faults' = faults + 1

CacheTick ==
    /\ cacheNow < MaxCacheTime
    /\ cacheNow' = cacheNow + 1
    /\ UNCHANGED <<cacheBook, cacheDisk, req, faults, cacheHistory>>

-----------------------------------------------------------------------------
(* fetch_within.                                                           *)

Ttl(entry) == IF entry.doc = Absent THEN NegativeTTL ELSE PositiveTTL

(* read_fresh.  A corrupt file is removed by a later system call; an       *)
(* expired one stays, for the correlation.                                 *)
ReadFresh(r, h) ==
    /\ Ready(r)
    /\ LET file == files[h]
       IN  Goto(r, IF file = Corrupt THEN [pc |-> "discard", hash |-> h]
                   ELSE IF file = NoFile \/ cacheNow - file.at >= Ttl(file)
                   THEN [pc |-> "inner", hash |-> h]
                   ELSE NoWork)
    /\ UNCHANGED <<cacheNow, cacheBook, cacheDisk, faults, cacheHistory>>

Discard(r) ==
    /\ req[r].pc = "discard"
    /\ files' = [files EXCEPT ![req[r].hash] = NoFile]
    /\ deleted' = deleted \cup {req[r].hash}
    /\ orphans' = orphans \ {req[r].hash}
    /\ Goto(r, [pc |-> "inner", hash |-> req[r].hash])
    /\ UNCHANGED <<cacheNow, cacheBook, synced, sidecar, faults, stale, unlinked>>

(* The upstream fails, or answers with something that is not cached: a     *)
(* status other than 200 and 404, a body that is not well formed, or one   *)
(* the server will refuse.                                                 *)
InnerPasses(r) ==
    /\ req[r].pc = "inner"
    /\ Goto(r, NoWork)
    /\ UNCHANGED <<cacheNow, cacheBook, cacheDisk, faults, cacheHistory>>

(* A 404, or a cacheable 200, stamped once the body has been read.         *)
InnerAnswers(r, doc) ==
    /\ req[r].pc = "inner"
    /\ doc \in AnswersOf[req[r].hash]
    /\ Goto(r, [pc |-> "install", hash |-> req[r].hash,
                entry |-> [doc |-> doc, at |-> cacheNow]])
    /\ UNCHANGED <<cacheNow, cacheBook, cacheDisk, faults, cacheHistory>>

-----------------------------------------------------------------------------
(* install.                                                                *)

(* The temporary file is renamed into place and the directory fsynced.     *)
Rename(r) ==
    /\ req[r].pc = "install"
    /\ files' = [files EXCEPT ![req[r].hash] = req[r].entry]
    /\ synced' = files'
    /\ deleted' = deleted \ {req[r].hash}
    /\ Goto(r, [req[r] EXCEPT !.pc = "record"])
    /\ UNCHANGED <<cacheNow, cacheBook, sidecar, faults, stale, orphans, unlinked>>

(* Mutant: the entry is recorded although it was not installed.            *)
RenameFailsSilently(r) ==
    /\ req[r].pc = "install"
    /\ Fault
    /\ Goto(r, [req[r] EXCEPT !.pc = "record"])
    /\ UNCHANGED <<cacheNow, cacheBook, cacheDisk, cacheHistory>>

(* The temporary file cannot be written or renamed: nothing is installed.  *)
RenameFails(r) ==
    /\ req[r].pc = "install"
    /\ Fault
    /\ Goto(r, NoWork)
    /\ UNCHANGED <<cacheNow, cacheBook, cacheDisk, cacheHistory>>

(* write_sidecar_bytes, under the book's lock.                             *)
WriteSidecar(rs) ==
    \/ /\ sidecar' = rs /\ synced' = files /\ stale' = FALSE
       /\ UNCHANGED faults
    \/ /\ Fault /\ stale' = TRUE
       /\ UNCHANGED <<sidecar, synced>>

(* record_and_evict, up to the release of the lock.                        *)
RecordAndEvict(r) ==
    /\ req[r].pc = "record"
    /\ LET h == req[r].hash
           record == RecordOf(req[r].entry)
           removed == RemoveRecord(Bookkeeping, h)
           inserted == Insert(removed, h, record)
           victims == Victims(inserted.records, {h})
           b == Evict(inserted, victims)
       IN  /\ records' = b.records
           /\ index' = b.index
           /\ WriteSidecar(b.records)
           /\ unlinked' = {t \in unlinked \cup SharedLoss(Bookkeeping, {h})
                                 \cup SharedLoss(inserted, victims) :
                             b.index[t] = NoHash}
           /\ orphans' = orphans \ {h}
           /\ Goto(r, IF victims = {} THEN NoWork
                      ELSE [pc |-> "delete", victims |-> victims])
    /\ UNCHANGED <<cacheNow, files, deleted>>

(* delete_entry_files, after the lock: one file at a time.                 *)
DeleteVictim(r, h) ==
    /\ req[r].pc = "delete"
    /\ h \in req[r].victims
    /\ files' = [files EXCEPT ![h] = NoFile]
    /\ deleted' = deleted \cup {h}
    /\ orphans' = orphans \ {h}
    /\ Goto(r, IF req[r].victims = {h} THEN NoWork
               ELSE [req[r] EXCEPT !.victims = @ \ {h}])
    /\ UNCHANGED <<cacheNow, cacheBook, synced, sidecar, faults, stale, unlinked>>

-----------------------------------------------------------------------------
(* meta_for_token: the index names a hash, then its file is read again.    *)

Correlate(r, t) ==
    /\ Ready(r)
    /\ Goto(r, IF index[t] = NoHash THEN NoWork
               ELSE [pc |-> "correlate", hash |-> index[t], token |-> t])
    /\ UNCHANGED <<cacheNow, cacheBook, cacheDisk, faults, cacheHistory>>

(* Whether the file really carries the token that was asked for.           *)
Confirmed(file, t) ==
    /\ file \notin {NoFile, Corrupt}
    /\ file.doc # Absent
    /\ DocToken(file.doc) = t

CorrelateRead(r) ==
    /\ req[r].pc = "correlate"
    /\ LET file == files[req[r].hash]
           t == req[r].token
       IN  Goto(r, IF Confirmed(file, t)
                   THEN [pc |-> "found", token |-> t, doc |-> file.doc]
                   ELSE NoWork)
    /\ UNCHANGED <<cacheNow, cacheBook, cacheDisk, faults, cacheHistory>>

-----------------------------------------------------------------------------
(* Faults and restarts.                                                    *)

(* The disk damages an entry file.                                         *)
Rot(h) ==
    /\ Fault
    /\ h \in Present
    /\ files' = [files EXCEPT ![h] = Corrupt]
    /\ synced' = [synced EXCEPT ![h] = IF @ = NoFile THEN @ ELSE Corrupt]
    /\ deleted' = deleted \cup {h}
    /\ UNCHANGED <<cacheNow, cacheBook, sidecar, req, stale, orphans, unlinked>>

(* The sidecar is lost or unreadable.                                      *)
LoseSidecar ==
    /\ Fault
    /\ sidecar # NoSidecar
    /\ sidecar' = NoSidecar
    /\ stale' = TRUE
    /\ UNCHANGED <<cacheNow, cacheBook, files, synced, req, deleted, orphans, unlinked>>

(* The index a load leaves: a token goes to the record inserted last.  The *)
(* sidecar is read oldest first, a directory scan in any order.            *)
Loaded(rs, idx) ==
    \A t \in Tokens :
        LET carriers == {h \in Live(rs) : rs[h].token = t}
        IN  IF carriers = {} THEN idx[t] = NoHash ELSE idx[t] \in carriers

LoadedInOrder(rs, idx) ==
    /\ Loaded(rs, idx)
    /\ \A t \in Tokens : \A h \in Live(rs) :
          rs[h].token = t => h = idx[t] \/ Older(rs, h, idx[t])

(* rebuild_from_scan: every entry that decodes.                            *)
Scanned(fs) ==
    [h \in Hashes |-> IF fs[h] \in {NoFile, Corrupt} THEN NoRecord
                      ELSE RecordOf(fs[h])]

(* A crash, and the next process's load_index: the sidecar or a scan, then *)
(* trim_to_cap, and a new sidecar if either changed anything.              *)
CrashRestart ==
    /\ Fault
    /\ \E fs \in {f \in [Hashes -> UNION {{files[h], synced[h]} : h \in Hashes}] :
                    \A h \in Hashes : f[h] \in {files[h], synced[h]}},
          idx \in [Tokens -> Hashes \cup {NoHash}] :
        LET scan == sidecar = NoSidecar
            rs == IF scan THEN Scanned(fs) ELSE sidecar
            loaded == [records |-> rs, index |-> idx]
            victims == Victims(rs, {})
            b == Evict(loaded, victims)
        IN  /\ IF scan THEN Loaded(rs, idx) ELSE LoadedInOrder(rs, idx)
            /\ records' = b.records
            /\ index' = b.index
            /\ files' = [h \in Hashes |->
                            IF h \in victims THEN NoFile ELSE fs[h]]
            /\ synced' = IF scan \/ victims # {} THEN files' ELSE fs
            /\ sidecar' = b.records
            /\ unlinked' = SharedLoss(loaded, victims)
            /\ orphans' = {h \in Hashes : files'[h] # NoFile} \ Live(b.records)
            /\ deleted' = {h \in deleted : fs[h] \in {NoFile, Corrupt}}
    /\ stale' = FALSE
    /\ req' = [r \in Requests |-> NoWork]
    /\ UNCHANGED cacheNow

Step(r) ==
    \/ \E h \in Hashes : ReadFresh(r, h) \/ DeleteVictim(r, h)
    \/ \E doc \in Docs \cup {Absent} : InnerAnswers(r, doc)
    \/ \E t \in Tokens : Correlate(r, t)
    \/ Discard(r) \/ InnerPasses(r) \/ Rename(r)
    \/ RenameFails(r) \/ RecordAndEvict(r) \/ CorrelateRead(r)

CacheNext ==
    \/ \E r \in Requests : Step(r)
    \/ \E h \in Hashes : Rot(h)
    \/ CacheTick \/ LoseSidecar \/ CrashRestart

CacheSpec == CacheInit /\ [][CacheNext]_cacheVars

-----------------------------------------------------------------------------
(* Properties.                                                             *)

(* Every variable has its declared shape.                                  *)
CacheTypeOK ==
    /\ cacheNow \in Time
    /\ files \in [Hashes -> Entries \cup {NoFile, Corrupt}]
    /\ synced \in [Hashes -> Entries \cup {NoFile, Corrupt}]
    /\ sidecar \in [Hashes -> Records \cup {NoRecord}] \cup {NoSidecar}
    /\ records \in [Hashes -> Records \cup {NoRecord}]
    /\ index \in [Tokens -> Hashes \cup {NoHash}]
    /\ \A r \in Requests :
          /\ req[r].pc \in {"idle", "discard", "inner", "install",
                            "record", "delete", "correlate", "found"}
          /\ req[r].pc \in {"install", "record"} => req[r].entry \in Entries
          /\ req[r].pc = "delete" => req[r].victims \in SUBSET Hashes \ {{}}
    /\ faults \in 0..MaxFaults
    /\ stale \in BOOLEAN
    /\ deleted \subseteq Hashes /\ orphans \subseteq Hashes
    /\ unlinked \subseteq Tokens

(* Files, book and sidecar agree, whatever installs run at once and        *)
(* wherever a crash comes.  max_entries bounds the disk and not only the   *)
(* book: an entry file is counted by a record, or a running install is     *)
(* about to count it or to delete it, or a crash left it behind.  A record *)
(* is backed by its file, unless that was deleted or damaged after it was  *)
(* installed.  The sidecar is the book, unless its last write failed.      *)
StorageAgrees ==
    /\ Cardinality(Live(records)) <= MaxEntries
    /\ \A h \in Present :
          \/ h \in Live(records) \cup orphans
          \/ \E r \in Requests :
                \/ req[r].pc = "record" /\ req[r].hash = h
                \/ req[r].pc = "delete" /\ h \in req[r].victims
    /\ Live(records) \subseteq Present \cup deleted
    /\ stale \/ sidecar = records

(* The token index only names live records that carry the token, and a     *)
(* live record's token is found again, unless the record it pointed at was *)
(* removed while another record shared the token.                          *)
TokenIndexAgrees ==
    /\ \A t \in Tokens : index[t] # NoHash =>
          index[t] \in Live(records) /\ records[index[t]].token = t
    /\ \A h \in Live(records) : records[h].token # NoToken =>
          index[records[h].token] # NoHash \/ records[h].token \in unlinked

(* A correlation is true of the token asked for, although the file may     *)
(* have been replaced since the index was read.                            *)
CorrelationIsTrue ==
    \A r \in Requests : req[r].pc = "found" =>
        DocToken(req[r].doc) = req[r].token

(* An install drops no record but ones older than all that it keeps, and   *)
(* never the one it installs.                                              *)
OldestEvicted ==
    \A r \in Requests : (req[r].pc = "record" /\ req'[r].pc # "record") =>
        \/ req'[r].pc = "idle" /\ faults' # faults
        \/ /\ req[r].hash \in Live(records')
           /\ \A g \in Live(records) \ Live(records'), h \in Live(records') :
                g # req[r].hash /\ (h # req[r].hash => Older(records, g, h))
=============================================================================
