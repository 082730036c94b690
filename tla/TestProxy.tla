------------------------------ MODULE TestProxy ------------------------------
(***************************************************************************)
(* The caching proxy of the test bed (testproxy/src/proxy.rs, cache.rs,     *)
(* fault.rs, record.rs, server.rs): one thread per request, a disk cache,   *)
(* one upstream fetch per cold NAR however many requests miss it, faults    *)
(* that an operator arms, and the log the tests count requests by.          *)
(*                                                                          *)
(* A body is a number of blocks, `Size` when it is whole.  A request is      *)
(* numbered when it arrives, and leads at most one fetch, so the number also *)
(* names its flight.  Latency and throttling only delay a thread, which any  *)
(* interleaving allows for; the upstream cache is external.                  *)
(***************************************************************************)
EXTENDS Naturals, Sequences, SequencesExt, FiniteSets

CONSTANTS MaxRequests,  \* requests, over all runs of the process
          ProxyPaths,   \* paths that may be asked for
          Faults,       \* the fault configurations that may be armed
          Size,         \* blocks of a whole body
          MaxKills      \* times the process is killed

ASSUME ProxyAssumption == Size \in Nat \ {0} /\ MaxRequests \in Nat /\ MaxKills \in Nat

VARIABLES thread,    \* the thread of each request that arrived
          disk,      \* the cache: the blocks of each entry, Missing without one
          staged,    \* the files in .tmp, by the request that writes them
          flights,   \* SingleFlight: the leader a cold path is leased to
          landed,    \* leaders whose flight is done
          armed,     \* the faults in force
          log,       \* completed requests since the last reset
          busy,      \* in_flight
          kills,
          unsized    \* paths fetched from an answer that named no length

proxy == <<thread, disk, staged, flights, landed, armed, log, busy, kills, unsized>>

(* Kind and classify.                                                      *)
classify(path) ==
    IF path = "nix-cache-info" THEN "cache-info"
    ELSE IF path \in {"a.narinfo", "b.narinfo"} THEN "narinfo"
    ELSE IF path \in {"nar/a", "nar/b"} THEN "nar" ELSE "other"

Requests == 1..MaxRequests
Missing == 99
Nobody == 0

(* FaultConfig: the kinds a fault answers for (connection_reset, http_error, *)
(* unreachable), and whether bodies are cut on their way to the client.      *)
NoFaults == [answers |-> {}, truncate |-> FALSE]

(* The locals of handle, serve, serve_metadata and serve_nar.              *)
Unborn ==
    [at |-> "none", path |-> "none", open |-> FALSE, truncate |-> FALSE, total |-> Missing,
     left |-> 0, whole |-> TRUE, got |-> 0, flight |-> Nobody]

Alive(r) == thread[r].at \notin {"none", "gone"}

-----------------------------------------------------------------------------
Goes(r, at) == thread' = [thread EXCEPT ![r].at = at]

(* An Outcome, whose status and fault the record will name.                *)
Outcome(r) == thread' = [thread EXCEPT ![r] = [Unborn EXCEPT !.at = "record"]]

(* serve_connection, handle: the request is counted, numbered and given a   *)
(* copy of the faults; serve: a fault may answer for it.                   *)
Arrive(path, head) ==
    \E r \in Requests :
        /\ thread[r].at = "none" /\ \A q \in 1..(r - 1) : thread[q].at # "none"
        /\ busy' = busy + 1
        /\ LET kind == classify(path)
               t == [Unborn EXCEPT !.path = path, !.open = ~head, !.truncate = armed.truncate]
           IN  thread' = [thread EXCEPT ![r] =
                   IF kind \in armed.answers THEN [Unborn EXCEPT !.at = "record"]
                   ELSE [t EXCEPT !.at = IF kind = "nar" THEN "open"
                                         ELSE IF kind = "other" THEN "pass" ELSE "metadata"]]
    /\ UNCHANGED <<disk, staged, flights, landed, armed, log, kills, unsized>>

(* resolve: the path leaves the cache directory.                           *)
BadPath(r) ==
    /\ thread[r].at \in {"metadata", "open"}
    /\ Outcome(r)
    /\ UNCHANGED <<disk, staged, flights, landed, armed, log, busy, kills, unsized>>

-----------------------------------------------------------------------------
(* upstream_get and the body that follows: `n` blocks, then a clean end or  *)
(* a read error; `sized` when the answer names its length.                 *)
Answers == [n : 0..Size, clean : BOOLEAN, sized : BOOLEAN]

(* serve_metadata: a hit, or the whole body is read and stored.            *)
MetadataHit(r) ==
    /\ thread[r].at = "metadata" /\ disk[thread[r].path] # Missing
    /\ Goes(r, "present")
    /\ UNCHANGED <<disk, staged, flights, landed, armed, log, busy, kills, unsized>>

(* read_to_end: an early end is an end.  A read error, a status other than  *)
(* 200 and no answer at all are passed on.                                 *)
MetadataFetch(r) ==
    /\ thread[r].at = "metadata" /\ disk[thread[r].path] = Missing
    /\ \/ \E a \in Answers :
            /\ a.clean
            /\ thread' = [thread EXCEPT ![r].at = "store", ![r].got = a.n]
            /\ unsized' = IF a.sized THEN unsized ELSE unsized \cup {thread[r].path}
       \/ Outcome(r) /\ UNCHANGED unsized
    /\ UNCHANGED <<disk, staged, flights, landed, armed, log, busy, kills>>

(* store_small: begin_write, write_all and commit; or one of them fails and *)
(* the writer removes its file.                                            *)
MetadataStore(r) ==
    /\ thread[r].at = "store"
    /\ \/ Goes(r, "present") /\ disk' = [disk EXCEPT ![thread[r].path] = thread[r].got]
       \/ Outcome(r) /\ UNCHANGED disk
    /\ UNCHANGED <<staged, flights, landed, armed, log, busy, kills, unsized>>

(* The body, or a wrong one, is written to the client, who may be gone.    *)
MetadataReply(r) ==
    /\ thread[r].at = "present"
    /\ Outcome(r)
    /\ UNCHANGED <<disk, staged, flights, landed, armed, log, busy, kills, unsized>>

(* serve_passthrough: nothing is cached.                                   *)
PassThrough(r) ==
    /\ thread[r].at = "pass"
    /\ Outcome(r)
    /\ UNCHANGED <<disk, staged, flights, landed, armed, log, busy, kills, unsized>>

-----------------------------------------------------------------------------
(* serve_nar.                                                              *)

(* The end of the function, where a leader still has to drop its lease.    *)
Leave(r) ==
    thread' = [thread EXCEPT ![r] = [Unborn EXCEPT !.path = thread[r].path, !.at =
                  IF flights[thread[r].path] = r THEN "unlist-record" ELSE "record"]]

FromCache(r) ==
    [thread[r] EXCEPT !.at = "head", !.total = disk[thread[r].path],
                      !.left = disk[thread[r].path]]

OpenCached(r) ==
    /\ thread[r].at = "open"
    /\ IF disk[thread[r].path] # Missing
       THEN thread' = [thread EXCEPT ![r] = FromCache(r)]
       ELSE Goes(r, "lease")
    /\ UNCHANGED <<disk, staged, flights, landed, armed, log, busy, kills, unsized>>

(* SingleFlight::lease.                                                    *)
Lease(r) ==
    LET p == thread[r].path
    IN  /\ thread[r].at = "lease"
        /\ IF flights[p] = Nobody
           THEN Goes(r, "lead") /\ flights' = [flights EXCEPT ![p] = r]
           ELSE /\ thread' = [thread EXCEPT ![r].at = "wait", ![r].flight = flights[p]]
                /\ UNCHANGED flights
        /\ UNCHANGED <<disk, staged, landed, armed, log, busy, kills, unsized>>

Woken(r) ==
    /\ thread[r].at = "wait" /\ thread[r].flight \in landed
    /\ thread' = [thread EXCEPT ![r].at = "open", ![r].flight = Nobody]
    /\ UNCHANGED <<disk, staged, flights, landed, armed, log, busy, kills, unsized>>

(* The leader looks again: the lease goes when it found the entry.         *)
Recheck(r) ==
    /\ thread[r].at = "lead"
    /\ IF disk[thread[r].path] # Missing
       THEN thread' = [thread EXCEPT ![r] = [FromCache(r) EXCEPT !.at = "unlist-head"]]
       ELSE Goes(r, "fetch")
    /\ UNCHANGED <<disk, staged, flights, landed, armed, log, busy, kills, unsized>>

(* The one upstream fetch; it or begin_write may fail.                     *)
Fetch(r) ==
    /\ thread[r].at = "fetch"
    /\ \/ \E a \in Answers :
            /\ thread' = [thread EXCEPT ![r].at = "head", ![r].left = a.n, ![r].whole = a.clean,
                             ![r].total = IF a.sized THEN Size ELSE Missing]
            /\ staged' = staged \cup {r}
            /\ unsized' = IF a.sized THEN unsized ELSE unsized \cup {thread[r].path}
       \/ Goes(r, "unlist-record") /\ UNCHANGED <<staged, unsized>>
    /\ UNCHANGED <<disk, flights, landed, armed, log, busy, kills>>

(* write_head; without a client the function returns, and drops the writer  *)
(* and the lease.                                                          *)
WriteHead(r) ==
    /\ thread[r].at = "head"
    /\ \/ Goes(r, "stream") /\ UNCHANGED staged
       \/ Leave(r) /\ staged' = staged \ {r}
    /\ UNCHANGED <<disk, flights, landed, armed, log, busy, kills, unsized>>

(* One block: into the cache file first, then to the client, up to the      *)
(* point of truncation; each write may fail.                               *)
Stream(r) ==
    LET t == thread[r]
        past == t.truncate /\ t.total # Missing /\ t.got + 1 > t.total \div 2
        moved == [t EXCEPT !.left = @ - 1, !.got = @ + 1]
    IN  /\ t.at = "stream" /\ t.left > 0
        /\ \/ thread' = [thread EXCEPT ![r] = [moved EXCEPT !.open = t.open /\ ~past]]
           \/ t.open /\ ~past /\ thread' = [thread EXCEPT ![r] = [moved EXCEPT !.open = FALSE]]
           \/ r \in staged /\ thread' = [thread EXCEPT ![r].at = "end", ![r].whole = FALSE]
        /\ UNCHANGED <<disk, staged, flights, landed, armed, log, busy, kills, unsized>>

StreamEnds(r) ==
    /\ thread[r].at = "stream" /\ thread[r].left = 0
    /\ Goes(r, "end")
    /\ UNCHANGED <<disk, staged, flights, landed, armed, log, busy, kills, unsized>>

(* Mutant of CompleteBody: the declared length is not compared.            *)
CompleteBodyByEnd(t) == t.whole

(* Neither a cache write error, nor a read error, nor fewer blocks than the *)
(* declared length.                                                        *)
CompleteBody(t) == t.whole /\ (t.total # Missing => t.got = t.total)

(* commit, or the writer is dropped with its file.                         *)
Commit(r) ==
    LET t == thread[r]
    IN  /\ t.at = "end"
        /\ \/ r \in staged /\ CompleteBody(t) /\ disk' = [disk EXCEPT ![t.path] = t.got]
           \/ UNCHANGED disk
        /\ staged' = staged \ {r}
        /\ Leave(r)
        /\ UNCHANGED <<flights, landed, armed, log, busy, kills, unsized>>

(* LeaseGuard::drop: the entry first, then the waiters.                    *)
Unlist(r) ==
    /\ thread[r].at \in {"unlist-head", "unlist-record"}
    /\ flights' = [flights EXCEPT ![thread[r].path] = Nobody]
    /\ Goes(r, IF thread[r].at = "unlist-head" THEN "wake-head" ELSE "wake-record")
    /\ UNCHANGED <<disk, staged, landed, armed, log, busy, kills, unsized>>

Wake(r) ==
    /\ thread[r].at \in {"wake-head", "wake-record"}
    /\ landed' = landed \cup {r}
    /\ Goes(r, IF thread[r].at = "wake-head" THEN "head" ELSE "record")
    /\ UNCHANGED <<disk, staged, flights, armed, log, busy, kills, unsized>>

-----------------------------------------------------------------------------

(* handle, its end: the record is appended, then the guard counts down.    *)
LogRecord(r) ==
    /\ thread[r].at = "record"
    /\ log' = Append(log, r)
    /\ Goes(r, "count")
    /\ UNCHANGED <<disk, staged, flights, landed, armed, busy, kills, unsized>>

LeaveFlight(r) ==
    /\ thread[r].at = "count"
    /\ busy' = busy - 1
    /\ thread' = [thread EXCEPT ![r] = [Unborn EXCEPT !.at = "gone"]]
    /\ UNCHANGED <<disk, staged, flights, landed, armed, log, kills, unsized>>

(* admin: the faults, and the reset between two scenarios.  A request that  *)
(* is still served appends its record after the reset.                     *)
ArmFaults ==
    /\ \E f \in Faults \ {armed} : armed' = f
    /\ UNCHANGED <<thread, disk, staged, flights, landed, log, busy, kills, unsized>>

ResetLog ==
    /\ log # <<>> /\ log' = <<>>
    /\ UNCHANGED <<thread, disk, staged, flights, landed, armed, busy, kills, unsized>>

(* The process is killed and started again: its memory is gone, State::new  *)
(* reaps what the writers left in .tmp.                                    *)
Kill ==
    /\ kills < MaxKills /\ kills' = kills + 1
    /\ thread' = [r \in Requests |-> IF thread[r].at = "none" THEN thread[r]
                                     ELSE [Unborn EXCEPT !.at = "gone"]]
    /\ staged' = {} /\ flights' = [p \in ProxyPaths |-> Nobody] /\ landed' = {}
    /\ armed' = NoFaults /\ log' = <<>> /\ busy' = 0
    /\ UNCHANGED <<disk, unsized>>

ProxyInit ==
    /\ thread = [r \in Requests |-> Unborn]
    /\ disk = [p \in ProxyPaths |-> Missing]
    /\ staged = {} /\ flights = [p \in ProxyPaths |-> Nobody] /\ landed = {}
    /\ armed = NoFaults /\ log = <<>> /\ busy = 0 /\ kills = 0 /\ unsized = {}

ThreadStep(r) ==
    \/ BadPath(r) \/ MetadataHit(r) \/ MetadataFetch(r) \/ MetadataStore(r) \/ MetadataReply(r)
    \/ PassThrough(r) \/ OpenCached(r) \/ Lease(r) \/ Woken(r) \/ Recheck(r) \/ Fetch(r)
    \/ WriteHead(r) \/ Stream(r) \/ StreamEnds(r) \/ Commit(r) \/ Unlist(r) \/ Wake(r)
    \/ LogRecord(r) \/ LeaveFlight(r)

ProxyNext ==
    \/ \E p \in ProxyPaths, head \in BOOLEAN : Arrive(p, head)
    \/ \E r \in Requests : ThreadStep(r)
    \/ ArmFaults \/ ResetLog \/ Kill

(* Threads run; reads and writes are bounded by their idle time-outs, so a  *)
(* thread that may step does.                                              *)
ProxySpec ==
    /\ ProxyInit /\ [][ProxyNext]_proxy
    /\ \A r \in Requests : WF_proxy(ThreadStep(r))

-----------------------------------------------------------------------------
(* A NAR in the cache is whole, whatever faults are armed, whoever hangs up *)
(* and wherever the process is killed, unless the upstream cache named no   *)
(* length for it ("No declared length -> a clean EOF is complete"); and no  *)
(* file stays in .tmp without a thread that writes it (serve_nar, commit,   *)
(* CacheWriter::drop, DiskCache::new).                                     *)
CachedNarIsWhole ==
    /\ \A p \in ProxyPaths :
          classify(p) = "nar" /\ disk[p] # Missing /\ p \notin unsized => disk[p] = Size
    /\ \A r \in staged : thread[r].at \in {"head", "stream", "end"}

(* Concurrent misses of a NAR cost one fetch: at most one thread is between *)
(* its request to the upstream cache and its commit, and none asks for a     *)
(* NAR that is in the cache (SingleFlight: "exactly ONE upstream fetch").   *)
ColdNarIsFetchedOnce ==
    \A p \in ProxyPaths :
        LET fetching == {r \in Requests : thread[r].at \in {"fetch", "head", "stream", "end"}
                                          /\ thread[r].path = p
                                          /\ (thread[r].at = "fetch" \/ r \in staged)}
        IN  /\ Cardinality(fetching) <= 1
            /\ fetching # {} => disk[p] = Missing

(* When no request is in flight, every request that finished has its record *)
(* in the log, or had it there before the last reset: the count a test makes *)
(* is complete (InFlightGuard, "handlers ... whose completion record is not  *)
(* yet visible").                                                          *)
LogIsComplete ==
    /\ busy >= Cardinality({r \in Requests : thread[r].at \notin {"none", "count", "gone"}})
    /\ busy = 0 => \A r \in Requests : ~Alive(r)
    /\ IsInjective(log)

(* Every request comes to an end, those that wait for a leader too,         *)
(* whatever became of its fetch ("wakes every waiter"): requests stop       *)
(* arriving at some point, so at last none is in flight.                    *)
HerdIsReleased == busy = 0 /\ \A r \in Requests : ~Alive(r)
=============================================================================
