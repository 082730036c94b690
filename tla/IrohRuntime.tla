---------------------------- MODULE IrohRuntime -----------------------------
(***************************************************************************)
(* One iroh node from configuration to shutdown:                           *)
(* fabric-iroh/src/iroh_runtime.rs (the builder's checks, spawn, the       *)
(* address watch, outbound operations, shutdown under two deadlines) and   *)
(* the node and transport of fabric-iroh/src/transport_iroh.rs.            *)
(*                                                                         *)
(* The publication runtime, the task supervisor and the identity file are  *)
(* modules of their own; here a publication is the locations it last made  *)
(* visible, and a supervised task is present until it has ended.           *)
(***************************************************************************)
EXTENDS Integers, FiniteSets, FiniteSetsExt

CONSTANTS
    Operations,      \* outbound fetches
    Locations,       \* declared publication locations
    Setups,          \* builder configurations
    BlobLeaves,      \* leaves of the blob that is fetched
    MaxAddressMoves  \* bound on changes of the endpoint's addresses

VARIABLES
    setup,       \* the builder's configuration
    life,        \* where spawn or shutdown is
    endpoint,    \* "none", "open", "closing", "closed"
    router,      \* "none", "running", "ended"
    closing,     \* the supervisor refuses tasks and has cancelled them
    observed,    \* the endpoint's addresses now
    moves,
    public,      \* the locations in the published record
    watcher,     \* the address watch: on, its last and its pending locations
    fatal,       \* the publication's health failed
    late,        \* deadlines passed: 0, 1 graceful, 2 absolute
    result,      \* what shutdown returned
    errors,      \* shutdown met an error
    fetch        \* each operation: where it is, leaves received, its holder

runtimeVars == <<setup, life, endpoint, router, closing, observed, moves, public, watcher,
                 fatal, late, result, errors, fetch>>

netVars == <<observed, moves, public, watcher, fatal>>
endVars == <<late, result, errors>>

NoFetch == [at |-> "none", got |-> 0, honest |-> TRUE, sized |-> TRUE]

RuntimeInit ==
    /\ setup \in Setups
    /\ life = "built" /\ endpoint = "none" /\ router = "none" /\ closing = FALSE
    /\ observed \in SUBSET Locations /\ moves = 0
    /\ public = {} /\ watcher = [on |-> FALSE, last |-> {}, pending |-> {}, busy |-> FALSE]
    /\ fatal = FALSE /\ late = 0 /\ result = "none" /\ errors = FALSE
    /\ fetch = [f \in Operations |-> NoFetch]

-----------------------------------------------------------------------------
(* The builder                                                             *)

\* IrohRuntimeBuilder::new: a hermetic scope takes no capability.
ScopeRefused == setup.scope = "offline" /\ (setup.relay \/ setup.lookup # "off")

\* node_publication: a persistent identity, no hermetic scope, and a relay
\* location only with the relay capability.
PublicationRefused ==
    /\ setup.publish
    /\ \/ setup.scope = "offline" \/ ~setup.persistent
       \/ "relay" \in setup.allowed /\ ~setup.relay

-----------------------------------------------------------------------------
(* spawn                                                                   *)

\* Identity, lookup, endpoint and router; binding may fail.
Bind ==
    /\ life = "built"
    /\ IF ScopeRefused \/ PublicationRefused
       THEN life' = "failed" /\ UNCHANGED <<endpoint, router>>
       ELSE \/ life' = "failed" /\ UNCHANGED <<endpoint, router>>
            \/ /\ life' = IF setup.publish THEN "publishing" ELSE "started"
               /\ endpoint' = "open" /\ router' = "running"
    /\ UNCHANGED <<setup, closing, netVars, endVars, fetch>>

\* effective_publication_locations.
Effective == setup.allowed \cap observed

\* The initial locations are awaited, then published and watched.
StartPublication ==
    /\ life = "publishing" /\ Effective # {}
    /\ public' = Effective
    /\ watcher' = [on |-> TRUE, last |-> Effective, pending |-> {}, busy |-> FALSE]
    /\ life' = "started"
    /\ UNCHANGED <<setup, endpoint, router, closing, observed, moves, fatal, endVars, fetch>>

\* The startup deadline, or a failing publication, undoes the node.
PublicationFails ==
    /\ life = "publishing" /\ life' = "failed"
    /\ closing' = TRUE
    /\ \/ endpoint' = "closed" /\ router' = "ended"
       \/ endpoint' = "closing" /\ UNCHANGED router     \* the cleanup's own deadline
    /\ public' \in {public, Effective}
    /\ UNCHANGED <<setup, observed, moves, watcher, fatal, endVars, fetch>>

\* IrohNodeBuilder::spawn ends by starting the provider's driver; if that
\* fails the runtime is shut down.
StartNode ==
    /\ life = "started" /\ life' \in {"up", "stopping"}
    /\ UNCHANGED <<setup, endpoint, router, closing, netVars, endVars, fetch>>

-----------------------------------------------------------------------------
(* The address watch                                                       *)

\* The endpoint's addresses change.
AddressesMove ==
    /\ endpoint = "open" /\ moves < MaxAddressMoves
    /\ observed' \in SUBSET Locations \ {observed} /\ moves' = moves + 1
    /\ UNCHANGED <<setup, life, endpoint, router, closing, public, watcher, fatal, endVars, fetch>>

\* A changed effective set is handed to update_locations.
WatchUpdates ==
    /\ watcher.on /\ ~watcher.busy /\ Effective # watcher.last
    /\ watcher' = [watcher EXCEPT !.pending = Effective, !.busy = TRUE]
    /\ UNCHANGED <<setup, life, endpoint, router, closing, observed, moves, public, fatal, endVars, fetch>>

\* The update is visible, or fails and ends the watch.
UpdateEnds ==
    /\ watcher.on /\ watcher.busy
    /\ \/ /\ public' = watcher.pending
          /\ watcher' = [watcher EXCEPT !.last = watcher.pending, !.busy = FALSE]
          /\ UNCHANGED fatal
       \/ /\ fatal' = TRUE /\ watcher' = [watcher EXCEPT !.on = FALSE, !.busy = FALSE]
          /\ public' \in {public, watcher.pending}
    /\ UNCHANGED <<setup, life, endpoint, router, closing, observed, moves, endVars, fetch>>

\* The watch of the endpoint ends, or the publication's refresh fails: both
\* mark the publication's health fatal.
HealthFails ==
    /\ life \in {"started", "up"} /\ setup.publish /\ ~fatal
    /\ fatal' = TRUE
    /\ \/ ~watcher.busy /\ watcher' = [watcher EXCEPT !.on = FALSE]
       \/ UNCHANGED watcher
    /\ UNCHANGED <<setup, life, endpoint, router, closing, observed, moves, public, endVars, fetch>>

-----------------------------------------------------------------------------
(* Outbound fetches                                                        *)

FetchEnds(f, how) == fetch' = [fetch EXCEPT ![f] = [NoFetch EXCEPT !.at = how]]

\* The transport is handed out once the node is up.
Attached == {"up", "stopping", "withdrawing", "closing", "waiting", "forcing", "forced", "ended", "dropped"}

\* fetch_inner and run_connected: a supervised task dials.  An unknown
\* address, a dropped owner or a closing supervisor refuse it.
StartFetch(f) ==
    /\ fetch[f].at = "none" /\ life \in Attached
    /\ IF closing THEN FetchEnds(f, "unavailable")
       ELSE \E honest, sized \in BOOLEAN :
              fetch' = [fetch EXCEPT ![f] = [at |-> "dialing", got |-> 0, honest |-> honest, sized |-> sized]]
    /\ UNCHANGED <<setup, life, endpoint, router, closing, netVars, endVars>>

\* The dial succeeds while the endpoint is open.
Dialled(f) ==
    /\ fetch[f].at = "dialing" /\ endpoint = "open"
    /\ fetch' = [fetch EXCEPT ![f].at = "streaming"]
    /\ UNCHANGED <<setup, life, endpoint, router, closing, netVars, endVars>>

\* dial_and_stream: one leaf more; over the expected size, if there is one, it
\* is too large.
ReceiveLeaf(f) ==
    /\ fetch[f].at = "streaming" /\ endpoint # "closed" /\ fetch[f].got <= BlobLeaves
    /\ IF fetch[f].sized /\ fetch[f].got = BlobLeaves THEN FetchEnds(f, "too_large")
       ELSE fetch' = [fetch EXCEPT ![f].got = @ + 1]
    /\ UNCHANGED <<setup, life, endpoint, router, closing, netVars, endVars>>

\* Done: the digest of what was received decides.
StreamDone(f) ==
    /\ fetch[f].at = "streaming"
    /\ fetch' = [fetch EXCEPT ![f].at =
                    IF fetch[f].honest /\ fetch[f].got = BlobLeaves THEN "whole" ELSE "mismatch"]
    /\ UNCHANGED <<setup, life, endpoint, router, closing, netVars, endVars>>

\* A failed dial or stream, an idle or total timeout, a cancelled task.
FetchFails(f) ==
    /\ fetch[f].at \in {"dialing", "streaming"}
    /\ FetchEnds(f, "unavailable")
    /\ UNCHANGED <<setup, life, endpoint, router, closing, netVars, endVars>>

-----------------------------------------------------------------------------
(* shutdown                                                                *)

Stopping == {"stopping", "withdrawing", "closing", "waiting", "forcing", "forced"}

BeginShutdown ==
    /\ life = "up" /\ life' = "stopping"
    /\ UNCHANGED <<setup, endpoint, router, closing, netVars, endVars, fetch>>

\* Dropping the runtime cancels at once and withdraws nothing.
DropRuntime ==
    /\ life = "up" /\ life' = "dropped" /\ closing' = TRUE
    /\ watcher' = [watcher EXCEPT !.on = FALSE, !.busy = FALSE]
    /\ public' \in IF watcher.busy THEN {public, watcher.pending} ELSE {public}
    /\ UNCHANGED <<setup, endpoint, router, observed, moves, fatal, endVars, fetch>>

\* The lookup closes; the watch is aborted and joined, its update with it.
StopWatch ==
    /\ life = "stopping" /\ life' = IF setup.publish THEN "withdrawing" ELSE "closing"
    /\ watcher' = [watcher EXCEPT !.on = FALSE, !.busy = FALSE]
    /\ public' \in IF watcher.busy THEN {public, watcher.pending} ELSE {public}
    /\ errors' = fatal
    /\ UNCHANGED <<setup, endpoint, router, closing, observed, moves, fatal, late, result, fetch>>

\* publication.shutdown: the tombstone is visible, or its deadline passes.
WithdrawPublication ==
    /\ life = "withdrawing" /\ life' = "closing"
    /\ \/ public' = {} /\ UNCHANGED errors
       \/ public' \in {public, {}} /\ errors' = TRUE
    /\ UNCHANGED <<setup, endpoint, router, closing, observed, moves, watcher, fatal, late, result, fetch>>

\* The endpoint's close is polled once, or the graceful deadline passes
\* first; then begin_shutdown cancels the tasks.
StartClosing ==
    /\ life = "closing"
    /\ \/ endpoint' = "closing" /\ life' = "waiting"
       \/ late > 0 /\ life' = "forcing" /\ UNCHANGED endpoint
    /\ closing' = TRUE
    /\ UNCHANGED <<setup, router, netVars, endVars, fetch>>

EndpointCloses ==
    /\ life \in {"waiting", "forcing", "forced"} /\ endpoint \in {"open", "closing"}
    /\ endpoint' = "closed"
    /\ UNCHANGED <<setup, life, router, closing, netVars, endVars, fetch>>

RouterEnds ==
    /\ life \in {"waiting", "forcing", "forced"} /\ router = "running"
    /\ router' = "ended" /\ errors' \in {errors, TRUE}
    /\ UNCHANGED <<setup, life, endpoint, closing, netVars, late, result, fetch>>

DeadlinePasses ==
    /\ life \in Stopping /\ late < 2
    /\ late' = late + 1
    /\ UNCHANGED <<setup, life, endpoint, router, closing, netVars, result, errors, fetch>>

\* wait_for_owned_work: tasks, process jobs and the endpoint's close.
OwnedWorkDone ==
    /\ endpoint = "closed" /\ router = "ended"
    /\ \A f \in Operations : fetch[f].at \notin {"dialing", "streaming"}

\* The graceful deadline passes: abort_active, and the router is aborted; the
\* close and the registry are still awaited.
Force ==
    /\ life = "forcing" \/ (life = "waiting" /\ late > 0)
    /\ life' = "forced" /\ router' = "ended"
    /\ UNCHANGED <<setup, endpoint, closing, netVars, endVars, fetch>>

\* Shutdown returns once everything is proved ended, or at the absolute
\* deadline, with an error.
ShutdownReturns ==
    /\ life \in {"waiting", "forced"}
    /\ \/ /\ OwnedWorkDone
          /\ result' = IF errors THEN "error" ELSE IF life = "forced" THEN "forced" ELSE "graceful"
       \/ life = "forced" /\ late = 2 /\ result' = "error"
    /\ life' = "ended"
    /\ UNCHANGED <<setup, endpoint, router, closing, netVars, late, errors, fetch>>

-----------------------------------------------------------------------------
StopStep == \/ StopWatch \/ WithdrawPublication \/ StartClosing \/ DeadlinePasses
            \/ Force \/ ShutdownReturns

WatchStep == WatchUpdates \/ UpdateEnds

RuntimeNext ==
    \/ Bind \/ StartPublication \/ PublicationFails \/ StartNode \/ AddressesMove \/ WatchStep
    \/ \E f \in Operations : StartFetch(f) \/ Dialled(f) \/ ReceiveLeaf(f) \/ StreamDone(f) \/ FetchFails(f)
    \/ HealthFails \/ BeginShutdown \/ DropRuntime \/ StopStep \/ EndpointCloses \/ RouterEnds

\* The watch task and the shutdown call run on the runtime, and time passes.
RuntimeSpec == /\ RuntimeInit /\ [][RuntimeNext]_runtimeVars
               /\ WF_runtimeVars(WatchStep) /\ WF_runtimeVars(StopStep)

-----------------------------------------------------------------------------
(* Properties                                                              *)

\* A shutdown that succeeds is safe to restart after: the endpoint's socket is
\* released, no task runs, no fetch continues and the last record is the
\* tombstone.
\* Tasks are cancelled only once the endpoint has begun to close, unless the
\* graceful deadline passed first (shutdown, wait_for_owned_work).
ShutdownIsHonest ==
    /\ result \in {"graceful", "forced"} =>
          /\ endpoint = "closed" /\ router = "ended" /\ public = {}
          /\ \A f \in Operations : fetch[f].at \notin {"dialing", "streaming"}
    /\ closing /\ life \notin {"failed", "dropped"} => endpoint # "open" \/ late > 0

\* What the node does comes to this: a shutdown ends by its absolute deadline
\* whatever the tasks do, and once the endpoint's addresses stop changing the
\* record names exactly the declared locations the endpoint has, none if it
\* has none, unless the publication reports its health as failed
\* (spawn_publication_address_watch).
RuntimeHasSettled ==
    /\ life \notin Stopping
    /\ life \in {"started", "up"} =>
          fatal \/ public = (IF setup.publish THEN Effective ELSE {})

-----------------------------------------------------------------------------
(***************************************************************************)
(* The iroh provider of fabric-iroh/src/transport_iroh.rs: the event       *)
(* driver that starts one supervised task per get-request, the gate that   *)
(* admits a request against the serve budget, the single-flight            *)
(* regeneration of content that is not resident, and the collector of the  *)
(* blob store that runs beside them.                                       *)
(***************************************************************************)

CONSTANTS
    Gets,           \* get-requests
    Blobs,          \* the hashes that may be asked for
    SizeOf,         \* blob -> size of its raw NAR
    Seedable,       \* the blobs the operator seeds
    Suppliable,     \* the sets of blobs a supplier may know, {} for no supplier
    MaxNarSize, MaxInflight,    \* ServeBudget
    MaterialiseAttempts

ASSUME GateAssumption ==
    /\ SizeOf \in [Blobs -> Nat]
    /\ MaxInflight \in Nat /\ MaterialiseAttempts \in Nat \ {0}

\* What a source that was replaced on disk hashes to.
Stray == "stray"

VARIABLES
    retention,   \* "all", "request" or "serve" (StoreRetention)
    knows,       \* what the supplier can plan for
    installed,   \* the budget's OnceLock is set
    lifecycle,   \* PROVIDER_CREATED, _READY, _STOPPED
    driver,      \* "held" until it is started, then "running", then "gone"
    get,         \* the task of each request
    entry,       \* the in-flight table; refs = 0 is an absent entry
    blobs,       \* what the store holds
    shield,      \* blobs the store protects since the last mark
    named,       \* blobs with a named tag
    seeding,     \* blobs seeded whose tag is not written yet
    seeded,      \* bound: a blob is seeded once
    armed,       \* a sweep was asked for
    sweep        \* the collector's loop

gateVars == <<retention, knows, installed, lifecycle, driver, get, entry, blobs, shield,
              named, seeding, seeded, armed, sweep>>

confVars == <<retention, knows>>
storeVars == <<blobs, shield, named, seeding, seeded, armed, sweep>>
hostVars == <<installed, lifecycle, driver>>

\* `silent` is history: how the producer left without publishing, if it did.
NoEntry == [refs |-> 0, pin |-> FALSE, state |-> "none", silent |-> "no"]

Task(step) == [at |-> step, hash |-> Stray, resident |-> "no", attempt |-> 0, tag |-> FALSE]

GateInit ==
    /\ retention \in {"all", "request", "serve"} /\ knows \in Suppliable
    /\ installed \in BOOLEAN        \* prepare(install_budget)
    /\ lifecycle = "created" /\ driver = "held"
    /\ get = [r \in Gets |-> Task("none")]
    /\ entry = [h \in Blobs |-> NoEntry]
    /\ blobs = {} /\ shield = {} /\ named = {} /\ seeding = {} /\ seeded = {}
    /\ armed = (retention = "serve")
    /\ sweep = [at |-> "idle", live |-> {}, doomed |-> {}]

-----------------------------------------------------------------------------
(* The in-flight table                                                     *)

Inflight == {h \in Blobs : entry[h].refs > 0}

Charged == MapThenSumSet(LAMBDA h : SizeOf[h], Inflight)

\* reserve: what a caller must do next, or why it is refused.
ReserveOutcome(h, regenerate) ==
    IF SizeOf[h] > MaxNarSize THEN "too_large"
    ELSE IF h \in Inflight THEN IF entry[h].state = "ok" THEN "ready" ELSE "follow"
    ELSE IF Charged + SizeOf[h] > MaxInflight THEN "busy"
    ELSE IF regenerate THEN "materialise" ELSE "ready"

\* Mutant of Reserved: a request that joins an entry takes no reference.
ReservedUnshared(h, regenerate) ==
    IF h \in Inflight THEN entry
    ELSE [entry EXCEPT ![h] = [refs |-> 1, pin |-> FALSE,
                               state |-> IF regenerate THEN "working" ELSE "ok", silent |-> "no"]]

\* reserve joins the entry of the hash, or inserts one.
Reserved(h, regenerate) ==
    IF h \in Inflight THEN [entry EXCEPT ![h].refs = @ + 1]
    ELSE [entry EXCEPT ![h] = [refs |-> 1, pin |-> FALSE,
                               state |-> IF regenerate THEN "working" ELSE "ok", silent |-> "no"]]

\* publish: the tag is kept in the entry, the verdict reaches the followers.
Published(table, h, ok) ==
    [table EXCEPT ![h].pin = ok, ![h].state = IF ok THEN "ok" ELSE "failed"]

\* release, by the Admission's drop: the last reference removes the entry.
Released(table, h) ==
    [table EXCEPT ![h] = IF @.refs = 1 THEN NoEntry ELSE [@ EXCEPT !.refs = @ - 1]]

-----------------------------------------------------------------------------
(* A request's task: admit, answer, transfer                               *)

Holding == {"check", "produce", "add", "tag", "verify", "follow", "answer", "serving"}

Producing == {"check", "produce", "add", "tag", "verify"}

Running == Holding \cup {"status", "reserve"}

Goes(r, step) == get' = [get EXCEPT ![r].at = step]

\* The task ends: its guard releases the reservation, its temporary tag drops.
Ends(r, outcome) == get' = [get EXCEPT ![r] = Task(outcome)]

\* A connection is accepted only while the driver is ready.
AcceptGet(r, h) ==
    /\ get[r].at = "none" /\ lifecycle = "ready"
    /\ get' = [get EXCEPT ![r].at = "asked", ![r].hash = h]
    /\ UNCHANGED <<confVars, hostVars, entry, storeVars>>

\* The driver spawns the task, or the supervisor has no capacity; a request
\* the driver never takes is dropped with the channel.
TakeGet(r) ==
    /\ get[r].at = "asked"
    /\ \/ driver = "running" /\ Goes(r, "status")
       \/ driver = "running" /\ Ends(r, "declined")
       \/ driver = "gone" /\ Ends(r, "done")
    /\ UNCHANGED <<confVars, hostVars, entry, storeVars>>

\* status(hash): the store's answer, or an error.
ReadStatus(r) ==
    /\ get[r].at = "status"
    /\ \E answer \in {IF get[r].hash \in blobs THEN "yes" ELSE "no", "error"} :
          get' = [get EXCEPT ![r].at = "reserve", ![r].resident = answer]
    /\ UNCHANGED <<confVars, hostVars, entry, storeVars>>

\* admit up to the reservation.
Reserve(r) ==
    LET h == get[r].hash
        regenerate == get[r].resident # "yes"
        outcome == ReserveOutcome(h, regenerate)
    IN  /\ get[r].at = "reserve"
        /\ IF \/ regenerate /\ h \notin knows
              \/ outcome \in {"too_large", "busy"}
           THEN Ends(r, "declined") /\ UNCHANGED entry
           ELSE /\ entry' = Reserved(h, regenerate)
                /\ Goes(r, IF outcome = "follow" THEN "follow"
                           ELSE IF outcome = "ready" /\ retention # "serve" THEN "answer"
                           ELSE "check")
        /\ UNCHANGED <<confVars, hostVars, storeVars>>

\* The follower's watch shows the producer's verdict.
Follow(r) ==
    LET h == get[r].hash IN
    /\ get[r].at = "follow" /\ entry[h].state \in {"ok", "failed"}
    /\ IF entry[h].state = "ok" THEN Goes(r, "answer") /\ UNCHANGED entry
       ELSE Ends(r, "declined") /\ entry' = Released(entry, h)
    /\ UNCHANGED <<confVars, hostVars, storeVars>>

\* has(hash) before producing; a store error reads as absent.
CheckPresent(r) ==
    /\ get[r].at = "check"
    /\ \/ /\ get[r].hash \in blobs /\ Goes(r, "answer")
          /\ entry' = [entry EXCEPT ![get[r].hash].silent = IF @ = "no" THEN "present" ELSE @]
       \/ Goes(r, "produce") /\ UNCHANGED entry
    /\ UNCHANGED <<confVars, hostVars, storeVars>>

\* A failed materialisation tells the followers, then drops the guard.
FailProducing(r) ==
    LET h == get[r].hash IN
    /\ Ends(r, "declined")
    /\ entry' = Released(Published(entry, h, FALSE), h)

\* execute_supply_plan and the size check of materialise.
Produce(r) ==
    /\ get[r].at = "produce"
    /\ IF get[r].hash \notin knows THEN FailProducing(r)
       ELSE \/ /\ get' = [get EXCEPT ![r].at = "add", ![r].attempt = @ + 1]
               /\ UNCHANGED entry
            \/ FailProducing(r)
    /\ UNCHANGED <<confVars, hostVars, storeVars>>

\* add_bytes: the bytes enter the store.  A source that changed adds another
\* blob than the one asked for.
AddBytes(r) ==
    /\ get[r].at = "add"
    /\ \E b \in {get[r].hash, Stray} :
          /\ blobs' = blobs \cup {b} /\ shield' = shield \cup {b}
          /\ IF b = Stray THEN FailProducing(r)
             ELSE Goes(r, "tag") /\ UNCHANGED entry
    /\ UNCHANGED <<confVars, hostVars, named, seeding, seeded, armed, sweep>>

\* The temporary tag exists.
TakeTag(r) ==
    /\ get[r].at = "tag"
    /\ get' = [get EXCEPT ![r].at = "verify", ![r].tag = TRUE]
    /\ UNCHANGED <<confVars, hostVars, entry, storeVars>>

\* has(hash) after the add: publish, or produce again while attempts last.
Verify(r) ==
    LET h == get[r].hash IN
    /\ get[r].at = "verify"
    /\ IF h \in blobs
       THEN get' = [get EXCEPT ![r].at = "answer", ![r].tag = FALSE]
            /\ entry' = Published(entry, h, TRUE)
       ELSE IF get[r].attempt < MaterialiseAttempts
       THEN get' = [get EXCEPT ![r].at = "produce", ![r].tag = FALSE] /\ UNCHANGED entry
       ELSE FailProducing(r)
    /\ UNCHANGED <<confVars, hostVars, storeVars>>

\* The verdict is sent; a peer that hung up ends the task.
AnswerGet(r) ==
    /\ get[r].at = "answer"
    /\ \/ Goes(r, "serving") /\ UNCHANGED entry
       \/ Ends(r, "done") /\ entry' = Released(entry, get[r].hash)
    /\ UNCHANGED <<confVars, hostVars, storeVars>>

\* The update stream ends, after a completed or a failed transfer.
FinishGet(r) ==
    /\ get[r].at = "serving"
    /\ Ends(r, "done") /\ entry' = Released(entry, get[r].hash)
    /\ UNCHANGED <<confVars, hostVars, storeVars>>

\* The serve deadline, or the supervisor, drops the task wherever it waits.
CancelGet(r) ==
    LET h == get[r].hash IN
    /\ get[r].at \in Running
    /\ Ends(r, "done")
    /\ entry' = IF get[r].at \notin Holding THEN entry
                ELSE IF get[r].at \notin Producing THEN Released(entry, h)
                ELSE Released([entry EXCEPT ![h].silent = "cancelled"], h)
    /\ UNCHANGED <<confVars, hostVars, storeVars>>

-----------------------------------------------------------------------------
(* The event driver's life                                                 *)

\* start, or serve_session, which installs the budget first.
StartDriver ==
    /\ driver = "held"
    /\ installed' = TRUE /\ driver' = "running"
    /\ UNCHANGED <<confVars, lifecycle, get, entry, storeVars>>

\* Its first poll acknowledges readiness.
DriverReady ==
    /\ driver = "running" /\ lifecycle = "created"
    /\ lifecycle' = "ready"
    /\ UNCHANGED <<confVars, installed, driver, get, entry, storeVars>>

\* The protocol's shutdown refuses connections; the driver ends with its
\* channel, or is aborted with the serve handle.
StopProvider ==
    /\ driver = "running" /\ lifecycle = "ready"
    /\ lifecycle' = "stopped" /\ driver' \in {"running", "gone"}
    /\ UNCHANGED <<confVars, installed, get, entry, storeVars>>

DriverEnds ==
    /\ driver = "running" /\ lifecycle = "stopped" /\ driver' = "gone"
    /\ UNCHANGED <<confVars, installed, lifecycle, get, entry, storeVars>>

-----------------------------------------------------------------------------
(* The store: seeds, releases and the collector                            *)

\* seed: the bytes, then the named tag.
SeedBytes(h) ==
    /\ h \in Seedable \ seeded
    /\ blobs' = blobs \cup {h} /\ shield' = shield \cup {h}
    /\ seeding' = seeding \cup {h} /\ seeded' = seeded \cup {h}
    /\ UNCHANGED <<confVars, hostVars, get, entry, named, armed, sweep>>

SeedTag(h) ==
    /\ h \in seeding
    /\ seeding' = seeding \ {h} /\ named' = named \cup {h}
    /\ UNCHANGED <<confVars, hostVars, get, entry, blobs, shield, seeded, armed, sweep>>

\* release_all: the named tags go and a sweep is armed.
ReleaseAll ==
    /\ named # {}
    /\ named' = {} /\ armed' = (armed \/ retention # "all")
    /\ UNCHANGED <<confVars, hostVars, get, entry, blobs, shield, seeding, seeded, sweep>>

Tagged == named \cup {h \in Blobs : \/ entry[h].pin
                                    \/ \E r \in Gets : get[r].tag /\ get[r].hash = h}

\* inflight_hashes, inserted into the live set by the callback.
ProtectedByGate == Inflight

\* The collector's callback: it sweeps freely, or once after a release.
CollectorCallback ==
    /\ sweep.at = "idle" /\ retention # "all" /\ (retention = "serve" \/ armed)
    /\ armed' = (armed /\ retention = "serve")
    /\ sweep' = [sweep EXCEPT !.at = "called", !.live = ProtectedByGate]
    /\ UNCHANGED <<confVars, hostVars, get, entry, blobs, shield, named, seeding, seeded>>

\* The store forgets its own protections, marks what is tagged and lists the
\* rest.
CollectorMark ==
    /\ sweep.at = "called"
    /\ shield' = {}
    /\ LET doomed == blobs \ (sweep.live \cup Tagged) IN
          sweep' = [at |-> IF doomed = {} THEN "idle" ELSE "sweeping", live |-> {}, doomed |-> doomed]
    /\ UNCHANGED <<confVars, hostVars, get, entry, blobs, named, seeding, seeded, armed>>

\* One listed blob is deleted, unless it was added since.
CollectorDelete(h) ==
    /\ sweep.at = "sweeping" /\ h \in sweep.doomed
    /\ blobs' = IF h \in shield THEN blobs ELSE blobs \ {h}
    /\ sweep' = [sweep EXCEPT !.doomed = @ \ {h},
                              !.at = IF sweep.doomed = {h} THEN "idle" ELSE @]
    /\ UNCHANGED <<confVars, hostVars, get, entry, shield, named, seeding, seeded, armed>>

-----------------------------------------------------------------------------
GetStep(r) ==
    \/ TakeGet(r) \/ ReadStatus(r) \/ Reserve(r) \/ Follow(r) \/ CheckPresent(r) \/ Produce(r)
    \/ AddBytes(r) \/ TakeTag(r) \/ Verify(r) \/ AnswerGet(r) \/ FinishGet(r) \/ CancelGet(r)

CollectorStep == CollectorCallback \/ CollectorMark \/ \E h \in sweep.doomed : CollectorDelete(h)

HostStep == StartDriver \/ DriverReady \/ StopProvider \/ DriverEnds \/ ReleaseAll

GateNext ==
    \/ \E r \in Gets : GetStep(r) \/ \E h \in Blobs : AcceptGet(r, h)
    \/ HostStep \/ CollectorStep
    \/ \E h \in Blobs : SeedBytes(h) \/ SeedTag(h)

\* The tasks run on the runtime and the store's actor runs its loop; nothing
\* is assumed of peers, of the operator or of the driver's end.
GateSpec == /\ GateInit /\ [][GateNext]_gateVars
            /\ WF_gateVars(\E r \in Gets : GetStep(r)) /\ WF_gateVars(CollectorStep)

-----------------------------------------------------------------------------
(* Properties                                                              *)

\* Every reservation is counted once and given back once, by whatever path
\* its task ends: an entry has exactly as many references as tasks hold it,
\* the entries together stay within the in-flight budget, and no request is
\* admitted before the budget is installed (reserve, release, Admission).
ReservationsConserved ==
    /\ \A h \in Blobs : entry[h].refs = Cardinality({r \in Gets : get[r].at \in Holding /\ get[r].hash = h})
    /\ Charged <= MaxInflight
    /\ (\E r \in Gets : get[r].at \in Running) => installed

\* The second materialisation is never collected: the bound of the retry
\* loop is not reached (MATERIALISE_ATTEMPTS).
RetrySuffices ==
    \A r \in Gets : get[r].at = "verify" /\ get[r].attempt = MaterialiseAttempts => get[r].hash \in blobs

Awaited(h) == entry[h].state = "working" /\ ~\E r \in Gets : get[r].at \in Producing /\ get[r].hash = h

\* A failed regeneration always reaches its followers: an entry left without
\* a producer and without a verdict is one whose producer was cancelled, or
\* found the blob present and had nothing to produce (admit).
FailureReachesFollowers == \A h \in Inflight : Awaited(h) => entry[h].silent # "no"

\* A node that only supplies holds nothing at rest: once the requests are over
\* the store keeps only what was seeded by name (ReleaseAfterServe).
NothingAtRest == retention = "serve" => blobs \subseteq named \cup seeding
=============================================================================
