------------------------------ MODULE Serving -------------------------------
(***************************************************************************)
(* How a node serves a transfer: the budgets of derived bytes first, then  *)
(* the serving protocol that draws on them.                                *)
(***************************************************************************)
EXTENDS Integers, FiniteSets

(***************************************************************************)
(* The tumbling-window ledgers (daemon-core/src/derive_ledger.rs,          *)
(* upload_ledger.rs, window.rs) as functions of a ledger, a clock reading  *)
(* and a charge.  Their callers read the clock before they take the        *)
(* ledger's lock, so the reading may be old.                               *)
(***************************************************************************)

CONSTANTS Peers,
          WindowLength,        \* the clamped budget.window
          SweepThreshold,      \* EVICT_SWEEP_THRESHOLD
          GlobalBytes, GlobalDumps, PeerBytes, PeerDumps, \* the four ceilings
          UploadCap            \* max_bytes_per_window of the upload budget

ASSUME LedgerAssumption ==
    /\ WindowLength \in Nat \ {0}
    /\ SweepThreshold \in Nat
    /\ {GlobalBytes, GlobalDumps, PeerBytes, PeerDumps, UploadCap} \subseteq Nat

NoWindow == [start |-> 0, bytes |-> 0, dumps |-> -1]  \* a window that was never opened

OpenedAt(now) == [start |-> now, bytes |-> 0, dumps |-> 0]

SaturatingSub(a, b) == IF a >= b THEN a - b ELSE 0

(* window_expired: a reading older than the start never expires a window. *)
WindowExpired(start, now) == SaturatingSub(now, start) >= WindowLength

RollIfExpired(w, now) == IF WindowExpired(w.start, now) THEN OpenedAt(now) ELSE w

(* get_or_insert_with, then roll_if_expired. *)
CurrentWindow(w, now) == IF w = NoWindow THEN OpenedAt(now) ELSE RollIfExpired(w, now)

EmptyLedger == [global |-> NoWindow, perPeer |-> [p \in Peers |-> NoWindow]]

Resident(ledger) == {p \in Peers : ledger.perPeer[p] # NoWindow}

(* The sweep removes the windows that the reading sees as elapsed, once the  *)
(* map has reached the threshold.                                            *)
EvictExpired(ledger, now) ==
    IF Cardinality(Resident(ledger)) < SweepThreshold
    THEN ledger
    ELSE [ledger EXCEPT !.perPeer =
            [p \in Peers |-> IF WindowExpired(@[p].start, now) THEN NoWindow ELSE @[p]]]

Fits(w, bytes, dumps, maxBytes, maxDumps) ==
    w.bytes + bytes <= maxBytes /\ w.dumps + dumps <= maxDumps

Spend(w, bytes, dumps) == [w EXCEPT !.bytes = @ + bytes, !.dumps = @ + dumps]

(* charge_locked: the global ceilings first; the peer's window is a copy and *)
(* is written back only when everything fits.  The roll of the global window *)
(* stays even when the charge is refused.                                    *)
ChargeLocked(ledger, now, peer, bytes, dumps) ==
    LET global == CurrentWindow(ledger.global, now)
        mine   == CurrentWindow(ledger.perPeer[peer], now)
        rolled == [ledger EXCEPT !.global = global]
    IN  IF ~Fits(global, bytes, dumps, GlobalBytes, GlobalDumps)
        THEN [admission |-> "RefusedGlobal", ledger |-> rolled]
        ELSE IF ~Fits(mine, bytes, dumps, PeerBytes, PeerDumps)
        THEN [admission |-> "RefusedPerPeer", ledger |-> rolled]
        ELSE [admission |-> "Admitted",
              ledger |-> [global |-> Spend(global, bytes, dumps),
                          perPeer |-> [ledger.perPeer EXCEPT ![peer] = Spend(mine, bytes, dumps)]]]

(* try_admit_work under the lock, with the reading taken before it. *)
TryAdmitWork(ledger, now, peer, bytes, dumps) ==
    ChargeLocked(EvictExpired(ledger, now), now, peer, bytes, dumps)

(* The upload ledger: admission reserves nothing, a charge is what was       *)
(* written.                                                                  *)
AdmitUpload(w, now) == CurrentWindow(w, now).bytes < UploadCap

ChargeWireOctets(w, now, octets) == Spend(CurrentWindow(w, now), octets, 0)

-----------------------------------------------------------------------------
(***************************************************************************)
(* The provider's side of a NAR transfer: the accept loop                  *)
(* (fabric-libp2p/src/swarm.rs), the serve gate and a serve's life         *)
(* (nar.rs, server.rs), composed with the two tumbling-window ledgers      *)
(* (above) and with the supervised dumps as OwnedProcess promises them.    *)
(*                                                                         *)
(* A stream is accepted, counted against the concurrent-serve ceiling,     *)
(* reads its request, is admitted and reserves its bytes, makes two passes *)
(* over its source (each with a Bao worker, and with a dump when the NAR   *)
(* is not in memory), and gives back what it holds.  It may be cut short   *)
(* at every await by its deadline or by the peer.                          *)
(***************************************************************************)

CONSTANTS Streams, Gates,
          Sizes,          \* declared sizes of the NARs on offer
          MaxNar,         \* max_nar_bytes_uncompressed_nar
          Budgets,        \* configurations: serves (0: no ceiling), inflight, lossy (the
                          \* supervisor may be shut down), kinds (of supply), horizon
                          \* (the bound on time)
          BaoWorkers,     \* BAO_SERVE_WORKER_MAX_CONCURRENT
          Octets,         \* wire octets of one NAR body
          Staleness       \* how old a clock reading may be when its lock is taken

ASSUME ServingAssumption ==
    /\ Budgets \subseteq [serves : Nat, inflight : Nat, lossy : BOOLEAN,
                             kinds : SUBSET {"memory", "process"}, horizon : Nat]
    /\ BaoWorkers \in Nat \ {0}
    /\ Sizes \subseteq Nat \ {0}
    /\ Octets \in Nat \ {0}
    /\ {MaxNar, Staleness} \subseteq Nat
    /\ IsFiniteSet(Streams)
    /\ Gates \cap {"none", "serves"} = {}   \* names that are not gates

ServeJobs == Streams \X {1, 2}

VARIABLES
    st,         \* st[s]: a serve_stream task
    serves,     \* inflight_serves, shared by all gates of the server
    inflight,   \* inflight[g]: inflight_bytes of the gate
    gate,       \* gate[g]: "new", "serving", "stopped" or "gone"
    slot,       \* the serve slot of the swarm: a gate, or none
    peerOf, budget,
    time, ledger, upload,
    proc, charged, ticket   \* the supervised dumps (OwnedProcess)

INSTANCE OwnedProcess WITH Jobs <- ServeJobs

dumpVars == <<proc, charged, ticket>>
shared == <<peerOf, budget>>
servingVars == <<st, serves, inflight, gate, slot, shared, time, ledger, upload, dumpVars>>

None == "none"
Passes == {1, 2}
Dumps == 2      \* SERVE_DUMP_PASSES

Before == {"idle", "count", "request", "admit", "reserve"}
Exchange == {"wait1", "pass1", "busy", "wait2", "pass2", "closing"}
After == {"cancelling", "return", "drop", "done"}

Fresh == [at |-> "idle", gate |-> None, permit |-> FALSE, seen |-> 0,
          kind |-> "none", size |-> 0, reserved |-> 0, bao |-> FALSE,
          cancel |-> FALSE, declined |-> FALSE, paid |-> 0, wrote |-> 0,
          tail |-> FALSE]

ServingTypeOK ==
    /\ \A s \in Streams : /\ DOMAIN st[s] = DOMAIN Fresh
                          /\ st[s].at \in Before \cup Exchange \cup After \cup {"respond"}
    /\ serves \in Nat /\ inflight \in [Gates -> Nat]
    /\ gate \in [Gates -> {"new", "serving", "stopped", "gone"}]
    /\ slot \in Gates \cup {None}
    /\ time \in 0..budget.horizon

ServingInit ==
    /\ st = [s \in Streams |-> Fresh]
    /\ serves = 0 /\ inflight = [g \in Gates |-> 0]
    /\ gate = [g \in Gates |-> "new"] /\ slot = None
    /\ peerOf \in [Streams -> Peers] /\ budget \in Budgets
    /\ time = 0 /\ ledger = EmptyLedger /\ upload = NoWindow
    /\ OwnedInit

Goto(s, to) == st' = [st EXCEPT ![s].at = to]

(* A clock reading that was taken before the lock it is used under. *)
Readings == {now \in 0..time : now + Staleness >= time}

----------------------------------------------------------------------------
(* The server: serve() installs a gate, dropping its handle stops it and     *)
(* uninstalls it later, if it is still the installed one.                    *)

Serve(g) ==
    /\ gate[g] = "new"
    /\ gate' = [gate EXCEPT ![g] = "serving"]
    /\ slot' = g
    /\ UNCHANGED <<st, serves, inflight, shared, time, ledger, upload, dumpVars>>

Stop(g) ==
    /\ gate[g] = "serving"
    /\ gate' = [gate EXCEPT ![g] = "stopped"]
    /\ UNCHANGED <<st, serves, inflight, slot, shared, time, ledger, upload, dumpVars>>

Uninstall(g) ==
    /\ gate[g] = "stopped"
    /\ gate' = [gate EXCEPT ![g] = "gone"]
    /\ slot' = IF slot = g THEN None ELSE slot
    /\ UNCHANGED <<st, serves, inflight, shared, time, ledger, upload, dumpVars>>

----------------------------------------------------------------------------
(* The accept loop, one stream at a time. *)

acceptRest == <<inflight, gate, slot, shared, time, ledger, upload, dumpVars>>

Accept1(s) ==
    /\ st[s].at = "idle"
    /\ \A r \in Streams : st[r].at # "count"
    /\ \/ Goto(s, "done")   \* lan_serve_permitted refuses the connection
       \/ IF slot = None \/ budget.serves = 0
          THEN st' = [st EXCEPT ![s].at = "request", ![s].gate = slot]
          ELSE st' = [st EXCEPT ![s].at = "count", ![s].gate = slot, ![s].seen = serves]
    /\ UNCHANGED <<serves, acceptRest>>

(* Mutant of AcquireServeCount: a load and a store. *)
AcquireServeCountStored(s) ==
    /\ st[s].at = "count"
    /\ IF st[s].seen + 1 > budget.serves
       THEN /\ st' = [st EXCEPT ![s].at = "done", ![s].gate = None, ![s].seen = 0]
            /\ UNCHANGED serves
       ELSE /\ st' = [st EXCEPT ![s].at = "request", ![s].permit = TRUE, ![s].seen = 0]
            /\ serves' = st[s].seen + 1
    /\ UNCHANGED acceptRest

(* One turn of the compare-and-swap loop of try_acquire_serve_count. *)
AcquireServeCount(s) ==
    /\ st[s].at = "count"
    /\ IF st[s].seen + 1 > budget.serves
       THEN /\ st' = [st EXCEPT ![s].at = "done", ![s].gate = None, ![s].seen = 0]
            /\ UNCHANGED serves
       ELSE IF serves = st[s].seen
       THEN /\ st' = [st EXCEPT ![s].at = "request", ![s].permit = TRUE, ![s].seen = 0]
            /\ serves' = serves + 1
       ELSE st' = [st EXCEPT ![s].seen = serves] /\ UNCHANGED serves
    /\ UNCHANGED acceptRest

----------------------------------------------------------------------------
(* Admission *)

ReadRequest(s) ==
    /\ st[s].at = "request"
    /\ \E kind \in {"none"} \cup budget.kinds, size \in Sizes :
         st' = [st EXCEPT ![s].at = "admit", ![s].kind = kind, ![s].size = size]
    /\ UNCHANGED <<serves, acceptRest>>

(* The request is closed or does not come before the deadline. *)
RequestEnds(s) ==
    /\ st[s].at = "request"
    /\ Goto(s, "return")
    /\ UNCHANGED <<serves, acceptRest>>

(* admit_plan up to the reservation: a stopped gate, an unknown or too large *)
(* NAR and a spent upload window are answered at once.                       *)
AdmitPlan(s) ==
    /\ st[s].at = "admit"
    /\ LET g == st[s].gate
           known == g # None /\ st[s].kind # "none"
       IN  \E now \in Readings :
             IF ~known \/ gate[g] # "serving" \/ st[s].size > MaxNar
             THEN Goto(s, "respond") /\ UNCHANGED upload
             ELSE /\ upload' = CurrentWindow(upload, now)
                  /\ IF AdmitUpload(upload, now)
                     THEN st' = [st EXCEPT ![s].at = "reserve", ![s].seen = inflight[g]]
                     ELSE Goto(s, "respond")
    /\ UNCHANGED <<serves, inflight, gate, slot, shared, time, ledger, dumpVars>>

(* One turn of the reservation loop.  What is reserved is then answered at   *)
(* once (no common codec, a memory NAR of the wrong size), or made.          *)
ReserveBytes(s) ==
    /\ st[s].at = "reserve"
    /\ LET g == st[s].gate
           want == st[s].seen + st[s].size
       IN  IF want > budget.inflight
           THEN Goto(s, "respond") /\ UNCHANGED inflight
           ELSE IF inflight[g] = st[s].seen
           THEN /\ inflight' = [inflight EXCEPT ![g] = want]
                /\ \E next \in {"respond", "wait1"} :
                     st' = [st EXCEPT ![s].at = next, ![s].reserved = st[s].size,
                                      ![s].seen = 0]
           ELSE st' = [st EXCEPT ![s].seen = inflight[g]] /\ UNCHANGED inflight
    /\ UNCHANGED <<serves, gate, slot, shared, time, ledger, upload, dumpVars>>

----------------------------------------------------------------------------
(* The two passes.  Each takes a Bao worker first and, for a process source, *)
(* starts its dump then; the worker's permit goes with the worker.           *)

exchangeRest == <<serves, inflight, gate, slot, shared, time>>

FreeWorkers == BaoWorkers - Cardinality({s \in Streams : st[s].bao})

StartPass(s, pass) ==
    /\ st[s].at = <<"wait1", "wait2">>[pass]
    /\ FreeWorkers > 0
    /\ \/ /\ st' = [st EXCEPT ![s].at = <<"pass1", "pass2">>[pass], ![s].bao = TRUE]
          /\ IF st[s].kind = "process" THEN Accept(<<s, pass>>) ELSE UNCHANGED dumpVars
       \/ /\ st[s].kind = "process"     \* the supervisor refuses the dump
          /\ Goto(s, "return")
          /\ UNCHANGED dumpVars
    /\ UNCHANGED <<exchangeRest, ledger, upload>>

(* The launch of a dump in its worker thread.  The first pass pays for both  *)
(* (serve_regenerate_pre_spawn_gate); nothing is given back when the spawn   *)
(* fails or when the serve has been cancelled meanwhile.                     *)
LaunchFirst(s) ==
    /\ proc[<<s, 1>>] = "accepted"
    /\ \E now \in Readings :
         LET charge == TryAdmitWork(ledger, now, peerOf[s], Dumps * st[s].size, Dumps)
         IN  /\ ledger' = charge.ledger
             /\ IF charge.admission = "Admitted"
                THEN /\ st' = [st EXCEPT ![s].paid = st[s].paid + Dumps]
                     /\ Launch(<<s, 1>>) \/ NeverRuns(<<s, 1>>, TRUE)
                ELSE /\ st' = [st EXCEPT ![s].declined = TRUE]
                     /\ NeverRuns(<<s, 1>>, FALSE)
    /\ UNCHANGED <<exchangeRest, upload>>

LaunchSecond(s) ==
    /\ Launch(<<s, 2>>) \/ NeverRuns(<<s, 2>>, TRUE)
    /\ UNCHANGED <<st, exchangeRest, ledger, upload>>

(* A cancel that the worker sees before its launch. *)
CancelledBeforeLaunch(s, pass) ==
    /\ st[s].cancel
    /\ NeverRuns(<<s, pass>>, FALSE)
    /\ UNCHANGED <<st, exchangeRest, ledger, upload>>

(* The dump exits, or is killed after a cancel; then the supervisor tells,   *)
(* unless it was shut down under the serve.                                  *)
DumpEnds(s, pass) ==
    /\ Reap(<<s, pass>>)
    /\ UNCHANGED <<st, exchangeRest, ledger, upload>>

DumpTold(s, pass) ==
    /\ Tell(<<s, pass>>) \/ (budget.lossy /\ Lose(<<s, pass>>))
    /\ UNCHANGED <<st, exchangeRest, ledger, upload>>

Told(s, pass) == st[s].kind = "memory" \/ ticket[<<s, pass>>] # "open"

(* prepare_process_outboard and the proof of a memory NAR: only a complete   *)
(* dump with the requested root goes on to the header.  A charge that was    *)
(* refused is answered Busy inside the exchange.                             *)
FirstPassEnds(s) ==
    /\ st[s].at = "pass1"
    /\ Told(s, 1)
    /\ LET complete == st[s].kind = "memory"
                         \/ (ticket[<<s, 1>>] = "reaped" /\ charged[<<s, 1>>])
       IN  \E next \in (IF st[s].declined THEN {"busy"}
                        ELSE {"return"} \cup (IF complete THEN {"wait2"} ELSE {})) :
             st' = [st EXCEPT ![s].at = next, ![s].bao = FALSE]
    /\ UNCHANGED <<exchangeRest, ledger, upload, dumpVars>>

(* ShapingWriter charges what the transport has taken. *)
WriteBody(s) ==
    /\ st[s].at = "pass2"
    /\ st[s].wrote < Octets
    /\ ~st[s].cancel
    /\ \E now \in Readings : upload' = ChargeWireOctets(upload, now, 1)
    /\ st' = [st EXCEPT ![s].wrote = st[s].wrote + 1]
    /\ UNCHANGED <<exchangeRest, ledger, dumpVars>>

(* A write error stops the encoder, which stops the pump, which cancels the  *)
(* dump and waits for it.                                                    *)
WireFails(s) ==
    /\ st[s].at = "pass2"
    /\ ~st[s].cancel
    /\ st' = [st EXCEPT ![s].cancel = TRUE]
    /\ UNCHANGED <<exchangeRest, ledger, upload, dumpVars>>

SecondPassEnds(s) ==
    /\ st[s].at = "pass2"
    /\ Told(s, 2)
    /\ \E next \in {"return"} \cup (IF st[s].wrote = Octets /\ ~st[s].cancel
                                    THEN {"closing"} ELSE {}) :
         st' = [st EXCEPT ![s].at = next, ![s].bao = FALSE]
    /\ UNCHANGED <<exchangeRest, ledger, upload, dumpVars>>

(* The marker is flushed and the close resolves, with or without an error. *)
CloseServed(s) ==
    /\ st[s].at = "closing"
    /\ Goto(s, "return")
    /\ UNCHANGED <<exchangeRest, ledger, upload, dumpVars>>

----------------------------------------------------------------------------
(* Ends *)

(* A short answer is written, or could not be. *)
Respond(s) ==
    /\ st[s].at \in {"respond", "busy"}
    /\ Goto(s, "return")
    /\ UNCHANGED <<exchangeRest, ledger, upload, dumpVars>>

(* Mutant of ServeDeadline: the producers are dropped and not waited for. *)
ServeDeadlineDetaches(s) ==
    /\ st[s].at \in Exchange \cup {"respond"}
    /\ st' = [st EXCEPT ![s].at = "return", ![s].cancel = (st[s].kind = "process")]
    /\ UNCHANGED <<exchangeRest, ledger, upload, dumpVars>>

(* The deadline covers every wait.  A process exchange is kept, its dumps    *)
(* are cancelled and waited for; any other future is dropped.                *)
ServeDeadline(s) ==
    /\ st[s].at \in Exchange \cup {"respond"}
    /\ IF st[s].kind = "process" /\ st[s].at # "respond"
       THEN st' = [st EXCEPT ![s].at = "cancelling", ![s].cancel = TRUE]
       ELSE Goto(s, "return")
    /\ UNCHANGED <<exchangeRest, ledger, upload, dumpVars>>

(* The peer closes its side of a process exchange, before the final close. *)
ConsumerHungUp(s) ==
    /\ st[s].at \in Exchange \ {"closing"}
    /\ st[s].kind = "process"
    /\ st' = [st EXCEPT ![s].at = "cancelling", ![s].cancel = TRUE]
    /\ UNCHANGED <<exchangeRest, ledger, upload, dumpVars>>

Reaped(s) == \A pass \in Passes : proc[<<s, pass>>] = "idle" \/ ticket[<<s, pass>>] # "open"

(* cancel_and_wait returns when every ticket has, or after REAP_TAIL_TIMEOUT. *)
CancelDone(s) ==
    /\ st[s].at = "cancelling"
    /\ Reaped(s)
    /\ Goto(s, "return")
    /\ UNCHANGED <<exchangeRest, ledger, upload, dumpVars>>

ReapTailExpires(s) ==
    /\ st[s].at = "cancelling"
    /\ ~Reaped(s)
    /\ st' = [st EXCEPT ![s].at = "return", ![s].tail = TRUE]
    /\ UNCHANGED <<exchangeRest, ledger, upload, dumpVars>>

(* serve_stream returns: the reservation is dropped, then the permit; a      *)
(* Bao worker that is still running finds its channels closed.               *)
DropReservation(s) ==
    /\ st[s].at = "return"
    /\ inflight' = [g \in Gates |-> IF g = st[s].gate THEN inflight[g] - st[s].reserved
                                                      ELSE inflight[g]]
    /\ st' = [st EXCEPT ![s].at = "drop", ![s].gate = None, ![s].kind = "none",
                        ![s].size = 0, ![s].seen = 0, ![s].reserved = 0, ![s].wrote = 0]
    /\ UNCHANGED <<serves, gate, slot, shared, time, ledger, upload, dumpVars>>

DropPermit(s) ==
    /\ st[s].at = "drop"
    /\ serves' = IF st[s].permit THEN serves - 1 ELSE serves
    /\ st' = [st EXCEPT ![s].at = "done", ![s].permit = FALSE]
    /\ UNCHANGED acceptRest

WorkerUnwinds(s) ==
    /\ st[s].bao
    /\ st[s].at \in {"drop", "done"} \/ (st[s].at = "return" /\ st[s].kind = "memory")
    /\ st' = [st EXCEPT ![s].bao = FALSE]
    /\ UNCHANGED <<exchangeRest, ledger, upload, dumpVars>>

Tick ==
    /\ time < budget.horizon
    /\ time' = time + 1
    /\ UNCHANGED <<st, serves, inflight, gate, slot, shared, ledger, upload, dumpVars>>

----------------------------------------------------------------------------
AdmissionStep(s) ==
    \/ AcquireServeCount(s) \/ ReadRequest(s) \/ RequestEnds(s) \/ AdmitPlan(s) \/ ReserveBytes(s)

DumpStep(s) ==
    \/ LaunchFirst(s) \/ LaunchSecond(s)
    \/ \E pass \in Passes : CancelledBeforeLaunch(s, pass) \/ DumpEnds(s, pass) \/ DumpTold(s, pass)

PassStep(s) ==
    \/ \E pass \in Passes : StartPass(s, pass)
    \/ FirstPassEnds(s) \/ WriteBody(s) \/ WireFails(s) \/ SecondPassEnds(s) \/ CloseServed(s)

EndStep(s) ==
    \/ Respond(s) \/ CancelDone(s) \/ ReapTailExpires(s)
    \/ DropReservation(s) \/ DropPermit(s) \/ WorkerUnwinds(s)

ServingNext ==
    \/ \E g \in Gates : Serve(g) \/ Stop(g) \/ Uninstall(g)
    \/ \E s \in Streams :
         \/ Accept1(s) \/ AdmissionStep(s) \/ DumpStep(s) \/ PassStep(s) \/ EndStep(s)
         \/ ServeDeadline(s) \/ ConsumerHungUp(s)
    \/ Tick

(* Tasks are polled, deadlines fire, and a cancelled dump is not launched or *)
(* is killed, and told.  A dump that nobody cancels and a peer that reads    *)
(* nothing owe nothing.  The steps of all streams are finitely many, so one  *)
(* weak fairness condition is enough.                                        *)
ServingProgress ==
    \E s \in Streams :
        \/ AdmissionStep(s) \/ EndStep(s) \/ ServeDeadline(s)
        \/ \E pass \in Passes :
             \/ CancelledBeforeLaunch(s, pass)
             \/ st[s].cancel /\ (DumpEnds(s, pass) \/ DumpTold(s, pass))

ServingSpec ==
    ServingInit /\ [][ServingNext]_servingVars /\ WF_servingVars(ServingProgress)

----------------------------------------------------------------------------
(* The ceilings *)

Counters == Gates \cup {"serves"}

HeldBy == [c \in Counters |-> [s \in Streams |->
             IF c = "serves" THEN IF st[s].permit THEN 1 ELSE 0
             ELSE IF st[s].gate = c THEN st[s].reserved ELSE 0]]

TotalOf == [c \in Counters |-> IF c = "serves" THEN serves ELSE inflight[c]]

LimitOf == [c \in Counters |-> IF c = "serves" THEN budget.serves ELSE budget.inflight]

Ceilings == INSTANCE BoundedCounters WITH
    Holders <- Streams, held <- HeldBy, total <- TotalOf, limit <- LimitOf

(* The gate implements bounded counters.  However the accept loop, the       *)
(* reservations, the returns of streams and the replacement of gates         *)
(* interleave, the shared serve counter is the number of streams that hold a *)
(* permit and a gate's byte counter the sum of its streams' reservations,    *)
(* neither passes its ceiling, and each unit comes back exactly once         *)
(* (try_acquire_serve_count, admit_plan, InflightReservation,                *)
(* ServeCountPermit).                                                        *)
ImplementsCounters == Ceilings!CounterSpec

(* No dump runs for a stream that has given its bytes back, whichever way    *)
(* the stream ended, unless its reap tail timed out or the supervisor that   *)
(* would have told was dropped (cancel_and_wait before the return).          *)
ReservedWhileRunning ==
    \A s \in Streams, pass \in Passes :
        proc[<<s, pass>>] = "running" =>
            st[s].reserved > 0 \/ st[s].tail \/ ticket[<<s, pass>>] = "lost"

(* Every dump is paid for: the second pass runs on the charge of the first,  *)
(* a stream pays at most once, and one that was declined or that never       *)
(* reached its launch pays nothing.                                          *)
PassesArePaidOnce ==
    \A s \in Streams :
        /\ st[s].paid \in {0, Dumps}
        /\ charged[<<s, 1>>] <=> st[s].paid = Dumps
        /\ (\E pass \in Passes : proc[<<s, pass>>] = "running") => st[s].paid = Dumps
        /\ st[s].declined => st[s].paid = 0

(* upload_ledger.rs: a window overshoots its cap by at most what the serves  *)
(* that were admitted before it was spent still write; with a ceiling on     *)
(* concurrent serves that is one body for each of them.                      *)
OvershootIsBounded ==
    budget.serves > 0 => upload.bytes < UploadCap + budget.serves * Octets

(* Where every behaviour ends: each accepted stream has given back its       *)
(* permit, its bytes and its Bao worker, although dumps may hang and peers   *)
(* may stop reading.  (A stream is accepted once.)                           *)
StreamsHaveEnded ==
    \A s \in Streams : st[s].at = "idle" \/ (st[s].at = "done" /\ ~st[s].bao)

(* What runs is paid for: no dump outlives its reservation, a stream is     *)
(* charged at most once, and an upload window overshoots by one body for    *)
(* each concurrent serve at most (nar.rs, upload_ledger.rs).                *)
ServesArePaidFor ==
    ServingTypeOK /\ ReservedWhileRunning /\ PassesArePaidOnce /\ OvershootIsBounded
=============================================================================
