-------------------------- MODULE NodePublication ---------------------------
(***************************************************************************)
(* Publishing a node's own record: the anchored store that remembers it,    *)
(* the authority that may change it, and the publication over both.        *)
(***************************************************************************)
EXTENDS Naturals

(***************************************************************************)
(* The directory that the node publisher and the publication authority     *)
(* keep their state in.  Each has a state file, replaced by rename, and a  *)
(* second file, the rollback anchor, that repeats the high-water marks of  *)
(* the state and is replaced after it.  The two stores are written by the  *)
(* same sequence of system calls: rename the state, fsync the directory,   *)
(* rename the anchor, fsync the directory.                                 *)
(*                                                                         *)
(* A store is a record: "state" and "anchor" are what a process that opens *)
(* the directory reads, "durable" is what the last fsync of the directory  *)
(* put on the medium, "latest" the file of the last rename.  Files are     *)
(* whole or absent: a temporary file is written and synced before its      *)
(* rename.                                                                 *)
(***************************************************************************)

\* The store of a directory that was never used, given what stands for a
\* state file and an anchor that are not there.

EmptyStore(noState, noAnchor) ==
    [state |-> noState, anchor |-> noAnchor, latest |-> "anchor",
     durable |-> [state |-> noState, anchor |-> noAnchor]]

\* fsync of the directory.
SyncStoreDirectory(s) ==
    [s EXCEPT !.durable = [state |-> s.state, anchor |-> s.anchor],
              !.latest = "anchor"]

RenameState(s, body) == [s EXCEPT !.state = body, !.latest = "state"]

RenameAnchor(s, anchor) == [s EXCEPT !.anchor = anchor, !.latest = "anchor"]

\* The store after write_anchor, and the ones it can fail or be killed in.
WriteAnchor(s, anchor) == SyncStoreDirectory(RenameAnchor(s, anchor))

AnchorCut(s, anchor) == {s, RenameAnchor(s, anchor)}

\* The store after write: the anchor follows the state.
WriteState(s, body, anchor) ==
    WriteAnchor(SyncStoreDirectory(RenameState(s, body)), anchor)

\* Where write stops when a step after the rename of the state fails, or when
\* the process dies there.
WriteCut(s, body, anchor) ==
    LET renamed == RenameState(s, body)
    IN {renamed} \cup AnchorCut(SyncStoreDirectory(renamed), anchor)

\* What write can do: succeed, fail before the rename, or fail after it.  A
\* failure after the rename is ambiguous and poisons the store, which then
\* refuses every read and write until the process is restarted.
Writes(s, body, anchor) ==
    {[store |-> WriteState(s, body, anchor), outcome |-> "written"],
     [store |-> s, outcome |-> "failed"]}
      \cup {[store |-> cut, outcome |-> "poisoned"] :
               cut \in WriteCut(s, body, anchor)}

\* What a power failure leaves: renames that no fsync covered may be lost,
\* the later one first.
StorePowerLoss(s) ==
    LET stateLost == [s EXCEPT !.state = s.durable.state]
        anchorLost == [s EXCEPT !.anchor = s.durable.anchor]
        bothLost == [stateLost EXCEPT !.anchor = s.durable.anchor]
    IN {SyncStoreDirectory(kept) :
           kept \in {s, IF s.latest = "state" THEN stateLost ELSE anchorLost, bothLost}}

-----------------------------------------------------------------------------
(***************************************************************************)
(* The publication authority: an HTTP service that keeps, for a signer,    *)
(* the newest signed node record it was sent, and its highest sequence,    *)
(* durably.  It answers PUT and GET; each request is applied under one     *)
(* mutex with no await, so a request is one step here.  A request that     *)
(* fails to write the state is fatal: the serving task ends with it.       *)
(*                                                                         *)
(* A packet is what its signature covers: a sequence and the locations,    *)
(* Nowhere for a withdrawal.  It expires Ttl after its sequence.  One      *)
(* signer is modelled; the records of two signers meet only in the file.   *)
(* The clock never goes back here, so the monotonic deadline the code      *)
(* keeps beside an expiry says the same as the expiry, and the refusal to  *)
(* serve after the clock regressed does not occur.                         *)
(***************************************************************************)

CONSTANTS Ttl,      \* lifetime of a record
          Second,   \* one second: grace of an expiry, granularity of the clock
          Nowhere   \* the locations of a withdrawal

VARIABLES clock,    \* wall clock
          authMem,  \* the body held in memory by the serving task
          authDisk, \* its store
          authUp    \* whether the serving task runs

authVars == <<authMem, authDisk, authUp>>

NoPacket == [seq |-> 0, locs |-> Nowhere]

Expiry(packet) == packet.seq + Ttl

\* The body with the entry of the signer: NoPacket when it has none.
NoBody == [present |-> FALSE, clockMark |-> 0, packet |-> NoPacket, expired |-> FALSE]

FreshBody == [NoBody EXCEPT !.present = TRUE]

\* What the anchor repeats of the body: all of it, as the model has it.
AuthorityAnchorOf(body) == body

\* validate_or_initialize_anchor, for a state file that is there.
AuthorityAnchorAdmits(body, anchor) ==
    /\ anchor.present
    /\ body.clockMark >= anchor.clockMark
    /\ anchor.packet # NoPacket =>
         /\ body.packet.seq >= anchor.packet.seq
         /\ body.packet.seq = anchor.packet.seq =>
              /\ body.packet = anchor.packet
              /\ anchor.expired => body.expired

AuthorityInit ==
    /\ authMem = NoBody
    /\ authDisk = EmptyStore(NoBody, NoBody)
    /\ authUp = FALSE

\* What open finds: the state file, or a fresh body, beside an anchor that
\* admits it.  A state file without an anchor is refused.
AuthorityFinds(disk) == IF disk.state.present THEN disk.state ELSE FreshBody

AuthorityAdmits(disk) ==
    IF disk.anchor.present THEN AuthorityAnchorAdmits(AuthorityFinds(disk), disk.anchor)
                           ELSE ~disk.state.present

\* AuthorityStateStore::open and the spawn of the serving task.  A directory
\* without a state file gets an anchor and no state file; a state ahead of
\* its anchor has the anchor rewritten.  A write that fails ends the start.
AuthorityOpen ==
    LET body == AuthorityFinds(authDisk)
        anchor == AuthorityAnchorOf(body)
    IN /\ ~authUp /\ AuthorityAdmits(authDisk)
       /\ \/ /\ authDisk' = IF authDisk.anchor = anchor THEN authDisk
                                                        ELSE WriteAnchor(authDisk, anchor)
             /\ authMem' = body
             /\ authUp' = TRUE
          \/ /\ authDisk.anchor # anchor
             /\ authDisk' \in AnchorCut(authDisk, anchor)
             /\ UNCHANGED <<authMem, authUp>>

\* A write of the candidate body: it is held in memory only when the write
\* succeeded; when it did not, the error is fatal and the task ends.
AuthorityWrite(body, w) ==
    /\ w \in Writes(authDisk, body, AuthorityAnchorOf(body))
    /\ authDisk' = w.store
    /\ authMem' = IF w.outcome = "written" THEN body ELSE NoBody
    /\ authUp' = (w.outcome = "written")

\* The answer to PUT: of the packet and of the entry held.
PutStatus(packet) ==
    IF packet.seq + Ttl <= clock \/ packet.seq > clock + Second THEN "invalid"
    ELSE IF authMem.packet = NoPacket \/ packet.seq > authMem.packet.seq THEN "created"
    ELSE IF packet = authMem.packet /\ ~authMem.expired THEN "ok"
    ELSE "conflict"

\* apply_request of a PUT.
ApplyPut(packet, status) ==
    /\ authUp
    /\ \/ /\ PutStatus(packet) # "created"
          /\ status = PutStatus(packet)
          /\ UNCHANGED authVars
       \/ /\ PutStatus(packet) = "created"
          /\ LET body == [authMem EXCEPT !.packet = packet, !.expired = FALSE,
                            !.clockMark = IF clock > @ THEN clock ELSE @]
             IN \E w \in Writes(authDisk, body, AuthorityAnchorOf(body)) :
                  /\ AuthorityWrite(body, w)
                  /\ status = IF w.outcome = "written" THEN "created" ELSE "lost"

\* apply_request of a GET: an entry that has expired is marked, durably,
\* before the signer is reported absent; the clock's mark advances by whole
\* seconds.
ApplyGet(found) ==
    LET absent == authMem.packet = NoPacket \/ authMem.expired
        over == Expiry(authMem.packet) <= clock
        body == IF over THEN [authMem EXCEPT !.expired = TRUE, !.clockMark = clock]
                        ELSE [authMem EXCEPT !.clockMark = clock]
        writes == ~absent /\ (over \/ clock >= authMem.clockMark + Second)
    IN /\ authUp
       /\ \/ /\ ~writes
             /\ found = IF absent THEN NoPacket ELSE authMem.packet
             /\ UNCHANGED authVars
          \/ /\ writes
             /\ \E w \in Writes(authDisk, body, AuthorityAnchorOf(body)) :
                  /\ AuthorityWrite(body, w)
                  /\ found = IF w.outcome = "written" /\ ~over THEN authMem.packet
                                                               ELSE NoPacket

\* The process dies, or the machine loses power with it.
AuthorityCrash ==
    /\ authUp
    /\ authUp' = FALSE
    /\ authMem' = NoBody
    /\ UNCHANGED authDisk

AuthorityPowerLoss ==
    /\ authDisk' \in StorePowerLoss(authDisk)
    /\ authUp' = FALSE
    /\ authMem' = NoBody

-----------------------------------------------------------------------------
(***************************************************************************)
(* The publisher of a node's own addresses, and the authority it publishes *)
(* to.  A transition persists the exact packet as pending, PUTs it, GETs   *)
(* it back and commits it; the transitions of startup, of the address      *)
(* watch, of the refresh timer and of shutdown run one at a time, under    *)
(* transition_gate.  The desired locations are kept apart from the packet, *)
(* with a revision, so that a newer wish retires a pending packet.         *)
(*                                                                         *)
(* A PUT that the publisher gave up may still reach the authority later,   *)
(* or never.  Either process can die between any two steps, and a write of *)
(* its store can fail in any of the ways listed above.  The publisher may  *)
(* read a wall clock that was set back by a second.                        *)
(***************************************************************************)

CONSTANTS Locs,              \* the lists of locations the node can have
          Home,              \* the one its configuration declares
          StartMargin,       \* what a packet must have left to be sent again
          CompletionReserve, \* what a recovered packet must have left
          MaxPublicationTime, MaxSeq,  \* bounds
          MaxBoots, MaxOutages, MaxUpdates

VARIABLES phase,     \* of the publisher process
          pubMem,    \* PublicationStateBody in memory
          pubDisk,   \* its store
          poisoned,  \* PublicationStateStore::poisoned
          wanted,    \* desired_intent: a revision and the locations
          job,       \* attempt each task is at, 0 when it has none to make
          gate,      \* the task that holds transition_gate
          at,        \* where that task is
          sending,   \* the packet of its PUT and GET
          kind,      \* why: a "new" packet, a "recovered" or a "reused" one
          putAnswer,    \* the authority's answer to its request
          packets,      \* PUTs that are under way
          ended,     \* loops that ended with a fatal error
          sent,      \* every packet ever PUT
          budget     \* boots, faults and updates so far

pubVars == <<phase, pubMem, pubDisk, poisoned, wanted, job, gate, at, sending,
             kind, putAnswer, ended>>
publicationVars == <<clock, authVars, pubVars, packets, sent, budget>>

PublicationTasks == {"start", "update", "refresh", "withdraw"}
Free == "free"
NoStored == [packet |-> NoPacket, rev |-> 0]
NoState == [rev |-> 0, want |-> Nowhere, hw |-> 0,
            committed |-> NoStored, pending |-> NoStored]
NoAnchor == [rev |-> 0, want |-> Nowhere, hw |-> 0, latest |-> NoPacket, acked |-> FALSE]
Unanswered == [status |-> "none", packet |-> NoPacket]
Spend(what) == budget' = [budget EXCEPT ![what] = @ + 1]

\* PublicationStateBody::fresh.
FreshState == [NoState EXCEPT !.rev = 1, !.want = Home]

\* PublicationAnchorBody::from_state.
PublisherAnchorOf(b) ==
    LET latest == IF b.pending # NoStored THEN b.pending ELSE b.committed
    IN [rev |-> b.rev, want |-> b.want, hw |-> b.hw, latest |-> latest.packet,
        acked |-> b.pending = NoStored /\ b.committed # NoStored]

\* validate_loaded_state.
ValidState(b) ==
    /\ b.rev > 0
    /\ \A s \in {b.committed, b.pending} \ {NoStored} :
         /\ s.rev <= b.rev
         /\ s.rev = b.rev => s.packet.locs = b.want
         /\ s.packet.seq <= b.hw
    /\ b.committed # NoStored /\ b.pending # NoStored =>
         b.pending.packet.seq > b.committed.packet.seq

\* validate_or_initialize_anchor, against an anchor that is there.
PublisherAnchorAdmits(b, a) ==
    LET c == PublisherAnchorOf(b)
        retired == /\ ~a.acked /\ a.latest.seq = a.hw /\ a.latest # NoPacket
                   /\ c.latest = NoPacket \/ c.latest.seq # c.hw
    IN /\ c.hw >= a.hw /\ c.rev >= a.rev
       /\ c.rev = a.rev => c.want = a.want
       /\ c.hw = a.hw =>
            /\ c.latest = a.latest \/ retired
            /\ ~(a.acked /\ ~c.acked /\ c.latest.seq = a.latest.seq)

\* update_desired_intent.
Desire(i, locs) == IF i.locs = locs THEN i ELSE [rev |-> i.rev + 1, locs |-> locs]

\* wall_unix_micros: the clock, or one that was set back.
WallClock == {clock} \cup {c \in {clock - Second} : clock > Second}

\* Mutant of NextPacketSequence: the clock alone, without the high-water mark.
NextPacketSequenceOfClock(now, hw) == now

NextPacketSequence(now, hw) == IF hw = 0 \/ now > hw + 1 THEN now ELSE hw + 1

PublicationInit ==
    /\ AuthorityInit
    /\ clock = Second
    /\ phase = "down"
    /\ pubMem = NoState
    /\ pubDisk = EmptyStore(NoState, NoAnchor)
    /\ poisoned = FALSE
    /\ wanted = [rev |-> 0, locs |-> Nowhere]
    /\ job = [k \in PublicationTasks |-> 0] /\ gate = Free /\ at = "idle"
    /\ sending = NoPacket /\ kind = "new" /\ putAnswer = Unanswered
    /\ packets = {} /\ ended = {} /\ sent = {}
    /\ budget = [boots |-> 0, faults |-> 0, updates |-> 0]

\* The volatile state of a process that is not running.
Reset ==
    /\ pubMem' = NoState /\ poisoned' = FALSE
    /\ wanted' = [rev |-> 0, locs |-> Nowhere]
    /\ job' = [k \in PublicationTasks |-> 0] /\ gate' = Free /\ at' = "idle"
    /\ sending' = NoPacket /\ kind' = "new" /\ putAnswer' = Unanswered /\ ended' = {}

\* PublisherInner::open takes the wish from the state.
OpenIntent(body) == [rev |-> body.rev, locs |-> body.want]

\* What open finds, and whether it goes on with it: the state must agree with
\* itself and with the anchor, and a state without an anchor is refused.
PublisherFinds(disk) == IF disk.state = NoState THEN FreshState ELSE disk.state

PublisherAdmits(disk) ==
    /\ ValidState(PublisherFinds(disk))
    /\ IF disk.anchor = NoAnchor THEN disk.state = NoState
         ELSE PublisherAnchorAdmits(PublisherFinds(disk), disk.anchor)

\* PublicationStateStore::open, then the intent of the startup transition:
\* locs are the declared locations observed at the endpoint.  A directory
\* without a state file gets its anchor first and the state after it.
Boot(locs) ==
    LET had == pubDisk.state # NoState
        body == PublisherFinds(pubDisk)
        anchor == PublisherAnchorOf(body)
        anchored == IF pubDisk.anchor = anchor THEN pubDisk ELSE WriteAnchor(pubDisk, anchor)
    IN /\ phase \in {"down", "withdrawn"} /\ PublisherAdmits(pubDisk)
       /\ budget.boots < MaxBoots /\ Spend("boots")
       /\ \/ /\ pubDisk' = IF had THEN anchored ELSE WriteState(anchored, body, anchor)
             /\ phase' = "starting"
             /\ pubMem' = body
             /\ wanted' = Desire(OpenIntent(body), locs)
             /\ job' = [k \in PublicationTasks |-> IF k = "start" THEN 1 ELSE 0]
             /\ UNCHANGED <<poisoned, gate, at, sending, kind, putAnswer, ended>>
          \/ /\ pubDisk' \in (IF anchored = pubDisk THEN {} ELSE AnchorCut(pubDisk, anchor))
                               \cup (IF had THEN {} ELSE WriteCut(anchored, body, anchor))
             /\ phase' = "down"
             /\ Reset
       /\ UNCHANGED <<clock, authVars, packets, sent>>

\* NodePublicationHandle::update_locations, called by the address watch: the
\* wish is recorded before the gate is awaited.
RequestUpdate(locs) ==
    /\ phase = "running" /\ job["update"] = 0 /\ "update" \notin ended
    /\ budget.updates < MaxUpdates /\ Spend("updates")
    /\ wanted' = Desire(wanted, locs)
    /\ job' = [job EXCEPT !["update"] = 1]
    /\ UNCHANGED <<clock, authVars, phase, pubMem, pubDisk, poisoned, gate, at,
                   sending, kind, putAnswer, packets, ended, sent>>

\* The refresh timer.
RefreshDue ==
    /\ phase = "running" /\ job["refresh"] = 0 /\ "refresh" \notin ended
    /\ job' = [job EXCEPT !["refresh"] = 1]
    /\ UNCHANGED <<clock, authVars, phase, pubMem, pubDisk, poisoned, wanted, gate,
                   at, sending, kind, putAnswer, packets, ended, sent, budget>>

\* record_shutdown_intent, after the close latch: a withdrawal supersedes
\* every wish, and the refresh task is aborted wherever it is.
Close(ph) ==
    /\ phase' = ph
    /\ wanted' = Desire(wanted, Nowhere)
    /\ job' = [job EXCEPT !["refresh"] = 0, !["start"] = 0, !["withdraw"] = 1]

Shutdown ==
    /\ phase = "running"
    /\ Close("closing")
    /\ IF gate = "refresh"
         THEN gate' = Free /\ at' = "idle" /\ putAnswer' = Unanswered
         ELSE UNCHANGED <<gate, at, putAnswer>>
    /\ UNCHANGED <<clock, authVars, pubMem, pubDisk, poisoned, sending, kind, packets,
                   ended, sent, budget>>

Release == gate' = Free /\ at' = "idle" /\ putAnswer' = Unanswered

\* Task k's attempt fails.  An update and a refresh are tried twice, unless
\* their common deadline cut the first; then the loop ends.  A failed start
\* is followed by a withdrawal; a failed withdrawal ends the process.
Fail(k) ==
    /\ Release
    /\ \/ /\ k = "start" /\ Close("failing") /\ UNCHANGED ended
       \/ /\ k = "withdraw" /\ phase' = "down"
          /\ job' = [job EXCEPT ![k] = 0] /\ UNCHANGED <<wanted, ended>>
       \/ /\ k \in {"update", "refresh"} /\ job[k] = 1 /\ phase = "running"
          /\ job' = [job EXCEPT ![k] = 2] /\ UNCHANGED <<wanted, ended, phase>>
       \/ /\ k \in {"update", "refresh"}
          /\ job' = [job EXCEPT ![k] = 0] /\ ended' = ended \cup {k}
          /\ UNCHANGED <<wanted, phase>>

\* Task k's transition succeeds: its receipt says the packet is visible.
Succeed(k) ==
    /\ Release
    /\ job' = [job EXCEPT ![k] = 0]
    /\ phase' = CASE k = "start" -> "running"
                  [] k = "withdraw" -> "withdrawn"
                  [] OTHER -> phase
    /\ UNCHANGED <<wanted, ended>>

\* The PUT of a packet.
Send(packet, why) ==
    /\ sending' = packet /\ kind' = why /\ at' = "put" /\ putAnswer' = Unanswered
    /\ packets' = packets \cup {packet} /\ sent' = sent \cup {packet}

Faulty(w) == IF w.outcome = "written" THEN UNCHANGED budget
                                      ELSE budget.faults < MaxOutages /\ Spend("faults")

\* A write of the candidate body b by task k; on success the body is taken
\* over and the task goes on at next.
WriteThen(k, b, next) ==
    \E w \in Writes(pubDisk, b, PublisherAnchorOf(b)) :
        /\ ~poisoned
        /\ Faulty(w)
        /\ pubDisk' = w.store
        /\ poisoned' = (w.outcome = "poisoned")
        /\ IF w.outcome = "written"
             THEN /\ pubMem' = b /\ gate' = k /\ at' = next
                  /\ UNCHANGED <<phase, wanted, job, putAnswer, ended>>
             ELSE Fail(k) /\ UNCHANGED pubMem

\* transition_recorded, refresh_current and withdraw_for_shutdown up to
\* transition_locked: take the gate, look at the close latch, persist the
\* latest wish.
Acquire(k) ==
    LET b == [pubMem EXCEPT !.rev = wanted.rev, !.want = wanted.locs]
    IN /\ gate = Free /\ job[k] > 0
       /\ phase # "closing" \/ k = "withdraw"
       /\ \/ /\ poisoned
             /\ Fail(k) /\ UNCHANGED <<pubMem, pubDisk, poisoned, budget>>
          \/ /\ ~poisoned /\ wanted.rev > pubMem.rev
             /\ WriteThen(k, b, "recover")
          \/ /\ ~poisoned /\ wanted.rev <= pubMem.rev
             /\ gate' = k /\ at' = "recover"
             /\ UNCHANGED <<phase, pubMem, pubDisk, poisoned, wanted, job, putAnswer,
                            ended, budget>>
       /\ UNCHANGED <<clock, authVars, sending, kind, packets, sent>>

\* The start of transition_locked: a pending packet is retired when a newer
\* wish, its age or the shutdown makes it useless, and else sent again.
Recover(k) ==
    LET p == pubMem.pending
        b == [pubMem EXCEPT !.pending = NoStored]
    IN /\ gate = k /\ at = "recover"
       /\ \E now \in WallClock :
            LET stale == p.rev < pubMem.rev \/ Expiry(p.packet) <= now + StartMargin
            IN \/ /\ p = NoStored
                  /\ at' = "decide"
                  /\ UNCHANGED <<phase, pubMem, pubDisk, poisoned, wanted, job, gate,
                                 sending, kind, putAnswer, ended, packets, sent, budget>>
               \/ /\ p # NoStored /\ (k = "withdraw" \/ stale)
                  /\ WriteThen(k, b, "decide")
                  /\ UNCHANGED <<sending, kind, packets, sent>>
               \/ /\ p # NoStored /\ k # "withdraw" /\ ~stale
                  /\ Send(p.packet, "recovered")
                  /\ UNCHANGED <<phase, pubMem, pubDisk, poisoned, wanted, job, gate,
                                 ended, budget>>
       /\ UNCHANGED <<clock, authVars>>

\* The rest of transition_locked: the committed packet is sent again when it
\* says what is wanted for long enough, else a packet with the next sequence
\* is persisted as pending.
Decide(k) ==
    /\ gate = k /\ at = "decide"
    /\ \E now \in WallClock :
         LET c == pubMem.committed.packet
             reusable == /\ c # NoPacket /\ c.locs = pubMem.want
                         /\ Expiry(c) > now + StartMargin
             p == [seq |-> NextPacketSequence(now, pubMem.hw), locs |-> pubMem.want]
             b == [pubMem EXCEPT !.pending = [packet |-> p, rev |-> pubMem.rev],
                                 !.hw = p.seq]
         IN \/ /\ reusable
               /\ Send(c, "reused")
               /\ UNCHANGED <<phase, pubMem, pubDisk, poisoned, wanted, job, gate,
                              ended, budget>>
            \/ /\ ~reusable /\ p.seq <= MaxSeq
               /\ WriteThen(k, b, "submit")
               /\ UNCHANGED <<sending, kind, packets, sent>>
    /\ UNCHANGED <<clock, authVars>>

\* submit_pending, up to the PUT.
Submit(k) ==
    /\ gate = k /\ at = "submit"
    /\ Send(pubMem.pending.packet, "new")
    /\ UNCHANGED <<clock, authVars, phase, pubMem, pubDisk, poisoned, wanted, job,
                   gate, ended, budget>>

\* put_exact returns: any status outside 200..299 is an error.
PutReturns(k) ==
    /\ gate = k /\ at = "put" /\ putAnswer.status # "none"
    /\ IF putAnswer.status \in {"created", "ok"}
         THEN /\ at' = "get" /\ putAnswer' = Unanswered
              /\ UNCHANGED <<phase, wanted, job, gate, ended>>
         ELSE Fail(k)
    /\ UNCHANGED <<clock, authVars, pubMem, pubDisk, poisoned, sending, kind, packets,
                   sent, budget>>

\* verify_visible returns, and the packet is committed.  A recovered packet
\* that is not what is wanted any more, or not for long, is only the first
\* half of the transition.
GetReturns(k) ==
    LET b == [pubMem EXCEPT !.committed = pubMem.pending, !.pending = NoStored]
        visible == putAnswer.packet = sending
    IN /\ gate = k /\ at = "get" /\ putAnswer.status # "none"
       /\ \/ /\ ~visible
             /\ Fail(k) /\ UNCHANGED <<pubMem, pubDisk, poisoned, budget>>
          \/ /\ visible /\ kind = "reused"
             /\ Succeed(k) /\ UNCHANGED <<pubMem, pubDisk, poisoned, budget>>
          \/ /\ visible /\ kind # "reused" /\ ~poisoned
             /\ \E w \in Writes(pubDisk, b, PublisherAnchorOf(b)), now \in WallClock :
                  LET over == \/ sending.locs # pubMem.want
                              \/ Expiry(sending) <= now + CompletionReserve
                  IN /\ Faulty(w)
                     /\ pubDisk' = w.store
                     /\ poisoned' = (w.outcome = "poisoned")
                     /\ pubMem' = IF w.outcome = "written" THEN b ELSE pubMem
                     /\ \/ /\ w.outcome = "written" /\ kind = "recovered" /\ over
                           /\ at' = "decide" /\ putAnswer' = Unanswered
                           /\ UNCHANGED <<phase, wanted, job, gate, ended>>
                        \/ /\ w.outcome = "written" /\ ~(kind = "recovered" /\ over)
                           /\ Succeed(k)
                        \/ w.outcome # "written" /\ Fail(k)
       /\ UNCHANGED <<clock, authVars, sending, kind, packets, sent>>

\* A request that times out or whose connection breaks.
RequestFails(k) ==
    /\ gate = k /\ at \in {"put", "get"}
    /\ budget.faults < MaxOutages /\ Spend("faults")
    /\ Fail(k)
    /\ UNCHANGED <<clock, authVars, pubMem, pubDisk, poisoned, sending, kind, packets, sent>>

\* The close latch ends an update wherever it waits.
CancelUpdate ==
    /\ phase = "closing" /\ job["update"] > 0
    /\ job' = [job EXCEPT !["update"] = 0]
    /\ IF gate = "update" THEN Release ELSE UNCHANGED <<gate, at, putAnswer>>
    /\ UNCHANGED <<clock, authVars, phase, pubMem, pubDisk, poisoned, wanted, sending,
                   kind, packets, ended, sent, budget>>

\* The publisher's process dies, with or without the machine's power.
Crash ==
    /\ phase \notin {"down", "withdrawn"}
    /\ budget.faults < MaxOutages /\ Spend("faults")
    /\ phase' = "down"
    /\ Reset
    /\ pubDisk' \in {pubDisk} \cup StorePowerLoss(pubDisk)
    /\ UNCHANGED <<clock, authVars, packets, sent>>

\* A PUT reaches the authority, while its sender waits or after it gave up.
DeliverPut(p) ==
    /\ p \in packets
    /\ packets' = packets \ {p}
    /\ \E status \in {"created", "ok", "conflict", "invalid", "lost"} :
         /\ ApplyPut(p, status)
         /\ IF status = "lost" THEN budget.faults < MaxOutages /\ Spend("faults")
                               ELSE UNCHANGED budget
         /\ putAnswer' = IF /\ at = "put" /\ sending = p
                         /\ putAnswer = Unanswered /\ status # "lost"
                        THEN [status |-> status, packet |-> NoPacket] ELSE putAnswer
    /\ UNCHANGED <<clock, phase, pubMem, pubDisk, poisoned, wanted, job, gate, at,
                   sending, kind, ended, sent>>

\* A PUT that never arrives.
LosePut(p) ==
    /\ p \in packets
    /\ packets' = packets \ {p}
    /\ UNCHANGED <<clock, authVars, pubVars, sent, budget>>

\* A GET: the publisher's, or that of some reader.
ServeGet ==
    /\ \E found \in {NoPacket, authMem.packet} :
         /\ ApplyGet(found)
         /\ putAnswer' = IF at = "get" /\ putAnswer = Unanswered /\ authUp'
                        THEN [status |-> "got", packet |-> found] ELSE putAnswer
    /\ IF authUp' THEN UNCHANGED budget
                         ELSE budget.faults < MaxOutages /\ Spend("faults")
    /\ UNCHANGED <<clock, phase, pubMem, pubDisk, poisoned, wanted, job, gate, at,
                   sending, kind, packets, ended, sent>>

StartAuthority ==
    /\ AuthorityOpen
    /\ IF ~authUp' THEN budget.faults < MaxOutages /\ Spend("faults")
                           ELSE UNCHANGED budget
    /\ UNCHANGED <<clock, pubVars, packets, sent>>

LoseAuthority ==
    /\ budget.faults < MaxOutages /\ Spend("faults")
    /\ AuthorityCrash \/ AuthorityPowerLoss
    /\ UNCHANGED <<clock, pubVars, packets, sent>>

WallTick ==
    /\ clock + Second <= MaxPublicationTime
    /\ clock' = clock + Second
    /\ UNCHANGED <<authVars, pubVars, packets, sent, budget>>

PublicationNext ==
    \/ \E locs \in Locs : Boot(locs) \/ RequestUpdate(locs)
    \/ RequestUpdate(Nowhere)
    \/ RefreshDue \/ Shutdown \/ CancelUpdate \/ Crash
    \/ \E k \in PublicationTasks : \/ Acquire(k) \/ Recover(k) \/ Decide(k) \/ Submit(k)
                        \/ PutReturns(k) \/ GetReturns(k) \/ RequestFails(k)
    \/ \E p \in packets : DeliverPut(p) \/ LosePut(p)
    \/ ServeGet \/ StartAuthority \/ LoseAuthority \/ WallTick

PublicationSpec == PublicationInit /\ [][PublicationNext]_publicationVars

-----------------------------------------------------------------------------
(* What a holder of the handle can read.                                   *)

\* wait_for_fatal returns: a loop has ended, or the publisher is gone.
FatalIsKnown == phase \in {"down", "withdrawn"} \/ ended # {}

NotCurrent == [ok |-> FALSE, packet |-> NoPacket]

\* NodePublicationHandle::current_record: not while closing, failed or
\* poisoned, and not an expired packet.
CurrentRecord(now) ==
    IF phase # "running" \/ ended # {} \/ poisoned THEN NotCurrent
    ELSE LET packet == pubMem.committed.packet
         IN  IF packet # NoPacket /\ Expiry(packet) <= now THEN NotCurrent
             ELSE [ok |-> TRUE, packet |-> packet]

-----------------------------------------------------------------------------
\* Two packets the node ever signed and sent do not share a sequence,
\* whatever was lost in a crash: next_sequence builds on a high-water mark
\* that was durable before the packet left.
OneSequenceOnePacket ==
    \A p, q \in sent : p.seq = q.seq => p = q

NoLiveRecord ==
    /\ authMem.packet.locs = Nowhere
    /\ authDisk.durable.state.packet.locs = Nowhere

\* Once a shutdown has the receipt of a tombstone it made, and until the next
\* start, no live record of the node is held by the authority, in memory or
\* on its disk: PUTs that were given up earlier come too late.
TombstoneHolds ==
    phase = "withdrawn" /\ kind # "reused" => NoLiveRecord

\* What the publisher took as committed the authority keeps, or something
\* newer, durably; and what current_record answers a reader is such a packet,
\* visible by the clock it was read with, and never given out once the health
\* of the publication has failed (current_record, wait_for_fatal).
CurrentIsHeld ==
    /\ \A b \in {pubMem, pubDisk.state} :
          b.committed.packet.seq <= authDisk.durable.state.packet.seq
    /\ \A now \in WallClock :
          LET current == CurrentRecord(now)
          IN  current.ok /\ current.packet # NoPacket =>
                 /\ now < Expiry(current.packet)
                 /\ current.packet.seq <= authDisk.durable.state.packet.seq
                 /\ ~FatalIsKnown

\* No crash, failed write or power loss leaves either directory in a state
\* that its own open refuses: the anchor always admits the state beside it.
OwnDiskIsAccepted ==
    /\ \A disk \in {pubDisk} \cup StorePowerLoss(pubDisk) : PublisherAdmits(disk)
    /\ \A disk \in {authDisk} \cup StorePowerLoss(authDisk) : AuthorityAdmits(disk)
=============================================================================
