----------------------------- MODULE Supervisor -----------------------------
(***************************************************************************)
(* TaskSupervisor and the process jobs it owns                             *)
(* (proc-supervisor/src/task_supervisor.rs, process_group.rs), with the    *)
(* shutdown of the runtime that owns the supervisor                        *)
(* (fabric-iroh/src/iroh_runtime.rs).                                      *)
(*                                                                         *)
(* Four kinds of actors interleave: the callers, which queue a task and    *)
(* hold its stream; the registry manager, which starts and joins tasks;    *)
(* a task per job, which watches for cancellation; and a worker thread per *)
(* job, which launches the process group, drains it and reaps it.          *)
(* Plain tasks are those of spawn and execute: they have no process and    *)
(* end when the supervisor's cancel flag is set.                           *)
(***************************************************************************)
EXTENDS Naturals, Sequences, FiniteSets

CONSTANTS Jobs, Plain,
          MaxOwnedTasks   \* MAX_OWNED_TASKS

ASSUME SupervisorAssumption == /\ MaxOwnedTasks \in Nat \ {0}
                               /\ Jobs \cap Plain = {}
                               /\ "shutdown" \notin Jobs \cup Plain

VARIABLES
    closing,    \* the closing flag and the cancel watch, set together
    queue,      \* the command channel: tasks to spawn, and the shutdown marker
    manager,    \* "none", "running", "done" or "aborted"
    stopping,   \* the manager's shutting_down
    active,     \* active_tasks
    aborts,     \* tasks with an entry in abort_handles
    aborting,   \* tasks told to abort that have not yielded yet
    task,       \* task[t]: where its future is
    asked,      \* asked[j]: the caller cancelled, by ticket, by stream, or by dropping it
    unread,     \* unread[j]: the stdout channel holds a chunk
    told,       \* told[j]: the cleanup ticket
    registry,   \* process_jobs
    cancelled,  \* launch.cancelled
    pgid,       \* launch.pgid is set
    worker,     \* worker[j]: where the worker thread is
    group,      \* group[j]: the direct child and its descendants in the group
    pipe,       \* pipe[j]: "open", "pending" (a chunk waits for room) or "closed"
    killSent,   \* kill_sent of the supervision loop
    charge,     \* charge[j]: the pre-spawn gate took its charge
    result,     \* result[j]: the published result, TRUE while there is one
    down        \* the owner: [at |-> "up", the steps of shutdown, "dropped", forced |-> ...]

taskVars == <<closing, queue, manager, stopping, active, aborts, aborting, task>>
callVars == <<asked, unread, told>>
jobVars == <<registry, cancelled, pgid, worker, group, pipe, killSent, charge, result>>
supVars == <<taskVars, callVars, jobVars, down>>

Tasks == Jobs \cup Plain
Shutdown == "shutdown"
TaskStates ==
    {"idle", "queued", "spawned", "started", "failed", "watching", "ended", "joined"}
WorkerStates == {"none", "launch", "supervise", "clear", "retire", "publish", "exited"}
MemberStates == {"none", "running", "dead", "reaped"}

SupTypeOK ==
    /\ closing \in BOOLEAN /\ stopping \in BOOLEAN
    /\ queue \in Seq(Tasks \cup {Shutdown})
    /\ manager \in {"none", "running", "done", "aborted"}
    /\ active \in Nat
    /\ aborts \subseteq Tasks /\ aborting \subseteq Tasks
    /\ task \in [Tasks -> TaskStates]
    /\ asked \in [Jobs -> BOOLEAN] /\ unread \in [Jobs -> BOOLEAN]
    /\ told \in [Jobs -> {"open", "reaped", "lost"}]
    /\ registry \subseteq Jobs
    /\ cancelled \in [Jobs -> BOOLEAN] /\ pgid \in [Jobs -> BOOLEAN]
    /\ worker \in [Jobs -> WorkerStates]
    /\ group \in [Jobs -> [direct : MemberStates, descendants : MemberStates]]
    /\ pipe \in [Jobs -> {"open", "pending", "closed"}]
    /\ killSent \in [Jobs -> BOOLEAN] /\ charge \in [Jobs -> BOOLEAN]
    /\ result \in [Jobs -> BOOLEAN]
    /\ down \in [at : {"up", "wait", "tasks0", "jobs0", "complete", "expired", "dropped"},
                 forced : BOOLEAN]

SupInit ==
    /\ closing = FALSE /\ queue = <<>> /\ manager = "none" /\ stopping = FALSE
    /\ active = 0 /\ aborts = {} /\ aborting = {}
    /\ task = [t \in Tasks |-> "idle"]
    /\ asked = [j \in Jobs |-> FALSE] /\ unread = [j \in Jobs |-> FALSE]
    /\ told = [j \in Jobs |-> "open"]
    /\ registry = {}
    /\ cancelled = [j \in Jobs |-> FALSE] /\ pgid = [j \in Jobs |-> FALSE]
    /\ worker = [j \in Jobs |-> "none"]
    /\ group = [j \in Jobs |-> [direct |-> "none", descendants |-> "none"]]
    /\ pipe = [j \in Jobs |-> "open"]
    /\ killSent = [j \in Jobs |-> FALSE] /\ charge = [j \in Jobs |-> FALSE]
    /\ result = [j \in Jobs |-> FALSE]
    /\ down = [at |-> "up", forced |-> FALSE]

----------------------------------------------------------------------------
(* Signals and cancellation *)

(* SIGKILL to the group: every member that runs is dead, to be reaped. *)
KillGroup(g) ==
    [member \in DOMAIN g |-> IF g[member] = "running" THEN "dead" ELSE g[member]]

(* ProcessJobControl.cancel of each job of S: the flag, and a signal to the  *)
(* group whose id is published.                                              *)
Cancel(S) ==
    /\ cancelled' = [j \in Jobs |-> cancelled[j] \/ j \in S]
    /\ group' = [j \in Jobs |-> IF j \in S /\ pgid[j] THEN KillGroup(group[j]) ELSE group[j]]

Gone(j) ==
    /\ group[j].direct \in {"none", "reaped"}
    /\ group[j].descendants \in {"none", "reaped"}

----------------------------------------------------------------------------
(* Callers *)
(* spawn_inner, under the spawn gate: the manager starts with the first task; *)
(* a full supervisor or a closing one refuses and changes nothing else.       *)
SpawnInner(t) ==
    /\ task[t] = "idle"
    /\ ~closing
    /\ manager' = IF manager = "none" THEN "running" ELSE manager
    /\ IF active < MaxOwnedTasks
       THEN /\ active' = active + 1
            /\ queue' = Append(queue, t)
            /\ task' = [task EXCEPT ![t] = "queued"]
       ELSE UNCHANGED <<active, queue, task>>
    /\ UNCHANGED <<closing, stopping, aborts, aborting, callVars, jobVars, down>>

(* The caller cancels the ticket or the stream, or drops both. *)
AskCancel(j) ==
    /\ task[j] # "idle"
    /\ ~asked[j]
    /\ asked' = [asked EXCEPT ![j] = TRUE]
    /\ UNCHANGED <<taskVars, unread, told, jobVars, down>>

(* next_chunk. *)
NextChunk(j) ==
    /\ unread[j]
    /\ unread' = [unread EXCEPT ![j] = FALSE]
    /\ UNCHANGED <<taskVars, asked, told, jobVars, down>>

----------------------------------------------------------------------------
(* The registry manager.  Joining comes before receiving (biased). *)

Joinable == {t \in Tasks : task[t] = "ended"}

Live == {t \in Tasks : task[t] \in {"spawned", "started", "failed", "watching", "ended"}}

JoinNext(t) ==
    /\ manager = "running"
    /\ t \in Joinable
    /\ task' = [task EXCEPT ![t] = "joined"]
    /\ aborts' = aborts \ {t}
    /\ aborting' = aborting \ {t}
    /\ active' = active - 1
    /\ UNCHANGED <<closing, queue, manager, stopping, callVars, jobVars, down>>

ReceiveCommand ==
    /\ manager = "running"
    /\ ~stopping
    /\ Joinable = {}
    /\ queue # <<>>
    /\ queue' = Tail(queue)
    /\ IF Head(queue) = Shutdown
       THEN stopping' = TRUE /\ UNCHANGED <<aborts, task>>
       ELSE /\ task' = [task EXCEPT ![Head(queue)] = "spawned"]
            /\ aborts' = aborts \cup {Head(queue)}
            /\ UNCHANGED stopping
    /\ UNCHANGED <<closing, manager, active, aborting, callVars, jobVars, down>>

ManagerDone ==
    /\ manager = "running"
    /\ stopping
    /\ Live = {}
    /\ manager' = "done"
    /\ UNCHANGED <<closing, queue, stopping, active, aborts, aborting, task, callVars, jobVars, down>>

(* The manager was aborted: its join set aborts every task it holds, and the *)
(* commands it never received are dropped one after the other.               *)
DropQueued ==
    /\ manager = "aborted"
    /\ queue # <<>>
    /\ queue' = Tail(queue)
    /\ IF Head(queue) \in Tasks
       THEN task' = [task EXCEPT ![Head(queue)] = "joined"]
       ELSE UNCHANGED task
    /\ told' = [j \in Jobs |-> IF j = Head(queue) THEN "lost" ELSE told[j]]
    /\ UNCHANGED <<closing, manager, stopping, active, aborts, aborting, asked, unread, jobVars, down>>

----------------------------------------------------------------------------
(* Tasks *)

(* A plain task ends by itself, or because the cancel flag is set. *)
PlainEnds(t) ==
    /\ t \in Plain
    /\ task[t] = "spawned"
    /\ task' = [task EXCEPT ![t] = "ended"]
    /\ UNCHANGED <<closing, queue, manager, stopping, active, aborts, aborting, callVars, jobVars, down>>

(* ProcessJob::start: registered before its worker thread exists. *)
StartStreaming(j) ==
    /\ task[j] = "spawned"
    /\ j \notin aborting
    /\ task' = [task EXCEPT ![j] = "started"]
    /\ registry' = registry \cup {j}
    /\ worker' = [worker EXCEPT ![j] = "launch"]
    /\ UNCHANGED <<closing, queue, manager, stopping, active, aborts, aborting, callVars,
                   cancelled, pgid, group, pipe, killSent, charge, result, down>>

(* The thread could not be created: unregistered, then told with an error. *)
StartFails(j) ==
    /\ task[j] = "spawned"
    /\ j \notin aborting
    /\ task' = [task EXCEPT ![j] = "failed"]
    /\ worker' = [worker EXCEPT ![j] = "exited"]
    /\ UNCHANGED <<closing, queue, manager, stopping, active, aborts, aborting, callVars,
                   registry, cancelled, pgid, group, pipe, killSent, charge, result, down>>

TellFailed(j) ==
    /\ task[j] = "failed"
    /\ task' = [task EXCEPT ![j] = "ended"]
    /\ told' = [told EXCEPT ![j] = "reaped"]
    /\ UNCHANGED <<closing, queue, manager, stopping, active, aborts, aborting, asked, unread,
                   jobVars, down>>

(* closing is read after the job was registered. *)
CheckClosing(j) ==
    /\ task[j] = "started"
    /\ task' = [task EXCEPT ![j] = "watching"]
    /\ IF closing THEN Cancel({j}) ELSE UNCHANGED <<cancelled, group>>
    /\ UNCHANGED <<closing, queue, manager, stopping, active, aborts, aborting, callVars,
                   registry, pgid, worker, pipe, killSent, charge, result, down>>

(* An arm of the select: the supervisor or the caller cancels. *)
WatchCancel(j) ==
    /\ task[j] = "watching"
    /\ closing \/ asked[j]
    /\ ~cancelled[j]
    /\ Cancel({j})
    /\ UNCHANGED <<taskVars, callVars, registry, pgid, worker, pipe, killSent, charge, result, down>>

(* try_take_result, the ticket, and the completion; dropping the job cancels *)
(* it once more, which finds no group to signal.                             *)
TakeResult(j) ==
    /\ task[j] = "watching"
    /\ result[j]
    /\ task' = [task EXCEPT ![j] = "ended"]
    /\ result' = [result EXCEPT ![j] = FALSE]
    /\ told' = [told EXCEPT ![j] = "reaped"]
    /\ Cancel({j})
    /\ UNCHANGED <<closing, queue, manager, stopping, active, aborts, aborting, asked, unread,
                   registry, pgid, worker, pipe, killSent, charge, down>>

(* Mutant of AbortTakesEffect: dropping the job also releases its ticket. *)
AbortTakesEffectTells(t) ==
    /\ t \in aborting
    /\ task[t] \in {"spawned", "watching"}
    /\ task' = [task EXCEPT ![t] = "ended"]
    /\ aborting' = aborting \ {t}
    /\ IF task[t] = "watching" THEN Cancel({t}) ELSE UNCHANGED <<cancelled, group>>
    /\ told' = [j \in Jobs |-> IF j = t THEN "reaped" ELSE told[j]]
    /\ UNCHANGED <<closing, queue, manager, stopping, active, aborts, asked, unread,
                   registry, pgid, worker, pipe, killSent, charge, result, down>>

(* An aborted task is dropped where it awaits, and its job with it. *)
AbortTakesEffect(t) ==
    /\ t \in aborting
    /\ task[t] \in {"spawned", "watching"}
    /\ task' = [task EXCEPT ![t] = "ended"]
    /\ aborting' = aborting \ {t}
    /\ IF task[t] = "watching" THEN Cancel({t}) ELSE UNCHANGED <<cancelled, group>>
    /\ told' = [j \in Jobs |-> IF j = t THEN "lost" ELSE told[j]]
    /\ UNCHANGED <<closing, queue, manager, stopping, active, aborts, asked, unread,
                   registry, pgid, worker, pipe, killSent, charge, result, down>>

----------------------------------------------------------------------------
(* The worker thread *)

workerOnly == <<taskVars, callVars, down>>

(* Under the launch lock: a cancelled job never consults the gate. *)
LaunchCancelled(j) ==
    /\ worker[j] = "launch"
    /\ cancelled[j]
    /\ worker' = [worker EXCEPT ![j] = "clear"]
    /\ UNCHANGED <<workerOnly, registry, cancelled, pgid, group, pipe, killSent, charge, result>>

LaunchDeclined(j) ==
    /\ worker[j] = "launch"
    /\ ~cancelled[j]
    /\ worker' = [worker EXCEPT ![j] = "clear"]
    /\ UNCHANGED <<workerOnly, registry, cancelled, pgid, group, pipe, killSent, charge, result>>

(* The gate has charged when the spawn itself fails. *)
LaunchFails(j) ==
    /\ worker[j] = "launch"
    /\ ~cancelled[j]
    /\ charge' = [charge EXCEPT ![j] = TRUE]
    /\ worker' = [worker EXCEPT ![j] = "clear"]
    /\ UNCHANGED <<workerOnly, registry, cancelled, pgid, group, pipe, killSent, result>>

LaunchSpawns(j) ==
    /\ worker[j] = "launch"
    /\ ~cancelled[j]
    /\ charge' = [charge EXCEPT ![j] = TRUE]
    /\ group' = [group EXCEPT ![j].direct = "running"]
    /\ pgid' = [pgid EXCEPT ![j] = TRUE]
    /\ worker' = [worker EXCEPT ![j] = "supervise"]
    /\ UNCHANGED <<workerOnly, registry, cancelled, pipe, killSent, result>>

(* The processes themselves: the direct child forks into its group, members  *)
(* exit.                                                                     *)
Fork(j) ==
    /\ group[j].direct = "running"
    /\ group[j].descendants = "none"
    /\ group' = [group EXCEPT ![j].descendants = "running"]
    /\ UNCHANGED <<workerOnly, registry, cancelled, pgid, worker, pipe, killSent, charge, result>>

MemberExits(j, member) ==
    /\ group[j][member] = "running"
    /\ group' = [group EXCEPT ![j][member] = "dead"]
    /\ UNCHANGED <<workerOnly, registry, cancelled, pgid, worker, pipe, killSent, charge, result>>

(* One iteration of supervise_owned_process_group is some of the steps below, *)
(* in their order; between two of them the cancel flag may be set.            *)
DropCancelledPipe(j) ==
    /\ worker[j] = "supervise"
    /\ cancelled[j]
    /\ pipe[j] # "closed"
    /\ pipe' = [pipe EXCEPT ![j] = "closed"]
    /\ UNCHANGED <<workerOnly, registry, cancelled, pgid, worker, group, killSent, charge, result>>

SendPending(j) ==
    /\ worker[j] = "supervise"
    /\ pipe[j] = "pending"
    /\ ~unread[j]
    /\ pipe' = [pipe EXCEPT ![j] = "open"]
    /\ unread' = [unread EXCEPT ![j] = TRUE]
    /\ UNCHANGED <<taskVars, asked, told, down,
                   registry, cancelled, pgid, worker, group, killSent, charge, result>>

(* The receiver is closed, the output exceeds its limit, or a read fails. *)
PipeCancels(j) ==
    /\ worker[j] = "supervise"
    /\ \/ pipe[j] = "pending" /\ asked[j]
       \/ pipe[j] = "open"
    /\ pipe' = [pipe EXCEPT ![j] = "closed"]
    /\ Cancel({j})
    /\ UNCHANGED <<workerOnly, registry, pgid, worker, killSent, charge, result>>

ReadStdout(j) ==
    /\ worker[j] = "supervise"
    /\ pipe[j] = "open"
    /\ pipe' = [pipe EXCEPT ![j] = "pending"]
    /\ UNCHANGED <<workerOnly, registry, cancelled, pgid, worker, group, killSent, charge, result>>

ReadEof(j) ==
    /\ worker[j] = "supervise"
    /\ pipe[j] = "open"
    /\ \A member \in DOMAIN group[j] : group[j][member] # "running"
    /\ pipe' = [pipe EXCEPT ![j] = "closed"]
    /\ UNCHANGED <<workerOnly, registry, cancelled, pgid, worker, group, killSent, charge, result>>

KillCancelled(j) ==
    /\ worker[j] = "supervise"
    /\ cancelled[j]
    /\ ~killSent[j]
    /\ group' = [group EXCEPT ![j] = KillGroup(@)]
    /\ killSent' = [killSent EXCEPT ![j] = TRUE]
    /\ UNCHANGED <<workerOnly, registry, cancelled, pgid, worker, pipe, charge, result>>

(* The exit of the direct child kills what is left of its group. *)
ReapDirect(j) ==
    /\ worker[j] = "supervise"
    /\ group[j].direct = "dead"
    /\ group' = [group EXCEPT ![j] =
                   [(IF killSent[j] THEN @ ELSE KillGroup(@)) EXCEPT !.direct = "reaped"]]
    /\ killSent' = [killSent EXCEPT ![j] = TRUE]
    /\ UNCHANGED <<workerOnly, registry, cancelled, pgid, worker, pipe, charge, result>>

ReapDescendants(j) ==
    /\ worker[j] = "supervise"
    /\ group[j].direct = "reaped"
    /\ group[j].descendants = "dead"
    /\ group' = [group EXCEPT ![j].descendants = "reaped"]
    /\ UNCHANGED <<workerOnly, registry, cancelled, pgid, worker, pipe, killSent, charge, result>>

(* A panic in the loop is caught beside the owner of the group, which kills  *)
(* it and reaps it before the worker goes on.                                *)
WorkerPanics(j) ==
    /\ worker[j] = "supervise"
    /\ ~killSent[j]
    /\ pipe' = [pipe EXCEPT ![j] = "closed"]
    /\ group' = [group EXCEPT ![j] = KillGroup(@)]
    /\ killSent' = [killSent EXCEPT ![j] = TRUE]
    /\ UNCHANGED <<workerOnly, registry, cancelled, pgid, worker, charge, result>>

SuperviseDone(j) ==
    /\ worker[j] = "supervise"
    /\ Gone(j)
    /\ pipe[j] = "closed"
    /\ worker' = [worker EXCEPT ![j] = "clear"]
    /\ UNCHANGED <<workerOnly, registry, cancelled, pgid, group, pipe, killSent, charge, result>>

(* run_worker: the group id is cleared, the job unregistered, the result     *)
(* published, in this order.                                                 *)
ClearPgid(j) ==
    /\ worker[j] = "clear"
    /\ pgid' = [pgid EXCEPT ![j] = FALSE]
    /\ worker' = [worker EXCEPT ![j] = "retire"]
    /\ UNCHANGED <<workerOnly, registry, cancelled, group, pipe, killSent, charge, result>>

Retire(j) ==
    /\ worker[j] = "retire"
    /\ registry' = registry \ {j}
    /\ worker' = [worker EXCEPT ![j] = "publish"]
    /\ UNCHANGED <<workerOnly, cancelled, pgid, group, pipe, killSent, charge, result>>

Publish(j) ==
    /\ worker[j] = "publish"
    /\ result' = [result EXCEPT ![j] = TRUE]
    /\ worker' = [worker EXCEPT ![j] = "exited"]
    /\ UNCHANGED <<workerOnly, registry, cancelled, pgid, group, pipe, killSent, charge>>

----------------------------------------------------------------------------
(* The owner *)

Waiting == down.at \in {"wait", "tasks0", "jobs0"}

(* begin_shutdown: nothing is accepted after it, and the marker is the last  *)
(* command.  A full channel would be an error (see CountsAgree).              *)
BeginShutdown ==
    /\ down.at = "up"
    /\ closing' = TRUE
    /\ queue' = IF Len(queue) <= MaxOwnedTasks THEN Append(queue, Shutdown) ELSE queue
    /\ down' = [down EXCEPT !.at = "wait"]
    /\ UNCHANGED <<manager, stopping, active, aborts, aborting, task, callVars, jobVars>>

(* wait_for_owned_work reads the joined tasks, the registry and the count,   *)
(* one after the other.                                                      *)
ReadTasks ==
    /\ down.at = "wait"
    /\ manager \in {"none", "done", "aborted"}
    /\ down' = [down EXCEPT !.at = "tasks0"]
    /\ UNCHANGED <<taskVars, callVars, jobVars>>

(* Mutant of ReadJobs: a task's end is taken for its process's. *)
ReadJobsSkipped ==
    /\ down.at = "tasks0"
    /\ down' = [down EXCEPT !.at = "jobs0"]
    /\ UNCHANGED <<taskVars, callVars, jobVars>>

ReadJobs ==
    /\ down.at = "tasks0"
    /\ down' = [down EXCEPT !.at = IF registry = {} THEN "jobs0" ELSE "wait"]
    /\ UNCHANGED <<taskVars, callVars, jobVars>>

ReadActive ==
    /\ down.at = "jobs0"
    /\ down' = [down EXCEPT !.at = IF active = 0 THEN "complete" ELSE "wait"]
    /\ UNCHANGED <<taskVars, callVars, jobVars>>

(* The graceful deadline: abort_active. *)
AbortActive ==
    /\ Waiting
    /\ ~down.forced
    /\ aborting' = aborting \cup aborts
    /\ Cancel(registry)
    /\ down' = [at |-> "wait", forced |-> TRUE]
    /\ UNCHANGED <<closing, queue, manager, stopping, active, aborts, task, callVars,
                   registry, pgid, worker, pipe, killSent, charge, result>>

AbortManager ==
    /\ manager' = IF manager = "running" THEN "aborted" ELSE manager
    /\ aborting' = IF manager = "running" THEN aborting \cup aborts \cup Live
                                          ELSE aborting \cup aborts

(* The absolute deadline: the manager itself is aborted. *)
DeadlineExpires ==
    /\ Waiting
    /\ down.forced
    /\ AbortManager
    /\ down' = [down EXCEPT !.at = "expired"]
    /\ UNCHANGED <<closing, queue, stopping, active, aborts, task, callVars, jobVars>>

(* Drop runs cancel_now; begin_shutdown has taken the manager's handle. *)
DropOwner ==
    /\ down.at \in {"up", "complete", "expired"}
    /\ closing' = TRUE
    /\ queue' = IF Len(queue) <= MaxOwnedTasks /\ manager \in {"none", "running"}
                THEN Append(queue, Shutdown) ELSE queue
    /\ Cancel(registry)
    /\ IF down.at = "up" THEN AbortManager
                         ELSE aborting' = aborting \cup aborts /\ UNCHANGED manager
    /\ down' = [down EXCEPT !.at = "dropped"]
    /\ UNCHANGED <<stopping, active, aborts, task, callVars,
                   registry, pgid, worker, pipe, killSent, charge, result>>

----------------------------------------------------------------------------
TaskStep(t) ==
    \/ SpawnInner(t) \/ JoinNext(t) \/ PlainEnds(t) \/ AbortTakesEffect(t)

JobTaskStep(j) ==
    \/ StartStreaming(j) \/ StartFails(j) \/ TellFailed(j) \/ CheckClosing(j) \/ WatchCancel(j) \/ TakeResult(j)

LaunchStep(j) ==
    \/ LaunchCancelled(j) \/ LaunchDeclined(j) \/ LaunchFails(j) \/ LaunchSpawns(j)

ReapStep(j) ==
    \/ DropCancelledPipe(j) \/ KillCancelled(j) \/ ReapDirect(j) \/ ReapDescendants(j)

WorkerEnd(j) == SuperviseDone(j) \/ ClearPgid(j) \/ Retire(j) \/ Publish(j)

JobStep(j) ==
    \/ AskCancel(j) \/ NextChunk(j)
    \/ JobTaskStep(j) \/ LaunchStep(j) \/ ReapStep(j) \/ WorkerEnd(j)
    \/ Fork(j) \/ \E member \in {"direct", "descendants"} : MemberExits(j, member)
    \/ SendPending(j) \/ PipeCancels(j) \/ ReadStdout(j) \/ ReadEof(j) \/ WorkerPanics(j)

OwnerStep ==
    \/ BeginShutdown \/ ReadTasks \/ ReadJobs \/ ReadActive
    \/ AbortActive \/ DeadlineExpires \/ DropOwner

SupNext ==
    \/ \E t \in Tasks : TaskStep(t)
    \/ \E j \in Jobs : JobStep(j)
    \/ ReceiveCommand \/ ManagerDone \/ DropQueued
    \/ OwnerStep

(* The runtime polls its tasks and the threads run.  All these steps are     *)
(* finitely many, so one weak fairness condition is enough.  The callers and *)
(* the processes owe nothing: a job that nobody cancels may run for ever.    *)
SupProgress ==
    \/ ReceiveCommand \/ ManagerDone \/ DropQueued
    \/ \E t \in Tasks : JoinNext(t) \/ AbortTakesEffect(t) \/ (closing /\ PlainEnds(t))
    \/ \E j \in Jobs : JobTaskStep(j) \/ LaunchStep(j) \/ ReapStep(j) \/ WorkerEnd(j)

SupSpec == SupInit /\ [][SupNext]_supVars /\ WF_supVars(SupProgress)

----------------------------------------------------------------------------
(* The promise to the owner of a job *)

Dropped(j) == worker[j] = "none" /\ task[j] \in {"ended", "joined"}

ProcOf(j) ==
    IF task[j] = "idle" THEN "idle"
    ELSE IF worker[j] \in {"none", "launch"} /\ ~Dropped(j) THEN "accepted"
    ELSE IF ~Gone(j) THEN "running"
    ELSE "gone"

Proc == [j \in Jobs |-> ProcOf(j)]

Owned == INSTANCE OwnedProcess WITH
    proc <- Proc,
    charged <- charge,
    ticket <- told

(* A supervised process is launched at most once, charged exactly when its   *)
(* launch is attempted, and its cleanup ticket says "reaped" only when       *)
(* no member of its group is left (stream_process, run_worker).              *)
ImplementsOwnedProcess == Owned!OwnedSpec

(* What a waiter or the registry can see of a finished job: it is child-free, *)
(* and the numeric group id that a late drop would signal is no longer there. *)
PublishedIsChildFree ==
    \A j \in Jobs :
        /\ result[j] \/ told[j] = "reaped" => Gone(j) /\ ~pgid[j] /\ j \notin registry
        /\ ~Gone(j) => j \in registry /\ pgid[j]

(* When the shutdown of the owner reports that all owned work has ended, no  *)
(* task, queued or running, and no process is left, although the three       *)
(* counts are read at different moments.                                     *)
ShutdownIsComplete ==
    down.at = "complete" =>
        /\ Live = {} /\ \A t \in Tasks : task[t] # "queued"
        /\ \A j \in Jobs : Gone(j) /\ worker[j] \in {"none", "publish", "exited"}

(* active_tasks counts the queued and the running tasks, so the cap bounds   *)
(* the channel and the reserved place for the shutdown marker is free.       *)
CountsAgree ==
    manager # "aborted" =>
        /\ active = Cardinality(Live) + Cardinality({t \in Tasks : task[t] = "queued"})
        /\ active <= MaxOwnedTasks
        /\ ~closing => Len(queue) <= MaxOwnedTasks

(* Where every behaviour ends: each job that was cancelled, by its caller or *)
(* by the shutdown or the drop of the supervisor, has ended with its process *)
(* group reaped, whether or not anybody reads its output.  (A job runs once.) *)
CancelledAreReaped ==
    \A j \in Jobs : task[j] # "idle" /\ (closing \/ asked[j]) =>
        /\ Gone(j)
        /\ worker[j] \in {"none", "exited"} /\ task[j] \in {"ended", "joined"}

(* What the supervisor reports is so: a published or reaped job has no      *)
(* process left, a complete shutdown leaves nothing behind, and its counts  *)
(* are those of its tasks (task_supervisor.rs, process_group.rs).           *)
OwnedWorkIsKnown ==
    SupTypeOK /\ PublishedIsChildFree /\ ShutdownIsComplete /\ CountsAgree
=============================================================================
