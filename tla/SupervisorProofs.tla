-------------------------- MODULE SupervisorProofs --------------------------
(***************************************************************************)
(* What the supervisor reports of its tasks and processes is so, and it    *)
(* keeps the promise of OwnedProcess, for any jobs, plain tasks and cap.   *)
(***************************************************************************)
EXTENDS Supervisor, FiniteSetTheorems, SequenceTheorems, TLAPS

Group == [direct : MemberStates, descendants : MemberStates]

(* Gone, of a group.                                                        *)
NoMember(g) == g.direct \in {"none", "reaped"} /\ g.descendants \in {"none", "reaped"}

(* A signal to the group reaps nobody and starts nobody.                    *)
LEMMA KillGroupOK ==
    ASSUME NEW g \in Group
    PROVE  /\ KillGroup(g) \in Group
           /\ NoMember(KillGroup(g)) <=> NoMember(g)
           /\ KillGroup(g).direct = "none" <=> g.direct = "none"
           /\ KillGroup(g).descendants = "none" <=> g.descendants = "none"
           /\ KillGroup(g).direct = "reaped" <=> g.direct = "reaped"
<1>1. DOMAIN g = {"direct", "descendants"}
  BY DEF Group
<1>2. /\ KillGroup(g).direct = IF g.direct = "running" THEN "dead" ELSE g.direct
      /\ KillGroup(g).descendants = IF g.descendants = "running" THEN "dead" ELSE g.descendants
  BY <1>1 DEF KillGroup
<1>3. KillGroup(g) = [direct |-> KillGroup(g).direct, descendants |-> KillGroup(g).descendants]
  BY <1>1 DEF KillGroup
<1>4. g.direct \in MemberStates /\ g.descendants \in MemberStates
  BY DEF Group
<1>5. KillGroup(g) \in Group
  BY <1>2, <1>3, <1>4 DEF Group, MemberStates
<1> QED
  BY <1>2, <1>4, <1>5 DEF NoMember, MemberStates

-----------------------------------------------------------------------------
(* The inductive invariant                                                  *)

LiveStates == {"spawned", "started", "failed", "watching", "ended"}

Queued == {t \in Tasks : task[t] = "queued"}

(* A job and its worker: the worker thread exists from the start on, the    *)
(* registry has the job until its group is gone and its group id cleared,   *)
(* a result or a "reaped" ticket comes after that, and a ticket is told by  *)
(* the end of the task.                                                     *)
JobOK(j) ==
    /\ task[j] \in {"idle", "queued", "spawned"} => worker[j] = "none"
    /\ task[j] \in {"started", "watching"} => worker[j] # "none"
    /\ task[j] = "failed" => worker[j] = "exited"
    /\ told[j] # "open" => task[j] \in {"ended", "joined"}
    /\ told[j] = "reaped" => worker[j] = "exited"
    /\ result[j] => worker[j] = "exited"
    /\ worker[j] \in {"none", "launch"} =>
          ~charge[j] /\ ~pgid[j] /\ group[j].direct = "none" /\ group[j].descendants = "none"
    /\ worker[j] \in {"launch", "supervise", "clear", "retire"} <=> j \in registry
    /\ worker[j] = "supervise" => pgid[j] /\ group[j].direct # "none"
    /\ worker[j] \in {"clear", "retire", "publish", "exited"} => NoMember(group[j])
    /\ worker[j] \in {"retire", "publish", "exited"} => ~pgid[j]

(* A task in the channel is queued and there once; the marker comes with    *)
(* the closing flag.                                                        *)
QueueInv ==
    /\ \A i \in 1..Len(queue) : queue[i] \in Tasks => task[queue[i]] = "queued"
    /\ \A i, k \in 1..Len(queue) : queue[i] = queue[k] /\ queue[i] \in Tasks => i = k
    /\ ~closing => \A i \in 1..Len(queue) : queue[i] \in Tasks

CountInv ==
    /\ IsFiniteSet(Live) /\ IsFiniteSet(Queued)
    /\ manager # "aborted" => active = Cardinality(Live) + Cardinality(Queued)
    /\ active <= MaxOwnedTasks

(* What the owner has read stays so: there is no task without a manager,    *)
(* and none starts a job once the manager is done.                          *)
DownInv ==
    /\ closing <=> down.at # "up"
    /\ manager = "aborted" => down.at \in {"expired", "dropped"}
    /\ manager = "none" => \A t \in Tasks : task[t] = "idle"
    /\ manager = "done" => Live = {}
    /\ down.at \in {"tasks0", "jobs0", "complete"} => manager \in {"none", "done"}
    /\ down.at \in {"jobs0", "complete"} => registry = {}
    /\ down.at = "complete" => active = 0

IInv ==
    /\ SupTypeOK
    /\ \A j \in Jobs : JobOK(j)
    /\ QueueInv
    /\ CountInv
    /\ DownInv

(* Stands for a job whose fields a step does not touch, or whose group it   *)
(* signals.                                                                 *)
Same(i) ==
    /\ task'[i] = task[i] /\ worker'[i] = worker[i] /\ told'[i] = told[i]
    /\ result'[i] = result[i] /\ charge'[i] = charge[i] /\ pgid'[i] = pgid[i]
    /\ i \in registry' <=> i \in registry
    /\ group'[i] = group[i] \/ group'[i] = KillGroup(group[i])

-----------------------------------------------------------------------------
(* Frames                                                                   *)

LEMMA SameOK ==
    ASSUME NEW i \in Jobs, SupTypeOK, JobOK(i), Same(i)
    PROVE  JobOK(i)'
<1>1. group[i] \in Group
  BY DEF SupTypeOK, Group
<1>2. /\ NoMember(group'[i]) <=> NoMember(group[i])
      /\ group'[i].direct = "none" <=> group[i].direct = "none"
      /\ group'[i].descendants = "none" <=> group[i].descendants = "none"
  BY <1>1, KillGroupOK DEF Same
<1> QED
  BY <1>2 DEF JobOK, Same

(* cancel: the flags and the groups keep their type, and nobody is reaped.  *)
LEMMA CancelOK ==
    ASSUME SupTypeOK, NEW S, Cancel(S)
    PROVE  /\ cancelled' \in [Jobs -> BOOLEAN]
           /\ group' \in [Jobs -> Group]
           /\ \A i \in Jobs : group'[i] = group[i] \/ group'[i] = KillGroup(group[i])
<1>1. \A i \in Jobs : group[i] \in Group /\ KillGroup(group[i]) \in Group
  BY KillGroupOK DEF SupTypeOK, Group
<1>2. \A i \in Jobs : group'[i] = group[i] \/ group'[i] = KillGroup(group[i])
  BY DEF Cancel
<1>3. group' = [i \in Jobs |-> IF i \in S /\ pgid[i] THEN KillGroup(group[i]) ELSE group[i]]
  BY DEF Cancel
<1>4. cancelled' \in [Jobs -> BOOLEAN]
  BY Zenon DEF Cancel, SupTypeOK
<1> QED
  BY <1>1, <1>2, <1>3, <1>4

(* A step that is not about tasks.                                          *)
LEMMA TasksRest ==
    ASSUME IInv, UNCHANGED taskVars, UNCHANGED down, registry' \subseteq registry
    PROVE  QueueInv' /\ CountInv' /\ DownInv'
<1>1. UNCHANGED <<closing, queue, manager, active, task>>
  BY DEF taskVars
<1>2. Live' = Live /\ Queued' = Queued
  BY <1>1 DEF Live, Queued
<1>3. QueueInv'
  BY <1>1 DEF IInv, QueueInv
<1>4. CountInv'
  BY <1>1, <1>2 DEF IInv, CountInv
<1>5. DownInv'
  BY <1>1, <1>2 DEF IInv, DownInv
<1> QED
  BY <1>3, <1>4, <1>5

(* A live task goes on: the manager runs or was aborted.                    *)
LEMMA TaskMoves ==
    ASSUME IInv, NEW t \in Tasks, task[t] \in LiveStates, NEW s \in LiveStates,
           task' = [task EXCEPT ![t] = s], UNCHANGED <<closing, queue, manager, active, down>>
    PROVE  QueueInv' /\ CountInv' /\ DownInv'
<1>1. task \in [Tasks -> TaskStates]
  BY DEF IInv, SupTypeOK
<1>2. Live' = Live /\ Queued' = Queued
  BY <1>1 DEF Live, Queued, LiveStates
<1>3. t \in Live
  BY DEF Live, LiveStates
<1>4. QueueInv'
  BY <1>1 DEF IInv, QueueInv, LiveStates
<1>5. CountInv'
  BY <1>2 DEF IInv, CountInv
<1>6. manager \notin {"none", "done"}
  BY <1>3 DEF IInv, DownInv, LiveStates
<1>7. DownInv'
  BY <1>6 DEF IInv, DownInv
<1> QED
  BY <1>4, <1>5, <1>7

-----------------------------------------------------------------------------
(* The worker thread and the processes                                      *)

(* What a step of one job has to show.                                      *)
LEMMA JobStepOK ==
    ASSUME IInv, NEW j \in Jobs, SupTypeOK', JobOK(j)', \A i \in Jobs \ {j} : Same(i),
           QueueInv', CountInv', DownInv'
    PROVE  IInv'
<1>1. \A i \in Jobs \ {j} : JobOK(i)'
  BY SameOK DEF IInv
<1> QED
  BY <1>1 DEF IInv

(* A step of a process or of the pipe: the worker stays where it is.        *)
LEMMA GroupStepOK ==
    ASSUME IInv, NEW j \in Jobs, NEW g \in Group, group' = [group EXCEPT ![j] = g],
           UNCHANGED <<taskVars, told, down, registry, pgid, worker, charge, result, cancelled>>,
           asked' \in [Jobs -> BOOLEAN], unread' \in [Jobs -> BOOLEAN],
           pipe' \in [Jobs -> {"open", "pending", "closed"}], killSent' \in [Jobs -> BOOLEAN],
           worker[j] \in {"none", "launch"} => g = group[j],
           worker[j] = "supervise" => g.direct # "none",
           worker[j] \in {"clear", "retire", "publish", "exited"} => NoMember(g)
    PROVE  IInv'
<1>1. group \in [Jobs -> Group]
  BY DEF IInv, SupTypeOK, Group
<1>2. group'[j] = g /\ \A i \in Jobs \ {j} : group'[i] = group[i]
  BY <1>1
<1>3. SupTypeOK'
  <2>1. group' \in [Jobs -> [direct : MemberStates, descendants : MemberStates]]
    BY <1>1 DEF Group
  <2> QED
    BY <2>1 DEF IInv, SupTypeOK, taskVars
<1>4. QueueInv' /\ CountInv' /\ DownInv'
  BY TasksRest
<1>5. JobOK(j)'
  BY <1>2 DEF IInv, JobOK, taskVars
<1>6. \A i \in Jobs \ {j} : Same(i)
  BY <1>2 DEF Same, taskVars
<1> QED
  BY <1>3, <1>4, <1>5, <1>6, JobStepOK

(* A worker step touches no job but its own, and leaves the tasks alone.    *)
WorkerKeeps(j) ==
    /\ UNCHANGED <<taskVars, told, down>>
    /\ registry' \in {registry, registry \ {j}}
    /\ \A i \in Jobs \ {j} : /\ worker'[i] = worker[i] /\ result'[i] = result[i]
                           /\ charge'[i] = charge[i] /\ pgid'[i] = pgid[i]
                           /\ group'[i] = group[i]

LEMMA WorkerFrame ==
    ASSUME IInv, NEW j \in Jobs, SupTypeOK', JobOK(j)', WorkerKeeps(j)
    PROVE  IInv'
<1>1. QueueInv' /\ CountInv' /\ DownInv'
  BY TasksRest DEF WorkerKeeps
<1>2. \A i \in Jobs \ {j} : Same(i)
  BY DEF Same, taskVars, WorkerKeeps
<1> QED
  BY <1>1, <1>2, JobStepOK

(* The worker launches the process or does not, and walks to its end.       *)
LEMMA WorkerIInv ==
    ASSUME IInv, NEW j \in Jobs, LaunchStep(j) \/ WorkerEnd(j)
    PROVE  IInv'
<1> USE DEF workerOnly, callVars
<1>1. SupTypeOK' /\ JobOK(j)' /\ WorkerKeeps(j)
  <2>1. CASE LaunchCancelled(j)
    <3>1. SupTypeOK'
      BY <2>1 DEF IInv, SupTypeOK, LaunchCancelled, taskVars, WorkerStates, MemberStates
    <3>2. JobOK(j)'
      BY <2>1 DEF IInv, SupTypeOK, JobOK, LaunchCancelled, taskVars, NoMember, Gone
    <3>3. WorkerKeeps(j)
      BY <2>1 DEF IInv, SupTypeOK, WorkerKeeps, LaunchCancelled, taskVars
    <3> QED
      BY <3>1, <3>2, <3>3
  <2>2. CASE LaunchDeclined(j)
    <3>1. SupTypeOK'
      BY <2>2 DEF IInv, SupTypeOK, LaunchDeclined, taskVars, WorkerStates, MemberStates
    <3>2. JobOK(j)'
      BY <2>2 DEF IInv, SupTypeOK, JobOK, LaunchDeclined, taskVars, NoMember, Gone
    <3>3. WorkerKeeps(j)
      BY <2>2 DEF IInv, SupTypeOK, WorkerKeeps, LaunchDeclined, taskVars
    <3> QED
      BY <3>1, <3>2, <3>3
  <2>3. CASE LaunchFails(j)
    <3>1. SupTypeOK'
      BY <2>3 DEF IInv, SupTypeOK, LaunchFails, taskVars, WorkerStates, MemberStates
    <3>2. JobOK(j)'
      BY <2>3 DEF IInv, SupTypeOK, JobOK, LaunchFails, taskVars, NoMember, Gone
    <3>3. WorkerKeeps(j)
      BY <2>3 DEF IInv, SupTypeOK, WorkerKeeps, LaunchFails, taskVars
    <3> QED
      BY <3>1, <3>2, <3>3
  <2>4. CASE LaunchSpawns(j)
    <3>1. SupTypeOK'
      BY <2>4 DEF IInv, SupTypeOK, LaunchSpawns, taskVars, WorkerStates, MemberStates
    <3>2. JobOK(j)'
      BY <2>4 DEF IInv, SupTypeOK, JobOK, LaunchSpawns, taskVars, NoMember, Gone
    <3>3. WorkerKeeps(j)
      BY <2>4 DEF IInv, SupTypeOK, WorkerKeeps, LaunchSpawns, taskVars
    <3> QED
      BY <3>1, <3>2, <3>3
  <2>5. CASE SuperviseDone(j)
    <3>1. SupTypeOK'
      BY <2>5 DEF IInv, SupTypeOK, SuperviseDone, taskVars, WorkerStates, MemberStates
    <3>2. JobOK(j)'
      BY <2>5 DEF IInv, SupTypeOK, JobOK, SuperviseDone, taskVars, NoMember, Gone
    <3>3. WorkerKeeps(j)
      BY <2>5 DEF IInv, SupTypeOK, WorkerKeeps, SuperviseDone, taskVars
    <3> QED
      BY <3>1, <3>2, <3>3
  <2>6. CASE ClearPgid(j)
    <3>1. SupTypeOK'
      BY <2>6 DEF IInv, SupTypeOK, ClearPgid, taskVars, WorkerStates, MemberStates
    <3>2. JobOK(j)'
      BY <2>6 DEF IInv, SupTypeOK, JobOK, ClearPgid, taskVars, NoMember, Gone
    <3>3. WorkerKeeps(j)
      BY <2>6 DEF IInv, SupTypeOK, WorkerKeeps, ClearPgid, taskVars
    <3> QED
      BY <3>1, <3>2, <3>3
  <2>7. CASE Retire(j)
    <3>1. SupTypeOK'
      BY <2>7 DEF IInv, SupTypeOK, Retire, taskVars, WorkerStates, MemberStates
    <3>2. JobOK(j)'
      BY <2>7 DEF IInv, SupTypeOK, JobOK, Retire, taskVars, NoMember, Gone
    <3>3. WorkerKeeps(j)
      BY <2>7 DEF IInv, SupTypeOK, WorkerKeeps, Retire, taskVars
    <3> QED
      BY <3>1, <3>2, <3>3
  <2>8. CASE Publish(j)
    <3>1. SupTypeOK'
      BY <2>8 DEF IInv, SupTypeOK, Publish, taskVars, WorkerStates, MemberStates
    <3>2. JobOK(j)'
      BY <2>8 DEF IInv, SupTypeOK, JobOK, Publish, taskVars, NoMember, Gone
    <3>3. WorkerKeeps(j)
      BY <2>8 DEF IInv, SupTypeOK, WorkerKeeps, Publish, taskVars
    <3> QED
      BY <3>1, <3>2, <3>3
  <2> QED
    BY <2>1, <2>2, <2>3, <2>4, <2>5, <2>6, <2>7, <2>8 DEF LaunchStep, WorkerEnd
<1> QED
  BY <1>1, WorkerFrame

LEMMA PipeIInv ==
    ASSUME IInv, NEW j \in Jobs,
           DropCancelledPipe(j) \/ SendPending(j) \/ ReadStdout(j) \/ ReadEof(j)
           \/ AskCancel(j) \/ NextChunk(j)
    PROVE  IInv'
<1>1. group[j] \in Group /\ group = [group EXCEPT ![j] = group[j]]
  BY DEF IInv, SupTypeOK, Group
<1>2. /\ UNCHANGED <<taskVars, told, down, registry, pgid, worker, charge, result, cancelled,
                     group, killSent>>
      /\ asked' \in [Jobs -> BOOLEAN] /\ unread' \in [Jobs -> BOOLEAN]
      /\ pipe' \in [Jobs -> {"open", "pending", "closed"}]
  BY Zenon DEF IInv, SupTypeOK, DropCancelledPipe, SendPending, ReadStdout, ReadEof, AskCancel,
         NextChunk, workerOnly, callVars, jobVars
<1>3. killSent' \in [Jobs -> BOOLEAN] /\ group' = [group EXCEPT ![j] = group[j]]
  BY <1>1, <1>2 DEF IInv, SupTypeOK
<1>4. /\ worker[j] = "supervise" => group[j].direct # "none"
      /\ worker[j] \in {"clear", "retire", "publish", "exited"} => NoMember(group[j])
  BY DEF IInv, JobOK
<1> QED
  BY Zenon, <1>1, <1>2, <1>3, <1>4, GroupStepOK

(* Processes start and end, are signalled and are reaped, in a group whose  *)
(* worker supervises it.                                                    *)
LEMMA ProcessIInv ==
    ASSUME IInv, NEW j \in Jobs,
           \/ Fork(j) \/ \E member \in {"direct", "descendants"} : MemberExits(j, member)
           \/ KillCancelled(j) \/ ReapDirect(j) \/ ReapDescendants(j) \/ WorkerPanics(j)
    PROVE  IInv'
<1> DEFINE h == group[j]
<1>1. h \in Group /\ group \in [Jobs -> Group] /\ JobOK(j)
  BY DEF IInv, SupTypeOK, Group
<1>2. KillGroup(h) \in Group /\ (KillGroup(h).direct = "none" <=> h.direct = "none")
  BY <1>1, KillGroupOK
<1>3. worker[j] \in WorkerStates
  BY DEF IInv, SupTypeOK
<1>4. h.direct \in {"running", "dead"} \/ h.descendants \in {"running", "dead"}
        => worker[j] = "supervise"
  BY <1>1, <1>3 DEF JobOK, NoMember, WorkerStates
<1>5. worker[j] = "supervise" => h.direct # "none"
  BY <1>1 DEF JobOK
<1> HIDE DEF h
<1>6. /\ worker[j] = "supervise"
      /\ \E g \in Group : g.direct # "none" /\ group' = [group EXCEPT ![j] = g]
  <2>1. CASE Fork(j)
    <3>1. [h EXCEPT !.descendants = "running"] \in Group
      BY <1>1 DEF Group, MemberStates
    <3>2. h.direct = "running" /\ group' = [group EXCEPT ![j] = [h EXCEPT !.descendants = "running"]]
      BY <2>1 DEF Fork, h
    <3> QED
      BY Zenon, <1>1, <1>4, <3>1, <3>2 DEF Group
  <2>2. ASSUME NEW member \in {"direct", "descendants"}, MemberExits(j, member)
        PROVE  /\ worker[j] = "supervise"
               /\ \E g \in Group : g.direct # "none" /\ group' = [group EXCEPT ![j] = g]
    <3>1. [h EXCEPT ![member] = "dead"] \in Group
      BY <1>1 DEF Group, MemberStates
    <3>2. h[member] = "running" /\ group' = [group EXCEPT ![j] = [h EXCEPT ![member] = "dead"]]
      BY <2>2 DEF MemberExits, h
    <3>3. worker[j] = "supervise"
      BY <1>4, <3>2
    <3>4. [h EXCEPT ![member] = "dead"].direct # "none"
      BY <1>1, <1>5, <3>3 DEF Group
    <3> QED
      BY Zenon, <3>1, <3>2, <3>3, <3>4
  <2>3. CASE KillCancelled(j) \/ WorkerPanics(j)
    <3>1. worker[j] = "supervise" /\ group' = [group EXCEPT ![j] = KillGroup(h)]
      BY <2>3 DEF KillCancelled, WorkerPanics, h
    <3> QED
      BY Zenon, <1>2, <1>5, <3>1
  <2>4. CASE ReapDirect(j)
    <3> DEFINE k == IF killSent[j] THEN h ELSE KillGroup(h)
    <3>1. k \in Group
      BY <1>1, <1>2
    <3>2. worker[j] = "supervise" /\ group' = [group EXCEPT ![j] = [k EXCEPT !.direct = "reaped"]]
      BY <2>4 DEF ReapDirect, h
    <3> HIDE DEF k
    <3>3. [k EXCEPT !.direct = "reaped"] \in Group /\ [k EXCEPT !.direct = "reaped"].direct = "reaped"
      BY <3>1 DEF Group, MemberStates
    <3> QED
      BY Zenon, <3>2, <3>3
  <2>5. CASE ReapDescendants(j)
    <3>1. /\ worker[j] = "supervise" /\ h.direct = "reaped"
          /\ group' = [group EXCEPT ![j] = [h EXCEPT !.descendants = "reaped"]]
      BY <2>5 DEF ReapDescendants, h
    <3>2. [h EXCEPT !.descendants = "reaped"] \in Group
          /\ [h EXCEPT !.descendants = "reaped"].direct = h.direct
      BY <1>1 DEF Group, MemberStates
    <3> QED
      BY Zenon, <3>1, <3>2
  <2> QED
    BY <2>1, <2>2, <2>3, <2>4, <2>5
<1>7. /\ UNCHANGED <<taskVars, told, down, registry, pgid, worker, charge, result, cancelled>>
      /\ asked' \in [Jobs -> BOOLEAN] /\ unread' \in [Jobs -> BOOLEAN]
      /\ pipe' \in [Jobs -> {"open", "pending", "closed"}] /\ killSent' \in [Jobs -> BOOLEAN]
  BY Zenon DEF IInv, SupTypeOK, Fork, MemberExits, KillCancelled, ReapDirect, ReapDescendants,
         WorkerPanics, workerOnly, callVars
<1> QED
  BY Zenon, <1>6, <1>7, GroupStepOK

-----------------------------------------------------------------------------
(* Cancellation                                                             *)

LEMMA SignalIInv ==
    ASSUME IInv, NEW j \in Jobs, PipeCancels(j) \/ WatchCancel(j)
    PROVE  IInv'
<1>1. /\ Cancel({j})
      /\ UNCHANGED <<taskVars, callVars, down, registry, pgid, worker, killSent, charge, result>>
      /\ pipe' \in [Jobs -> {"open", "pending", "closed"}]
  BY DEF IInv, SupTypeOK, PipeCancels, WatchCancel, workerOnly
<1>2. /\ cancelled' \in [Jobs -> BOOLEAN] /\ group' \in [Jobs -> Group]
      /\ \A i \in Jobs : group'[i] = group[i] \/ group'[i] = KillGroup(group[i])
  BY <1>1, CancelOK DEF IInv
<1>3. SupTypeOK'
  BY <1>1, <1>2 DEF IInv, SupTypeOK, Group, taskVars, callVars
<1>4. \A i \in Jobs : JobOK(i)'
  BY <1>1, <1>2, SameOK DEF IInv, Same, taskVars, callVars
<1> QED
  BY <1>1, <1>3, <1>4, TasksRest DEF IInv

-----------------------------------------------------------------------------
(* Tasks                                                                    *)

LEMMA PlainEndsIInv ==
    ASSUME IInv, NEW t \in Tasks, PlainEnds(t)
    PROVE  IInv'
<1>1. /\ t \notin Jobs /\ task[t] \in LiveStates /\ task' = [task EXCEPT ![t] = "ended"]
      /\ UNCHANGED <<closing, queue, manager, stopping, active, aborts, aborting, callVars, jobVars, down>>
  BY SupervisorAssumption DEF PlainEnds, LiveStates
<1>2. SupTypeOK'
  BY <1>1 DEF IInv, SupTypeOK, TaskStates, callVars, jobVars
<1>3. QueueInv' /\ CountInv' /\ DownInv'
  BY Zenon, <1>1, TaskMoves DEF LiveStates
<1>4. \A i \in Jobs : task'[i] = task[i]
  BY <1>1 DEF IInv, SupTypeOK
<1>5. \A i \in Jobs : JobOK(i)'
  BY <1>1, <1>4, SameOK DEF IInv, Same, callVars, jobVars
<1> QED
  BY <1>2, <1>3, <1>5 DEF IInv

(* The start of a job, and its failure to start.                            *)
LEMMA StartIInv ==
    ASSUME IInv, NEW j \in Jobs, StartStreaming(j) \/ StartFails(j)
    PROVE  IInv'
<1>1. /\ task[j] = "spawned" /\ j \in Tasks
      /\ UNCHANGED <<closing, queue, manager, stopping, active, aborts, aborting, asked, unread, told>>
      /\ UNCHANGED <<cancelled, pgid, group, pipe, killSent, charge, result, down>>
      /\ \/ /\ task' = [task EXCEPT ![j] = "started"] /\ registry' = registry \cup {j}
            /\ worker' = [worker EXCEPT ![j] = "launch"]
         \/ /\ task' = [task EXCEPT ![j] = "failed"] /\ registry' = registry
            /\ worker' = [worker EXCEPT ![j] = "exited"]
  BY DEF StartStreaming, StartFails, Tasks, callVars
<1>2. SupTypeOK'
  BY Zenon, <1>1 DEF IInv, SupTypeOK, TaskStates, WorkerStates
<1>3. QueueInv' /\ CountInv' /\ DownInv'
  BY <1>1, TaskMoves DEF LiveStates
<1>4. JobOK(j)'
  <2>1. /\ worker[j] = "none" /\ told[j] = "open" /\ ~result[j] /\ ~charge[j] /\ ~pgid[j]
        /\ group[j].direct = "none" /\ group[j].descendants = "none" /\ j \notin registry
    BY <1>1 DEF IInv, JobOK
  <2>2. /\ told'[j] = "open" /\ ~result'[j] /\ ~charge'[j] /\ ~pgid'[j]
        /\ group'[j].direct = "none" /\ group'[j].descendants = "none"
    BY <1>1, <2>1
  <2>3. \/ task'[j] = "started" /\ worker'[j] = "launch" /\ j \in registry'
        \/ task'[j] = "failed" /\ worker'[j] = "exited" /\ j \notin registry'
    BY <1>1, <2>1 DEF IInv, SupTypeOK
  <2> QED
    BY <2>2, <2>3 DEF JobOK, NoMember
<1>5. \A i \in Jobs \ {j} : Same(i)
  <2>1. \A i \in Jobs \ {j} : /\ task'[i] = task[i] /\ worker'[i] = worker[i]
                              /\ i \in registry' <=> i \in registry
    BY <1>1 DEF IInv, SupTypeOK, Tasks
  <2>2. told' = told /\ result' = result /\ charge' = charge /\ pgid' = pgid /\ group' = group
    BY <1>1
  <2> QED
    BY <2>1, <2>2 DEF Same
<1> QED
  BY <1>2, <1>3, <1>4, <1>5, JobStepOK

(* The task of a job goes on to watch it, tells its end, or is aborted.     *)
LEMMA JobTaskIInv ==
    ASSUME IInv, NEW j \in Jobs,
           TellFailed(j) \/ CheckClosing(j) \/ TakeResult(j) \/ AbortTakesEffect(j)
    PROVE  IInv'
<1>1. /\ UNCHANGED <<closing, queue, manager, stopping, active, aborts, asked, unread>>
      /\ UNCHANGED <<registry, pgid, worker, pipe, killSent, charge, down>>
      /\ aborting' \subseteq aborting
      /\ Cancel({j}) \/ UNCHANGED <<cancelled, group>>
  BY DEF TellFailed, CheckClosing, TakeResult, AbortTakesEffect, callVars, jobVars
<1>2. /\ cancelled' \in [Jobs -> BOOLEAN] /\ group' \in [Jobs -> Group]
      /\ \A i \in Jobs : group'[i] = group[i] \/ group'[i] = KillGroup(group[i])
  BY <1>1, CancelOK DEF IInv, SupTypeOK, Group
<1>3. /\ j \in Tasks /\ task[j] \in LiveStates
      /\ \E s \in LiveStates : task' = [task EXCEPT ![j] = s]
  BY DEF TellFailed, CheckClosing, TakeResult, AbortTakesEffect, LiveStates, Tasks
<1>4. QueueInv' /\ CountInv' /\ DownInv'
  BY Zenon, <1>1, <1>3, TaskMoves
<1>5. /\ told' \in [Jobs -> {"open", "reaped", "lost"}] /\ result' \in [Jobs -> BOOLEAN]
      /\ \A i \in Jobs \ {j} : told'[i] = told[i] /\ result'[i] = result[i] /\ task'[i] = task[i]
      /\ result'[j] => result[j]
  <2>1. CASE TellFailed(j)
    BY <2>1 DEF IInv, SupTypeOK, TellFailed, jobVars
  <2>2. CASE CheckClosing(j)
    BY <2>2 DEF IInv, SupTypeOK, CheckClosing, callVars
  <2>3. CASE TakeResult(j)
    <3>1. /\ told' \in [Jobs -> {"open", "reaped", "lost"}]
          /\ \A i \in Jobs \ {j} : told'[i] = told[i] /\ task'[i] = task[i]
      BY <2>3 DEF IInv, SupTypeOK, TakeResult
    <3>2. result' \in [Jobs -> BOOLEAN] /\ ~result'[j] /\ \A i \in Jobs \ {j} : result'[i] = result[i]
      BY <2>3 DEF IInv, SupTypeOK, TakeResult
    <3> QED
      BY <3>1, <3>2
  <2>4. CASE AbortTakesEffect(j)
    BY <2>4 DEF IInv, SupTypeOK, AbortTakesEffect
  <2> QED
    BY <2>1, <2>2, <2>3, <2>4
<1>6. SupTypeOK'
  BY <1>1, <1>2, <1>3, <1>5 DEF IInv, SupTypeOK, LiveStates, TaskStates, Group
<1>7. /\ NoMember(group'[j]) <=> NoMember(group[j])
      /\ group'[j].direct = "none" <=> group[j].direct = "none"
      /\ group'[j].descendants = "none" <=> group[j].descendants = "none"
  <2>1. group[j] \in Group
    BY Zenon DEF IInv, SupTypeOK, Group
  <2> QED
    BY <1>2, <2>1, KillGroupOK
<1>8. JobOK(j)'
  <2>1. /\ \/ task'[j] = "watching" /\ task[j] = "started" /\ told'[j] = told[j]
           \/ task'[j] = "ended" /\ task[j] # "idle" /\ told'[j] = "lost"
           \/ task'[j] = "ended" /\ told'[j] = "reaped" /\ (task[j] = "failed" \/ result[j])
    BY Zenon, <1>3 DEF IInv, SupTypeOK, TellFailed, CheckClosing, TakeResult, AbortTakesEffect, callVars
  <2>2. JobOK(j) /\ worker'[j] = worker[j] /\ pgid'[j] = pgid[j] /\ charge'[j] = charge[j]
        /\ registry' = registry
    BY <1>1 DEF IInv
  <2> QED
    BY <1>5, <1>7, <2>1, <2>2 DEF JobOK
<1>9. \A i \in Jobs \ {j} : Same(i)
  BY Zenon, <1>1, <1>2, <1>5 DEF Same
<1> QED
  BY <1>4, <1>6, <1>8, <1>9, JobStepOK

(* An aborted plain task, which has no job.                                 *)
LEMMA AbortPlainIInv ==
    ASSUME IInv, NEW t \in Tasks \ Jobs, AbortTakesEffect(t)
    PROVE  IInv'
<1>1. /\ task[t] \in LiveStates /\ task' = [task EXCEPT ![t] = "ended"]
      /\ UNCHANGED <<closing, queue, manager, stopping, active, aborts, asked, unread,
                     registry, pgid, worker, pipe, killSent, charge, result, down>>
      /\ aborting' \subseteq aborting
      /\ Cancel({t}) \/ UNCHANGED <<cancelled, group>>
      /\ told' = [j \in Jobs |-> IF j = t THEN "lost" ELSE told[j]]
  BY Zenon DEF AbortTakesEffect, LiveStates
<1>2. /\ cancelled' \in [Jobs -> BOOLEAN] /\ group' \in [Jobs -> Group]
      /\ \A i \in Jobs : group'[i] = group[i] \/ group'[i] = KillGroup(group[i])
  BY <1>1, CancelOK DEF IInv, SupTypeOK, Group
<1>3. told' = told /\ \A i \in Jobs : task'[i] = task[i]
  BY <1>1 DEF IInv, SupTypeOK
<1>4. SupTypeOK'
  BY <1>1, <1>2, <1>3 DEF IInv, SupTypeOK, TaskStates, Group
<1>5. QueueInv' /\ CountInv' /\ DownInv'
  BY Zenon, <1>1, TaskMoves DEF LiveStates
<1>6. \A i \in Jobs : JobOK(i)'
  <2>1. \A i \in Jobs : Same(i)
    BY Zenon, <1>1, <1>2, <1>3 DEF Same
  <2>2. SupTypeOK /\ \A i \in Jobs : JobOK(i)
    BY Zenon DEF IInv
  <2> QED
    BY Zenon, <2>1, <2>2, SameOK
<1> QED
  BY Zenon, <1>4, <1>5, <1>6 DEF IInv

-----------------------------------------------------------------------------
(* The manager: a task is accepted, received, and joined                    *)

(* Before it starts and after it has ended, a task has no effect on its job. *)
LEMMA WaitingTaskOK ==
    ASSUME IInv, NEW t \in Tasks, NEW s,
           \/ task[t] \in {"idle", "queued"} /\ s \in {"queued", "spawned"}
           \/ task[t] = "ended" /\ s = "joined",
           task' = [task EXCEPT ![t] = s],
           UNCHANGED <<told, worker, result, charge, pgid, registry, group>>
    PROVE  \A i \in Jobs : JobOK(i)'
<1> SUFFICES ASSUME NEW i \in Jobs PROVE JobOK(i)'
  OBVIOUS
<1>1. /\ told' = told /\ worker' = worker /\ result' = result /\ charge' = charge
      /\ pgid' = pgid /\ registry' = registry /\ group' = group
  OBVIOUS
<1>2. task'[i] = IF i = t THEN s ELSE task[i]
  BY DEF IInv, SupTypeOK, Tasks
<1> QED
  BY <1>1, <1>2 DEF IInv, JobOK

LEMMA SpawnInnerIInv ==
    ASSUME IInv, NEW t \in Tasks, SpawnInner(t)
    PROVE  IInv'
<1>1. /\ task[t] = "idle" /\ ~closing /\ down.at = "up"
      /\ manager' = IF manager = "none" THEN "running" ELSE manager
      /\ UNCHANGED <<closing, stopping, aborts, aborting, asked, unread, told, down>>
      /\ UNCHANGED <<registry, cancelled, pgid, worker, group, pipe, killSent, charge, result>>
  BY DEF SpawnInner, callVars, jobVars, IInv, DownInv
<1>2. CASE active < MaxOwnedTasks
  <2>1. /\ active' = active + 1 /\ queue' = Append(queue, t)
        /\ task' = [task EXCEPT ![t] = "queued"]
    BY <1>2 DEF SpawnInner
  <2>2. /\ Len(queue') = Len(queue) + 1 /\ Len(queue) \in Nat
        /\ queue' \in Seq(Tasks \cup {Shutdown})
        /\ \A i \in 1..Len(queue) : queue'[i] = queue[i]
        /\ queue'[Len(queue) + 1] = t
    BY <2>1, AppendProperties, LenProperties DEF IInv, SupTypeOK
  <2>3. SupTypeOK'
    BY <1>1, <2>1, <2>2 DEF IInv, SupTypeOK, TaskStates
  <2>4. \A i \in Jobs : JobOK(i)'
    BY Zenon, <1>1, <2>1, WaitingTaskOK
  <2>5. QueueInv'
    <3>1. \A i \in 1..Len(queue) : queue[i] \in Tasks => queue[i] # t /\ task'[queue[i]] = "queued"
      BY <1>1, <2>1 DEF IInv, QueueInv, SupTypeOK
    <3>2. 1..Len(queue') = 1..Len(queue) \cup {Len(queue) + 1}
      BY <2>2
    <3>3. task'[t] = "queued"
      BY <2>1 DEF IInv, SupTypeOK
    <3>4. ASSUME NEW i \in 1..Len(queue'), queue'[i] \in Tasks
          PROVE  task'[queue'[i]] = "queued"
      BY <2>2, <3>1, <3>2, <3>3, <3>4
    <3>5. ASSUME NEW i \in 1..Len(queue'), NEW k \in 1..Len(queue'),
                 queue'[i] = queue'[k], queue'[i] \in Tasks
          PROVE  i = k
      BY <2>2, <3>1, <3>2, <3>5 DEF IInv, QueueInv
    <3>6. \A i \in 1..Len(queue') : queue'[i] \in Tasks
      BY <1>1, <2>2, <3>2 DEF IInv, QueueInv
    <3> QED
      BY <3>4, <3>5, <3>6 DEF QueueInv
  <2>6. /\ Live' = Live /\ Queued' = Queued \cup {t} /\ t \notin Queued
    <3>1. \A u \in Tasks : task'[u] = IF u = t THEN "queued" ELSE task[u]
      BY <2>1 DEF IInv, SupTypeOK
    <3> QED
      BY <1>1, <3>1 DEF Live, Queued
  <2>7. CountInv'
    <3>1. /\ IsFiniteSet(Queued') /\ Cardinality(Queued') = Cardinality(Queued) + 1
          /\ Cardinality(Queued) \in Nat /\ Cardinality(Live) \in Nat
      BY <2>6, FS_AddElement, FS_CardinalityType DEF IInv, CountInv
    <3>2. manager # "aborted" /\ manager' # "aborted"
      BY <1>1 DEF IInv, DownInv
    <3>3. active \in Nat /\ MaxOwnedTasks \in Nat
      BY SupervisorAssumption DEF IInv, SupTypeOK
    <3> QED
      BY <1>2, <2>1, <2>6, <3>1, <3>2, <3>3 DEF IInv, CountInv
  <2>8. DownInv'
    BY <1>1, <2>6 DEF IInv, DownInv, SupTypeOK
  <2> QED
    BY <2>3, <2>4, <2>5, <2>7, <2>8 DEF IInv
<1>3. CASE ~(active < MaxOwnedTasks)
  <2>1. UNCHANGED <<active, queue, task>>
    BY <1>3 DEF SpawnInner
  <2>2. SupTypeOK'
    BY <1>1, <2>1 DEF IInv, SupTypeOK
  <2>3. \A i \in Jobs : JobOK(i)'
    BY Zenon, <1>1, <2>1, SameOK DEF IInv, Same
  <2>4. QueueInv'
    BY Zenon, <1>1, <2>1 DEF IInv, QueueInv
  <2>5. Live' = Live /\ Queued' = Queued
    BY <2>1 DEF Live, Queued
  <2>6. CountInv'
    BY <1>1, <2>1, <2>5 DEF IInv, CountInv, DownInv
  <2>7. DownInv'
    BY <1>1, <2>1, <2>5 DEF IInv, DownInv
  <2> QED
    BY <2>2, <2>3, <2>4, <2>6, <2>7 DEF IInv
<1> QED
  BY <1>2, <1>3

LEMMA JoinNextIInv ==
    ASSUME IInv, NEW t \in Tasks, JoinNext(t)
    PROVE  IInv'
<1>1. /\ task[t] = "ended" /\ manager = "running" /\ task' = [task EXCEPT ![t] = "joined"]
      /\ active' = active - 1 /\ aborts' \subseteq aborts /\ aborting' \subseteq aborting
      /\ UNCHANGED <<closing, queue, manager, stopping, asked, unread, told, down>>
      /\ UNCHANGED <<registry, cancelled, pgid, worker, group, pipe, killSent, charge, result>>
  BY DEF JoinNext, Joinable, callVars, jobVars
<1>2. \A u \in Tasks : task'[u] = IF u = t THEN "joined" ELSE task[u]
  BY <1>1 DEF IInv, SupTypeOK
<1>3. Queued' = Queued /\ Live' = Live \ {t} /\ t \in Live
  BY <1>1, <1>2 DEF Live, Queued
<1>4. /\ IsFiniteSet(Live') /\ Cardinality(Live') = Cardinality(Live) - 1
      /\ Cardinality(Queued) \in Nat /\ Cardinality(Live') \in Nat /\ Cardinality(Live) \in Nat
  BY <1>3, FS_RemoveElement, FS_CardinalityType DEF IInv, CountInv
<1>5. CountInv' /\ active' \in Nat
  <2>1. active = Cardinality(Live) + Cardinality(Queued) /\ active <= MaxOwnedTasks
        /\ MaxOwnedTasks \in Nat
    BY <1>1, SupervisorAssumption DEF IInv, CountInv
  <2> QED
    BY <1>1, <1>3, <1>4, <2>1 DEF IInv, CountInv
<1>6. SupTypeOK'
  BY <1>1, <1>5 DEF IInv, SupTypeOK, TaskStates
<1>7. \A i \in Jobs : JobOK(i)'
  BY Zenon, <1>1, WaitingTaskOK
<1>8. QueueInv'
  BY <1>1, <1>2 DEF IInv, QueueInv
<1>9. DownInv'
  BY <1>1 DEF IInv, DownInv
<1> QED
  BY <1>5, <1>6, <1>7, <1>8, <1>9 DEF IInv

(* The first command leaves the channel.                                    *)
LEMMA TailOK ==
    ASSUME SupTypeOK, queue # <<>>, queue' = Tail(queue)
    PROVE  /\ Len(queue) \in Nat \ {0} /\ Len(queue') = Len(queue) - 1
           /\ queue' \in Seq(Tasks \cup {Shutdown})
           /\ Head(queue) = queue[1] /\ Head(queue) \in Tasks \cup {Shutdown}
           /\ \A i \in 1..Len(queue') : queue'[i] = queue[i + 1]
  BY HeadTailProperties, EmptySeq, LenProperties DEF SupTypeOK

LEMMA TailQueueInv ==
    ASSUME SupTypeOK, QueueInv, queue # <<>>, queue' = Tail(queue), closing' = closing,
           \A u \in Tasks \ {Head(queue)} : task'[u] = task[u]
    PROVE  QueueInv'
<1>1. /\ Len(queue) \in Nat \ {0} /\ Len(queue') = Len(queue) - 1 /\ Head(queue) = queue[1]
      /\ \A i \in 1..Len(queue') : queue'[i] = queue[i + 1]
  BY TailOK
<1>2. \A i \in 1..Len(queue') : i + 1 \in 1..Len(queue) /\ i + 1 # 1
  BY <1>1
<1>3. 1 \in 1..Len(queue)
  BY <1>1
<1>4. ASSUME NEW i \in 1..Len(queue'), queue'[i] \in Tasks
      PROVE  task'[queue'[i]] = "queued"
  <2>1. queue[i + 1] \in Tasks /\ task[queue[i + 1]] = "queued"
    BY <1>1, <1>2, <1>4 DEF QueueInv
  <2>2. queue[i + 1] # queue[1]
    BY <1>2, <1>3, <2>1 DEF QueueInv
  <2> QED
    BY <1>1, <2>1, <2>2
<1>5. ASSUME NEW i \in 1..Len(queue'), NEW k \in 1..Len(queue'),
             queue'[i] = queue'[k], queue'[i] \in Tasks
      PROVE  i = k
  <2>1. i + 1 = k + 1
    BY <1>1, <1>2, <1>5 DEF QueueInv
  <2> QED
    BY <2>1
<1>6. ~closing' => \A i \in 1..Len(queue') : queue'[i] \in Tasks
  BY <1>1, <1>2 DEF QueueInv
<1> QED
  BY <1>4, <1>5, <1>6 DEF QueueInv

LEMMA ReceiveCommandIInv ==
    ASSUME IInv, ReceiveCommand
    PROVE  IInv'
<1>1. /\ manager = "running" /\ queue # <<>> /\ queue' = Tail(queue)
      /\ UNCHANGED <<closing, manager, active, aborting, asked, unread, told, down>>
      /\ UNCHANGED <<registry, cancelled, pgid, worker, group, pipe, killSent, charge, result>>
  BY DEF ReceiveCommand, callVars, jobVars
<1>2. /\ Len(queue) \in Nat \ {0} /\ Len(queue') = Len(queue) - 1
      /\ queue' \in Seq(Tasks \cup {Shutdown})
      /\ Head(queue) = queue[1] /\ Head(queue) \in Tasks \cup {Shutdown}
      /\ \A i \in 1..Len(queue') : queue'[i] = queue[i + 1]
  BY <1>1, TailOK DEF IInv
<1>3. CASE Head(queue) = Shutdown
  <2>1. stopping' = TRUE /\ UNCHANGED <<aborts, task>>
    BY <1>3 DEF ReceiveCommand
  <2>2. SupTypeOK'
    BY Zenon, <1>1, <1>2, <2>1 DEF IInv, SupTypeOK
  <2>3. \A i \in Jobs : JobOK(i)'
    BY <1>1, <2>1, SameOK DEF IInv, Same
  <2>4. QueueInv'
    BY <1>1, <2>1, TailQueueInv DEF IInv
  <2>5. Live' = Live /\ Queued' = Queued
    BY <2>1 DEF Live, Queued
  <2>6. CountInv' /\ DownInv'
    BY <1>1, <2>1, <2>5 DEF IInv, CountInv, DownInv
  <2> QED
    BY <2>2, <2>3, <2>4, <2>6 DEF IInv
<1>4. CASE Head(queue) # Shutdown
  <2> DEFINE t == Head(queue)
  <2>1. /\ t \in Tasks /\ task' = [task EXCEPT ![t] = "spawned"]
        /\ aborts' = aborts \cup {t} /\ UNCHANGED stopping
    BY <1>2, <1>4 DEF ReceiveCommand
  <2>2. task[t] = "queued" /\ \A i \in 1..Len(queue') : queue'[i] # t
    BY <1>2, <2>1 DEF IInv, QueueInv
  <2> HIDE DEF t
  <2>3. \A u \in Tasks : task'[u] = IF u = t THEN "spawned" ELSE task[u]
    BY <2>1 DEF IInv, SupTypeOK
  <2>4. SupTypeOK'
    BY <1>1, <1>2, <2>1 DEF IInv, SupTypeOK, TaskStates
  <2>5. \A i \in Jobs : JobOK(i)'
    BY Zenon, <1>1, <2>1, <2>2, WaitingTaskOK
  <2>6. QueueInv'
    BY <1>1, <2>3, TailQueueInv DEF IInv, t
  <2>7. /\ Queued' = Queued \ {t} /\ t \in Queued
        /\ Live' = Live \cup {t} /\ t \notin Live
    BY <2>1, <2>2, <2>3 DEF Live, Queued
  <2>8. /\ IsFiniteSet(Queued') /\ Cardinality(Queued') = Cardinality(Queued) - 1
        /\ IsFiniteSet(Live') /\ Cardinality(Live') = Cardinality(Live) + 1
        /\ Cardinality(Queued) \in Nat /\ Cardinality(Live) \in Nat
    BY <2>7, FS_AddElement, FS_RemoveElement, FS_CardinalityType DEF IInv, CountInv
  <2>9. CountInv'
    BY <1>1, <2>8 DEF IInv, CountInv
  <2>10. DownInv'
    BY <1>1 DEF IInv, DownInv
  <2> QED
    BY <2>4, <2>5, <2>6, <2>9, <2>10 DEF IInv
<1> QED
  BY <1>3, <1>4

LEMMA ManagerDoneIInv ==
    ASSUME IInv, ManagerDone
    PROVE  IInv'
<1>1. /\ Live = {} /\ manager = "running" /\ manager' = "done"
      /\ UNCHANGED <<closing, queue, stopping, active, aborts, aborting, task, asked, unread, told, down>>
      /\ UNCHANGED <<registry, cancelled, pgid, worker, group, pipe, killSent, charge, result>>
  BY DEF ManagerDone, callVars, jobVars
<1>2. SupTypeOK'
  BY Zenon, <1>1 DEF IInv, SupTypeOK
<1>3. \A i \in Jobs : JobOK(i)'
  BY <1>1, SameOK DEF IInv, Same
<1>4. Live' = Live /\ Queued' = Queued
  BY <1>1 DEF Live, Queued
<1>5. QueueInv' /\ CountInv' /\ DownInv'
  BY <1>1, <1>4 DEF IInv, QueueInv, CountInv, DownInv
<1> QED
  BY <1>2, <1>3, <1>5 DEF IInv

(* A command that is dropped unread never becomes a running task.           *)
LEMMA DropQueuedIInv ==
    ASSUME IInv, DropQueued
    PROVE  IInv'
<1> DEFINE c == Head(queue)
<1>1. /\ manager = "aborted" /\ queue # <<>> /\ queue' = Tail(queue)
      /\ UNCHANGED <<closing, manager, stopping, active, aborts, aborting, asked, unread, down>>
      /\ UNCHANGED <<registry, cancelled, pgid, worker, group, pipe, killSent, charge, result>>
      /\ told' = [j \in Jobs |-> IF j = c THEN "lost" ELSE told[j]]
      /\ task' = IF c \in Tasks THEN [task EXCEPT ![c] = "joined"] ELSE task
  BY DEF DropQueued, jobVars
<1>2. /\ Len(queue) \in Nat \ {0} /\ Len(queue') = Len(queue) - 1
      /\ queue' \in Seq(Tasks \cup {Shutdown})
      /\ c = queue[1] /\ c \in Tasks \cup {Shutdown}
      /\ \A i \in 1..Len(queue') : queue'[i] = queue[i + 1]
  BY Zenon, <1>1, TailOK DEF IInv
<1>3. c \in Tasks => task[c] = "queued"
  <2>1. 1 \in 1..Len(queue)
    BY <1>2
  <2> QED
    BY Zenon, <1>2, <2>1 DEF IInv, QueueInv
<1> HIDE DEF c
<1>4. \A u \in Tasks : task'[u] = IF u = c THEN "joined" ELSE task[u]
  BY <1>1 DEF IInv, SupTypeOK
<1>5. SupTypeOK'
  BY <1>1, <1>2 DEF IInv, SupTypeOK, TaskStates
<1>6. ASSUME NEW i \in Jobs PROVE JobOK(i)'
  <2>1. /\ worker' = worker /\ result' = result /\ charge' = charge
        /\ pgid' = pgid /\ registry' = registry /\ group' = group
    BY <1>1
  <2>2. /\ i \in Tasks /\ JobOK(i)
        /\ task'[i] = IF i = c THEN "joined" ELSE task[i]
        /\ told'[i] = IF i = c THEN "lost" ELSE told[i]
    BY <1>1, <1>4 DEF IInv, Tasks
  <2> QED
    BY <1>3, <2>1, <2>2 DEF JobOK
<1>7. QueueInv'
  BY <1>1, <1>4, TailQueueInv DEF IInv, c
<1>8. Live' = Live /\ Queued' = Queued \ {c}
  BY <1>3, <1>4 DEF Live, Queued
<1>9. CountInv'
  BY <1>1, <1>8, FS_Subset DEF IInv, CountInv
<1>10. DownInv'
  BY <1>1 DEF IInv, DownInv
<1> QED
  BY <1>5, <1>6, <1>7, <1>9, <1>10 DEF IInv

-----------------------------------------------------------------------------
(* The owner                                                                *)

(* The shutdown marker in the channel, or not.                              *)
LEMMA MarkerOK ==
    ASSUME SupTypeOK, QueueInv, closing', task' = task,
           queue' = queue \/ queue' = Append(queue, Shutdown)
    PROVE  queue' \in Seq(Tasks \cup {Shutdown}) /\ QueueInv'
<1>1. CASE queue' = queue
  BY <1>1 DEF QueueInv, SupTypeOK
<1>2. CASE queue' = Append(queue, Shutdown)
  <2>1. Shutdown \notin Tasks
    BY SupervisorAssumption DEF Shutdown, Tasks
  <2>2. /\ Len(queue') = Len(queue) + 1 /\ Len(queue) \in Nat
        /\ queue' \in Seq(Tasks \cup {Shutdown})
        /\ \A i \in 1..Len(queue) : queue'[i] = queue[i]
        /\ queue'[Len(queue) + 1] = Shutdown
    BY <1>2, AppendProperties, LenProperties DEF SupTypeOK
  <2>3. 1..Len(queue') = 1..Len(queue) \cup {Len(queue) + 1}
    BY <2>2
  <2> QED
    BY <2>1, <2>2, <2>3 DEF QueueInv
<1> QED
  BY <1>1, <1>2

(* The owner reads: what it has seen empty stays empty.                     *)
LEMMA ReadIInv ==
    ASSUME IInv, ReadTasks \/ ReadJobs \/ ReadActive
    PROVE  IInv'
<1>1. UNCHANGED <<taskVars, callVars, jobVars>>
  BY DEF ReadTasks, ReadJobs, ReadActive
<1>2. SupTypeOK'
  BY Zenon, <1>1 DEF IInv, SupTypeOK, ReadTasks, ReadJobs, ReadActive, taskVars, callVars, jobVars
<1>3. \A i \in Jobs : JobOK(i)'
  BY <1>1, SameOK DEF IInv, Same, taskVars, callVars, jobVars
<1>4. Live' = Live /\ Queued' = Queued
  BY <1>1 DEF Live, Queued, taskVars
<1>5. QueueInv' /\ CountInv'
  BY <1>1, <1>4 DEF IInv, QueueInv, CountInv, taskVars
<1>6. DownInv'
  <2>1. UNCHANGED <<closing, manager, task, registry, active>>
    BY <1>1 DEF taskVars, jobVars
  <2>2. CASE ReadTasks
    BY <1>4, <2>1, <2>2 DEF IInv, SupTypeOK, DownInv, ReadTasks
  <2>3. CASE ReadJobs
    BY <1>4, <2>1, <2>3 DEF IInv, SupTypeOK, DownInv, ReadJobs
  <2>4. CASE ReadActive
    BY <1>4, <2>1, <2>4 DEF IInv, SupTypeOK, DownInv, ReadActive
  <2> QED
    BY <2>2, <2>3, <2>4
<1> QED
  BY <1>2, <1>3, <1>5, <1>6 DEF IInv

(* The owner closes, cancels and aborts.                                    *)
LEMMA CloseIInv ==
    ASSUME IInv, BeginShutdown \/ AbortActive \/ DeadlineExpires \/ DropOwner
    PROVE  IInv'
<1>1. /\ UNCHANGED <<stopping, active, aborts, task, asked, unread, told>>
      /\ UNCHANGED <<registry, pgid, worker, pipe, killSent, charge, result>>
      /\ Cancel(registry) \/ UNCHANGED <<cancelled, group>>
      /\ queue' = queue \/ queue' = Append(queue, Shutdown)
  BY DEF BeginShutdown, AbortActive, DeadlineExpires, DropOwner, callVars, jobVars
<1>2. /\ cancelled' \in [Jobs -> BOOLEAN] /\ group' \in [Jobs -> Group]
      /\ \A i \in Jobs : group'[i] = group[i] \/ group'[i] = KillGroup(group[i])
  BY <1>1, CancelOK DEF IInv, SupTypeOK, Group
<1>3. /\ down' \in [at : {"up", "wait", "tasks0", "jobs0", "complete", "expired", "dropped"},
                    forced : BOOLEAN]
      /\ \/ down.at \in {"up", "wait", "tasks0", "jobs0"} /\ down'.at = "wait" /\ manager' = manager
         \/ /\ down'.at \in {"expired", "dropped"}
            /\ manager' = IF manager = "running" THEN "aborted" ELSE manager
         \/ down'.at = "dropped" /\ down.at # "up" /\ manager' = manager
      /\ closing'
      /\ closing' \in BOOLEAN
  <2>1. CASE BeginShutdown
    BY Zenon, <2>1 DEF IInv, SupTypeOK, BeginShutdown
  <2>2. CASE AbortActive
    BY <2>2 DEF IInv, SupTypeOK, DownInv, AbortActive, Waiting
  <2>3. CASE DeadlineExpires
    BY <2>3 DEF IInv, SupTypeOK, DownInv, DeadlineExpires, Waiting, AbortManager
  <2>4. CASE DropOwner
    BY <2>4 DEF IInv, SupTypeOK, DropOwner, AbortManager
  <2> QED
    BY <2>1, <2>2, <2>3, <2>4
<1>4. aborting' \subseteq Tasks
  BY DEF IInv, SupTypeOK, BeginShutdown, AbortActive, DeadlineExpires, DropOwner, AbortManager, Live
<1>5. queue' \in Seq(Tasks \cup {Shutdown}) /\ QueueInv'
  BY <1>1, <1>3, MarkerOK DEF IInv
<1>6. SupTypeOK'
  BY <1>1, <1>2, <1>3, <1>4, <1>5 DEF IInv, SupTypeOK, Group
<1>7. \A i \in Jobs : JobOK(i)'
  BY Zenon, <1>1, <1>2, SameOK DEF IInv, Same
<1>8. Live' = Live /\ Queued' = Queued
  BY <1>1 DEF Live, Queued
<1>9. CountInv'
  BY <1>1, <1>3, <1>8 DEF IInv, CountInv
<1>10. DownInv'
  BY <1>1, <1>3, <1>8 DEF IInv, DownInv, SupTypeOK
<1> QED
  BY <1>5, <1>6, <1>7, <1>9, <1>10 DEF IInv

-----------------------------------------------------------------------------
(* What the supervisor reports is so                                        *)

LEMMA InitIInv == SupInit => IInv
<1> SUFFICES ASSUME SupInit PROVE IInv
  OBVIOUS
<1>1. SupTypeOK
  <2>1. queue \in Seq(Tasks \cup {Shutdown}) /\ active \in Nat
    BY DEF SupInit
  <2>2. group \in [Jobs -> [direct : MemberStates, descendants : MemberStates]]
    BY DEF SupInit, MemberStates
  <2>3. down \in [at : {"up", "wait", "tasks0", "jobs0", "complete", "expired", "dropped"},
                 forced : BOOLEAN]
    BY DEF SupInit
  <2>4. task \in [Tasks -> TaskStates] /\ worker \in [Jobs -> WorkerStates]
    BY DEF SupInit, TaskStates, WorkerStates
  <2>5. /\ asked \in [Jobs -> BOOLEAN] /\ unread \in [Jobs -> BOOLEAN]
        /\ cancelled \in [Jobs -> BOOLEAN] /\ pgid \in [Jobs -> BOOLEAN]
        /\ killSent \in [Jobs -> BOOLEAN] /\ charge \in [Jobs -> BOOLEAN]
        /\ result \in [Jobs -> BOOLEAN]
    BY DEF SupInit
  <2>6. told \in [Jobs -> {"open", "reaped", "lost"}] /\ pipe \in [Jobs -> {"open", "pending", "closed"}]
    BY DEF SupInit
  <2> QED
    BY Zenon, <2>1, <2>2, <2>3, <2>4, <2>5, <2>6 DEF SupInit, SupTypeOK
<1>2. \A j \in Jobs : JobOK(j)
  BY DEF SupInit, JobOK, Tasks
<1>3. QueueInv /\ DownInv
  BY DEF SupInit, QueueInv, DownInv
<1>4. Live = {} /\ Queued = {}
  BY DEF SupInit, Live, Queued
<1>5. CountInv
  BY <1>4, FS_EmptySet, SupervisorAssumption DEF SupInit, CountInv
<1> QED
  BY <1>1, <1>2, <1>3, <1>5 DEF IInv

LEMMA NextIInv == IInv /\ [SupNext]_supVars => IInv'
<1> SUFFICES ASSUME IInv, [SupNext]_supVars PROVE IInv'
  OBVIOUS
<1>1. ASSUME NEW t \in Tasks, TaskStep(t) PROVE IInv'
  BY <1>1, SpawnInnerIInv, JoinNextIInv, PlainEndsIInv, JobTaskIInv, AbortPlainIInv DEF TaskStep
<1>2. ASSUME NEW j \in Jobs, JobStep(j) PROVE IInv'
  BY <1>2, StartIInv, JobTaskIInv, SignalIInv, WorkerIInv, PipeIInv, ProcessIInv
     DEF JobStep, JobTaskStep, ReapStep
<1>3. CASE ReceiveCommand \/ ManagerDone \/ DropQueued
  BY <1>3, ReceiveCommandIInv, ManagerDoneIInv, DropQueuedIInv
<1>4. CASE OwnerStep
  BY <1>4, ReadIInv, CloseIInv DEF OwnerStep
<1>5. CASE UNCHANGED supVars
  <2>1. UNCHANGED <<taskVars, callVars, jobVars, down>>
    BY <1>5 DEF supVars
  <2>2. SupTypeOK'
    BY <2>1 DEF IInv, SupTypeOK, taskVars, callVars, jobVars
  <2>3. \A i \in Jobs : JobOK(i)'
    BY Zenon, <2>1, SameOK DEF IInv, Same, taskVars, callVars, jobVars
  <2>4. QueueInv' /\ CountInv' /\ DownInv'
    BY <2>1, TasksRest DEF jobVars
  <2> QED
    BY <2>2, <2>3, <2>4 DEF IInv
<1> QED
  BY <1>1, <1>2, <1>3, <1>4, <1>5 DEF SupNext

LEMMA SpecIInv == SupSpec => []IInv
  BY InitIInv, NextIInv, PTL DEF SupSpec

(* Each place of the channel is a queued task of its own, as long as no     *)
(* marker is in it.                                                         *)
LEMMA QueueBounded ==
    ASSUME IInv, ~closing
    PROVE  Len(queue) <= Cardinality(Queued)
<1> DEFINE f == [i \in 1..Len(queue) |-> queue[i]]
<1>1. Len(queue) \in Nat /\ \A i \in 1..Len(queue) : queue[i] \in Queued
  BY LenProperties DEF IInv, SupTypeOK, QueueInv, Queued
<1>2. f \in Injection(1..Len(queue), Queued)
  BY <1>1 DEF IInv, QueueInv, Queued, Injection, IsInjective
<1>3. IsFiniteSet(Queued)
  BY DEF IInv, CountInv
<1>4. Cardinality(1..Len(queue)) = Len(queue)
  <2>1. Cardinality(1..Len(queue)) = IF 1 > Len(queue) THEN 0 ELSE Len(queue) - 1 + 1
    BY <1>1, FS_Interval
  <2> QED
    BY <1>1, <2>1
<1> QED
  BY <1>2, <1>3, <1>4, FS_Injection

LEMMA WorkIsKnown == IInv => OwnedWorkIsKnown
<1> SUFFICES ASSUME IInv PROVE OwnedWorkIsKnown
  OBVIOUS
<1>1. \A j \in Jobs : /\ JobOK(j) /\ worker[j] \in WorkerStates /\ task[j] \in TaskStates
                      /\ Gone(j) <=> NoMember(group[j])
  BY DEF IInv, SupTypeOK, Tasks, Gone, NoMember
<1>2. PublishedIsChildFree
  BY <1>1 DEF PublishedIsChildFree, JobOK, WorkerStates, NoMember
<1>3. Cardinality(Live) \in Nat /\ Cardinality(Queued) \in Nat
  BY Zenon, FS_CardinalityType DEF IInv, CountInv
<1>4. ShutdownIsComplete
  <2> SUFFICES ASSUME down.at = "complete" PROVE ShutdownIsComplete
    BY DEF ShutdownIsComplete
  <2>1. manager # "aborted" /\ active = 0 /\ registry = {}
    BY DEF IInv, DownInv
  <2>2. Cardinality(Live) = 0 /\ Cardinality(Queued) = 0
    BY <1>3, <2>1 DEF IInv, CountInv
  <2>3. Live = {} /\ Queued = {}
    BY <2>2, FS_EmptySet DEF IInv, CountInv
  <2>4. \A j \in Jobs : NoMember(group[j]) /\ worker[j] \in {"none", "publish", "exited"}
    BY <1>1, <2>1 DEF JobOK, WorkerStates, NoMember
  <2> QED
    BY <1>1, <2>3, <2>4 DEF ShutdownIsComplete, Queued
<1>5. CountsAgree
  <2>1. ~closing /\ manager # "aborted" => Len(queue) <= MaxOwnedTasks
    <3>1. Len(queue) \in Nat /\ MaxOwnedTasks \in Nat
      BY LenProperties, SupervisorAssumption DEF IInv, SupTypeOK
    <3> QED
      BY <1>3, <3>1, QueueBounded DEF IInv, CountInv
  <2> QED
    BY <2>1 DEF IInv, CountInv, CountsAgree, Queued
<1> QED
  BY <1>2, <1>4, <1>5 DEF IInv, OwnedWorkIsKnown

(* The supervisor's reports hold in every state: a published result or a    *)
(* "reaped" ticket means no process is left, a complete shutdown leaves     *)
(* neither task nor process behind, and active_tasks counts the tasks, so   *)
(* the channel has room for the marker (task_supervisor.rs,                 *)
(* process_group.rs).                                                       *)
THEOREM OwnedWorkIsAlwaysKnown == SupSpec => []OwnedWorkIsKnown
  BY SpecIInv, WorkIsKnown, PTL

-----------------------------------------------------------------------------
(* The supervisor keeps the promise of OwnedProcess                         *)

(* What a step does to one job, as OwnedProcess sees it: nothing, or one    *)
(* of its steps.                                                            *)
Quiet(i) == ProcOf(i)' = ProcOf(i) /\ charge'[i] = charge[i] /\ told'[i] = told[i]

Goes(j, from, to) == ProcOf(j) = from /\ ProcOf(j)' = to

Moves(j) ==
    \/ Quiet(j)
    \/ Goes(j, "idle", "accepted") /\ charge'[j] = charge[j] /\ told'[j] = told[j]
    \/ Goes(j, "accepted", "running") /\ charge'[j] /\ told'[j] = told[j]
    \/ Goes(j, "accepted", "gone") /\ told'[j] = told[j]
    \/ Goes(j, "running", "gone") /\ charge'[j] = charge[j] /\ told'[j] = told[j]
    \/ Goes(j, "gone", "gone") /\ charge'[j] = charge[j] /\ told[j] = "open" /\ told'[j] = "reaped"
    \/ /\ ProcOf(j)' = ProcOf(j) /\ ProcOf(j) # "idle"
       /\ charge'[j] = charge[j] /\ told[j] = "open" /\ told'[j] = "lost"
    \/ Goes(j, "accepted", "gone") /\ charge'[j] = charge[j] /\ told[j] = "open" /\ told'[j] = "lost"

LEMMA MoveRefines ==
    ASSUME IInv, IInv', NEW j \in Jobs, Moves(j), \A i \in Jobs \ {j} : Quiet(i)
    PROVE  [Owned!OwnedNext]_(Owned!ownedVars)
<1>1. /\ Proc[j] = ProcOf(j) /\ Proc' = [Proc EXCEPT ![j] = ProcOf(j)']
      /\ told \in [Jobs -> {"open", "reaped", "lost"}] /\ told' = [told EXCEPT ![j] = told'[j]]
  <2>1. told \in [Jobs -> {"open", "reaped", "lost"}] /\ told' \in [Jobs -> {"open", "reaped", "lost"}]
    BY DEF IInv, SupTypeOK
  <2>2. Proc' = [i \in Jobs |-> ProcOf(i)']
    BY DEF Proc
  <2>3. \A i \in Jobs \ {j} : ProcOf(i)' = ProcOf(i) /\ told'[i] = told[i]
    BY DEF Quiet
  <2>4. Proc = [i \in Jobs |-> ProcOf(i)]
    BY Zenon DEF Proc
  <2> HIDE DEF Proc, ProcOf
  <2>5. Proc[j] = ProcOf(j) /\ Proc' = [Proc EXCEPT ![j] = ProcOf(j)']
    BY <2>2, <2>3, <2>4
  <2>6. told' = [told EXCEPT ![j] = told'[j]]
    BY <2>1, <2>3
  <2> QED
    BY <2>1, <2>5, <2>6
<1>2. charge'[j] \in BOOLEAN /\ charge' = [charge EXCEPT ![j] = charge'[j]]
  <2>1. charge \in [Jobs -> BOOLEAN] /\ charge' \in [Jobs -> BOOLEAN]
    BY DEF IInv, SupTypeOK
  <2>2. \A i \in Jobs \ {j} : charge'[i] = charge[i]
    BY Zenon DEF Quiet
  <2> QED
    BY <2>1, <2>2
<1>3. charge'[j] = charge[j] => charge' = charge
  BY <1>2 DEF IInv, SupTypeOK
<1>4. told'[j] = told[j] => told' = told
  BY <1>1
<1>5. ProcOf(j)' = ProcOf(j) => Proc' = Proc
  BY Zenon, <1>1 DEF Proc
<1>6. CASE Quiet(j)
  BY <1>3, <1>4, <1>5, <1>6 DEF Quiet, Owned!ownedVars
<1>7. CASE Goes(j, "idle", "accepted") /\ charge'[j] = charge[j] /\ told'[j] = told[j]
  BY Zenon, <1>1, <1>3, <1>4, <1>7 DEF Goes, Owned!OwnedNext, Owned!Accept
<1>8. CASE Goes(j, "accepted", "running") /\ charge'[j] /\ told'[j] = told[j]
  <2>1. charge'[j] = TRUE
    BY <1>2, <1>8
  <2>2. charge' = [charge EXCEPT ![j] = TRUE]
    BY <1>2, <2>1
  <2> QED
    BY Zenon, <1>1, <1>4, <1>8, <2>2 DEF Goes, Owned!OwnedNext, Owned!Launch
<1>9. CASE Goes(j, "accepted", "gone") /\ told'[j] = told[j]
  <2>1. Owned!NeverRuns(j, charge'[j])
    BY <1>1, <1>2, <1>4, <1>9 DEF Goes, Owned!NeverRuns
  <2> QED
    BY <1>2, <2>1 DEF Owned!OwnedNext
<1>10. CASE Goes(j, "running", "gone") /\ charge'[j] = charge[j] /\ told'[j] = told[j]
  BY Zenon, <1>1, <1>3, <1>4, <1>10 DEF Goes, Owned!OwnedNext, Owned!Reap
<1>11. CASE Goes(j, "gone", "gone") /\ charge'[j] = charge[j] /\ told[j] = "open" /\ told'[j] = "reaped"
  BY Zenon, <1>1, <1>3, <1>5, <1>11 DEF Goes, Owned!OwnedNext, Owned!Tell
<1>12. CASE /\ ProcOf(j)' = ProcOf(j) /\ ProcOf(j) # "idle"
            /\ charge'[j] = charge[j] /\ told[j] = "open" /\ told'[j] = "lost"
  BY Zenon, <1>1, <1>3, <1>5, <1>12 DEF Owned!OwnedNext, Owned!Lose
<1>13. CASE Goes(j, "accepted", "gone") /\ charge'[j] = charge[j] /\ told[j] = "open" /\ told'[j] = "lost"
  BY Zenon, <1>1, <1>3, <1>13 DEF Goes, Owned!OwnedNext, Owned!DropUnstarted
<1> QED
  BY Zenon, <1>6, <1>7, <1>8, <1>9, <1>10, <1>11, <1>12, <1>13 DEF Moves

LEMMA QuietRefines ==
    ASSUME IInv, IInv', \A i \in Jobs : Quiet(i)
    PROVE  UNCHANGED Owned!ownedVars
<1>1. Proc' = Proc
  BY DEF Proc, Quiet
<1>2. told' = told
  BY DEF Quiet, IInv, SupTypeOK
<1>3. charge' = charge
  BY DEF Quiet, IInv, SupTypeOK
<1> QED
  BY <1>1, <1>2, <1>3 DEF Owned!ownedVars

(* A job that Same describes is quiet, also when its task is received or    *)
(* joined, or its worker walks to its end.                                  *)
LEMMA QuietOK ==
    ASSUME IInv, NEW i \in Jobs, charge'[i] = charge[i], told'[i] = told[i],
           group'[i] = group[i] \/ group'[i] = KillGroup(group[i]),
           \/ worker'[i] = worker[i]
           \/ /\ worker[i] \notin {"none", "launch"} /\ worker'[i] \notin {"none", "launch"}
              /\ task'[i] = task[i],
           \/ task'[i] = task[i]
           \/ task[i] \in {"queued", "spawned", "started"} /\ task'[i] \in {"spawned", "watching"}
           \/ task[i] = "ended" /\ task'[i] = "joined"
    PROVE  Quiet(i)
<1>1. group[i] \in Group
  BY Zenon DEF IInv, SupTypeOK, Group
<1>2. Gone(i)' <=> Gone(i)
  BY <1>1, KillGroupOK DEF Gone, NoMember
<1> QED
  BY <1>2 DEF Quiet, ProcOf, Dropped

(* The steps of the owner and of the manager, but for a dropped command.    *)
LEMMA ManagerQuiet ==
    ASSUME IInv, OwnerStep \/ ManagerDone \/ ReceiveCommand
    PROVE  \A i \in Jobs : Quiet(i)
<1>1. CASE OwnerStep
  <2>1. /\ UNCHANGED <<task, told, worker, charge>>
        /\ Cancel(registry) \/ UNCHANGED <<cancelled, group>>
    BY <1>1 DEF OwnerStep, BeginShutdown, ReadTasks, ReadJobs, ReadActive, AbortActive,
                DeadlineExpires, DropOwner, taskVars, callVars, jobVars
  <2> QED
    BY <2>1, QuietOK DEF Cancel
<1>2. CASE ManagerDone
  BY Zenon, <1>2, QuietOK DEF ManagerDone, callVars, jobVars
<1>3. CASE ReceiveCommand
  <2>1. UNCHANGED <<told, worker, charge, group>> /\ queue # <<>> /\ queue' = Tail(queue)
    BY <1>3 DEF ReceiveCommand, callVars, jobVars
  <2>2. PICK c \in Tasks \cup {Shutdown} : c = Head(queue)
    BY <2>1, TailOK DEF IInv
  <2>3. c \in Tasks => task[c] = "queued"
    BY <2>1, <2>2, TailOK DEF IInv, QueueInv
  <2>4. task' = task \/ (c \in Tasks /\ task' = [task EXCEPT ![c] = "spawned"])
    <3>1. CASE c = Shutdown
      BY <1>3, <2>2, <3>1 DEF ReceiveCommand
    <3>2. CASE c # Shutdown
      BY <1>3, <2>2, <3>2 DEF ReceiveCommand
    <3> QED
      BY <3>1, <3>2
  <2>5. task \in [Tasks -> TaskStates] /\ Jobs \subseteq Tasks
    BY DEF IInv, SupTypeOK, Tasks
  <2>6. \A i \in Jobs : task'[i] = task[i] \/ (task[i] = "queued" /\ task'[i] = "spawned")
    BY <2>3, <2>4, <2>5
  <2> QED
    BY Zenon, <2>1, <2>6, QuietOK
<1> QED
  BY <1>1, <1>2, <1>3

(* Commands that are dropped, and the steps of a task.                      *)
LEMMA DropQueuedMoves ==
    ASSUME IInv, DropQueued
    PROVE  \/ \A i \in Jobs : Quiet(i)
           \/ \E j \in Jobs : Moves(j) /\ \A i \in Jobs \ {j} : Quiet(i)
<1>1. queue # <<>> /\ queue' = Tail(queue) /\ UNCHANGED <<worker, charge, group>>
  BY DEF DropQueued, jobVars
<1>2. PICK c \in Tasks \cup {Shutdown} : c = Head(queue)
  BY <1>1, TailOK DEF IInv
<1>3. c \in Tasks => task[c] = "queued"
  BY <1>1, <1>2, TailOK DEF IInv, QueueInv
<1>4. /\ told' = [j \in Jobs |-> IF j = c THEN "lost" ELSE told[j]]
      /\ task' = IF c \in Tasks THEN [task EXCEPT ![c] = "joined"] ELSE task
  BY <1>2 DEF DropQueued
<1>5. task \in [Tasks -> TaskStates] /\ Jobs \subseteq Tasks
  BY DEF IInv, SupTypeOK, Tasks
<1>6. \A i \in Jobs \ {c} : task'[i] = task[i] /\ told'[i] = told[i]
  BY <1>4, <1>5
<1>7. \A i \in Jobs \ {c} : Quiet(i)
  BY Zenon, <1>1, <1>6, QuietOK
<1>8. CASE c \in Jobs
  <2>1. task[c] = "queued" /\ task'[c] = "joined" /\ told'[c] = "lost"
    BY Zenon, <1>3, <1>4, <1>5, <1>8
  <2>2. /\ worker[c] = "none" /\ told[c] = "open"
        /\ group[c].direct = "none" /\ group[c].descendants = "none"
    BY <1>8, <2>1 DEF IInv, JobOK
  <2>3. worker' = worker /\ group' = group /\ charge' = charge
    BY <1>1
  <2>4. ProcOf(c) = "accepted"
    BY <2>1, <2>2 DEF ProcOf, Dropped
  <2>5. ProcOf(c)' = "gone"
    BY <2>1, <2>2, <2>3 DEF ProcOf, Dropped, Gone
  <2>6. Moves(c)
    BY Zenon, <2>1, <2>2, <2>3, <2>4, <2>5 DEF Moves, Goes
  <2> QED
    BY <1>7, <1>8, <2>6
<1> QED
  BY <1>7, <1>8

LEMMA TaskStepMoves ==
    ASSUME IInv, NEW t \in Tasks, TaskStep(t)
    PROVE  \/ \A i \in Jobs : Quiet(i)
           \/ \E j \in Jobs : Moves(j) /\ \A i \in Jobs \ {j} : Quiet(i)
<1>1. \A i \in Jobs : i \in Tasks /\ JobOK(i)
  BY DEF IInv, Tasks
<1>2. CASE SpawnInner(t)
  <2>1. /\ UNCHANGED <<told, worker, charge, group>> /\ task[t] = "idle"
        /\ task' = task \/ task' = [task EXCEPT ![t] = "queued"]
    BY <1>2 DEF SpawnInner, callVars, jobVars
  <2>2. \A i \in Jobs \ {t} : Quiet(i)
    <3>1. \A i \in Jobs \ {t} : task'[i] = task[i]
      BY <1>1, <2>1 DEF IInv, SupTypeOK
    <3> QED
      BY Zenon, <2>1, <3>1, QuietOK
  <2>3. CASE task' = task
    BY Zenon, <2>1, <2>3, QuietOK
  <2>4. CASE t \in Jobs /\ task' = [task EXCEPT ![t] = "queued"]
    <3>1. worker'[t] = "none" /\ worker[t] = "none" /\ task'[t] = "queued"
      BY Zenon, <1>1, <2>1, <2>4 DEF JobOK, IInv, SupTypeOK
    <3>2. told' = told /\ charge' = charge
      BY <2>1
    <3>3. Goes(t, "idle", "accepted")
      <4>1. ProcOf(t) = "idle"
        BY <2>1 DEF ProcOf
      <4>2. ProcOf(t)' = "accepted"
        BY Zenon, <3>1 DEF ProcOf, Dropped
      <4> QED
        BY <4>1, <4>2 DEF Goes
    <3>4. Moves(t)
      BY <3>2, <3>3 DEF Moves
    <3> QED
      BY <2>2, <2>4, <3>4
  <2> QED
    BY <2>1, <2>2, <2>3, <2>4
<1>3. CASE JoinNext(t)
  <2>1. /\ UNCHANGED <<told, worker, charge, group>> /\ task[t] = "ended"
        /\ task' = [task EXCEPT ![t] = "joined"]
    BY <1>3 DEF JoinNext, Joinable, callVars, jobVars
  <2>2. task \in [Tasks -> TaskStates]
    BY DEF IInv, SupTypeOK
  <2>3. \A i \in Jobs : task'[i] = task[i] \/ (task[i] = "ended" /\ task'[i] = "joined")
    BY <1>1, <2>1, <2>2
  <2> QED
    BY Zenon, <2>1, <2>3, QuietOK
<1>4. CASE PlainEnds(t)
  <2>1. UNCHANGED <<told, worker, charge, group>> /\ \A i \in Jobs : task'[i] = task[i]
    BY <1>1, <1>4, SupervisorAssumption DEF PlainEnds, callVars, jobVars, IInv, SupTypeOK
  <2> QED
    BY Zenon, <2>1, QuietOK
<1>5. CASE AbortTakesEffect(t)
  <2>1. /\ UNCHANGED <<worker, charge>> /\ task[t] \in {"spawned", "watching"}
        /\ task' = [task EXCEPT ![t] = "ended"]
        /\ told' = [j \in Jobs |-> IF j = t THEN "lost" ELSE told[j]]
        /\ Cancel({t}) \/ UNCHANGED <<cancelled, group>>
    BY <1>5 DEF AbortTakesEffect
  <2>2. \A i \in Jobs : group'[i] = group[i] \/ group'[i] = KillGroup(group[i])
    BY Zenon, <2>1 DEF Cancel
  <2>3. \A i \in Jobs \ {t} : task'[i] = task[i] /\ told'[i] = told[i]
    BY <1>1, <2>1 DEF IInv, SupTypeOK
  <2>4. \A i \in Jobs \ {t} : Quiet(i)
    BY Zenon, <2>1, <2>2, <2>3, QuietOK
  <2>5. ASSUME t \in Jobs PROVE Moves(t)
    <3>1. /\ task'[t] = "ended" /\ told'[t] = "lost" /\ told[t] = "open"
          /\ worker' = worker /\ charge' = charge
      BY Zenon, <1>1, <2>1, <2>5 DEF IInv, SupTypeOK, JobOK
    <3>2. Gone(t)' <=> Gone(t)
      <4>1. group[t] \in Group
        BY <2>5 DEF IInv, SupTypeOK, Group
      <4> QED
        BY Zenon, <2>2, <2>5, <4>1, KillGroupOK DEF Gone, NoMember
    <3>3. CASE task[t] = "spawned"
      <4>1. worker[t] = "none" /\ Gone(t)
        BY Zenon, <1>1, <2>5, <3>3 DEF JobOK, Gone
      <4> QED
        BY Zenon, <3>1, <3>2, <3>3, <4>1 DEF Moves, Goes, ProcOf, Dropped
    <3>4. CASE task[t] = "watching"
      <4>1. worker[t] # "none"
        BY Zenon, <1>1, <2>5, <3>4 DEF JobOK
      <4> QED
        BY Zenon, <3>1, <3>2, <3>4, <4>1 DEF Moves, ProcOf, Dropped
    <3> QED
      BY <2>1, <3>3, <3>4
  <2> QED
    BY <2>4, <2>5
<1> QED
  BY <1>2, <1>3, <1>4, <1>5 DEF TaskStep

(* The task of a job starts it, watches it and tells its end.               *)
LEMMA JobTaskMoves ==
    ASSUME IInv, NEW j \in Jobs, JobTaskStep(j)
    PROVE  Moves(j) /\ \A i \in Jobs \ {j} : Quiet(i)
<1>1. j \in Tasks /\ JobOK(j) /\ task \in [Tasks -> TaskStates] /\ Jobs \subseteq Tasks
  BY DEF IInv, SupTypeOK, Tasks
<1>2. CASE StartStreaming(j)
  <2>1. UNCHANGED <<told, charge, group>> /\ task[j] = "spawned"
        /\ task' = [task EXCEPT ![j] = "started"] /\ worker' = [worker EXCEPT ![j] = "launch"]
    BY <1>2 DEF StartStreaming, callVars
  <2>2. /\ \A i \in Jobs \ {j} : task'[i] = task[i] /\ worker'[i] = worker[i]
        /\ task'[j] = "started" /\ worker'[j] = "launch" /\ worker[j] = "none"
    BY Zenon, <1>1, <2>1 DEF IInv, SupTypeOK, JobOK
  <2>3. \A i \in Jobs \ {j} : Quiet(i)
    BY Zenon, <2>1, <2>2, QuietOK
  <2>4. Quiet(j)
    BY Zenon, <2>1, <2>2 DEF Quiet, ProcOf, Dropped
  <2> QED
    BY Zenon, <2>3, <2>4 DEF Moves
<1>3. CASE StartFails(j)
  <2>1. UNCHANGED <<told, charge, group>> /\ task[j] = "spawned"
        /\ task' = [task EXCEPT ![j] = "failed"] /\ worker' = [worker EXCEPT ![j] = "exited"]
    BY <1>3 DEF StartFails, callVars
  <2>2. /\ \A i \in Jobs \ {j} : task'[i] = task[i] /\ worker'[i] = worker[i]
        /\ task'[j] = "failed" /\ worker'[j] = "exited" /\ worker[j] = "none"
        /\ group[j].direct = "none" /\ group[j].descendants = "none"
    BY Zenon, <1>1, <2>1 DEF IInv, SupTypeOK, JobOK
  <2>3. \A i \in Jobs \ {j} : Quiet(i)
    BY Zenon, <2>1, <2>2, QuietOK
  <2>4. Goes(j, "accepted", "gone") /\ told'[j] = told[j]
    BY <2>1, <2>2 DEF Goes, ProcOf, Dropped, Gone
  <2> QED
    BY Zenon, <2>3, <2>4 DEF Moves
<1>4. CASE CheckClosing(j) \/ WatchCancel(j)
  <2>1. /\ UNCHANGED <<told, charge, worker>>
        /\ Cancel({j}) \/ UNCHANGED <<cancelled, group>>
        /\ \/ task' = task
           \/ task[j] = "started" /\ task' = [task EXCEPT ![j] = "watching"]
    BY <1>4 DEF CheckClosing, WatchCancel, callVars, taskVars
  <2>2. \A i \in Jobs : group'[i] = group[i] \/ group'[i] = KillGroup(group[i])
    BY <2>1 DEF Cancel
  <2>3. \A i \in Jobs : task'[i] = task[i] \/ (task[i] = "started" /\ task'[i] = "watching")
    BY <1>1, <2>1
  <2> QED
    BY Zenon, <2>1, <2>2, <2>3, QuietOK DEF Moves
<1>5. CASE TellFailed(j) \/ TakeResult(j)
  <2>1. /\ UNCHANGED <<charge, worker>> /\ (task[j] = "failed" \/ result[j])
        /\ Cancel({j}) \/ UNCHANGED <<cancelled, group>>
        /\ task' = [task EXCEPT ![j] = "ended"] /\ told' = [told EXCEPT ![j] = "reaped"]
    BY <1>5 DEF TellFailed, TakeResult, jobVars
  <2>2. \A i \in Jobs : group'[i] = group[i] \/ group'[i] = KillGroup(group[i])
    BY <2>1 DEF Cancel
  <2>3. /\ \A i \in Jobs \ {j} : task'[i] = task[i] /\ told'[i] = told[i]
        /\ task'[j] = "ended" /\ told'[j] = "reaped"
    BY Zenon, <1>1, <2>1 DEF IInv, SupTypeOK
  <2>4. task[j] \in {"failed", "watching"}
    BY <1>5 DEF TellFailed, TakeResult
  <2>5. worker[j] = "exited" /\ told[j] = "open" /\ Gone(j)
    BY Zenon, <1>1, <2>1, <2>4 DEF JobOK, Gone, NoMember
  <2>6. Gone(j)'
    <3>1. group[j] \in Group
      BY DEF IInv, SupTypeOK, Group
    <3> QED
      BY <2>2, <2>5, <3>1, KillGroupOK DEF Gone, NoMember
  <2>7. Goes(j, "gone", "gone")
    BY Zenon, <2>1, <2>3, <2>4, <2>5, <2>6 DEF Goes, ProcOf, Dropped
  <2>8. \A i \in Jobs \ {j} : Quiet(i)
    BY <2>1, <2>2, <2>3, QuietOK
  <2> QED
    BY Zenon, <2>1, <2>3, <2>5, <2>7, <2>8 DEF Moves
<1> QED
  BY Zenon, <1>2, <1>3, <1>4, <1>5 DEF JobTaskStep

(* The worker: the launch is the charge, and the last reap the end.         *)
LEMMA WorkerMoves ==
    ASSUME IInv, NEW j \in Jobs, LaunchStep(j) \/ WorkerEnd(j)
    PROVE  Moves(j) /\ \A i \in Jobs \ {j} : Quiet(i)
<1>1. JobOK(j) /\ worker \in [Jobs -> WorkerStates] /\ group \in [Jobs -> Group]
      /\ charge \in [Jobs -> BOOLEAN]
  BY DEF IInv, SupTypeOK, Group
<1>2. task' = task /\ told' = told
  BY DEF LaunchStep, WorkerEnd, LaunchCancelled, LaunchDeclined, LaunchFails, LaunchSpawns,
         SuperviseDone, ClearPgid, Retire, Publish, workerOnly, taskVars, callVars
<1>3. CASE LaunchStep(j)
  <2>1. /\ worker[j] = "launch" /\ task[j] # "idle"
        /\ group[j].direct = "none" /\ group[j].descendants = "none"
    BY <1>1, <1>3 DEF JobOK, LaunchStep, LaunchCancelled, LaunchDeclined, LaunchFails, LaunchSpawns
  <2>2. ProcOf(j) = "accepted"
    BY <2>1 DEF ProcOf, Dropped
  <2>3. CASE LaunchSpawns(j)
    <3>1. /\ charge' = [charge EXCEPT ![j] = TRUE] /\ worker' = [worker EXCEPT ![j] = "supervise"]
          /\ group' = [group EXCEPT ![j].direct = "running"]
      BY <2>3 DEF LaunchSpawns
    <3>2. charge'[j] /\ \A i \in Jobs \ {j} : charge'[i] = charge[i]
      BY <1>1, <3>1
    <3>3. /\ worker'[j] = "supervise" /\ group'[j].direct = "running"
          /\ \A i \in Jobs \ {j} : worker'[i] = worker[i] /\ group'[i] = group[i]
      BY <1>1, <3>1 DEF Group
    <3>4. ProcOf(j)' = "running"
      BY Zenon, <1>2, <2>1, <3>3 DEF ProcOf, Dropped, Gone
    <3>5. \A i \in Jobs \ {j} : Quiet(i)
      BY Zenon, <1>2, <3>2, <3>3, QuietOK
    <3> QED
      BY Zenon, <1>2, <2>2, <3>2, <3>4, <3>5 DEF Moves, Goes
  <2>4. CASE LaunchCancelled(j) \/ LaunchDeclined(j) \/ LaunchFails(j)
    <3>1. /\ charge' = charge \/ charge' = [charge EXCEPT ![j] = TRUE]
          /\ worker' = [worker EXCEPT ![j] = "clear"] /\ group' = group
      BY <2>4 DEF LaunchCancelled, LaunchDeclined, LaunchFails
    <3>2. \A i \in Jobs \ {j} : charge'[i] = charge[i]
      BY <1>1, <3>1
    <3>3. worker'[j] = "clear" /\ \A i \in Jobs \ {j} : worker'[i] = worker[i]
      BY Zenon, <1>1, <3>1
    <3>4. ProcOf(j)' = "gone"
      BY Zenon, <1>2, <2>1, <3>1, <3>3 DEF ProcOf, Dropped, Gone
    <3>5. \A i \in Jobs \ {j} : Quiet(i)
      BY <1>2, <3>1, <3>2, <3>3, QuietOK
    <3> QED
      BY Zenon, <1>2, <2>2, <3>4, <3>5 DEF Moves, Goes
  <2> QED
    BY <1>3, <2>3, <2>4 DEF LaunchStep
<1>4. CASE WorkerEnd(j)
  <2>1. /\ UNCHANGED <<charge, group>>
        /\ worker[j] \in {"supervise", "clear", "retire", "publish"}
        /\ \E w \in {"clear", "retire", "publish", "exited"} : worker' = [worker EXCEPT ![j] = w]
    BY <1>4 DEF WorkerEnd, SuperviseDone, ClearPgid, Retire, Publish
  <2>2. /\ worker'[j] \in {"clear", "retire", "publish", "exited"}
        /\ \A i \in Jobs \ {j} : worker'[i] = worker[i]
    BY <1>1, <2>1
  <2> QED
    BY Zenon, <1>2, <2>1, <2>2, QuietOK DEF Moves
<1> QED
  BY <1>3, <1>4

(* The processes and the pipe: a group that had a member left keeps one, or *)
(* is gone with the last reap.                                              *)
LEMMA ProcessMoves ==
    ASSUME IInv, NEW j \in Jobs,
           \/ Fork(j) \/ \E member \in {"direct", "descendants"} : MemberExits(j, member)
           \/ WorkerPanics(j) \/ KillCancelled(j) \/ ReapDirect(j) \/ ReapDescendants(j)
    PROVE  Moves(j) /\ \A i \in Jobs \ {j} : Quiet(i)
<1>1. JobOK(j) /\ worker[j] \in WorkerStates /\ group \in [Jobs -> Group] /\ group[j] \in Group
  BY DEF IInv, SupTypeOK, Group
<1>2. task' = task /\ told' = told /\ worker' = worker /\ charge' = charge
  BY DEF Fork, MemberExits, WorkerPanics, KillCancelled, ReapDirect, ReapDescendants,
         workerOnly, taskVars, callVars
<1>3. \E g : group' = [group EXCEPT ![j] = g]
  <2>1. CASE Fork(j)
    BY Zenon, <2>1 DEF Fork
  <2>2. CASE \E member \in {"direct", "descendants"} : MemberExits(j, member)
    BY Zenon, <2>2 DEF MemberExits
  <2>3. CASE WorkerPanics(j) \/ KillCancelled(j)
    BY Zenon, <2>3 DEF WorkerPanics, KillCancelled
  <2>4. CASE ReapDirect(j) \/ ReapDescendants(j)
    BY <2>4 DEF ReapDirect, ReapDescendants
  <2> QED
    BY <2>1, <2>2, <2>3, <2>4
<1>4. \A i \in Jobs \ {j} : Quiet(i)
  <2>1. \A i \in Jobs \ {j} : group'[i] = group[i]
    BY <1>1, <1>3
  <2> QED
    BY Zenon, <1>2, <2>1, QuietOK
<1>5. CASE WorkerPanics(j) \/ KillCancelled(j)
  <2>1. group'[j] = KillGroup(group[j])
    BY Zenon, <1>1, <1>5 DEF WorkerPanics, KillCancelled
  <2> QED
    BY Zenon, <1>2, <1>4, <2>1, QuietOK DEF Moves
<1>6. CASE ~(WorkerPanics(j) \/ KillCancelled(j))
  <2>1. ~Gone(j)
    BY Zenon, <1>6 DEF Gone, Fork, MemberExits, ReapDirect, ReapDescendants
  <2>2. worker[j] = "supervise" /\ task[j] # "idle"
    BY <1>1, <2>1 DEF JobOK, Gone, NoMember, WorkerStates
  <2>3. ProcOf(j) = "running" /\ ProcOf(j)' \in {"running", "gone"}
    BY Zenon, <1>2, <2>1, <2>2 DEF ProcOf, Dropped
  <2> QED
    BY Zenon, <1>2, <1>4, <2>3 DEF Moves, Goes, Quiet
<1> QED
  BY <1>5, <1>6

LEMMA JobStepMoves ==
    ASSUME IInv, NEW j \in Jobs, JobStep(j)
    PROVE  Moves(j) /\ \A i \in Jobs \ {j} : Quiet(i)
<1>1. CASE \/ AskCancel(j) \/ NextChunk(j) \/ SendPending(j) \/ ReadStdout(j) \/ ReadEof(j)
           \/ DropCancelledPipe(j) \/ PipeCancels(j)
  <2>1. /\ UNCHANGED <<task, told, worker, charge>>
        /\ Cancel({j}) \/ UNCHANGED <<cancelled, group>>
    BY Zenon, <1>1 DEF AskCancel, NextChunk, SendPending, ReadStdout, ReadEof, DropCancelledPipe,
                PipeCancels, workerOnly, taskVars, callVars, jobVars
  <2>2. \A i \in Jobs : Quiet(i)
    BY <2>1, QuietOK DEF Cancel
  <2> QED
    BY Zenon, <2>2 DEF Moves
<1> QED
  BY Zenon, <1>1, JobTaskMoves, WorkerMoves, ProcessMoves DEF JobStep, ReapStep

(* Every step of the supervisor is a step of OwnedProcess or leaves its     *)
(* variables alone.                                                         *)
LEMMA StepImplementsOwned ==
    IInv /\ [SupNext]_supVars => [Owned!OwnedNext]_(Owned!ownedVars)
<1> SUFFICES ASSUME IInv, [SupNext]_supVars PROVE [Owned!OwnedNext]_(Owned!ownedVars)
  OBVIOUS
<1>1. IInv'
  BY NextIInv
<1>2. CASE UNCHANGED supVars
  <2>1. \A i \in Jobs : Quiet(i)
    BY <1>2, QuietOK DEF supVars, taskVars, callVars, jobVars
  <2> QED
    BY Zenon, <1>1, <2>1, QuietRefines
<1>3. ASSUME NEW t \in Tasks, TaskStep(t) PROVE [Owned!OwnedNext]_(Owned!ownedVars)
  BY <1>1, <1>3, TaskStepMoves, MoveRefines, QuietRefines
<1>4. ASSUME NEW j \in Jobs, JobStep(j) PROVE [Owned!OwnedNext]_(Owned!ownedVars)
  BY <1>1, <1>4, JobStepMoves, MoveRefines
<1>5. CASE ReceiveCommand \/ ManagerDone \/ OwnerStep
  BY <1>1, <1>5, ManagerQuiet, QuietRefines
<1>6. CASE DropQueued
  BY <1>1, <1>6, DropQueuedMoves, MoveRefines, QuietRefines
<1> QED
  BY <1>2, <1>3, <1>4, <1>5, <1>6 DEF SupNext

(* The supervisor implements OwnedProcess: a subprocess is launched at most *)
(* once, charged exactly when its launch is attempted, and its ticket says  *)
(* "reaped" only when no member of its group is left, in whatever order     *)
(* callers, manager, tasks, workers and the owner's shutdown run            *)
(* (stream_process, run_worker, supervise_owned_process_group).             *)
THEOREM SupervisorImplementsOwnedProcess == SupSpec => ImplementsOwnedProcess
<1>1. SupInit => Owned!OwnedInit
  BY DEF SupInit, Owned!OwnedInit, Proc, ProcOf, Tasks
<1>2. IInv /\ [SupNext]_supVars => [Owned!OwnedNext]_(Owned!ownedVars)
  BY StepImplementsOwned
<1> QED
  BY <1>1, <1>2, SpecIInv, PTL DEF SupSpec, ImplementsOwnedProcess, Owned!OwnedSpec
=============================================================================
