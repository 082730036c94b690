---------------------------- MODULE OwnedProcess ----------------------------
(***************************************************************************)
(* What the owner of a supervised subprocess is promised, without the      *)
(* tasks, threads, locks and signals that keep the promise.  A process is  *)
(* accepted, launched at most once, and gone; its admission charge is      *)
(* taken at the launch; the cleanup ticket says "reaped" only of a process *)
(* that is gone, or is lost with the task that held it.                    *)
(* Supervisor implements this specification; Serving is built on it.       *)
(***************************************************************************)
CONSTANT Jobs

VARIABLES proc,     \* proc[j]: "idle", "accepted", "running" or "gone"
          charged,  \* charged[j]: the pre-spawn gate took its charge
          ticket    \* ticket[j]: "open", "reaped" or "lost"

ownedVars == <<proc, charged, ticket>>

OwnedInit ==
    /\ proc = [j \in Jobs |-> "idle"]
    /\ charged = [j \in Jobs |-> FALSE]
    /\ ticket = [j \in Jobs |-> "open"]

(* stream_process returned a stream: the job is owned from here on. *)
Accept(j) ==
    /\ proc[j] = "idle"
    /\ proc' = [proc EXCEPT ![j] = "accepted"]
    /\ UNCHANGED <<charged, ticket>>

(* The gate admits the job and the process starts, in one critical section. *)
Launch(j) ==
    /\ proc[j] = "accepted"
    /\ proc' = [proc EXCEPT ![j] = "running"]
    /\ charged' = [charged EXCEPT ![j] = TRUE]
    /\ UNCHANGED ticket

(* The job ends without a process: cancelled before the launch or declined   *)
(* (no charge), or the spawn itself failed (the charge stays).               *)
NeverRuns(j, charge) ==
    /\ proc[j] = "accepted"
    /\ proc' = [proc EXCEPT ![j] = "gone"]
    /\ charged' = [charged EXCEPT ![j] = charge]
    /\ UNCHANGED ticket

(* The last member of the process group has been reaped. *)
Reap(j) ==
    /\ proc[j] = "running"
    /\ proc' = [proc EXCEPT ![j] = "gone"]
    /\ UNCHANGED <<charged, ticket>>

(* wait_reaped may return. *)
Tell(j) ==
    /\ proc[j] = "gone"
    /\ ticket[j] = "open"
    /\ ticket' = [ticket EXCEPT ![j] = "reaped"]
    /\ UNCHANGED <<proc, charged>>

(* The task that would have told is aborted, and wait_reaped fails. *)
Lose(j) ==
    /\ proc[j] # "idle"
    /\ ticket[j] = "open"
    /\ ticket' = [ticket EXCEPT ![j] = "lost"]
    /\ UNCHANGED <<proc, charged>>

(* A queued job is dropped with the queue: it never ran, and nobody tells. *)
DropUnstarted(j) ==
    /\ proc[j] = "accepted"
    /\ ticket[j] = "open"
    /\ proc' = [proc EXCEPT ![j] = "gone"]
    /\ ticket' = [ticket EXCEPT ![j] = "lost"]
    /\ UNCHANGED charged

OwnedNext ==
    \E j \in Jobs :
        \/ Accept(j) \/ Launch(j) \/ Reap(j) \/ Tell(j) \/ Lose(j)
        \/ DropUnstarted(j)
        \/ \E charge \in BOOLEAN : NeverRuns(j, charge)

OwnedSpec == OwnedInit /\ [][OwnedNext]_ownedVars
=============================================================================
