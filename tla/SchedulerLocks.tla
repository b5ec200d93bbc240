--------------------------- MODULE SchedulerLocks ---------------------------
(***************************************************************************)
(* Who may execute scheduled tasks.  `atlas scheduler run` takes three     *)
(* locks in turn: the kernel flock it shares with deployments, which dies  *)
(* with its process; the durable deployments/update.lock directory, which  *)
(* it only looks at; and the PID file of TaskScheduler._Lock, which stays  *)
(* behind when its owner dies and is reclaimed by a later run.             *)
(* (atlas/scheduler_cli.py, atlas/scheduler.py,                            *)
(* scripts/lib/execution-exclusion.sh, scripts/commands/deployment.sh)     *)
(*                                                                         *)
(* The PID file is created, read, unlinked and written in separate steps.  *)
(***************************************************************************)
EXTENDS Naturals

CONSTANTS
    Runners,         \* process ids of `atlas scheduler run`
    Deployers,       \* deployments and rollbacks
    MaxCrashes,      \* bound on the number of processes that die
    MaxDeployments,  \* bound on the number of deployments
    None

Procs == Runners \cup Deployers

ASSUME LockConstants ==
    /\ Runners \cap Deployers = {}
    /\ None \notin Procs

VARIABLES
    pc,           \* process -> where it is
    flock,        \* holder of deployment-scheduler.lock, or None
    durable,      \* deployments/update.lock and the status of its transaction
    pidfile,      \* scheduler/tasks.lock: its creator and the pid in it
    crashes, deployments

vars == <<pc, flock, durable, pidfile, crashes, deployments>>

NoFile == [by |-> None, pid |-> None]

RunnerSteps == {"off", "flocked", "open", "inspect", "stale", "reopen",
                "created", "running", "leaving"}
DeployerSteps == {"off", "flocked", "deploying", "leaving"}

TypeOK ==
    /\ pc \in [Procs -> RunnerSteps \cup DeployerSteps]
    /\ \A p \in Runners : pc[p] \in RunnerSteps
    /\ \A d \in Deployers : pc[d] \in DeployerSteps
    /\ flock \in Procs \cup {None}
    /\ durable \in {"absent", "working", "failed"}
    /\ pidfile \in [by : Runners \cup {None}, pid : Runners \cup {None}]
    /\ crashes \in Nat /\ deployments \in Nat

Init ==
    /\ pc = [p \in Procs |-> "off"]
    /\ flock = None
    /\ durable = "absent"
    /\ pidfile = NoFile
    /\ crashes = 0 /\ deployments = 0

-----------------------------------------------------------------------------
At(p, step) == pc[p] = step

Goto(p, step) == pc' = [pc EXCEPT ![p] = step]

Alive(p) == pc[p] # "off"

Held == durable # "absent"

\* The process ends; the kernel drops its flock.
Exit(p) ==
    /\ Goto(p, "off")
    /\ flock' = IF flock = p THEN None ELSE flock

\* Mutant: the run does not take the flock.
TakeFlockMutant(p) ==
    /\ At(p, "off")
    /\ pidfile.pid # p
    /\ Goto(p, "flocked")
    /\ UNCHANGED <<flock, durable, pidfile, crashes, deployments>>

\* LOCK_NB: a busy lock ends the run, which changes nothing.  Assumption
\* (PidsNotReused): no process gets the pid that the PID file names; with it
\* os.kill would find an owner and every run would refuse.
TakeFlock(p) ==
    /\ At(p, "off")
    /\ pidfile.pid # p
    /\ flock = None
    /\ flock' = p
    /\ Goto(p, "flocked")
    /\ UNCHANGED <<durable, pidfile, crashes, deployments>>

\* Mutant: the durable lock is not looked at.
CheckDurableMutant(p) ==
    /\ At(p, "flocked")
    /\ Goto(p, "open")
    /\ UNCHANGED <<flock, durable, pidfile, crashes, deployments>>

CheckDurable(p) ==
    /\ At(p, "flocked")
    /\ IF Held THEN Exit(p) ELSE Goto(p, "open") /\ UNCHANGED flock
    /\ UNCHANGED <<durable, pidfile, crashes, deployments>>

\* os.open(O_CREAT | O_EXCL), the first time and after a reclaim: there a
\* file that has appeared again is an error that ends the run.
CreatePidFile(p) ==
    /\ At(p, "open") \/ At(p, "reopen")
    /\ IF pidfile = NoFile
         THEN /\ pidfile' = [by |-> p, pid |-> None]
              /\ Goto(p, "created") /\ UNCHANGED flock
         ELSE /\ UNCHANGED pidfile
              /\ IF At(p, "open") THEN Goto(p, "inspect") /\ UNCHANGED flock ELSE Exit(p)
    /\ UNCHANGED <<durable, crashes, deployments>>

\* Mutant: every existing file blocks the run.
InspectMutant(p) ==
    /\ At(p, "inspect")
    /\ Exit(p)
    /\ UNCHANGED <<durable, pidfile, crashes, deployments>>

\* _remove_stale_lock(): only a pid that is known to be dead is reclaimed; an
\* empty file names nobody (ValueError) and ends the run.
Inspect(p) ==
    /\ At(p, "inspect")
    /\ IF pidfile.pid \in Runners /\ ~Alive(pidfile.pid)
         THEN Goto(p, "stale") /\ UNCHANGED flock
         ELSE Exit(p)
    /\ UNCHANGED <<durable, pidfile, crashes, deployments>>

\* unlink(missing_ok=True) removes whatever file is there by now.
UnlinkStale(p) ==
    /\ At(p, "stale")
    /\ pidfile' = NoFile
    /\ Goto(p, "reopen")
    /\ UNCHANGED <<flock, durable, crashes, deployments>>

\* The pid goes to the file this process opened, which the path may no
\* longer name.
WritePid(p) ==
    /\ At(p, "created")
    /\ pidfile' = IF pidfile.by = p THEN [pidfile EXCEPT !.pid = p] ELSE pidfile
    /\ Goto(p, "running")
    /\ UNCHANGED <<flock, durable, crashes, deployments>>

\* __exit__ unlinks the path, the flock is dropped afterwards.
Finish(p) ==
    /\ At(p, "running")
    /\ pidfile' = NoFile
    /\ Goto(p, "leaving")
    /\ UNCHANGED <<flock, durable, crashes, deployments>>

Leave(p) ==
    /\ At(p, "leaving")
    /\ Exit(p)
    /\ UNCHANGED <<durable, pidfile, crashes, deployments>>

-----------------------------------------------------------------------------
(* A deployment or a rollback.                                             *)

DeployTakesFlock(d) ==
    /\ At(d, "off")
    /\ deployments < MaxDeployments
    /\ flock = None
    /\ flock' = d
    /\ Goto(d, "flocked")
    /\ deployments' = deployments + 1
    /\ UNCHANGED <<durable, pidfile, crashes>>

\* mkdir of the durable lock.
DeployOwns(d) ==
    /\ At(d, "flocked")
    /\ ~Held
    /\ durable' = "working"
    /\ Goto(d, "deploying")
    /\ UNCHANGED <<flock, pidfile, crashes, deployments>>

\* A rollback goes on under the lock its failed transaction has kept.
RollbackOwns(d) ==
    /\ At(d, "flocked")
    /\ durable = "failed"
    /\ Goto(d, "deploying")
    /\ UNCHANGED <<flock, durable, pidfile, crashes, deployments>>

\* Another operation owns the durable lock.
DeployRefused(d) ==
    /\ At(d, "flocked")
    /\ Held
    /\ Exit(d)
    /\ UNCHANGED <<durable, pidfile, crashes, deployments>>

DeployDone(d) ==
    /\ At(d, "deploying")
    /\ Held
    /\ durable' = "absent"
    /\ Goto(d, "leaving")
    /\ UNCHANGED <<flock, pidfile, crashes, deployments>>

\* A failed transaction drops the flock and keeps the durable lock, as a
\* rule with the status that makes it eligible for a rollback or a recovery.
DeployFails(d) ==
    /\ At(d, "deploying")
    /\ durable' \in IF Held THEN {durable, "failed"} ELSE {durable}
    /\ Exit(d)
    /\ UNCHANGED <<pidfile, crashes, deployments>>

\* The recovery commands take no flock: they may even release the durable
\* lock of a failed transaction while its rollback is under way.
Recover ==
    /\ durable = "failed"
    /\ durable' = "absent"
    /\ UNCHANGED <<pc, flock, pidfile, crashes, deployments>>

\* A process dies anywhere; a write of the pid that raises ends a run like a
\* death there, for __exit__ is not called and the empty file stays.
Crash(p) ==
    /\ Alive(p)
    /\ crashes < MaxCrashes
    /\ crashes' = crashes + 1
    /\ Exit(p)
    /\ UNCHANGED <<durable, pidfile, deployments>>

RunnerStep(p) ==
    \/ TakeFlock(p) \/ CheckDurable(p) \/ CreatePidFile(p) \/ Inspect(p)
    \/ UnlinkStale(p) \/ WritePid(p) \/ Finish(p) \/ Leave(p)

DeployerStep(d) ==
    \/ DeployOwns(d) \/ RollbackOwns(d) \/ DeployRefused(d)
    \/ DeployDone(d) \/ DeployFails(d) \/ Leave(d)

Next ==
    \/ \E p \in Runners : RunnerStep(p)
    \/ \E d \in Deployers : DeployTakesFlock(d) \/ DeployerStep(d)
    \/ Recover
    \/ \E p \in Procs : Crash(p)

\* The timer starts a run every minute, a callback ends, and so does a
\* deployment; nothing makes anyone deploy or crash.
Fairness ==
    /\ WF_vars(\E p \in Runners : RunnerStep(p))
    /\ WF_vars(\E d \in Deployers : DeployerStep(d))

Spec == Init /\ [][Next]_vars /\ Fairness

-----------------------------------------------------------------------------
(* Properties.                                                             *)

Executing(p) == At(p, "running")

\* Two runs never execute tasks at the same time, even when both have found
\* the PID file of the same dead run and reclaim it.
ExecutionExclusive ==
    \A p, q \in Runners : Executing(p) /\ Executing(q) => p = q

\* No task is executed during a deployment, nor after one that failed or
\* died until it has been recovered.
NoExecutionDuringDeployment ==
    \A p \in Runners : Executing(p) => /\ ~Held
                                       /\ \A d \in Deployers : ~At(d, "deploying")

\* A PID file without a pid is left alone by everybody but the run that has
\* created it, which may be about to write: nobody takes it for stale.
UnknownOwnerKept ==
    [][pidfile.by # None /\ pidfile.pid = None => pidfile'.by = pidfile.by]_vars

\* A PID file that names a dead run is reclaimed by a later one, unless a
\* deployment awaits its recovery.
DeadOwnerReclaimed ==
    \A p \in Runners : (pidfile.pid = p /\ ~Alive(p)) ~> (pidfile.pid # p \/ Held)

\* What becomes of the PID file of a run that died depends on the pid in it,
\* as the recovery document demands: a dead pid is reclaimed; an empty file,
\* left by a death between the creation and the write, is kept, and then every
\* later run refuses until an operator removes it.
AbandonedPidFile == UnknownOwnerKept /\ DeadOwnerReclaimed

-----------------------------------------------------------------------------
(* The strengthening under which the invariants are inductive.             *)

\* Whoever is past the first lock holds it, so there is one such process; a
\* run that has looked at the durable lock can rely on what it saw.
LockInv ==
    /\ TypeOK
    /\ \A p \in Procs : Alive(p) => flock = p
    /\ \A p \in Runners : pc[p] \in RunnerSteps \ {"off", "flocked", "leaving"} => ~Held

\* Under the flock the PID file is what its one user has last made of it.
PidFileInv ==
    /\ LockInv
    /\ \A p \in Runners :
          /\ At(p, "stale") => pidfile.pid # None
          /\ At(p, "created") => pidfile.by = p
          /\ At(p, "running") => pidfile.pid = p
=============================================================================
