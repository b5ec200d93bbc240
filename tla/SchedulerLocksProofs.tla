------------------------ MODULE SchedulerLocksProofs ------------------------
(***************************************************************************)
(* For any number of runs, deployments and crashes: scheduled tasks are    *)
(* executed by one process at a time and never during a deployment.        *)
(***************************************************************************)
EXTENDS SchedulerLocks, TLAPS

USE DEF Procs, At, Goto, Alive, Held, Exit, NoFile

\* Nobody has started yet.
LEMMA LocksInit == Init => LockInv
<1> SUFFICES ASSUME Init PROVE LockInv
    OBVIOUS
<1>1. TypeOK
    BY LockConstants DEF Init, TypeOK, RunnerSteps, DeployerSteps
<1>2. \A p \in Procs : pc[p] = "off"
    BY DEF Init
<1> QED
    BY <1>1, <1>2 DEF Init, LockInv

\* A step of a run keeps the types; only the process that holds the flock
\* moves, and it changes its own entry of pc alone.
LEMMA RunnerKeepsLockInv ==
    ASSUME LockInv, NEW p \in Runners, RunnerStep(p)
    PROVE  LockInv'
<1> USE LockConstants DEF LockInv, TypeOK, RunnerSteps, DeployerSteps
<1>1. CASE TakeFlock(p)
    BY <1>1 DEF TakeFlock
<1>2. CASE CheckDurable(p)
    BY <1>2 DEF CheckDurable
<1>3. CASE CreatePidFile(p)
    BY <1>3 DEF CreatePidFile
<1>4. CASE Inspect(p)
    BY <1>4 DEF Inspect
<1>5. CASE UnlinkStale(p)
    BY <1>5 DEF UnlinkStale
<1>6. CASE WritePid(p)
    BY <1>6 DEF WritePid
<1>7. CASE Finish(p)
    BY <1>7 DEF Finish
<1>8. CASE Leave(p)
    BY <1>8 DEF Leave
<1> QED
    BY <1>1, <1>2, <1>3, <1>4, <1>5, <1>6, <1>7, <1>8 DEF RunnerStep

\* The durable lock appears only while its deployment holds the flock, so no
\* run that has passed the check is there to be surprised.
LEMMA DeployerKeepsLockInv ==
    ASSUME LockInv, NEW d \in Deployers, DeployTakesFlock(d) \/ DeployerStep(d)
    PROVE  LockInv'
<1> USE LockConstants DEF LockInv, TypeOK, RunnerSteps, DeployerSteps
<1>1. CASE DeployTakesFlock(d)
    BY <1>1 DEF DeployTakesFlock
<1>2. CASE DeployOwns(d)
    BY <1>2 DEF DeployOwns
<1>3. CASE DeployRefused(d)
    BY <1>3 DEF DeployRefused
<1>4. CASE DeployDone(d)
    BY <1>4 DEF DeployDone
<1>5. CASE DeployFails(d)
    BY <1>5 DEF DeployFails
<1>6. CASE Leave(d)
    BY <1>6 DEF Leave
<1>7. CASE RollbackOwns(d)
    BY <1>7 DEF RollbackOwns
<1> QED
    BY <1>1, <1>2, <1>3, <1>4, <1>5, <1>6, <1>7 DEF DeployerStep

\* Every step of a run, a deployment, a recovery and a crash keeps the invariant.
LEMMA LocksNext == LockInv /\ [Next]_vars => LockInv'
<1> SUFFICES ASSUME LockInv, [Next]_vars PROVE LockInv'
    OBVIOUS
<1>1. CASE UNCHANGED vars
    BY <1>1 DEF vars, LockInv, TypeOK
<1>2. CASE \E p \in Runners : RunnerStep(p)
    BY <1>2, RunnerKeepsLockInv
<1>3. CASE \E d \in Deployers : DeployTakesFlock(d) \/ DeployerStep(d)
    BY <1>3, DeployerKeepsLockInv
<1>4. CASE \E p \in Procs : Crash(p)
    BY <1>4, LockConstants DEF Crash, LockInv, TypeOK, RunnerSteps, DeployerSteps
<1>5. CASE Recover
    BY <1>5 DEF Recover, LockInv, TypeOK
<1> QED
    BY <1>1, <1>2, <1>3, <1>4, <1>5 DEF Next

\* The inductive invariant holds in every reachable state.
THEOREM LocksInvariant == Spec => []LockInv
<1> QED
    BY LocksInit, LocksNext, PTL DEF Spec

\* Two `atlas scheduler run` never execute tasks together, although each
\* step of the PID file's reclaim can be overtaken: the flock that
\* scheduler_cli takes first orders them.
THEOREM RunsExclusive == Spec => []ExecutionExclusive
<1>1. LockInv => ExecutionExclusive
    BY DEF LockInv, ExecutionExclusive, Executing
<1> QED
    BY <1>1, LocksInvariant, PTL

\* No run executes tasks while a deployment works, failed or died.
THEOREM DeploymentsExcludeRuns == Spec => []NoExecutionDuringDeployment
<1>1. LockInv => NoExecutionDuringDeployment
    BY LockConstants DEF LockInv, TypeOK, NoExecutionDuringDeployment, Executing, RunnerSteps
<1> QED
    BY <1>1, LocksInvariant, PTL

-----------------------------------------------------------------------------
\* A step keeps what its one run knows of the PID file, and no step takes
\* away a file whose owner is unknown.
LEMMA PidFileStep ==
    ASSUME PidFileInv, [Next]_vars
    PROVE  /\ PidFileInv'
           /\ pidfile.by # None /\ pidfile.pid = None => pidfile'.by = pidfile.by
<1> USE LockConstants DEF PidFileInv
<1>1. LockInv'
    BY LocksNext
<1>2. ASSUME NEW p \in Runners, RunnerStep(p)
      PROVE  /\ PidFileInv'
             /\ pidfile.by # None /\ pidfile.pid = None => pidfile'.by = pidfile.by
  <2> USE <1>1 DEF LockInv, TypeOK, RunnerSteps, DeployerSteps
  <2>1. CASE TakeFlock(p) \/ CheckDurable(p) \/ Inspect(p) \/ Leave(p)
    BY <2>1 DEF TakeFlock, CheckDurable, Inspect, Leave
  <2>2. CASE CreatePidFile(p)
    BY <2>2 DEF CreatePidFile
  <2>3. CASE UnlinkStale(p)
    BY <2>3 DEF UnlinkStale
  <2>4. CASE WritePid(p)
    BY <2>4 DEF WritePid
  <2>5. CASE Finish(p)
    BY <2>5 DEF Finish
  <2> QED
    BY <1>2, <2>1, <2>2, <2>3, <2>4, <2>5 DEF RunnerStep
<1>3. ASSUME NEW d \in Deployers, DeployTakesFlock(d) \/ DeployerStep(d)
      PROVE  PidFileInv' /\ pidfile' = pidfile
  BY <1>1, <1>3 DEF LockInv, TypeOK, DeployTakesFlock, DeployerStep, DeployOwns, RollbackOwns,
     DeployRefused, DeployDone, DeployFails, Leave
<1>4. ASSUME NEW p \in Procs, Crash(p) PROVE PidFileInv' /\ pidfile' = pidfile
  BY <1>1, <1>4 DEF LockInv, TypeOK, Crash
<1>5. CASE UNCHANGED vars \/ Recover
  BY <1>1, <1>5 DEF vars, Recover
<1> QED
  BY <1>2, <1>3, <1>4, <1>5 DEF Next

\* A run that finds an empty PID file never takes it for stale, so it cannot
\* unlink the file of a run that has not written its pid yet.
THEOREM UnknownOwnersKept == Spec => UnknownOwnerKept
<1>1. Init => PidFileInv
    BY LocksInit, LockConstants DEF Init, PidFileInv
<1>2. PidFileInv /\ [Next]_vars => PidFileInv'
    BY PidFileStep
<1>3. PidFileInv /\ [Next]_vars =>
        [pidfile.by # None /\ pidfile.pid = None => pidfile'.by = pidfile.by]_vars
    BY PidFileStep
<1> QED
    BY <1>1, <1>2, <1>3, PTL DEF Spec, UnknownOwnerKept
=============================================================================
