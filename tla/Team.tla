-------------------------------- MODULE Team --------------------------------
(***************************************************************************)
(* agent.Team behind POST /api/team: ComputeWaves orders the tasks,        *)
(* ExecuteWaves runs each wave's workers as goroutines, ExecuteTool asks   *)
(* the global FileOwnershipChecker before a write, then Verify and         *)
(* Shutdown.  A worker's RunLoop is abstracted to its writes and its end   *)
(* (AgentLoop has the rest).                                               *)
(*                                                                         *)
(* A task here is an ID of the request, numbered in the order of the IDs.  *)
(* The handler accepts several entries with one ID: ComputeWaves adds      *)
(* their dependencies up under it, and getTask gives the first of them,    *)
(* which is the only one that is ever run, whose files count and whose     *)
(* status is looked at.  The others stay pending to the end.               *)
(***************************************************************************)
EXTENDS Integers, FiniteSets

CONSTANTS
  NTasks,        \* the IDs of the request's tasks
  MissingTask,   \* an ID in dependsOn that is no task
  File,
  Owns,          \* Files of the first entry of each ID
  MaxWaveSize,   \* 5 unless configured
  MaxVerify,     \* 3 verification attempts
  NoWorker       \* activeWorkerID = ""

Task == 1..NTasks

ASSUME TeamAssumption ==
  /\ NTasks \in Nat \ {0} /\ MissingTask \notin Task /\ NoWorker \notin Task
  /\ Owns \in [Task -> SUBSET File]
  /\ MaxWaveSize \in Nat \ {0} /\ MaxVerify \in Nat \ {0}

VARIABLES
  dependsOn,        \* of all entries with the ID
  phase,            \* of handleTeamExecute's goroutine
  layer, chunk,     \* the current wave: a slice of a topological layer
  status,           \* of the first entry of each ID
  wpc,              \* program counter of each worker
  granted,          \* the files ExecuteTool has let a worker write, not yet written
  checker,          \* FileOwnershipChecker is set (package global)
  activeWorkerID,   \* package global: the worker that started last
  cancelled,        \* the request's context: the client is gone
  expired,          \* waveCtx: CycleTimeout has passed
  failure,          \* the error of ExecuteWaves
  leadInbox,        \* tasks whose idle notification is in the lead's inbox
  verifyRuns, verdict,
  trespassed        \* history: <<writer, owner>> of a write let through

teamVars == <<dependsOn, phase, layer, chunk, failure>>
workerVars == <<status, wpc, granted>>
globalVars == <<checker, activeWorkerID>>
verifyVars == <<verifyRuns, verdict>>
ctxVars == <<cancelled, expired>>
vars == <<teamVars, workerVars, globalVars, verifyVars, ctxVars, leadInbox, trespassed>>

Init ==
  /\ dependsOn \in [Task -> SUBSET (Task \cup {MissingTask})]
  /\ phase = "compute" /\ layer = 1 /\ chunk = 0 /\ failure = ""
  /\ status = [t \in Task |-> "pending"]
  /\ wpc = [t \in Task |-> "none"]
  /\ granted = [t \in Task |-> {}]
  /\ checker = FALSE /\ activeWorkerID = NoWorker
  /\ cancelled = FALSE /\ expired = FALSE /\ leadInbox = {}
  /\ verifyRuns = 0 /\ verdict = "none"
  /\ trespassed = {}

---------------------------------------------------------------------------
(* ComputeWaves *)

\* In-degrees off by one: a task with one dependency left counts as ready.
ReadyEarly(removed) == {t \in Task : Cardinality(dependsOn[t] \ removed) <= 1}

\* The tasks whose in-degree is zero once some tasks are removed.
Ready(removed) == {t \in Task : dependsOn[t] \subseteq removed}

\* Kahn's algorithm: the tasks removed after n rounds.
Removed[n \in 0..NTasks] ==
  IF n = 0 THEN {} ELSE Removed[n - 1] \cup Ready(Removed[n - 1])

Layer(n) == IF n \in 1..NTasks THEN Removed[n] \ Removed[n - 1] ELSE {}

\* Layers are split, in ID order, into waves of MaxWaveSize.
Rank(t, tasks) == Cardinality({u \in tasks : u < t})
WaveOf(n, c) == {t \in Layer(n) : Rank(t, Layer(n)) \div MaxWaveSize = c}

Wave == WaveOf(layer, chunk)

ComputeWaves ==
  /\ phase = "compute"
  /\ IF Removed[NTasks] = Task
       THEN phase' = "wave" /\ UNCHANGED failure
       ELSE phase' = "verify" /\ failure' = "circular dependency"
  /\ UNCHANGED <<dependsOn, layer, chunk, workerVars, globalVars, verifyVars, ctxVars,
                 leadInbox, trespassed>>

---------------------------------------------------------------------------
(* executeTask: one goroutine per task of the wave *)

\* The critical section: status, worker entry, context, inbox.
StartTask(t) ==
  /\ phase = "wave" /\ t \in Wave /\ wpc[t] = "none"
  /\ status' = [status EXCEPT ![t] = "running"]
  /\ wpc' = [wpc EXCEPT ![t] = "started"]
  /\ UNCHANGED <<teamVars, granted, globalVars, verifyVars, ctxVars, leadInbox, trespassed>>

\* The two globals are written without a lock, then RunLoop is started.
SetChecker(t) ==
  /\ wpc[t] = "started"
  /\ checker' = TRUE
  /\ wpc' = [wpc EXCEPT ![t] = "checkerSet"]
  /\ UNCHANGED <<teamVars, status, granted, activeWorkerID, verifyVars, ctxVars, leadInbox,
                 trespassed>>

SetActiveWorker(t) ==
  /\ wpc[t] = "checkerSet"
  /\ activeWorkerID' = t
  /\ wpc' = [wpc EXCEPT ![t] = "looping"]
  /\ UNCHANGED <<teamVars, status, granted, checker, verifyVars, ctxVars, leadInbox,
                 trespassed>>

OtherOwners(worker, file) ==
  {u \in Task : u # worker /\ status[u] = "running" /\ file \in Owns[u]}

\* ExecuteTool asks CheckFileOwnership for the worker the global names, which
\* need not be the one that writes.
MayWrite(file) ==
  checker /\ activeWorkerID # NoWorker => OtherOwners(activeWorkerID, file) = {}

AskToWrite(t, file) ==
  /\ wpc[t] = "looping" /\ granted[t] = {}
  /\ MayWrite(file)
  /\ granted' = [granted EXCEPT ![t] = {file}]
  /\ trespassed' = trespassed \cup ({t} \X OtherOwners(t, file))
  /\ UNCHANGED <<teamVars, status, wpc, globalVars, verifyVars, ctxVars, leadInbox>>

WriteFile(t) ==
  /\ wpc[t] = "looping" /\ granted[t] # {}
  /\ granted' = [granted EXCEPT ![t] = {}]
  /\ UNCHANGED <<teamVars, status, wpc, globalVars, verifyVars, ctxVars, leadInbox,
                 trespassed>>

\* RunLoop has closed its channel, for whatever reason; only a cancelled context
\* makes the task failed.
FinishTask(t) ==
  /\ wpc[t] = "looping" /\ granted[t] = {}
  /\ status' = [status EXCEPT ![t] = IF cancelled \/ expired THEN "failed" ELSE "completed"]
  /\ wpc' = [wpc EXCEPT ![t] = "finished"]
  /\ UNCHANGED <<teamVars, granted, globalVars, verifyVars, ctxVars, leadInbox, trespassed>>

NotifyIdle(t) ==
  /\ wpc[t] = "finished"
  /\ leadInbox' = leadInbox \cup {t}
  /\ wpc' = [wpc EXCEPT ![t] = "done"]
  /\ UNCHANGED <<teamVars, status, granted, globalVars, verifyVars, ctxVars, trespassed>>

---------------------------------------------------------------------------
(* The team's goroutine *)

\* wg.Wait: all workers of the wave have returned.
WaveReturned == phase = "wave" /\ \A t \in Wave : wpc[t] = "done"

AdvanceTo(l, c) == layer' = l /\ chunk' = c /\ UNCHANGED phase

\* A build in which a failed wave does not stop the next layer.
WaveFailedGoesOn ==
  /\ WaveReturned /\ \E t \in Wave : status[t] # "completed"
  /\ failure' = "wave failed"
  /\ expired' = FALSE
  /\ IF Layer(layer + 1) # {} THEN AdvanceTo(layer + 1, 0)
     ELSE phase' = "verify" /\ UNCHANGED <<layer, chunk>>
  /\ UNCHANGED <<dependsOn, workerVars, globalVars, verifyVars, cancelled, leadInbox,
                 trespassed>>

\* A build that forgets to move on to the next layer.
NextWaveSameLayer ==
  /\ WaveReturned /\ \A t \in Wave : status[t] = "completed"
  /\ expired' = FALSE
  /\ IF WaveOf(layer, chunk + 1) # {} THEN AdvanceTo(layer, chunk + 1)
     ELSE IF Layer(layer + 1) # {} THEN AdvanceTo(layer, 0)
     ELSE phase' = "verify" /\ UNCHANGED <<layer, chunk>>
  /\ UNCHANGED <<dependsOn, failure, workerVars, globalVars, verifyVars, cancelled, leadInbox,
                 trespassed>>

\* The wave is complete: the next slice of the layer, or the next layer, with a
\* context of its own.
NextWave ==
  /\ WaveReturned /\ \A t \in Wave : status[t] = "completed"
  /\ expired' = FALSE
  /\ IF WaveOf(layer, chunk + 1) # {} THEN AdvanceTo(layer, chunk + 1)
     ELSE IF Layer(layer + 1) # {} THEN AdvanceTo(layer + 1, 0)
     ELSE phase' = "verify" /\ UNCHANGED <<layer, chunk>>
  /\ UNCHANGED <<dependsOn, failure, workerVars, globalVars, verifyVars, cancelled, leadInbox,
                 trespassed>>

WaveFailed ==
  /\ WaveReturned /\ \E t \in Wave : status[t] # "completed"
  /\ phase' = "verify" /\ failure' = "wave failed"
  /\ expired' = FALSE
  /\ UNCHANGED <<dependsOn, layer, chunk, workerVars, globalVars, verifyVars, cancelled,
                 leadInbox, trespassed>>

\* Verify runs after a failure too.  It stops at the first run that passes, or
\* when the request is cancelled; after the last attempt it runs the command
\* once more, for its output only.
Verify(passes) ==
  /\ phase = "verify" /\ verdict = "none"
  /\ IF cancelled
       THEN verdict' = "failed" /\ UNCHANGED verifyRuns
       ELSE IF verifyRuns + 1 < MaxVerify \/ passes
              THEN /\ verifyRuns' = verifyRuns + 1
                   /\ verdict' = IF passes THEN "passed" ELSE "none"
              ELSE verifyRuns' = MaxVerify + 1 /\ verdict' = "failed"
  /\ UNCHANGED <<teamVars, workerVars, globalVars, ctxVars, leadInbox, trespassed>>

NoVerifyCommand ==
  /\ phase = "verify" /\ verdict = "none" /\ verifyRuns = 0
  /\ verdict' = "unset"
  /\ UNCHANGED <<teamVars, workerVars, globalVars, ctxVars, leadInbox, trespassed, verifyRuns>>

\* Shutdown: requests, cancelled contexts, and every inbox is cleared.
Shutdown ==
  /\ phase = "verify" /\ verdict # "none"
  /\ phase' = "done" /\ leadInbox' = {}
  /\ UNCHANGED <<dependsOn, layer, chunk, failure, workerVars, globalVars, verifyVars,
                 ctxVars, trespassed>>

\* The client disconnects.
Cancel ==
  /\ phase # "done" /\ ~cancelled
  /\ cancelled' = TRUE
  /\ UNCHANGED <<teamVars, workerVars, globalVars, verifyVars, expired, leadInbox, trespassed>>

WaveDeadline ==
  /\ phase = "wave" /\ ~expired
  /\ expired' = TRUE
  /\ UNCHANGED <<teamVars, workerVars, globalVars, verifyVars, cancelled, leadInbox, trespassed>>

Worker(t) ==
  \/ StartTask(t) \/ SetChecker(t) \/ SetActiveWorker(t)
  \/ \E file \in File : AskToWrite(t, file)
  \/ WriteFile(t) \/ FinishTask(t) \/ NotifyIdle(t)

Lead ==
  \/ ComputeWaves \/ NextWave \/ WaveFailed
  \/ \E passes \in BOOLEAN : Verify(passes)
  \/ NoVerifyCommand \/ Shutdown

Next == Lead \/ Cancel \/ WaveDeadline \/ \E t \in Task : Worker(t)

Spec == Init /\ [][Next]_vars

\* Goroutines get the processor, and a worker's RunLoop ends (AgentLoop's
\* SessionEnds) however many writes it makes before: strong fairness, as a
\* write in progress disables the end for a moment.
FairSpec ==
  /\ Spec /\ WF_vars(Lead)
  /\ \A t \in Task :
       WF_vars(StartTask(t) \/ SetChecker(t) \/ SetActiveWorker(t) \/ WriteFile(t)
               \/ NotifyIdle(t))
  /\ \A t \in Task : SF_vars(FinishTask(t))

---------------------------------------------------------------------------
(* Properties *)

\* "task IDs that must complete first": nobody starts on a task before all its
\* dependencies are completed, also when a wave is split, fails or times out.
DependenciesFirst ==
  \A t \in Task : wpc[t] # "none" => \A u \in dependsOn[t] : status[u] = "completed"

\* The reference for Kahn's algorithm: no set of tasks waits for its own members
\* (or for a task that is missing) alone.
Executable ==
  \A S \in (SUBSET Task) \ {{}} : \E t \in S : dependsOn[t] \cap (S \cup {MissingTask}) = {}

\* ExecuteWaves refuses exactly the graphs that have no execution order, and
\* with no error it has completed a task for every ID: of several with the same
\* ID the first, and nothing says that the others were not run.
ExecutesAllOrFails ==
  phase \in {"verify", "done"} =>
    /\ (failure = "circular dependency") <=> ~Executable
    /\ failure = "" => \A t \in Task : status[t] = "completed"

\* The request is always answered: no wave hangs, with or without a cancel.
TeamEnds == <>(phase = "done")

\* README.md:37, "File ownership: Hard enforcement at ExecuteTool level": no write
\* is let through to a file that another running worker owns.
OwnershipEnforced == trespassed = {}
=============================================================================
