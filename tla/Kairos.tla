------------------------------- MODULE Kairos -------------------------------
(***************************************************************************)
(* The KAIROS daemon: internal/kairos/daemon.go and cron.go behind the     *)
(* /api/kairos handlers of server.go.  Time passes in minutes and wraps    *)
(* after an hour of Hour minutes; every Start makes a goroutine with a     *)
(* ticker of its own, every project has its tasks.json, and the process    *)
(* may die at any moment.  Of a cron expression the minute field is        *)
(* modelled; hours, days, months and weekdays are the same membership      *)
(* test.  A task's run (a provider call, or git status) only takes time.   *)
(***************************************************************************)
EXTENDS Integers, Sequences, SequencesExt

CONSTANTS
  Client,         \* HTTP requests in progress
  Project, NoProject,
  StartProject,   \* the configured workDir, NoProject if there is none
  UserTask,       \* IDs of the tasks the user posts
  GitWatch,       \* ID of the built-in task
  Cron,           \* cron expression of each user task
  TickInterval,   \* 2 minutes
  Hour,
  TickMinutes,    \* assumed: minute boundaries one tick's tasks may cross
  MaxTasks,       \* bound on a project's tasks
  Loop, NoLoop    \* goroutines of Start that may exist at a time (a bound)

TaskId == UserTask \cup {GitWatch}

ASSUME KairosAssumption ==
  /\ NoProject \notin Project /\ GitWatch \notin UserTask /\ NoLoop \notin Loop
  /\ StartProject \in Project \cup {NoProject}
  /\ Hour \in Nat /\ TickInterval \in 1..Hour /\ Hour % TickInterval = 0
  /\ TickMinutes \in 0..(TickInterval - 1)
  /\ MaxTasks \in Nat

VARIABLES
  clock,              \* minute of the hour
  created,            \* the server has a daemon
  workspace,          \* Server.workDir
  pc, read,           \* per request: where it is, and the workDir it has read
  project, tasks,     \* Daemon.workDir, Daemon.tasks: <<[id, age]>>, age of LastRun
  disk,               \* tasks.json of each project
  handle,             \* the loop Daemon.cancel belongs to
  loops,
  state               \* Daemon.state

storeVars == <<project, tasks, disk>>
serverVars == <<created, workspace>>
requestVars == <<pc, read>>
vars == <<clock, serverVars, requestVars, storeVars, handle, loops, state>>

\* LastRun older than a tick, or never.
Old == TickInterval + 1

Stopped == [ctx |-> "none", fire |-> TickInterval, fired |-> FALSE, phase |-> "wait",
            minute |-> 0, age |-> 0, todo |-> <<>>]

Waiting(r) == [r EXCEPT !.phase = "wait", !.minute = 0, !.age = 0]

Ids(ts) == [i \in DOMAIN ts |-> ts[i].id]

Init ==
  /\ clock = 0 /\ created = FALSE
  /\ workspace = StartProject
  /\ pc = [c \in Client |-> "idle"] /\ read = [c \in Client |-> NoProject]
  /\ project = NoProject /\ tasks = <<>>
  /\ disk = [p \in Project |-> <<>>]
  /\ handle = NoLoop /\ loops = [l \in Loop |-> Stopped]
  /\ state = "idle"

---------------------------------------------------------------------------
(* cron.go *)

\* parseField and parseEvery: the minutes an expression names, {} if it is refused.
Minutes(e) ==
  CASE e.form = "star"  -> 0..(Hour - 1)
    [] e.form = "step"  -> {m \in 0..(Hour - 1) : e.n > 0 /\ m % e.n = 0}
    [] e.form = "list"  -> IF e.values \subseteq 0..(Hour - 1) THEN e.values ELSE {}
    [] e.form = "range" -> IF 0 <= e.from /\ e.from <= e.to /\ e.to < Hour
                             THEN e.from..e.to ELSE {}

Periodic(id) == IF id = GitWatch THEN TRUE ELSE Cron[id].form = "none"

\* The age of a LastRun n minutes ago, as far as isTaskDue tells ages apart.
AgeOf(id, n) == IF n < Old /\ (n = 0 \/ Periodic(id)) THEN n ELSE Old

Scheduled(t, minute) == minute \in Minutes(Cron[t.id]) /\ t.age # 0

\* isTaskDue and IsDue.  A tick may come a little early or late: whether two
\* neighbouring ticks are more than TickInterval apart is open, both answers may hold.
DueLate(t, minute) == IF Periodic(t.id) THEN t.age > TickInterval + 1 ELSE Scheduled(t, minute)
Due(t, minute) == IF Periodic(t.id) THEN t.age >= TickInterval ELSE Scheduled(t, minute)
NotDue(t, minute) == IF Periodic(t.id) THEN t.age <= TickInterval ELSE ~Scheduled(t, minute)

---------------------------------------------------------------------------
(* The daemon's critical sections *)

Load(p) == IF p = NoProject THEN <<>> ELSE disk[p]
Save(ts) == IF project = NoProject THEN disk ELSE [disk EXCEPT ![project] = ts]

DaemonSwitchProject(p) ==
  /\ project' = p /\ tasks' = Load(p) /\ UNCHANGED disk

DaemonAddTask(id) ==
  LET ts == Append(tasks, [id |-> id, age |-> Old]) IN
  /\ Len(tasks) < MaxTasks
  /\ tasks' = ts /\ disk' = Save(ts) /\ UNCHANGED project

RemoveAt1(ts, id) == LET i == SelectInSeq(ts, LAMBDA t : t.id = id) IN RemoveAt(ts, i)

\* A goroutine with its context and ticker; which of the free names it gets is all one.
NewLoop ==
  LET l == CHOOSE l \in Loop : loops[l].ctx = "none" IN
  /\ \E k \in Loop : loops[k].ctx = "none"
  /\ handle' = l
  /\ loops' = [loops EXCEPT ![l] = [Stopped EXCEPT !.ctx = "live"]]

\* Nothing if the daemon runs already.
DaemonStartAgain == NewLoop
DaemonStart == IF handle # NoLoop THEN UNCHANGED <<handle, loops>> ELSE NewLoop

---------------------------------------------------------------------------
(* The handlers *)

Goto(c, from, to) == pc[c] = from /\ pc' = [pc EXCEPT ![c] = to]

\* handleSetWorkspace: the server's workDir and the configuration, not the daemon.
SetWorkspace(p) ==
  /\ workspace' = p
  /\ UNCHANGED <<clock, created, requestVars, storeVars, handle, loops, state>>

\* handleAddProject, SetWorkDir: the workDir under the lock, the daemon after it.
SetWorkDir(c, p) ==
  /\ Goto(c, "idle", IF created THEN "switchOnly" ELSE "idle")
  /\ workspace' = p /\ read' = [read EXCEPT ![c] = p]
  /\ UNCHANGED <<clock, created, storeVars, handle, loops, state>>

\* handleKairosStart: the daemon is made if there is none, the workDir is read.
ReadWorkspace(c) ==
  /\ Goto(c, "idle", "switch")
  /\ created' = TRUE /\ read' = [read EXCEPT ![c] = workspace]
  /\ UNCHANGED <<clock, workspace, storeVars, handle, loops, state>>

SwitchProject(c) ==
  /\ Goto(c, "switch", "check") \/ Goto(c, "switchOnly", "idle")
  /\ DaemonSwitchProject(read[c])
  /\ read' = [read EXCEPT ![c] = NoProject]
  /\ UNCHANGED <<clock, serverVars, handle, loops, state>>

CheckWatch(c) ==
  /\ Goto(c, "check", IF Contains(Ids(tasks), GitWatch) THEN "start" ELSE "add")
  /\ UNCHANGED <<clock, serverVars, read, storeVars, handle, loops, state>>

AddWatch(c) ==
  /\ Goto(c, "add", "start")
  /\ DaemonAddTask(GitWatch)
  /\ UNCHANGED <<clock, serverVars, read, handle, loops, state>>

Start(c) ==
  /\ Goto(c, "start", "idle")
  /\ DaemonStart
  /\ UNCHANGED <<clock, serverVars, read, storeVars, state>>

AddTask(id) ==
  /\ created /\ DaemonAddTask(id)
  /\ UNCHANGED <<clock, serverVars, requestVars, handle, loops, state>>

RemoveTaskUnsaved(id) ==
  /\ created /\ Contains(Ids(tasks), id)
  /\ tasks' = RemoveAt1(tasks, id)
  /\ UNCHANGED <<clock, serverVars, requestVars, project, disk, handle, loops, state>>
RemoveTask(id) ==
  /\ created /\ Contains(Ids(tasks), id)
  /\ tasks' = RemoveAt1(tasks, id)
  /\ disk' = Save(RemoveAt1(tasks, id))
  /\ UNCHANGED <<clock, serverVars, requestVars, project, handle, loops, state>>

Stop ==
  /\ created
  /\ loops' = [l \in Loop |-> IF l = handle THEN [loops[l] EXCEPT !.ctx = "cancelled"]
                              ELSE loops[l]]
  /\ handle' = NoLoop /\ state' = "idle"
  /\ UNCHANGED <<clock, serverVars, requestVars, storeVars>>

\* The process dies and is started again; a tasks.json being written may be cut
\* short, and what cannot be parsed is loaded as no tasks.
Crash ==
  /\ created /\ created' = FALSE
  /\ pc' = [c \in Client |-> "idle"] /\ read' = [c \in Client |-> NoProject]
  /\ project' = NoProject /\ tasks' = <<>>
  /\ disk' = disk \/ disk' = Save(<<>>)
  /\ handle' = NoLoop /\ loops' = [l \in Loop |-> Stopped] /\ state' = "idle"
  /\ UNCHANGED <<clock, workspace>>

---------------------------------------------------------------------------
(* tickLoop and onTick *)

StepLoop(l, from, new) ==
  /\ loops[l].ctx # "none" /\ loops[l].phase = from
  /\ loops' = [loops EXCEPT ![l] = new]
  /\ UNCHANGED <<clock, serverVars, requestVars, project, disk, handle>>

\* ctx.Done is ready; if a tick is too, select takes either.
LoopEndsNever(l) ==
  /\ loops[l].ctx = "cancelled" /\ loops[l].fired
  /\ StepLoop(l, "wait", Stopped) /\ UNCHANGED <<tasks, state>>
LoopEnds(l) ==
  /\ loops[l].ctx = "cancelled"
  /\ StepLoop(l, "wait", Stopped) /\ UNCHANGED <<tasks, state>>

\* The tick's time and the active tasks, copied under the read lock.
BeginTick(l) ==
  /\ loops[l].fired
  /\ StepLoop(l, "wait", [loops[l] EXCEPT !.fired = FALSE, !.phase = "announce",
                            !.minute = clock, !.age = 0, !.todo = tasks])
  /\ UNCHANGED <<tasks, state>>

Announce(l) ==
  /\ StepLoop(l, "announce",
       IF loops[l].todo = <<>> THEN Waiting(loops[l]) ELSE [loops[l] EXCEPT !.phase = "scan"])
  /\ state' = IF loops[l].todo = <<>> THEN "sleeping" ELSE "working"
  /\ UNCHANGED tasks

SkipTask(l) ==
  /\ loops[l].todo # <<>> /\ NotDue(Head(loops[l].todo), loops[l].minute)
  /\ StepLoop(l, "scan", [loops[l] EXCEPT !.todo = Tail(@)])
  /\ UNCHANGED <<tasks, state>>

ExecuteTask(l) ==
  /\ loops[l].todo # <<>> /\ Due(Head(loops[l].todo), loops[l].minute)
  /\ StepLoop(l, "scan", [loops[l] EXCEPT !.phase = "run"])
  /\ UNCHANGED <<tasks, state>>

\* LastRun of whatever tasks now have the ID.
MarkRun(l) ==
  [i \in DOMAIN tasks |-> IF tasks[i].id = Head(loops[l].todo).id
                          THEN [tasks[i] EXCEPT !.age = AgeOf(tasks[i].id, loops[l].age)] ELSE tasks[i]]
FinishTask(l) ==
  /\ StepLoop(l, "run", [loops[l] EXCEPT !.phase = "scan", !.todo = Tail(@)])
  /\ tasks' = MarkRun(l)
  /\ UNCHANGED state

EndTick(l) ==
  /\ loops[l].todo = <<>>
  /\ StepLoop(l, "scan", Waiting(loops[l]))
  /\ state' = "idle" /\ UNCHANGED tasks

---------------------------------------------------------------------------
(* Time *)

Older(ts) == [i \in DOMAIN ts |-> [ts[i] EXCEPT !.age = AgeOf(ts[i].id, @ + 1)]]

Rearm == TickInterval

\* A minute passes for a loop: its ticker comes closer or fires.
LoopOlder(r) ==
  IF r.ctx = "none" THEN r
  ELSE [r EXCEPT !.fire = IF @ = 1 THEN Rearm ELSE @ - 1,
                 !.fired = r.fire = 1,
                 !.age = IF r.phase = "wait" THEN 0 ELSE @ + 1]

\* Goroutines are scheduled within the minute, and a tick's tasks, with their
\* BlockingBudget of 15 seconds each, cross at most TickMinutes boundaries.
Minute ==
  /\ \A l \in Loop : /\ ~loops[l].fired
                     /\ loops[l].ctx = "cancelled" => loops[l].phase # "wait"
                     /\ loops[l].phase # "wait" => loops[l].age < TickMinutes
  /\ clock' = (clock + 1) % Hour
  /\ loops' = [l \in Loop |-> LoopOlder(loops[l])]
  /\ tasks' = Older(tasks) /\ disk' = [p \in Project |-> Older(disk[p])]
  /\ UNCHANGED <<serverVars, requestVars, project, handle, state>>

TickLoop(l) == \/ LoopEnds(l) \/ BeginTick(l) \/ Announce(l) \/ SkipTask(l)
               \/ ExecuteTask(l) \/ FinishTask(l) \/ EndTick(l)

Handler(c) == SwitchProject(c) \/ CheckWatch(c) \/ AddWatch(c) \/ Start(c)

Next ==
  \/ \E p \in Project : SetWorkspace(p) \/ \E c \in Client : SetWorkDir(c, p)
  \/ \E c \in Client : ReadWorkspace(c) \/ Handler(c)
  \/ \E id \in UserTask : AddTask(id)
  \/ \E id \in TaskId : RemoveTask(id)
  \/ Stop \/ Crash \/ Minute
  \/ \E l \in Loop : TickLoop(l)

Spec == Init /\ [][Next]_vars

\* Time passes, and the runtime schedules every goroutine.
FairSpec == Spec /\ WF_vars(Minute) /\ \A l \in Loop : WF_vars(TickLoop(l))

---------------------------------------------------------------------------
(* Properties *)

\* However starts, stops and project switches interleave, at most one loop is live
\* and Daemon.cancel is the one that ends it.
OneLiveLoop == \A l \in Loop : loops[l].ctx = "live" <=> handle = l

\* The tasks in memory are the tasks in tasks.json of the daemon's project, so that
\* nothing the user posted is lost by a restart or a switch.
TasksPersisted == project # NoProject => Ids(tasks) = Ids(disk[project])

\* Stop stops: a cancelled loop finishes its tick and ends.
StoppedLoopsEnd == \A l \in Loop : loops[l].ctx = "cancelled" ~> loops[l].ctx # "cancelled"

Executing(id) == \E l \in Loop : /\ loops[l].phase = "run" /\ loops[l].ctx = "live"
                                 /\ Head(loops[l].todo).id = id

\* A task that stays in the list of a running daemon runs again and again.
RunsForever(id) == <>[](handle # NoLoop /\ Contains(Ids(tasks), id)) => []<>Executing(id)

\* The task's minutes meet every grid of ticks, wherever Start put it.
OnEveryGrid(id) ==
  IF id = GitWatch THEN TRUE
  ELSE \/ Cron[id].form = "none"
       \/ \A r \in 0..(TickInterval - 1) :
            \E m \in Minutes(Cron[id]) : m % TickInterval = r

\* Tasks without a cron expression, and those whose minutes the ticks cannot miss,
\* run again and again, through switches of the project and removals of others.
GridTasksKeepRunning == \A id \in TaskId : OnEveryGrid(id) => RunsForever(id)

=============================================================================
