---------------------------- MODULE Kairos_proofs ----------------------------
(***************************************************************************)
(* What holds of the daemon for any number of requests, projects, tasks    *)
(* and goroutines, with crashes: at most one loop is live, and the task    *)
(* list in memory is the one on disk.                                      *)
(***************************************************************************)
EXTENDS Kairos, SequenceTheorems, WellFoundedInduction, TLAPS

Entry == [id : TaskId, age : Int]
Entries == Seq(Entry)

LoopState ==
  [ctx : {"none", "live", "cancelled"}, fire : Int, fired : BOOLEAN,
   phase : {"wait", "announce", "scan", "run"}, minute : Int, age : Int, todo : Entries]

Places == {"idle", "switch", "switchOnly", "check", "add", "start"}

TypeOK ==
  /\ clock \in Int /\ created \in BOOLEAN
  /\ workspace \in Project \cup {NoProject}
  /\ pc \in [Client -> Places] /\ read \in [Client -> Project \cup {NoProject}]
  /\ project \in Project \cup {NoProject} /\ tasks \in Entries
  /\ disk \in [Project -> Entries]
  /\ handle \in Loop \cup {NoLoop} /\ loops \in [Loop -> LoopState]
  /\ state \in {"idle", "working", "sleeping"}

\* A task being run is the head of the tick's list.
HasTask(r) == r.phase = "run" => r.todo # <<>>
RunsItsHead == \A l \in Loop : HasTask(loops[l])

KairosInv == TypeOK /\ OneLiveLoop /\ TasksPersisted /\ RunsItsHead

-----------------------------------------------------------------------------
(* Task lists *)

\* A nonempty set of naturals has a least element, which Min chooses.
LEMMA MinIn ==
  ASSUME NEW S, S \subseteq Nat, S # {}
  PROVE  Min(S) \in S
<1> DEFINE R == {p \in Nat \X Nat : p[1] < p[2]}
<1>1. IsWellFoundedOn(R, Nat)
  BY NatLessThanWellFounded DEF OpToRel
<1> HIDE DEF R
<1>2. PICK x \in S : \A y \in S : <<y, x>> \notin R
  BY <1>1, WFMin
<1>3. ASSUME NEW y \in S, y < x
      PROVE  FALSE
  <2>1. <<y, x>> \in Nat \X Nat /\ <<y, x>>[1] < <<y, x>>[2]
    BY <1>3
  <2>2. <<y, x>> \in R
    BY <2>1, Zenon DEF R
  <2> QED  BY <1>2, <2>2
<1>4. \A y \in S : x <= y
  BY <1>3
<1> QED  BY <1>4 DEF Min

LEMMA Removed ==
  ASSUME NEW ts \in Entries, NEW id, Contains(Ids(ts), id)
  PROVE  RemoveAt1(ts, id) \in Entries
<1> DEFINE I == {i \in 1..Len(ts) : ts[i].id = id}
           k == SelectInSeq(ts, LAMBDA t : t.id = id)
<1>1. ts \in Seq(Entry) /\ Len(ts) \in Nat /\ DOMAIN ts = 1..Len(ts)
  BY LenProperties DEF Entries
<1>2. I # {}
  BY <1>1 DEF Contains, Ids
<1>3. k = Min(I)
  BY <1>2 DEF SelectInSeq
<1>4. k \in 1..Len(ts)
  BY <1>1, <1>2, <1>3, MinIn
<1> HIDE DEF k
<1>5. SubSeq(ts, 1, k - 1) \in Seq(Entry) /\ SubSeq(ts, k + 1, Len(ts)) \in Seq(Entry)
  BY <1>1, <1>4, ElementOfSeq, SubSeqProperties
<1>6. RemoveAt(ts, k) \in Seq(Entry)
  BY <1>5, ConcatProperties DEF RemoveAt
<1> QED  BY <1>6 DEF RemoveAt1, Entries, k

LEMMA AgeIsInt ==
  ASSUME NEW id, NEW n \in Int
  PROVE  AgeOf(id, n) \in Int /\ Old \in Int
BY KairosAssumption DEF AgeOf, Old

\* Changing ages changes neither the length nor the ids of a list.
LEMMA Aged ==
  ASSUME NEW ts \in Entries, NEW new,
         DOMAIN new = DOMAIN ts, new = [i \in DOMAIN ts |-> new[i]],
         \A i \in DOMAIN ts : \E a \in Int : new[i] = [ts[i] EXCEPT !.age = a]
  PROVE  new \in Entries /\ Ids(new) = Ids(ts)
<1>1. ts \in Seq(Entry) /\ Len(ts) \in Nat /\ DOMAIN ts = 1..Len(ts)
  BY LenProperties DEF Entries
<1>2. \A i \in 1..Len(ts) : new[i] \in Entry /\ new[i].id = ts[i].id
  <2> TAKE i \in 1..Len(ts)
  <2>1. ts[i] \in Entry
    BY <1>1, ElementOfSeq
  <2>2. PICK a \in Int : new[i] = [ts[i] EXCEPT !.age = a]
    BY <1>1
  <2> QED  BY <2>1, <2>2 DEF Entry
<1>3. [i \in 1..Len(ts) |-> new[i]] \in Seq(Entry)
  BY <1>1, <1>2, IsASeq
<1> QED  BY <1>1, <1>2, <1>3 DEF Entries, Ids

LEMMA OlderKeeps ==
  ASSUME NEW ts \in Entries
  PROVE  Older(ts) \in Entries /\ Ids(Older(ts)) = Ids(ts)
<1> DEFINE new == Older(ts)
<1>1. DOMAIN new = DOMAIN ts /\ new = [i \in DOMAIN ts |-> new[i]]
  BY DEF Older
<1>2. ASSUME NEW i \in DOMAIN ts
      PROVE  \E a \in Int : new[i] = [ts[i] EXCEPT !.age = a]
  <2>1. ts[i] \in Entry
    BY LenProperties, ElementOfSeq DEF Entries
  <2>2. ts[i].age + 1 \in Int
    BY <2>1 DEF Entry
  <2>3. new[i] = [ts[i] EXCEPT !.age = AgeOf(ts[i].id, ts[i].age + 1)]
    BY DEF Older
  <2> QED  BY <2>2, <2>3, AgeIsInt
<1> HIDE DEF new
<1>3. new \in Entries /\ Ids(new) = Ids(ts)
  BY <1>1, <1>2, Aged
<1> QED  BY <1>3 DEF new

LEMMA MarkRunKeeps ==
  ASSUME NEW l, tasks \in Entries, loops[l].age \in Int
  PROVE  MarkRun(l) \in Entries /\ Ids(MarkRun(l)) = Ids(tasks)
<1> DEFINE new == MarkRun(l)
<1>1. DOMAIN new = DOMAIN tasks /\ new = [i \in DOMAIN tasks |-> new[i]]
  BY DEF MarkRun
<1>2. ASSUME NEW i \in DOMAIN tasks
      PROVE  \E a \in Int : new[i] = [tasks[i] EXCEPT !.age = a]
  <2>1. tasks[i] \in Entry
    BY LenProperties, ElementOfSeq DEF Entries
  <2>2. tasks[i].age \in Int /\ tasks[i] = [tasks[i] EXCEPT !.age = tasks[i].age]
    BY <2>1 DEF Entry
  <2>3. \/ new[i] = tasks[i]
        \/ new[i] = [tasks[i] EXCEPT !.age = AgeOf(tasks[i].id, loops[l].age)]
    BY DEF MarkRun
  <2> QED  BY <2>2, <2>3, AgeIsInt
<1> HIDE DEF new
<1>3. new \in Entries /\ Ids(new) = Ids(tasks)
  BY <1>1, <1>2, Aged
<1> QED  BY <1>3 DEF new

-----------------------------------------------------------------------------
(* Loops *)

Phase == {"wait", "announce", "scan", "run"}

\* Constants in the fields of a record are given names: the provers see the
\* record's shape better without them.
LEMMA WaitingType ==
  ASSUME NEW r \in LoopState
  PROVE  Waiting(r) \in LoopState /\ Waiting(r).ctx = r.ctx /\ HasTask(Waiting(r))
<1> DEFINE z == 0
           p == "wait"
<1>1. z \in Int /\ p \in Phase
  BY DEF Phase
<1>2. Waiting(r) = [r EXCEPT !.phase = p, !.minute = z, !.age = z]
  BY Zenon DEF Waiting
<1> HIDE DEF z, p
<1>3. [r EXCEPT !.phase = p, !.minute = z, !.age = z] \in LoopState
  BY <1>1 DEF LoopState, Phase
<1>4. /\ [r EXCEPT !.phase = p, !.minute = z, !.age = z].ctx = r.ctx
      /\ [r EXCEPT !.phase = p, !.minute = z, !.age = z].phase = p
  BY <1>1 DEF LoopState
<1>5. p # "run"
  BY DEF p
<1> QED  BY <1>2, <1>3, <1>4, <1>5, Zenon DEF HasTask

LEMMA BegunType ==
  ASSUME NEW r \in LoopState, NEW m \in Int, NEW ts \in Entries
  PROVE  LET new == [r EXCEPT !.fired = FALSE, !.phase = "announce", !.minute = m, !.age = 0,
                              !.todo = ts]
         IN new \in LoopState /\ new.ctx = r.ctx /\ HasTask(new)
<1> DEFINE z == 0
           p == "announce"
           b == FALSE
           new == [r EXCEPT !.fired = b, !.phase = p, !.minute = m, !.age = z, !.todo = ts]
<1>1. z \in Int /\ p \in Phase /\ b \in BOOLEAN
  BY DEF Phase
<1> HIDE DEF z, p, b
<1>2. new \in LoopState
  BY <1>1 DEF LoopState, Phase
<1>3. new.ctx = r.ctx /\ new.phase = p
  BY <1>1 DEF LoopState
<1>4. p # "run"
  BY DEF p
<1>5. HasTask(new)
  BY <1>3, <1>4 DEF HasTask
<1> QED  BY <1>2, <1>3, <1>5, Zenon DEF z, p, b

LEMMA OlderType ==
  ASSUME NEW r \in LoopState
  PROVE  /\ LoopOlder(r) \in LoopState /\ LoopOlder(r).ctx = r.ctx
         /\ HasTask(r) => HasTask(LoopOlder(r))
<1> DEFINE f == IF r.fire = 1 THEN Rearm ELSE r.fire - 1
           b == r.fire = 1
           a == IF r.phase = "wait" THEN 0 ELSE r.age + 1
           new == [r EXCEPT !.fire = f, !.fired = b, !.age = a]
<1>1. r.fire \in Int /\ r.age \in Int
  BY DEF LoopState
<1>2. f \in Int /\ b \in BOOLEAN /\ a \in Int
  BY <1>1, KairosAssumption DEF Rearm
<1>3. LoopOlder(r) = IF r.ctx = "none" THEN r ELSE new
  BY Zenon DEF LoopOlder
<1> HIDE DEF f, b, a
<1>4. new \in LoopState
  BY <1>2 DEF LoopState
<1>5. new.ctx = r.ctx /\ new.phase = r.phase /\ new.todo = r.todo
  BY <1>2 DEF LoopState
<1> HIDE DEF new
<1> QED  BY <1>3, <1>4, <1>5, Zenon DEF HasTask

LEMMA StoppedType == Stopped \in LoopState /\ Stopped.ctx = "none" /\ Stopped.phase = "wait"
BY KairosAssumption, EmptySeq DEF Stopped, LoopState, Entries

-----------------------------------------------------------------------------
(* The steps *)

\* A critical section of the daemon that makes the list ts and saves it.
LEMMA Saved ==
  ASSUME KairosInv, NEW ts \in Entries, tasks' = ts, disk' = Save(ts), UNCHANGED project
  PROVE  tasks' \in Entries /\ disk' \in [Project -> Entries] /\ TasksPersisted'
BY DEF KairosInv, TypeOK, TasksPersisted, Save

LEMMA AddKeeps ==
  ASSUME KairosInv, NEW id \in TaskId, DaemonAddTask(id)
  PROVE  tasks' \in Entries /\ disk' \in [Project -> Entries] /\ TasksPersisted'
<1> DEFINE ts == Append(tasks, [id |-> id, age |-> Old])
<1>1. [id |-> id, age |-> Old] \in Entry
  BY AgeIsInt DEF Entry
<1>2. ts \in Entries
  BY <1>1, AppendProperties DEF KairosInv, TypeOK, Entries
<1> QED  BY <1>2, Saved DEF DaemonAddTask

\* Steps of the handlers that leave the loops alone.
LEMMA StoreKeeps ==
  ASSUME KairosInv,
         \/ \E c \in Client : SwitchProject(c) \/ AddWatch(c)
         \/ \E id \in UserTask : AddTask(id)
         \/ \E id \in TaskId : RemoveTask(id)
  PROVE  KairosInv'
<1> USE DEF KairosInv
<1>1. handle' = handle /\ loops' = loops /\ clock' = clock /\ workspace' = workspace
      /\ created' = created /\ state' = state
  BY DEF SwitchProject, AddWatch, AddTask, RemoveTask, serverVars
<1>2. pc' \in [Client -> Places] /\ read' \in [Client -> Project \cup {NoProject}]
  BY DEF SwitchProject, AddWatch, AddTask, RemoveTask, Goto, Places, TypeOK, requestVars
<1>3. /\ tasks' \in Entries /\ disk' \in [Project -> Entries] /\ TasksPersisted'
      /\ project' \in Project \cup {NoProject}
  <2>1. CASE \E c \in Client : SwitchProject(c)
    BY <2>1, EmptySeq DEF SwitchProject, DaemonSwitchProject, Load, TypeOK, Entries, TasksPersisted
  <2>2. CASE \E c \in Client : AddWatch(c)
    BY <2>2, AddKeeps DEF AddWatch, DaemonAddTask, TaskId, TypeOK
  <2>3. CASE \E id \in UserTask : AddTask(id)
    BY <2>3, AddKeeps DEF AddTask, DaemonAddTask, TaskId, TypeOK
  <2>4. CASE \E id \in TaskId : RemoveTask(id)
    BY <2>4, Removed, Saved DEF RemoveTask, TypeOK
  <2> QED  BY <2>1, <2>2, <2>3, <2>4
<1>4. OneLiveLoop'
  BY <1>1 DEF OneLiveLoop
<1> QED  BY <1>1, <1>2, <1>3, <1>4 DEF TypeOK, RunsItsHead

\* Steps that touch neither the list nor the loops.
LEMMA RequestKeeps ==
  ASSUME KairosInv,
         \/ \E p \in Project : SetWorkspace(p) \/ \E c \in Client : SetWorkDir(c, p)
         \/ \E c \in Client : ReadWorkspace(c) \/ CheckWatch(c)
  PROVE  KairosInv'
<1> USE DEF KairosInv
<1>1. /\ handle' = handle /\ loops' = loops /\ clock' = clock /\ state' = state
      /\ project' = project /\ tasks' = tasks /\ disk' = disk
  BY DEF SetWorkspace, SetWorkDir, ReadWorkspace, CheckWatch, storeVars
<1>2. /\ workspace' \in Project \cup {NoProject} /\ created' \in BOOLEAN
      /\ pc' \in [Client -> Places] /\ read' \in [Client -> Project \cup {NoProject}]
  BY ZenonT(60)
  DEF SetWorkspace, SetWorkDir, ReadWorkspace, CheckWatch, Goto, Places, TypeOK, requestVars, serverVars
<1> QED  BY <1>1, <1>2 DEF TypeOK, OneLiveLoop, TasksPersisted, RunsItsHead

\* A goroutine starts only when Daemon.cancel is free, so when none is live.
LEMMA StartKeeps ==
  ASSUME KairosInv, NEW c \in Client, Start(c)
  PROVE  KairosInv'
<1> USE DEF KairosInv
<1>1. /\ clock' = clock /\ state' = state /\ created' = created /\ workspace' = workspace
      /\ read' = read /\ project' = project /\ tasks' = tasks /\ disk' = disk
      /\ pc' \in [Client -> Places]
  BY DEF Start, Goto, Places, TypeOK, storeVars, serverVars
<1>2. CASE handle # NoLoop
  BY <1>1, <1>2 DEF Start, DaemonStart, TypeOK, OneLiveLoop, TasksPersisted, RunsItsHead
<1>3. CASE handle = NoLoop
  <2> DEFINE l == CHOOSE k \in Loop : loops[k].ctx = "none"
             r == [Stopped EXCEPT !.ctx = "live"]
  <2>1. l \in Loop /\ handle' = l /\ loops' = [loops EXCEPT ![l] = r]
    BY <1>3 DEF Start, DaemonStart, NewLoop
  <2>2. r \in LoopState /\ r.ctx = "live" /\ HasTask(r)
    BY StoppedType DEF LoopState, HasTask
  <2> HIDE DEF l, r
  <2>3. \A k \in Loop : loops[k].ctx # "live"
    BY <1>3, KairosAssumption DEF OneLiveLoop
  <2>4. OneLiveLoop'
    BY <2>1, <2>2, <2>3 DEF OneLiveLoop, TypeOK
  <2>5. RunsItsHead'
    BY <2>1, <2>2 DEF RunsItsHead, TypeOK
  <2> QED  BY <1>1, <2>1, <2>2, <2>4, <2>5 DEF TypeOK, TasksPersisted
<1> QED  BY <1>2, <1>3

LEMMA StopKeeps ==
  ASSUME KairosInv, Stop
  PROVE  KairosInv'
<1> USE DEF KairosInv
<1>1. /\ clock' = clock /\ created' = created /\ workspace' = workspace /\ pc' = pc /\ read' = read
      /\ project' = project /\ tasks' = tasks /\ disk' = disk
      /\ handle' = NoLoop /\ state' = "idle"
  BY DEF Stop, serverVars, requestVars, storeVars
<1>2. \A l \in Loop : /\ loops'[l] \in LoopState /\ loops'[l].ctx # "live"
                      /\ HasTask(loops'[l])
  <2> TAKE l \in Loop
  <2>1. loops[l] \in LoopState
    BY DEF TypeOK
  <2>2. CASE l = handle
    <3>1. loops'[l] = [loops[l] EXCEPT !.ctx = "cancelled"]
      BY <2>2 DEF Stop
    <3> QED  BY <2>1, <3>1 DEF LoopState, RunsItsHead, HasTask
  <2>3. CASE l # handle
    <3>1. loops'[l] = loops[l]
      BY <2>3 DEF Stop
    <3> QED  BY <2>1, <2>3, <3>1 DEF OneLiveLoop, RunsItsHead
  <2> QED  BY <2>2, <2>3
<1>3. loops' \in [Loop -> LoopState]
  BY <1>2 DEF Stop
<1>4. OneLiveLoop'
  BY <1>1, <1>2, KairosAssumption DEF OneLiveLoop
<1> QED  BY <1>1, <1>2, <1>3, <1>4 DEF TypeOK, TasksPersisted, RunsItsHead

LEMMA CrashKeeps ==
  ASSUME KairosInv, Crash
  PROVE  KairosInv'
<1> USE DEF KairosInv
<1>1. <<>> \in Entries
  BY EmptySeq DEF Entries
<1>2. disk' \in [Project -> Entries]
  BY <1>1 DEF Crash, Save, TypeOK
<1>3. /\ loops' \in [Loop -> LoopState] /\ \A l \in Loop : loops'[l].ctx = "none"
      /\ RunsItsHead'
  BY StoppedType DEF Crash, RunsItsHead, HasTask
<1>4. OneLiveLoop'
  BY <1>3, KairosAssumption DEF Crash, OneLiveLoop
<1> QED  BY <1>1, <1>2, <1>3, <1>4 DEF Crash, TypeOK, TasksPersisted, Places

LEMMA MinuteKeeps ==
  ASSUME KairosInv, Minute
  PROVE  KairosInv'
<1> USE DEF KairosInv
<1>1. /\ created' = created /\ workspace' = workspace /\ pc' = pc /\ read' = read
      /\ project' = project /\ handle' = handle /\ state' = state /\ clock' \in Int
  BY KairosAssumption DEF Minute, serverVars, requestVars, TypeOK
<1>2. \A r \in LoopState : /\ LoopOlder(r) \in LoopState /\ LoopOlder(r).ctx = r.ctx
                           /\ HasTask(r) => HasTask(LoopOlder(r))
  BY OlderType
<1>3. /\ loops' \in [Loop -> LoopState] /\ \A l \in Loop : loops'[l].ctx = loops[l].ctx
      /\ RunsItsHead'
  <2>1. loops' = [l \in Loop |-> LoopOlder(loops[l])] /\ \A l \in Loop : loops[l] \in LoopState
    BY DEF Minute, TypeOK
  <2> QED  BY <1>2, <2>1 DEF RunsItsHead
<1>4. tasks' \in Entries /\ Ids(tasks') = Ids(tasks)
  BY OlderKeeps DEF Minute, TypeOK
<1>5. disk' \in [Project -> Entries] /\ \A p \in Project : Ids(disk'[p]) = Ids(disk[p])
  BY OlderKeeps DEF Minute, TypeOK
<1> QED  BY <1>1, <1>3, <1>4, <1>5 DEF TypeOK, OneLiveLoop, TasksPersisted

\* A step of the loop's goroutine: a live loop stays live, a cancelled one does
\* not come alive.
LEMMA TickLoopKeeps ==
  ASSUME KairosInv, NEW l \in Loop, TickLoop(l)
  PROVE  KairosInv'
<1> USE DEF KairosInv
<1> DEFINE r == loops[l]
<1>1. r \in LoopState /\ r.age \in Int /\ r.todo \in Entries
  BY DEF TypeOK, LoopState
<1>2. /\ clock' = clock /\ created' = created /\ workspace' = workspace /\ pc' = pc /\ read' = read
      /\ project' = project /\ disk' = disk /\ handle' = handle
  BY DEF TickLoop, LoopEnds, BeginTick, Announce, SkipTask, ExecuteTask, FinishTask, EndTick,
         StepLoop, serverVars, requestVars
<1>3. state' \in {"idle", "working", "sleeping"}
  BY DEF TickLoop, LoopEnds, BeginTick, Announce, SkipTask, ExecuteTask, FinishTask, EndTick, TypeOK
<1>4. tasks' \in Entries /\ Ids(tasks') = Ids(tasks)
  BY <1>1, MarkRunKeeps DEF TickLoop, LoopEnds, BeginTick, Announce, SkipTask, ExecuteTask,
     FinishTask, EndTick, TypeOK
<1>5. /\ loops' = [loops EXCEPT ![l] = loops'[l]]
      /\ loops'[l] \in LoopState
      /\ loops'[l].ctx = "live" <=> r.ctx = "live"
      /\ HasTask(loops'[l])
  <2>1. clock \in Int /\ tasks \in Entries /\ l \in DOMAIN loops
    BY DEF TypeOK
  <2>2. r.todo # <<>> => Tail(r.todo) \in Entries
    BY <1>1, HeadTailProperties DEF Entries
  <2>3. ASSUME NEW new, loops' = [loops EXCEPT ![l] = new], new \in LoopState,
               new.ctx = "live" <=> r.ctx = "live", HasTask(new)
        PROVE  /\ loops' = [loops EXCEPT ![l] = loops'[l]]
               /\ loops'[l] \in LoopState
               /\ loops'[l].ctx = "live" <=> r.ctx = "live"
               /\ HasTask(loops'[l])
    BY <2>1, <2>3
  <2>4. CASE LoopEnds(l)
    <3>1. loops' = [loops EXCEPT ![l] = Stopped] /\ r.ctx = "cancelled"
      BY <2>4 DEF LoopEnds, StepLoop
    <3>2. HasTask(Stopped)
      BY StoppedType DEF HasTask
    <3> QED  BY <3>1, <3>2, <2>3, StoppedType
  <2>5. CASE BeginTick(l)
    <3> DEFINE new == [r EXCEPT !.fired = FALSE, !.phase = "announce", !.minute = clock,
                                !.age = 0, !.todo = tasks]
    <3>1. loops' = [loops EXCEPT ![l] = new]
      BY <2>5 DEF BeginTick, StepLoop
    <3>2. new \in LoopState /\ new.ctx = r.ctx /\ HasTask(new)
      BY <1>1, <2>1, BegunType, Zenon
    <3> HIDE DEF new
    <3> QED  BY <3>1, <3>2, <2>3
  <2>6. CASE Announce(l)
    <3> DEFINE new == [r EXCEPT !.phase = "scan"]
    <3>1. \/ loops' = [loops EXCEPT ![l] = Waiting(r)]
          \/ loops' = [loops EXCEPT ![l] = new]
      BY <2>6 DEF Announce, StepLoop
    <3>2. new \in LoopState /\ new.ctx = r.ctx /\ HasTask(new)
      BY <1>1 DEF LoopState, HasTask
    <3> HIDE DEF new
    <3> QED  BY <3>1, <3>2, <2>3, <1>1, WaitingType
  <2>7. CASE SkipTask(l)
    <3> DEFINE ts == Tail(r.todo)
               new == [r EXCEPT !.todo = ts]
    <3>1. loops' = [loops EXCEPT ![l] = new] /\ ts \in Entries /\ r.phase = "scan"
      BY <2>7, <2>2 DEF SkipTask, StepLoop
    <3> HIDE DEF ts
    <3>2. new \in LoopState /\ new.ctx = r.ctx /\ HasTask(new)
      BY <1>1, <3>1 DEF LoopState, HasTask
    <3> HIDE DEF new
    <3> QED  BY <3>1, <3>2, <2>3
  <2>8. CASE ExecuteTask(l)
    <3> DEFINE new == [r EXCEPT !.phase = "run"]
    <3>1. loops' = [loops EXCEPT ![l] = new] /\ r.todo # <<>>
      BY <2>8 DEF ExecuteTask, StepLoop
    <3>2. new \in LoopState /\ new.ctx = r.ctx /\ HasTask(new)
      BY <1>1, <3>1 DEF LoopState, HasTask
    <3> HIDE DEF new
    <3> QED  BY <3>1, <3>2, <2>3
  <2>9. CASE FinishTask(l)
    <3> DEFINE ts == Tail(r.todo)
               new == [r EXCEPT !.phase = "scan", !.todo = ts]
    <3>1. loops' = [loops EXCEPT ![l] = new] /\ ts \in Entries
      BY <2>9, <2>2 DEF FinishTask, StepLoop, RunsItsHead, HasTask
    <3> HIDE DEF ts
    <3>2. new \in LoopState /\ new.ctx = r.ctx /\ HasTask(new)
      BY <1>1, <3>1 DEF LoopState, HasTask
    <3> HIDE DEF new
    <3> QED  BY <3>1, <3>2, <2>3
  <2>10. CASE EndTick(l)
    <3>1. loops' = [loops EXCEPT ![l] = Waiting(r)]
      BY <2>10 DEF EndTick, StepLoop
    <3> QED  BY <3>1, <2>3, <1>1, WaitingType
  <2> QED  BY <2>4, <2>5, <2>6, <2>7, <2>8, <2>9, <2>10 DEF TickLoop
<1>6. loops' \in [Loop -> LoopState] /\ OneLiveLoop' /\ RunsItsHead'
  BY <1>2, <1>5 DEF OneLiveLoop, TypeOK, RunsItsHead
<1> QED  BY <1>2, <1>3, <1>4, <1>6 DEF TypeOK, TasksPersisted

-----------------------------------------------------------------------------
(* The theorems *)

LEMMA InitHolds == Init => KairosInv
<1> SUFFICES ASSUME Init PROVE KairosInv
  OBVIOUS
<1>1. <<>> \in Entries
  BY EmptySeq DEF Entries
<1>2. tasks \in Entries /\ disk \in [Project -> Entries]
  BY <1>1, Zenon DEF Init
<1>3. loops \in [Loop -> LoopState] /\ \A l \in Loop : loops[l].ctx = "none"
  BY StoppedType DEF Init
<1>4. TypeOK
  <2>1. pc \in [Client -> Places] /\ read \in [Client -> Project \cup {NoProject}]
    BY DEF Init, Places
  <2>2. clock \in Int /\ state \in {"idle", "working", "sleeping"}
    BY DEF Init
  <2> QED  BY <1>2, <1>3, <2>1, <2>2, KairosAssumption, Zenon DEF Init, TypeOK
<1>5. OneLiveLoop
  BY <1>3, KairosAssumption DEF Init, OneLiveLoop
<1>6. TasksPersisted
  BY DEF Init, TasksPersisted
<1>7. RunsItsHead
  BY StoppedType DEF Init, RunsItsHead, HasTask
<1> QED  BY <1>4, <1>5, <1>6, <1>7 DEF KairosInv

LEMMA NextKeeps == KairosInv /\ [Next]_vars => KairosInv'
<1> SUFFICES ASSUME KairosInv, [Next]_vars PROVE KairosInv'
  OBVIOUS
<1>1. CASE Next
  BY <1>1, StoreKeeps, RequestKeeps, StartKeeps, StopKeeps, CrashKeeps, MinuteKeeps, TickLoopKeeps
     DEF Next, Handler
<1>2. CASE UNCHANGED vars
  BY <1>2 DEF vars, serverVars, requestVars, storeVars, KairosInv, TypeOK, OneLiveLoop,
              TasksPersisted, RunsItsHead
<1> QED  BY <1>1, <1>2

\* KairosInv is inductive, for any number of requests, projects, tasks and
\* goroutines (daemon.go and the handlers of server.go).
THEOREM Invariance == Spec => []KairosInv
BY InitHolds, NextKeeps, PTL DEF Spec

\* However starts, stops, switches and crashes interleave, at most one loop is
\* live, and Daemon.cancel is the one that ends it (daemon.go's Start and Stop).
THEOREM LoopTheorem == Spec => []OneLiveLoop
BY Invariance, PTL DEF KairosInv

\* The tasks in memory are those of tasks.json, whatever is added, removed, run
\* or switched, and after every restart (daemon.go's saveTasks and loadTasks).
THEOREM PersistedTheorem == Spec => []TasksPersisted
BY Invariance, PTL DEF KairosInv
=============================================================================
