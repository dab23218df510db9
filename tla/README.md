# AniClew in TLA+

AniClew is one Go process (`internal/`, `cmd/proxy`) that serves an Anthropic-compatible API on
the user's machine, and a web client (`web/src`, React). The process proxies requests to model
providers, runs agent sessions (a model that calls tools in a loop), teams of such sessions and a
background daemon (KAIROS), and remembers things in files of the workspace. The client holds copies
of all this and changes it by requests that overlap with each other, with streams and with clicks.
This directory holds TLA+ models of the parts that have state worth arguing about, TLC runs on
small instances, and TLAPS proofs. `PROJECT.json` lists, per definition, the source lines it
stands for. Go paths below are relative to `internal/`, client paths to `web/src/`.

## 1. Inventory

Modelled, the server:

| Part | State | Operations | What is hard |
|---|---|---|---|
| Loop registry, `agent/loop_registry.go` | map of running loops, semaphore channel, WaitGroup, shutdown flag | Register, release, Cancel, Shutdown | the lock is given up between the steps of Register, Cancel and Shutdown |
| Agent loop, `agent/loop.go` | iteration and budget counters, plan and read-only mode, the round's tool calls, undo buffer, receipt, heartbeat | one session: ask, retry, execute in parallel or serially, verify, finish | a dozen exits; gates that only one of two execution paths has; four budgets that must fit together |
| Message history, `agent/normalize.go`, `compact.go`, parts of `loop.go` | the list of messages | append, compact, snip, collapse, normalise, cap | rewrites composed in an order nobody chose |
| Teams, `agent/team.go`, `ExecuteTool` | tasks, layers and waves, workers, mailboxes, a package global | ComputeWaves, workers, Verify, Shutdown | worker goroutines share a global; deadline against completion; a wave that fails |
| KAIROS, `kairos/daemon.go`, `cron.go` | task list in memory and on disk, state, cancel function | Start, Stop, tick, AddTask, RemoveTask, SwitchProject | Start and Stop in the middle of a tick; ticker grid against cron minutes; crashes |
| Long-term memory, `memory/`, `agent/memory_hook.go` | entry files, `MEMORY.md`, lock file, consolidation state | extract, consolidate, rewrite the index | several processes on one directory, crashes, a lock that may be evicted, one temporary file for all writers of the index |

Modelled, the web client:

| Part | State | Operations | What is hard |
|---|---|---|---|
| Chat, `pages/Chat.tsx`, history of `components/SidePanel.tsx`, `components/Markdown.tsx`; `agent/sessions.go` | messages, session id, the prompt to approve a plan, the stream; session files | send, stop, approve, every event, the save at a stream's end, load, new chat, delete, leave the page | a stream and a save go on under a view that changes hands; results and diffs are matched to cards by name and position; ids are made from the second |
| Projects, files, editor: `SidePanel.tsx`, `App.tsx`; workspace and file handlers of `server/server.go` | two copies of the project list, tree, sessions, editor; workspace and configuration file | switch, add, remove, reload, open, edit, save, restart | the copies are refreshed in separate steps; the configuration is read, changed and written in place without a lock, by other handlers too; tools write the files that are shown; a file is named relative to a workspace that may change |
| Data pages: `pages/Costs`, `Kairos`, `Team`, `Memory`, `Routes` | the parts a page shows, loads and writes under way | mount, load, refresh by timer and notification, write, team run, comparison | loads overtake each other, part of a load fails, a page is left under its requests |
| Settings and status bar: `pages/Settings.tsx`, `App.tsx`; `PUT /api/config` and key registration | active provider and model, configuration file, selection, typed key, status shown | Quick Start, start with a key, apply, pick a model, language, poll | the running server and the file are changed in two steps by requests that overlap, and other commands rewrite the same file |

How they interact. A handler of `server/server.go` registers a session with the registry and runs
RunLoop; RunLoop sends the message history to a provider, executes tools, streams events to the
chat page, and on a normal end starts one extraction and (if the gate is open) one consolidation
as goroutines. A team runs one RunLoop per worker; the workers' writes are checked in
`ExecuteTool`. KAIROS owns its goroutine and is driven by handlers. On shutdown
`cmd/proxy/main.go` drains the registry and waits for the memory goroutines. The models meet in
the same places: AgentLoop promises `SessionEnds`, which LoopRegistry and Team assume as the
fairness of a loop's end; Conversation is the history that AgentLoop leaves out; the events that
WebChat receives come in the orders in which RunLoop emits them (an announced call before its
result, results alone from the parallel path, a verification's status after text); WebPanels
composes the settings, the data pages and the shell that mounts one of them at a time.

What makes each modelled part correct:

- registry: never more loops than the cap and never a slot lost; after Shutdown nobody runs
  uncancelled; a drain reported clean is clean; shutdown ends;
- agent loop: what mutates has passed the gates, or is a command that the parallel path takes for
  a reading one; every exit joins the heartbeat; undo and receipt describe this turn; a question gets an answer; a session ends;
- history: what is sent alternates, pairs calls with results until it is rewritten, and contains
  the latest results;
- team: dependencies first, every task or an error, the request ends, file ownership;
- KAIROS: one live loop, the task list survives, stopped loops end, due tasks run;
- memory: one consolidation at a time, an index that matches the directory, hand-written lines
  kept;
- chat: a session is one conversation, what is shown is what is saved, what was saved stays, what
  was deleted stays so, a prompt to approve is about the last turn, cards tell the truth, answers
  are visible;
- projects and files: the copies agree at rest, an added project stays, a file only gets its own
  text, all of it and with what tools wrote, the editor shows what is on disk;
- pages and settings: a page shows its own last write, a restart goes on with the model that was
  chosen, a key is registered for the provider it was typed for, what is polled catches up.

## 2. Modules

| Module | Models | Notes |
|---|---|---|
| `AdmissionControl` | what a registry promises: bounded admission, none after closing, "drained" only when empty | abstract specification |
| `LoopRegistry` | `loop_registry.go` | each critical section and each channel, context or WaitGroup operation outside one is an action; implements `AdmissionControl` (`ImplementsAdmission`) |
| `AgentLoop` | RunLoop with its gates | a tool stands for every call the code treats alike (`SafeBash` and `ListedBash` for the commands `isBashConcurrencySafe` accepts, those that only read and those that do not); failures, test results and the model's replies are nondeterministic; `Cancel` may come at any step |
| `Conversation` | the history of one session | a message is its role, whether it has text, and the rounds whose calls and results it holds; what a loop over the messages has made so far is a recursive function of how many it has read; names that `AgentLoop` has too carry the word history (`HistorySpec`) or are `stage`, `collapsible` |
| `Team` | handleTeamExecute to Shutdown | a task is an ID, as `ComputeWaves` and `getTask` take it: entries with the same ID are one task with all their dependencies; every dependency graph is an initial state; layers (Kahn) and their waves are a recursive function, proved right; a worker's loop is its writes and its end |
| `Kairos` | the daemon and its handlers | time in minutes; each Start makes a loop with its own ticker; a task's run only takes time |
| `MemoryIndex` | `MEMORY.md` as lines: substitution of the managed block in a document with both markers, with one, with none or in the wrong order, trimming, line cap | pure operators; bullets come in the order `Sorted` gives a set of entries, of which only is assumed that it leaves none out |
| `Memory` | extraction and consolidation over the directory | each task is a goroutine of a process; every process may die; `MEMORY.md.tmp` is opened, filled and renamed in three steps, and an open file is what was opened, whatever happens to its name |
| `Transcript` | the messages of the chat page: how every event is folded in, how a bubble is shown, what a save keeps | pure operators |
| `WebChat` | the chat page, its stream, saves, loads and the session files | extends `Transcript`; every await separates two actions |
| `WebProjects` | projects, tree and editor against workspace, configuration and files | a request is sent, read or carried out at the server, and applied: three actions; the configuration file is loaded, truncated and written in three more |
| `WebPages` | the data pages | a part of a page is abstracted to its version |
| `WebSettings` | settings, status bar and model picker | a PUT changes the running server, loads the file, cuts it and writes it |
| `WebPanels` | the shell: one page at a time | composes `WebPages` and `WebSettings` |
| `..._proofs` | theorems of LoopRegistry, AgentLoop (with Conversation), Team, Kairos, Memory (with MemoryIndex) and the three web modules | section 5 |
| `MC...` | constants for TLC | no definition is replaced |

Definitions carry the source's names where they can (`TakeSlot`, `Insert`, `CheckDreamGate`,
`UpdateIndex`...). Most modules also contain, just before an operator, a variant of it with a
plausible bug (`RescanEarly`, `FinallyStale`, `RefreshOnce`...); no action uses one. They exist so
that every property can be seen to fail on a program that is wrong: `PROJECT.json` pairs them under
`mutants`.

Where data is abstracted: a session, a file, an entry or a task is a model value or a number; of a
cron expression the minute field is kept, the other fields are the same membership test;
`MEMORY.md` has one kind of entry and no byte cap (the cap on lines cuts in the same way), and no
bullet or hand-written line contains the text of a marker; a message of the history is its role and
the rounds it holds; the text of a bubble is a sequence of tokens (a think tag, a delta of thinking,
a delta of the answer, a note, an error); the content of a file is whose text it is, whether it is
all of it, whether it is empty, and how often the user and tools have changed it.

Atomicity. Sections under one mutex are one action, and what happens between two is interleaved.
In `Memory`, writing one entry and emptying the directory (or failing halfway) are one step each, and
so is the scan together with reading `MEMORY.md`: of the file read there only the lines outside the
block are used. Replacing `MEMORY.md` takes three steps: `OpenTmp` truncates the one temporary file,
`WriteTmp` fills it from the beginning (over what another writer has put there; a longer rest stays)
or `WriteFails` stops early, `Rename` installs whatever is under the name. A file that was renamed
while it was open is written on under its new name (as on POSIX), or the rename is refused (as on
Windows): both are behaviours. `MaybeConsolidateAsync`'s failures all lead to the deferred release, so
`CallFails` stands for each of them, and `SaveFails` for an entry or a directory that cannot be
written or read. The time gate is always open: a day may pass at any moment. In `WebProjects` and
`WebSettings` the configuration file is loaded, cut to nothing (what is read then is the defaults) and
written; a write over a longer text that another handler has put there meanwhile leaves no JSON. In the client a
handler runs to its next await in one step, as JavaScript does, and its state updates are those of
the render it was called in where the code says so (the session id of `send`) and functional
where it does not.

Race ghosts. The client guards against few of its interleavings. A ghost variable (`races`,
`pageRaces`, `settingsRaces`) records the names of those that a behaviour has met, and a
property says which of them may break it: "conversations mix only if the view
changed hands under a stream or a first save, or two first saves fell into one second". The
exceptions are facts about the code too: without any one of the names its property fails in the run
listed below, and no other order of the same steps, failures included, breaks it. The names are

- chat: `switched` (another session or a new chat under a stream or a first save), `resent` (a
  turn sent while a save is under way), `collided` (two first saves in a second), `failed` (a
  save failed), `deleted` (a session deleted that is shown, loaded or being saved), `outdated` (a
  load answered that was read before the session's last save), `planKept` (a view that changes
  with the prompt open);
- projects: `overlapped` (a command under another or a reload), `unheard` (a switch from the bar or
  a removal, which refresh one copy), `failed`, `reverted` (a restart into another workspace),
  `interleaved` (two handlers between loading and writing the configuration), `cut` (a failed
  write or a restart in the middle of one);
- editor: `moved` (the workspace changed under an open file), `reopened` (another file opened in
  edit mode), `placeholder` (a binary or cut file, or an empty one, for which the view shows the whole
  answer, opened), `rewritten` (a tool wrote a file the editor has), `refused` (a write refused, or its
  answer lost), `torn` (a write cut off);
- pages and settings: `failed`, `overtook` (an older load answered after a newer one),
  `abandoned` (a page left under its write), `left` (a page left under its run); `overlapped`,
  `noModel` (a provider applied without a model), `unheard` (a choice the page does not show),
  `keyKept` (another provider chosen over a typed key), `unsaved` (a save that failed, which the
  handlers ignore, or was cut off).

`Memory` has two such histories: `robbed` (a fresh lock removed as a stale one) and `collisions` (a
task opened the temporary file while another was between opening and rename).

## 3. Runs

Passing runs; all properties hold on the whole state space of the instance.

| Run | Instance | Properties |
|---|---|---|
| `loop_registry` | 3 requests, 2 slots, 2 Shutdown calls | `SlotsAccounted`, `CleanDrain`, `NoLoopSurvivesShutdown`, `ShutdownDrains`, `ImplementsAdmission` |
| `agent_loop` | 4 iterations, 1 exploration round, 2 calls per reply, 2 files, one retry, one verification; every kind of request, a cancel anywhere | `MutationsAuthorised`, `HeartbeatJoined`, `UndoCoversTurn`, `CompletionHasReceipt`, `QuestionsAreAnswered`, `SessionEnds` |
| `conversation` | 8 rounds, up to 3 messages from the client, cap of 10, compaction from 8 | `RolesAlternate`, `PairedUntilRewritten`, `LatestResultsSent` |
| `team` | 3 tasks with every dependency graph (cycles, a missing task), waves of 2, 2 verifications | `DependenciesFirst`, `ExecutesAllOrFails`, `TeamEnds` |
| `kairos` | an hour of 4 minutes, ticks every 2, one project, one request of several steps at a time beside direct ones, 2 loops, 2 tasks | `OneLiveLoop`, `TasksPersisted`, `StoppedLoopsEnd`, `GridTasksKeepRunning` |
| `memory` | one entry name, an extraction and a consolidation in one process, a consolidation in another, crashes of both, writes that fail after 2 lines, one collision | `OneConsolidator`, `HandAuthoredKept`, `IndexReflectsEntries` |
| `web_chat` | up to 3 turns, budgets `Switching`, `Deleting`, `Reopening`, `LongTurn`, `TwoTurns`, `SwitchedCalls` | `ConversationsApart`, `ShownIsSaved`, `DeletedStaysDeleted`, `ApprovalIsForLastTurn`, `CardsAreTrue`, `AnswersAreVisible`, `SavedOnlyGrows` |
| `web_projects` | 2 projects with 2 files, one binary; budgets `Mounting`, `Commands`, `Restarting`, `Editing`, `SavingTwice`, `CutOff`, `WrittenByTools` | `CopiesAgree`, `AddedStaysRegistered`, `FilesKeepTheirText`, `EditorShowsDisk` |
| `web_panels` | a local and 2 cloud providers; seven budgets of one data page, three of the settings | `PagesAreCurrent`, `SettingsHold`, `ViewsCatchUp` |

Budgets. A client can click for ever, so an initial state of the client's models carries a budget:
how many turns, clicks, failures, loads the behaviour has. One large budget has too many states;
instead each run starts from a set of small ones, each of which lets one group of operations meet
in every order. Only guards read the budget, and it only ever removes behaviours.

Why the bounds are enough for the cases that matter.

- Registry: three requests and two slots reach a full semaphore with one running, one
  half-released and one refused; two Shutdown calls, a second one during the first.
- Agent loop: one exploration round, one verification attempt and two error rounds let each
  budget run out alone and together within four iterations; two calls in a reply choose between
  the parallel and the serial path.
- Conversation: eight rounds pass the compaction threshold twice, the cap, three failed compactions.
- Team: three tasks have every shape of graph with a chain, a fork and a cycle, and a layer
  that is cut into waves.
- KAIROS: four minutes hold two ticks of either grid; two loops are an old one in its last tick
  beside its successor. Two projects multiply the states by some forty; the theorems have any number.
- Memory: one name is there, gone or damaged; every file operation of one task may fall between any
  two of another, so one extraction beside one consolidation is every pair of writers, and the third
  task is in a process of its own. `MaxCollisions` bounds how often two are in the temporary file at
  once; `CutAt` is where a failing write stops. The file at first is older than the markers and has
  a line of its own, for which 7 lines have room: a version that is cut (`overflowed`) is left to
  the theorems, which have every document, every set of names and any number of collisions.
- Chat: the tools are one that reads, one that edits and Git, whose result may be empty; two conversations suffice to mix them, three turns for a save that is outdated by a
  second one; a turn with three calls has two cards of one tool, from either path.
- Projects: two projects and two files are what a request can confuse; two commands (one of which may
  be any other handler that rewrites the configuration) can overlap; two writes of tools can fall
  before and after the editor's load.
- Pages and settings: the parts of a page fail and overtake each other within two loads; pages
  are independent of each other and of the settings but for being mounted, so each budget takes
  one, and leaves it and comes back where requests outlive the page. Two cloud providers are what
  a typed key can be registered for wrongly.

Runs that fail, each on a statement of the documentation or a comment, quoted in `findings`:

| Run | Property | What the code does |
|---|---|---|
| `plan_mode_commands` | `PlanModeRunsNothing` | two or more parallel-safe calls of one reply (shell commands that `isBashConcurrencySafe` accepts included) run before and outside the plan mode gate, although plan mode "must not edit files or run commands" |
| `team_ownership` | `OwnershipEnforced` | `activeWorkerID` is one package variable, so with two workers the ownership check is made in the name of the one that started last |
| `web_chat_overwrite` | `OneConversationPerSession` | the page saves what it shows at the end of a stream under the session id of the moment the turn was sent, so a new chat or another session opened meanwhile ends up in the old file |

Properties of memory state exactly how far a promise holds rather than the promise:
`OneConsolidator` until a fresh lock is evicted, `HandAuthoredKept` until a version is cut or two tasks
are in the temporary file at once (the comment at `memory/index.go:188-190`, that a crash never
leaves a half-flushed index, holds for one writer at a time only), `IndexReflectsEntries` for a task
that runs alone. The first time anything runs again after everything was idle, `robbed` and
`disturbed` are reset, so they speak of every quiet period of a history with crashes and not only of
its beginning. Two losses have no property: a consolidation removes entries the prompt did not show
(those an extraction wrote during the call, and those `Scan` cannot parse), and one that ran between
another's gate and its lock is repeated. The model has both; with them exempted nothing would be
left to say but what one assignment does.

`MutationsAuthorised` has one exception, which is what the code does: `isBashConcurrencySafe`
accepts a command by its first words, so `find . -delete`, `git branch -D x`, `ls; python x.py` or
`echo x | tee f` passes no gate when it runs beside another parallel call. The property says that
nothing else gets past the gates, and that such a command alone in its reply does not either.

Deadlock is checked in `kairos`, `memory` and `web_panels`, which never stop; in the others a
session, a request, a shutdown or the budget ends.

## 4. Fairness and assumptions

- Registry: weak fairness of the steps of Register, release and Shutdown, and of a cancelled loop's
  end. The code waits for nothing else there: the semaphore send does not block, and RunLoop
  observes its context. The loop's end is AgentLoop's `SessionEnds`.
- Agent loop: weak fairness of RunLoop as a whole. Providers and tools have timeouts in the code
  and the retry wait is a timer. Cancel is never assumed.
- Team: weak fairness of the lead and of each worker's steps, strong fairness of a worker's end,
  which a write in progress disables for a moment. Neither the deadline nor a cancel is assumed.
- KAIROS: time passes and each loop's goroutine is scheduled. Assumption of the model: a tick's
  tasks take at most `TickMinutes` minute boundaries, less than a tick interval (the blocking budget
  of onTick). Nothing is assumed of users.
- Pages and settings: the interval timers of the mounted page and of the status bar go on firing and
  the server answers the oldest of their requests (`PagesFairness`, `SettingsFairness`). Nothing is
  assumed of users, of writes, or of requests that are not polled; any of the polled requests may
  fail as long as the budget has failures.
- Memory, Conversation, WebChat, WebProjects: safety only. Assumption of Memory: a lock gets
  stale only when its owner is gone, since a consolidation's call is limited to five minutes and
  a lock is stale after ten. Assumption of WebChat: events arrive in the order they were sent.

## 5. Proofs

Checked by TLAPS for all values of the constants that satisfy the modules' assumptions
(`RegistryAssumption`: finitely many sessions, a positive capacity; `LoopAssumption`: the types of
the limits; the others say that a model value is not a member of a set, and give the types of
numbers).

`LoopRegistry_proofs`. `SlotsAccounted` alone is not inductive: it does not say who is in the map
nor what the WaitGroup counts. `IInv` adds the books (map = running sessions, semaphore and
WaitGroup = cardinalities of the sets of their holders) and, for each Shutdown call, that every
running loop is cancelled or still in that call's snapshot. It needs the second look at the flag in
`Insert`: without it a session could start after the snapshot. `SlotsTheorem`, `CleanDrainTheorem`
and `NoSurvivorTheorem` follow, and `RefinementTheorem` is the implementation of
`AdmissionControl`: steps map to `Admit`, `Leave`, `Close`, `AnnounceDrained` or a stutter. Lemmas
on cardinalities carry the counting.

`AgentLoop_proofs`. `LoopInv` is the conjunction of the type invariant, the safety properties and

- `Limits`: an iteration in progress has one left, and spends at most two half rounds;
- `Fresh`: nothing has happened before the loop, and plan mode is what the request says;
- `HeartbeatWhileAsking`: the heartbeat runs only while the model is asked;
- `Budget`: in a question or a plan every round spends at least half a round, and the collapse
  takes the tools away before the next call once the budget is gone; this is what bounds
  iterations by `2 * ReadOnlyRounds + verifyAttempts`;
- `Edits`: an edit is known as such before it runs, backed up, and tested if the result says so; a
  generation of the undo buffer is begun exactly when the turn first tries an edit, which is why the
  buffer then is what this turn tried and nothing older (`UndoCoversTurn`).

The proof takes one lemma per group of actions. `QuestionsAreAnswered` is proved under the
condition on the limits that it states: the configuration may set `readOnlyExploreRounds` beyond it.

`Team_proofs`. `DependenciesFirst` and `ExecutesAllOrFails`, for any number of tasks, every graph and
every wave size. They rest on Kahn's algorithm, which the model writes as a recursive function on
rounds: `RemovedRounds` shows what the function computes (a least round at which it would not is
impossible), `Monotone` and `LastIsStable` that it stops, and `KahnCorrect` that it removes every
task exactly if there is an execution order, that is, no set of tasks all of which wait for
each other or for a task that does not exist. `NoGap` says that the slices of a layer leave no task
out. `TeamInv` adds to the properties which waves are over (`CompletedIsOver`, `InOrder`), what holds
before the first (`Fresh`), and that a task that runs names no missing dependency (`Known`).

`Kairos_proofs`. `OneLiveLoop` (with `Daemon.cancel` the one that ends it) and `TasksPersisted`
(the list in memory has the IDs of the one on disk) for any number of requests, projects, tasks and
goroutines, with crashes. They need each other's types and `RunsItsHead`: a task that is being run
is the head of the tick's list, so that marking it as run and saving touches no other.

`Memory_proofs`. Every property of the run, for any number of goroutines, processes and entries, any
cap, any document to begin with and any number of collisions. `OneConsolidator` follows from
`OwnerWorks`: until a fresh lock is removed for the age of the one before it, whoever is between
acquiring and releasing owns it. The rest is `IndexInv`:

- `OneReplaces`: without a collision one task at most is between opening and rename, only it has
  the temporary file open, and what it is about to rename is what it wrote;
- `IndexKept`: until a version is cut or two collide, `MEMORY.md` and every document about to be
  written keep what stood outside the block of the first one;
- `Alone`: while no second task has started and none has failed, what the task at work is about to
  write or rename is the update of what is there now.

They rest on what one update does to a document. `MergedKeeps` and `UpdateKeeps` say that it keeps
the lines before and after the block, whichever of the four shapes the document has (`MarkedKeeps`
where the block is replaced, `AppendedKeeps` where one is added), and `KeepsOrder` that updates
compose. `RenameLists` says that a block which fits lists exactly the entries it was made from: no
marker is among the bullets, so both markers are found again where they were put.

`WebChat_proofs`. Every property of the run for any number of turns, sessions, clicks, stops and
failures. `ConversationsApart`, `DeletedStaysDeleted` and `AnswersAreVisible` follow from `ChatInv`:
`TypeOK` (every id the client holds was handed out by the server), `EachForItself` (every transcript,
in the view, a request or a file, is of the conversation it claims), `NothingDeleted` (no deleted id
is left anywhere a save could come from) and `AwayIsQuiet`. The lemmas go through the fold of every
event; `SoundText` is what makes "no answer in a thinking block" inductive over them. Four more invariants stand on it:

- `CardInv`, for `CardsAreTrue`: events of the run are matched to the right card because at most the
  newest card of its turn waits (`RunInOrder`), and every transcript that is saved, loaded or on
  disk is `Settled`: it holds nothing of that turn, and its cards wait only if theirs was cut off or answered by
  an empty text (`blank`);
- `ApprovalInv`, for `ApprovalIsForLastTurn`: the turn of the run is the last of the view, and so is
  that whose plan waits;
- `OrderlyInv`, for `SavedOnlyGrows`: without the four races of saving at most one save of the page
  is under way, none under a stream, and what it holds, or what the view holds, extends what its
  session has on disk;
- `PreservedInv`, for `ShownIsSaved`: without these races, failures and deletions, what a view
  without a stream shows is on disk or in the save under way.

`WebProjects_proofs`. `CopiesAgree`, `AddedStaysRegistered`, `FilesKeepTheirText` and
`EditorShowsDisk` for any number of projects, files, clicks, requests, writes of tools and restarts.
The invariant says for each what the requests under way owe: `AddedInv`, that one handler at a time is
between loading and writing the configuration and that what it loaded is what the file held;
`FilesInv` and `EditorInv`, that every text on its way to or from a file is of the file its path means
now and has all that tools wrote there; `Covered`, that a copy out of date has a request under way
that renews it, or that asks on.

`WebPanels_proofs`. `SettingsHold` and `PagesAreCurrent` for any number of providers, models,
visits, loads, writes and requests. `Agrees` says where a request stands between the running server
and the file (applied, not yet saved; while the file is cut, what is about to be written is what answers), `Shows` what Settings may say meanwhile, and `OwnWritesInv`
that the load begun last asks for, or has, what the writes did, which is why a page at rest has it
too. `BudgetsAssumption` types the bounds of the pages.

`AgentLoop_proofs`, the part about Conversation. `RolesAlternate`, `PairedUntilRewritten` and
`LatestResultsSent` for any limits and histories of any length. `HistoryInv` says that a history
begins and ends with the user, alternates once normalised, has the assistant before the latest
results (so that a cut at four messages leaves the results last, whatever stands before them), and,
until it is rewritten, alternates with every call paired. The loops of `NormalizeMessages` are
recursive functions of the number of messages read: `MergingExists` and `PaddingExists` show that
there are such functions, `MergedHistory` and `AlternatingStays` what they return. `Normalized` and
`Shortened` sum up what normalising, compacting and snipping do to a history.

Induction. The library states it for an operator, which the provers cannot instantiate. The proofs
that need it take a least counterexample instead: `Induction` (AgentLoop) says of a set of numbers that it
has all of them up to n if it has 0 and with each the next, from the library's fact that the
finite subsets of a set are well-founded; Team and Memory (`LeastNumber`) argue alike.

Only model-checked: liveness, which is out of the prover's reach (`ShutdownDrains`, `SessionEnds`,
`TeamEnds`, `StoppedLoopsEnd`, `GridTasksKeepRunning`, `ViewsCatchUp`). Every safety property of a
passing run is proved.

## 6. Known, and not a failing run

Behaviours the source has, that the models show or were cut to leave out, and that no statement of
the repository decides:

- Cron asks about the minute of the tick only: a task whose minutes all fall between the daemon's
  ticks never runs (`GridTasksKeepRunning` is about the others).
- `handleSetWorkspace` leaves a running daemon with the old project.
- A `MEMORY.md` whose block passes the cap loses the end marker, and what was written by hand after it. The next update finds no block, appends one beyond the cut and is cut itself: from then on
  the index is frozen. `HandAuthoredKept` holds up to the first cut, `IndexReflectsEntries` with room.
- An entry whose name or description is a marker would be taken for one: `oneLine` only joins lines.
- After a compaction the merge of neighbours of one role may drop a `tool_use` and leave its
  `tool_result` (`PairedUntilRewritten` stops there).
- A cancelled stream is taken for a final answer; an "ask" granted to a call that plan mode then
  refuses is remembered.
- A consolidation deletes what was extracted during its call and what `Scan` skips; the writers of
  `MEMORY.md` share one temporary file: an interleaving may install a truncated one, and what was
  written by hand is lost.
- Of several tasks with one ID in a team's request only the first is run; the request ends without
  an error, and only the summary shows the others as pending.
- Only Edit and Write are backed up for "/undo": what a Bash command changes is not, and errors in
  writing the undo manifest are ignored.
- A tool whose result is the empty text (Git with nothing to say) leaves its card spinning.
- The editor shows the whole answer, an object, for an empty file (`data.content || data`). The page has
  no error boundary, so a client may show nothing at all from then on; the model lets the user go on.
- `config.json` is rewritten in place by six handlers without a lock; most ignore a failed save. After a
  restart on a file that was cut, the server asks for provider and model on its terminal.
- A key registered in Settings is stored in `config.json`, and nothing reads it for the built-in
  providers (`server/server.go:989-997` against `cmd/proxy/main.go:94-103`).
- "Compare" on the Costs page posts only a prompt, and `handleABTestRun` requires two providers, so
  it is always refused; the page swallows the refusal. The Team page does not look at `res.ok`.

## 7. Not modelled

Reasons per component are in `PROJECT.json`.

- Server: the proxy pipeline (retry, fallback, stream watchdog, answer cache, cost, gateway budgets,
  router), stream translation and providers, mailbox and message router, subagents, the undo
  directory shared by sessions, session notes, permission file, MCP clients, bash rules, tools as
  such, notifications and git watch, the order of the shutdown, traces. The content of a memory
  entry, of an answer and of a prompt is text throughout.
- Client: texts of the interface, icons, toasts, theme; Markdown beyond thinking blocks; images,
  voice, feedback buttons and renaming on the chat page; the folder browser and which tree nodes are
  open; the search of the memory page, the rows of the team form, logs and notifications that a page
  lists; and the components that no mounted page imports (the old sidebar, explorer and workspace page).
- Tray, command line, dashboard and scripts.

## 8. Plan

1. `Proxy`: one request through handleMessages, with retries, fallback, the watchdog's cancel, the
   cache and the gateway's budget checked before and spent after; an abstract "one answer, one charge".
2. `Mailbox`: inbox files, their lock, and the router's broadcast. `Checkpoint`: two sessions on
   one undo directory. `Permissions`: two sessions on one rules file.
3. `Notifier` and the creation of two daemons, composed with Kairos; `Shutdown`: registry, memory
   tasks and HTTP server in the order of `main`.
4. `StreamTranslation` (deltas to content blocks), `MCPClient` (responses matched by order), and the
   bash rules' composition as a pure operator against a reference.
5. Theorems: `TeamEnds` and `SessionEnds` have bounds that are invariants (`Budget` is one), to be
   stated as a number of steps; a registry's refinement carried to AgentLoop's sessions; then the
   modules above.
