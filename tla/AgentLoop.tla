----------------------------- MODULE AgentLoop -----------------------------
(***************************************************************************)
(* agent.RunLoop: one agent session, from the user's request to its end.   *)
(* The model is asked, answers with a batch of tool calls or with a final  *)
(* text, the calls are gated and executed, and around that sit the read-   *)
(* only collapse, plan mode, auto-verification, the undo buffer, the       *)
(* reflection guard and the heartbeat goroutine.                           *)
(*                                                                         *)
(* A tool stands for every call RunLoop treats alike: "Read" also for Grep *)
(* (content, parallel), "Edit" also for Write, and a permission rule with  *)
(* a pattern for what it matches.  isBashConcurrencySafe looks for words   *)
(* in a Bash command: "SafeBash" is a command it accepts and that only     *)
(* reads (git log), "ListedBash" one it accepts though it changes things   *)
(* (find . -delete, git branch -D x, ls; python x.py, echo x | tee f), and *)
(* "Bash" stands for a command it does not accept and for every other      *)
(* serial tool.                                                            *)
(* The message history is in Conversation.                                 *)
(***************************************************************************)
EXTENDS Integers

CONSTANTS
  MaxIterations,       \* 25 in the code
  MaxErrorRounds,      \* 3
  MaxVerifyAttempts,   \* 2
  MaxRetries,          \* 3 StreamMessage attempts
  ReadOnlyRounds,      \* 5, or readOnlyExploreRounds of the configuration
  File,                \* files the tools edit
  MaxBatch,            \* bound: tool calls in one reply
  Snapshots,           \* the permission snapshots a session may start with
  ModelCallsWithheld   \* the model calls tools although none was offered

Tool == {"Read", "Glob", "LS", "SafeBash", "ListedBash", "Bash", "Edit"}
Mutating == {"ListedBash", "Bash", "Edit"}
Request == {"undo", "plan", "question", "task", "badCommand", "command", "help"}
Outcome == {"none", "done", "error", "cancelled", "stuck", "maxIterations", "command"}

ASSUME LoopAssumption ==
  /\ MaxIterations \in Nat
  /\ MaxErrorRounds \in Nat \ {0}
  /\ MaxVerifyAttempts \in Nat
  /\ MaxRetries \in Nat \ {0}
  /\ ReadOnlyRounds \in Nat \ {0}
  /\ MaxBatch \in Nat \ {0}
  /\ Snapshots \subseteq [Tool -> {"allow", "deny", "ask"}]
  /\ ModelCallsWithheld \in BOOLEAN

VARIABLES
  pc, request, snapshot,   \* control; what the session was started with
  planMode, readOnly, offered,
  iter, retry, explore, errorRounds, verifyAttempts,
  batch, pending,          \* the tool calls of this round, those without a result
  results,                 \* the is_error values among the results of this round
  didEdit, edited,         \* an edit was called; files successfully edited
  testResult, receipt,
  undoBuffer, ckptStarted, \* files in the undo manifest; cleared this turn?
  persisted,               \* tools PersistAllowRule wrote to settings.json
  heartbeat,               \* the heartbeat goroutine is running
  sessionHooks,            \* SessionStart and SessionEnd hooks executed
  cancelled,               \* the session's context
  outcome,
  \* history: what ran beyond plan mode's tools; what changed something without
  \* having passed a gate; edits since the last test; the files this turn tried to
  \* edit, and until it has, the undo buffer it found
  ran, ungated, untested, tried, earlier

modeVars == <<planMode, readOnly, offered>>
countVars == <<iter, retry, explore, errorRounds, verifyAttempts>>
roundVars == <<batch, pending, results>>
editVars == <<didEdit, edited, undoBuffer, ckptStarted, persisted>>
endVars == <<testResult, receipt, sessionHooks, outcome>>
histVars == <<ran, ungated, untested, tried, earlier>>
fixedVars == <<request, snapshot>>
vars == <<pc, fixedVars, modeVars, countVars, roundVars, editVars, endVars,
          heartbeat, cancelled, histVars>>

\* A build that looks at the tool's name only.
ParallelToolsByName == {"Read", "Glob", "SafeBash", "ListedBash", "Bash"}

\* IsConcurrencySafe
ParallelTools == {"Read", "Glob", "SafeBash", "ListedBash"}
PlanModeTools == {"Read", "Glob", "LS"}
NavTools == {"Glob", "LS"}

NoBatch == [i \in {} |-> "Read"]
Batch == UNION {[1..n -> Tool] : n \in 1..MaxBatch}

\* iterationWeight in halves: 2 for a round that read content, 1 for a
\* navigation-only round.
Weight(b) == IF \E i \in DOMAIN b : b[i] \notin NavTools THEN 2 ELSE 1

Calls(b, tool) == \E i \in DOMAIN b : b[i] = tool

Parallel(b) == {i \in DOMAIN b : b[i] \in ParallelTools}
Serial(b) == DOMAIN b \ Parallel(b)
RunsInParallel(b) == \E i, j \in Parallel(b) : i # j

\* Serial calls run in the order of the reply, after a lone parallel one.
Turn(i) ==
  /\ i \in pending
  /\ \A j \in pending \ {i} :
       \/ i \in Parallel(batch)
       \/ j \notin Parallel(batch) /\ i < j

Init ==
  /\ pc = "start"
  /\ request \in Request
  /\ snapshot \in Snapshots
  /\ planMode = FALSE /\ readOnly = FALSE /\ offered = "all"
  /\ iter = 0 /\ retry = 0 /\ explore = 0 /\ errorRounds = 0 /\ verifyAttempts = 0
  /\ batch = NoBatch /\ pending = {} /\ results = {}
  /\ didEdit = FALSE /\ edited = {}
  /\ testResult = "" /\ receipt = "none"
  /\ undoBuffer \in SUBSET File          \* left by an earlier turn
  /\ ckptStarted = FALSE /\ persisted = {}
  /\ heartbeat = FALSE /\ sessionHooks = {} /\ cancelled = FALSE /\ outcome = "none"
  /\ ran = {} /\ ungated = {} /\ untested = FALSE /\ tried = {} /\ earlier = undoBuffer

---------------------------------------------------------------------------
(* Before the loop *)

\* "/undo" reverts what the undo buffer holds and stops without a model call.
Undo ==
  /\ pc = "start" /\ request = "undo"
  /\ undoBuffer' = {}
  /\ pc' = "ended" /\ outcome' = "done"
  /\ UNCHANGED <<fixedVars, modeVars, countVars, roundVars, didEdit, edited, ckptStarted,
                 persisted, testResult, receipt, sessionHooks, heartbeat, cancelled, histVars>>

\* Slash commands that never reach the model; SessionStart has already run.
SlashCommand ==
  /\ pc = "start" /\ request \in {"badCommand", "command", "help"}
  /\ sessionHooks' = {"SessionStart"}
  /\ pc' = "ended"
  /\ outcome' = CASE request = "badCommand" -> "error"
                  [] request = "command" -> "command"
                  [] request = "help" -> "done"
  /\ UNCHANGED <<fixedVars, modeVars, countVars, roundVars, editVars, testResult, receipt,
                 heartbeat, cancelled, histVars>>

Prepare ==
  /\ pc = "start" /\ request \in {"plan", "question", "task"}
  /\ planMode' = (request = "plan")
  /\ offered' = IF request = "plan" THEN "readOnly" ELSE "all"
  /\ readOnly' = (request \in {"plan", "question"})
  /\ sessionHooks' = {"SessionStart"}
  /\ pc' = "iterate"
  /\ UNCHANGED <<fixedVars, countVars, roundVars, editVars, testResult, receipt, outcome,
                 heartbeat, cancelled, histVars>>

---------------------------------------------------------------------------
(* Asking the model *)

\* The read-only collapse as a build with no such guard would run it.
NextIterationNoCollapse ==
  /\ pc = "iterate" /\ iter < MaxIterations
  /\ retry' = 0 /\ heartbeat' = TRUE
  /\ pc' = "call"
  /\ UNCHANGED <<fixedVars, modeVars, iter, explore, errorRounds, verifyAttempts, roundVars,
                 editVars, endVars, cancelled, histVars>>

\* Top of the loop: a question that has explored enough loses its tools, once.
NextIteration ==
  /\ pc = "iterate" /\ iter < MaxIterations
  /\ IF readOnly /\ explore >= 2 * ReadOnlyRounds
       THEN offered' = "none" /\ readOnly' = FALSE
       ELSE UNCHANGED <<offered, readOnly>>
  /\ retry' = 0 /\ heartbeat' = TRUE
  /\ pc' = "call"
  /\ UNCHANGED <<fixedVars, planMode, iter, explore, errorRounds, verifyAttempts, roundVars,
                 editVars, endVars, cancelled, histVars>>

OutOfIterations ==
  /\ pc = "iterate" /\ iter >= MaxIterations
  /\ sessionHooks' = sessionHooks \cup {"SessionEnd"}
  /\ pc' = "ended" /\ outcome' = "maxIterations"
  /\ UNCHANGED <<fixedVars, modeVars, countVars, roundVars, editVars, testResult, receipt,
                 heartbeat, cancelled, histVars>>

\* A build that does not count its attempts.
CallFailsForEver ==
  /\ pc = "call"
  /\ pc' = "retryWait"
  /\ UNCHANGED <<fixedVars, modeVars, countVars, roundVars, editVars, endVars, heartbeat,
                 cancelled, histVars>>

\* StreamMessage failed: wait two seconds and retry, or give up.
CallFails ==
  /\ pc = "call"
  /\ IF retry + 1 < MaxRetries
       THEN /\ retry' = retry + 1 /\ pc' = "retryWait"
            /\ UNCHANGED <<heartbeat, outcome>>
       ELSE /\ pc' = "ended" /\ outcome' = "error" /\ heartbeat' = FALSE
            /\ UNCHANGED retry
  /\ UNCHANGED <<fixedVars, modeVars, iter, explore, errorRounds, verifyAttempts, roundVars,
                 editVars, testResult, receipt, sessionHooks, cancelled, histVars>>

RetryTimer ==
  /\ pc = "retryWait"
  /\ pc' = "call"
  /\ UNCHANGED <<fixedVars, modeVars, countVars, roundVars, editVars, endVars, heartbeat,
                 cancelled, histVars>>

\* RetryCancelled leaving the heartbeat behind.
RetryCancelledNoStop ==
  /\ pc = "retryWait" /\ cancelled
  /\ pc' = "ended" /\ outcome' = "cancelled"
  /\ UNCHANGED <<fixedVars, modeVars, countVars, roundVars, editVars, testResult, receipt,
                 sessionHooks, heartbeat, cancelled, histVars>>

RetryCancelled ==
  /\ pc = "retryWait" /\ cancelled
  /\ heartbeat' = FALSE
  /\ pc' = "ended" /\ outcome' = "cancelled"
  /\ UNCHANGED <<fixedVars, modeVars, countVars, roundVars, editVars, testResult, receipt,
                 sessionHooks, cancelled, histVars>>

\* The reply has been collected and the heartbeat joined: it is text only.  A
\* cancelled stream just ends, which reads the same.
AnswerText ==
  /\ pc = "call"
  /\ heartbeat' = FALSE
  /\ pc' = "finish"
  /\ UNCHANGED <<fixedVars, modeVars, countVars, roundVars, editVars, endVars, cancelled,
                 histVars>>

\* The reply holds tool calls.  A backend may parse a call to a tool that was
\* withheld; after the collapse the history shows no tool call any more and the
\* model answers in text (unless ModelCallsWithheld).
CallTools(b) ==
  /\ pc = "call"
  /\ offered # "none" \/ ModelCallsWithheld
  /\ heartbeat' = FALSE
  /\ explore' = explore + Weight(b)
  /\ didEdit' = (didEdit \/ Calls(b, "Edit"))
  /\ batch' = b /\ pending' = DOMAIN b /\ results' = {}
  /\ pc' = IF RunsInParallel(b) THEN "parallel" ELSE "serial"
  /\ UNCHANGED <<fixedVars, modeVars, iter, retry, errorRounds, verifyAttempts, edited,
                 undoBuffer, ckptStarted, persisted, endVars, cancelled, histVars>>

---------------------------------------------------------------------------
(* Executing tools *)

\* Several parallel calls: goroutines execute them at once, past no gate.
RunParallel ==
  /\ pc = "parallel"
  /\ LET started == {batch[i] : i \in Parallel(batch)} \ PlanModeTools
     IN  ran' = ran \cup started /\ ungated' = ungated \cup (started \cap Mutating)
  /\ results' \in SUBSET BOOLEAN \ {{}}
  /\ pending' = Serial(batch)
  /\ pc' = "serial"
  /\ UNCHANGED <<fixedVars, modeVars, countVars, batch, editVars, endVars, heartbeat,
                 cancelled, untested, tried, earlier>>

\* permissions.Decide and CheckPermission: an explicit rule of the snapshot
\* wins, otherwise the legacy check decides (it lets navigation through always,
\* and the others depending on their input).
Legacy(tool) == IF tool \in NavTools THEN {TRUE} ELSE BOOLEAN
Granted(tool) ==
  CASE snapshot[tool] = "deny" -> {FALSE}
    [] snapshot[tool] = "allow" -> {TRUE}
    [] snapshot[tool] = "ask" -> Legacy(tool)

\* The plan mode gate forgotten: only the permission rules are consulted.
PlanModeBlocksNothing(tool) == planMode /\ tool \notin Tool

PlanModeBlocks(tool) == planMode /\ tool \notin PlanModeTools

\* A granted "ask" becomes an allow rule of later sessions, plan mode or not.
Remember(tool, granted) ==
  persisted' = IF snapshot[tool] = "ask" /\ granted THEN persisted \cup {tool} ELSE persisted

\* The call is refused: the model gets an error result.
BlockSerial(i) ==
  /\ pc = "serial" /\ Turn(i)
  /\ \E granted \in Granted(batch[i]) :
       /\ ~granted \/ PlanModeBlocks(batch[i])
       /\ Remember(batch[i], granted)
  /\ results' = results \cup {TRUE}
  /\ pending' = pending \ {i}
  /\ UNCHANGED <<pc, fixedVars, modeVars, countVars, batch, didEdit, edited, undoBuffer,
                 ckptStarted, endVars, heartbeat, cancelled, histVars>>

\* A build that never clears the buffer.
CheckpointedForEver(file) == undoBuffer \cup {file}

\* The turn's first edit starts a new generation of the undo buffer.
Checkpointed(file) == (IF ckptStarted THEN undoBuffer ELSE {}) \cup {file}

\* Write and Edit: back the file up, then try the edit (the lint gate and a
\* missing old_string are errors).
EditFile(file, isError) ==
  /\ undoBuffer' = Checkpointed(file)
  /\ tried' = tried \cup {file} /\ earlier' = {}
  /\ ckptStarted' = TRUE
  /\ edited' = IF isError THEN edited ELSE edited \cup {file}
  /\ untested' = (untested \/ ~isError)

RunSerial(i) ==
  /\ pc = "serial" /\ Turn(i)
  /\ TRUE \in Granted(batch[i]) /\ ~PlanModeBlocks(batch[i])
  /\ Remember(batch[i], TRUE)
  /\ \E isError \in BOOLEAN :
       /\ results' = results \cup {isError}
       /\ IF batch[i] = "Edit"
            THEN \E file \in File : EditFile(file, isError)
            ELSE UNCHANGED <<edited, undoBuffer, ckptStarted, untested, tried, earlier>>
  /\ ran' = ran \cup ({batch[i]} \ PlanModeTools)
  /\ pending' = pending \ {i}
  /\ UNCHANGED <<pc, fixedVars, modeVars, countVars, batch, didEdit, endVars, heartbeat,
                 cancelled, ungated>>

\* All calls have results: the reflection guard, then the next iteration.
EndRound ==
  /\ pc = "serial" /\ pending = {}
  /\ batch' = NoBatch /\ results' = {} /\ UNCHANGED pending
  /\ errorRounds' = IF results = {TRUE} THEN errorRounds + 1 ELSE 0
  /\ IF errorRounds' >= MaxErrorRounds
       THEN /\ sessionHooks' = sessionHooks \cup {"SessionEnd"}
            /\ pc' = "ended" /\ outcome' = "stuck"
            /\ UNCHANGED iter
       ELSE /\ iter' = iter + 1 /\ pc' = "iterate"
            /\ UNCHANGED <<sessionHooks, outcome>>
  /\ UNCHANGED <<fixedVars, modeVars, retry, explore, verifyAttempts, editVars, testResult,
                 receipt, heartbeat, cancelled, histVars>>

---------------------------------------------------------------------------
(* A reply without tool calls *)

VerifyDue == didEdit /\ verifyAttempts < MaxVerifyAttempts

\* Auto-verify failed: its output goes to the model, one more iteration.
VerifyFails ==
  /\ pc = "finish" /\ VerifyDue
  /\ testResult' = "failed"
  /\ verifyAttempts' = verifyAttempts + 1
  /\ iter' = iter + 1 /\ pc' = "iterate"
  /\ ran' = ran \cup {"Tests"} /\ untested' = FALSE
  /\ UNCHANGED <<fixedVars, modeVars, retry, explore, errorRounds, roundVars, editVars,
                 receipt, sessionHooks, outcome, heartbeat, cancelled, ungated, tried, earlier>>

ReceiptStatus(result) == IF result = "" THEN "not-run" ELSE result

\* A build that writes receipts for plans only.
WriteReceiptForPlans(result) ==
  IF planMode THEN receipt' = ReceiptStatus(result) ELSE receipt' = "none"

\* The receipt is a file; a write that fails is logged and the session goes on.
WriteReceipt(result) ==
  IF didEdit \/ planMode THEN receipt' \in {ReceiptStatus(result), "unwritten"}
                        ELSE receipt' = "none"

\* The tests pass, or there is no runner, or no verification is due (any more).
Complete ==
  /\ pc = "finish"
  /\ \/ /\ VerifyDue
        /\ testResult' = "passed"
        /\ ran' = ran \cup {"Tests"} /\ untested' = FALSE
        /\ UNCHANGED <<ungated, tried, earlier>>
     \/ UNCHANGED <<testResult, histVars>>
  /\ WriteReceipt(testResult')
  /\ pc' = "ended" /\ outcome' = "done"
  /\ UNCHANGED <<fixedVars, modeVars, countVars, roundVars, editVars, sessionHooks, heartbeat,
                 cancelled>>

\* handleAgentCancel, or the shutdown of the server.
Cancel ==
  /\ pc \notin {"start", "ended"} /\ ~cancelled
  /\ cancelled' = TRUE
  /\ UNCHANGED <<pc, fixedVars, modeVars, countVars, roundVars, editVars, endVars, heartbeat,
                 histVars>>

RunLoop ==
  \/ Undo \/ SlashCommand \/ Prepare
  \/ NextIteration \/ OutOfIterations
  \/ CallFails \/ RetryTimer \/ RetryCancelled
  \/ AnswerText
  \/ \E b \in Batch : CallTools(b)
  \/ RunParallel
  \/ \E i \in 1..MaxBatch : BlockSerial(i) \/ RunSerial(i)
  \/ EndRound
  \/ VerifyFails \/ Complete

Next == RunLoop \/ Cancel

Spec == Init /\ [][Next]_vars

\* Providers answer or fail, tools and test runs return (each has a timeout),
\* and the two-second timer fires: RunLoop never waits for ever.
FairSpec == Spec /\ WF_vars(RunLoop)

---------------------------------------------------------------------------
(* Properties *)

Control == {"start", "iterate", "call", "retryWait", "parallel", "serial", "finish", "ended"}

ControlTypes ==
  /\ pc \in Control /\ request \in Request /\ snapshot \in Snapshots
  /\ planMode \in BOOLEAN /\ readOnly \in BOOLEAN /\ offered \in {"all", "readOnly", "none"}
  /\ cancelled \in BOOLEAN /\ heartbeat \in BOOLEAN /\ outcome \in Outcome
  /\ (outcome # "none") <=> (pc = "ended")

CounterTypes ==
  /\ iter \in 0..MaxIterations /\ retry \in 0..(MaxRetries - 1)
  /\ explore \in 0..(2 * MaxIterations)
  /\ errorRounds \in 0..MaxErrorRounds
  /\ verifyAttempts \in 0..MaxVerifyAttempts

EffectTypes ==
  /\ batch \in Batch \cup {NoBatch} /\ pending \subseteq DOMAIN batch /\ results \subseteq BOOLEAN
  /\ didEdit \in BOOLEAN /\ edited \subseteq File
  /\ testResult \in {"", "passed", "failed"}
  /\ receipt \in {"none", "passed", "failed", "not-run", "unwritten"}
  /\ undoBuffer \subseteq File /\ ckptStarted \in BOOLEAN /\ persisted \subseteq Tool
  /\ sessionHooks \subseteq {"SessionStart", "SessionEnd"}
  /\ ran \subseteq Tool \cup {"Tests"} /\ ungated \subseteq ran /\ untested \in BOOLEAN
  /\ tried \subseteq File /\ earlier \subseteq File

\* The counters stay within their limits, the pending calls belong to the batch,
\* and the outcome is known exactly when the session has ended.
TypeOK == ControlTypes /\ CounterTypes /\ EffectTypes

\* Whatever a reply asks for, in whatever order and round: what changes files or
\* runs commands has passed the gates of the serial loop (so not in plan mode and
\* not against a deny rule), except for one kind of call: the parallel path lets
\* by the commands that only look like reading ones.  No edit, no other command
\* and no other tool gets past the gates, and alone in its reply not even such a
\* command does.
MutationsAuthorised ==
  /\ \A tool \in (ran \ ungated) \cap Mutating : ~planMode /\ snapshot[tool] # "deny"
  /\ ungated \subseteq {"ListedBash"}

\* eventCh is closed when RunLoop returns: no heartbeat goroutine may be left
\* to send on it, on any of the exits (startHeartbeat's comment).
HeartbeatJoined == pc = "ended" => ~heartbeat

\* What "/undo" takes back.  Until this turn tries an edit, all of the last turn
\* that edited; from its first attempt on exactly the files this turn tried to
\* edit, so every file it has changed and nothing of an earlier turn.
UndoCoversTurn ==
  /\ edited \subseteq undoBuffer
  /\ tried # {} => undoBuffer = tried
  /\ tried = {} /\ request # "undo" => undoBuffer = earlier

\* Work that changed files completes with a receipt (unless the disk refuses it),
\* and one that says "passed" was written with no edit after the last test run
\* (docs/agent-operating-model.md, no. 3).
CompletionHasReceipt ==
  outcome = "done" /\ request # "undo" =>
    /\ edited # {} => receipt # "none"
    /\ receipt = "passed" => ~untested

\* The read-only guard does what it is for: a question or a plan never ends in
\* "Max iterations reached" with no answer, when the exploration budget (half
\* rounds for navigation) and the verify attempts fit in the iterations.
QuestionsAreAnswered ==
  /\ request \in {"plan", "question"}
  /\ ~ModelCallsWithheld
  /\ 2 * ReadOnlyRounds + MaxVerifyAttempts < MaxIterations
  => outcome # "maxIterations"

\* Every session ends, so that its slot is released and a drain gets done.
SessionEnds == <>(pc = "ended")

\* Plan mode "must not edit files or run commands"
\* (docs/agent-operating-model.md:43): not even the ones that look harmless.
PlanModeRunsNothing == planMode => ran = {}

---------------------------------------------------------------------------
(* The inductive invariant behind the safety properties *)

InLoop == {"iterate", "call", "retryWait", "parallel", "serial", "finish"}
Asking == {"call", "retryWait"}
Executing == {"parallel", "serial"}

\* Within an iteration one more is left, and a round explores two halves at most.
Limits ==
  /\ pc \in InLoop \ {"iterate"} => iter < MaxIterations
  /\ explore <= 2 * iter + (IF pc \in Executing \cup {"ended"} THEN 2 ELSE 0)
  /\ pc # "ended" => errorRounds < MaxErrorRounds

\* Nothing has happened before the loop, and planMode is what the request says.
Fresh ==
  /\ pc = "start" => iter = 0 /\ explore = 0 /\ verifyAttempts = 0 /\ ran = {} /\ tried = {} /\ ~didEdit
  /\ pc \in InLoop => request \in {"plan", "question", "task"} /\ planMode = (request = "plan")

HeartbeatWhileAsking == heartbeat => pc \in Asking

\* The exploration budget: every round spends at least one half of it, and the
\* collapse comes before the next call once it is spent.
Budget ==
  request \in {"plan", "question"} /\ ~ModelCallsWithheld /\ pc \in InLoop =>
    /\ iter <= 2 * ReadOnlyRounds + verifyAttempts
    /\ readOnly \/ offered = "none"
    /\ readOnly => iter <= explore + verifyAttempts
    /\ pc \in Executing => /\ readOnly
                           /\ iter < explore + verifyAttempts
                           /\ iter < 2 * ReadOnlyRounds + verifyAttempts
    /\ pc \in Asking \cup {"finish"} /\ readOnly => explore < 2 * ReadOnlyRounds
    /\ offered = "none" => ~readOnly

\* Edits are known as such before they run, backed up, and tested if "passed".
Edits ==
  /\ pc \in Executing /\ Calls(batch, "Edit") => didEdit
  /\ edited # {} => didEdit
  /\ edited \subseteq tried /\ ((tried # {}) <=> ckptStarted)
  /\ untested => didEdit
  /\ testResult = "passed" => pc = "ended" /\ ~untested
  /\ pc # "ended" => receipt = "none"

LoopInv ==
  /\ TypeOK /\ Limits /\ Fresh /\ HeartbeatWhileAsking /\ Budget /\ Edits
  /\ MutationsAuthorised /\ UndoCoversTurn /\ CompletionHasReceipt /\ QuestionsAreAnswered
===========================================================================
