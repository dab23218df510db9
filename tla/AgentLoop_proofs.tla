-------------------------- MODULE AgentLoop_proofs --------------------------
(***************************************************************************)
(* Proofs about RunLoop.                                                   *)
(*                                                                         *)
(* AgentLoop, for any limits, files, permission snapshots and batch sizes: *)
(* the safety properties follow from the inductive LoopInv.                *)
(*                                                                         *)
(* Conversation, for any limits and any length of the history: what the    *)
(* loops of NormalizeMessages return is proved by induction on the         *)
(* messages they have read, and HistoryInv is inductive over it.  The two  *)
(* modules share no variable.                                              *)
(***************************************************************************)
EXTENDS AgentLoop, Conversation, FiniteSetTheorems, WellFoundedInduction, SequenceTheorems, TLAPS

USE DEF fixedVars, modeVars, countVars, roundVars, editVars, endVars, histVars, InLoop, Asking,
        Executing, HeartbeatWhileAsking

\* A round costs the exploration budget one or two halves.
LEMMA WeightIsOneOrTwo ==
  ASSUME NEW b
  PROVE  Weight(b) \in 1..2
BY DEF Weight

\* The calls of a batch are tools.
LEMMA BatchedCallsAreTools ==
  ASSUME NEW b \in Batch \cup {NoBatch}, NEW i \in DOMAIN b
  PROVE  b[i] \in Tool
BY DEF Batch, NoBatch

\* A session starts in the invariant, whatever the undo buffer holds.
LEMMA InitEstablishes == Init => LoopInv
<1> SUFFICES ASSUME Init PROVE LoopInv
  OBVIOUS
<1> USE DEF Init
<1>1. TypeOK
  <2>1. /\ pc \in Control /\ request \in Request /\ snapshot \in Snapshots
        /\ offered \in {"all", "readOnly", "none"} /\ outcome \in Outcome
    BY DEF Control, Outcome
  <2>2. CounterTypes
    <3>1. MaxIterations \in Nat /\ MaxRetries \in Nat \ {0} /\ MaxErrorRounds \in Nat /\ MaxVerifyAttempts \in Nat
      BY LoopAssumption DEF LoopAssumption
    <3>2. iter = 0 /\ retry = 0 /\ explore = 0 /\ errorRounds = 0 /\ verifyAttempts = 0
      OBVIOUS
    <3> HIDE DEF Init
    <3> QED
      BY <3>1, <3>2 DEF CounterTypes
  <2>3. batch \in Batch \cup {NoBatch} /\ pending \subseteq DOMAIN batch
    BY DEF NoBatch
  <2> QED
    BY <2>1, <2>2, <2>3 DEF TypeOK, ControlTypes, EffectTypes
<1>2. Limits /\ Fresh /\ HeartbeatWhileAsking /\ Budget /\ Edits
  <2>1. Fresh /\ HeartbeatWhileAsking
    BY DEF Fresh
  <2>2. Limits
    <3>1. MaxErrorRounds \in Nat \ {0}
      BY LoopAssumption DEF LoopAssumption
    <3>2. pc = "start" /\ explore = 0 /\ iter = 0 /\ errorRounds = 0
      OBVIOUS
    <3> HIDE DEF Init
    <3> QED
      BY <3>1, <3>2 DEF Limits
  <2>3. Budget
    BY DEF Budget
  <2>4. Edits
    BY DEF Edits
  <2> QED
    BY <2>1, <2>2, <2>3, <2>4
<1> QED
  BY <1>1, <1>2 DEF LoopInv, MutationsAuthorised, UndoCoversTurn, CompletionHasReceipt,
       QuestionsAreAnswered, Request

\* What RunLoop does before its loop.
LEMMA BeginningPreserves ==
  ASSUME LoopInv, Undo \/ SlashCommand \/ Prepare
  PROVE  LoopInv'
<1> USE LoopAssumption DEF LoopAssumption, LoopInv, TypeOK
<1>1. CASE Undo
  <2>1. ControlTypes'
    BY <1>1 DEF Undo, ControlTypes, Control, Outcome
  <2>2. CounterTypes'
    BY <1>1 DEF Undo, CounterTypes
  <2>3. EffectTypes'
    BY <1>1 DEF Undo, EffectTypes
  <2>4. Limits'
    BY <1>1 DEF Undo, Limits, CounterTypes
  <2>5. Fresh'
    BY <1>1 DEF Undo, Fresh
  <2>6. HeartbeatWhileAsking'
    BY <1>1 DEF Undo
  <2>7. Budget'
    BY <1>1 DEF Undo, Budget
  <2>8. Edits'
    BY <1>1 DEF Undo, Edits
  <2>9. MutationsAuthorised'
    BY <1>1 DEF Undo, MutationsAuthorised
  <2>10. UndoCoversTurn'
    BY <1>1 DEF Undo, UndoCoversTurn, Fresh, Edits
  <2>11. CompletionHasReceipt'
    BY <1>1 DEF Undo, CompletionHasReceipt
  <2>12. QuestionsAreAnswered'
    BY <1>1 DEF Undo, QuestionsAreAnswered
  <2> QED
    BY <2>1, <2>2, <2>3, <2>4, <2>5, <2>6, <2>7, <2>8, <2>9, <2>10, <2>11, <2>12, Zenon
<1>2. CASE SlashCommand
  <2>1. ControlTypes'
    BY <1>2 DEF SlashCommand, ControlTypes, Control, Outcome
  <2>2. CounterTypes'
    BY <1>2 DEF SlashCommand, CounterTypes
  <2>3. EffectTypes'
    BY <1>2 DEF SlashCommand, EffectTypes
  <2>4. Limits'
    BY <1>2 DEF SlashCommand, Limits, CounterTypes
  <2>5. Fresh'
    BY <1>2 DEF SlashCommand, Fresh
  <2>6. HeartbeatWhileAsking'
    BY <1>2 DEF SlashCommand
  <2>7. Budget'
    BY <1>2 DEF SlashCommand, Budget
  <2>8. Edits'
    BY <1>2 DEF SlashCommand, Edits
  <2>9. MutationsAuthorised'
    BY <1>2 DEF SlashCommand, MutationsAuthorised
  <2>10. UndoCoversTurn'
    BY <1>2 DEF SlashCommand, UndoCoversTurn
  <2>11. CompletionHasReceipt'
    BY <1>2 DEF SlashCommand, CompletionHasReceipt, Edits, Fresh
  <2>12. QuestionsAreAnswered'
    BY <1>2 DEF SlashCommand, QuestionsAreAnswered
  <2> QED
    BY <2>1, <2>2, <2>3, <2>4, <2>5, <2>6, <2>7, <2>8, <2>9, <2>10, <2>11, <2>12, Zenon
<1>3. CASE Prepare
  <2>1. /\ planMode' = (request = "plan") /\ UNCHANGED <<request, iter, explore, verifyAttempts>>
        /\ offered' \in {"all", "readOnly"} /\ pc' = "iterate"
        /\ iter = 0 /\ explore = 0 /\ verifyAttempts = 0
    BY <1>3 DEF Prepare, Fresh
  <2>2. request \in {"plan", "question"} => readOnly' = TRUE
    BY <1>3 DEF Prepare
  <2>3. ControlTypes'
    BY <1>3 DEF Prepare, ControlTypes, Control
  <2>4. CounterTypes'
    BY <1>3 DEF Prepare, CounterTypes
  <2>5. EffectTypes'
    BY <1>3 DEF Prepare, EffectTypes
  <2>6. Limits'
    BY <1>3 DEF Prepare, Limits
  <2>7. Fresh'
    BY <1>3 DEF Prepare, Fresh
  <2>8. HeartbeatWhileAsking'
    BY <1>3 DEF Prepare
  <2>9. Budget'
    BY <2>1, <2>2 DEF Budget
  <2>10. Edits'
    BY <1>3 DEF Prepare, Edits
  <2>11. MutationsAuthorised'
    BY <1>3 DEF Prepare, MutationsAuthorised, Fresh
  <2>12. UndoCoversTurn'
    BY <1>3 DEF Prepare, UndoCoversTurn
  <2>13. CompletionHasReceipt'
    BY <1>3 DEF Prepare, CompletionHasReceipt
  <2>14. QuestionsAreAnswered'
    BY <1>3 DEF Prepare, QuestionsAreAnswered
  <2> QED
    BY <2>3, <2>4, <2>5, <2>6, <2>7, <2>8, <2>9, <2>10, <2>11, <2>12, <2>13, <2>14, Zenon
<1> QED
  BY <1>1, <1>2, <1>3

\* The top of an iteration and the call of the model, without tool calls.
LEMMA AskingPreserves ==
  ASSUME LoopInv, NextIteration \/ OutOfIterations \/ CallFails \/ RetryTimer
         \/ RetryCancelled \/ AnswerText
  PROVE  LoopInv'
<1> USE LoopAssumption DEF LoopAssumption, LoopInv, TypeOK
<1>1. CASE NextIteration
  <2>1. ControlTypes'
    BY <1>1 DEF NextIteration, ControlTypes, Control
  <2>2. CounterTypes'
    BY <1>1 DEF NextIteration, CounterTypes
  <2>3. EffectTypes'
    BY <1>1 DEF NextIteration, EffectTypes
  <2>4. Limits'
    BY <1>1 DEF NextIteration, Limits
  <2>5. Fresh'
    BY <1>1 DEF NextIteration, Fresh
  <2>6. HeartbeatWhileAsking'
    BY <1>1 DEF NextIteration
  <2>7. Budget'
    BY <1>1 DEF NextIteration, Budget, CounterTypes
  <2>8. Edits'
    BY <1>1 DEF NextIteration, Edits
  <2>9. MutationsAuthorised'
    BY <1>1 DEF NextIteration, MutationsAuthorised
  <2>10. UndoCoversTurn'
    BY <1>1 DEF NextIteration, UndoCoversTurn
  <2>11. CompletionHasReceipt'
    BY <1>1 DEF NextIteration, CompletionHasReceipt
  <2>12. QuestionsAreAnswered'
    BY <1>1 DEF NextIteration, QuestionsAreAnswered
  <2> QED
    BY <2>1, <2>2, <2>3, <2>4, <2>5, <2>6, <2>7, <2>8, <2>9, <2>10, <2>11, <2>12, Zenon
<1>2. CASE OutOfIterations
  <2>1. ControlTypes'
    BY <1>2 DEF OutOfIterations, ControlTypes, Control, Outcome
  <2>2. CounterTypes'
    BY <1>2 DEF OutOfIterations, CounterTypes
  <2>3. EffectTypes'
    BY <1>2 DEF OutOfIterations, EffectTypes
  <2>4. Limits'
    BY <1>2 DEF OutOfIterations, Limits, CounterTypes
  <2>5. Fresh'
    BY <1>2 DEF OutOfIterations, Fresh
  <2>6. HeartbeatWhileAsking'
    BY <1>2 DEF OutOfIterations
  <2>7. Budget'
    BY <1>2 DEF OutOfIterations, Budget
  <2>8. Edits'
    BY <1>2 DEF OutOfIterations, Edits
  <2>9. MutationsAuthorised'
    BY <1>2 DEF OutOfIterations, MutationsAuthorised
  <2>10. UndoCoversTurn'
    BY <1>2 DEF OutOfIterations, UndoCoversTurn
  <2>11. CompletionHasReceipt'
    BY <1>2 DEF OutOfIterations, CompletionHasReceipt
  <2>12. QuestionsAreAnswered'
    BY <1>2 DEF OutOfIterations, QuestionsAreAnswered, CounterTypes, Budget
  <2> QED
    BY <2>1, <2>2, <2>3, <2>4, <2>5, <2>6, <2>7, <2>8, <2>9, <2>10, <2>11, <2>12, Zenon
<1>3. CASE CallFails
  <2>1. ControlTypes'
    BY <1>3 DEF CallFails, ControlTypes, Control, Outcome
  <2>2. CounterTypes'
    BY <1>3 DEF CallFails, CounterTypes
  <2>3. EffectTypes'
    BY <1>3 DEF CallFails, EffectTypes
  <2>4. Limits'
    BY <1>3 DEF CallFails, Limits, CounterTypes
  <2>5. Fresh'
    BY <1>3 DEF CallFails, Fresh
  <2>6. HeartbeatWhileAsking'
    BY <1>3 DEF CallFails
  <2>7. Budget'
    BY <1>3 DEF CallFails, Budget
  <2>8. Edits'
    BY <1>3 DEF CallFails, Edits
  <2>9. MutationsAuthorised'
    BY <1>3 DEF CallFails, MutationsAuthorised
  <2>10. UndoCoversTurn'
    BY <1>3 DEF CallFails, UndoCoversTurn
  <2>11. CompletionHasReceipt'
    BY <1>3 DEF CallFails, CompletionHasReceipt
  <2>12. QuestionsAreAnswered'
    BY <1>3 DEF CallFails, QuestionsAreAnswered
  <2> QED
    BY <2>1, <2>2, <2>3, <2>4, <2>5, <2>6, <2>7, <2>8, <2>9, <2>10, <2>11, <2>12, Zenon
<1>4. CASE RetryTimer
  <2>1. ControlTypes'
    BY <1>4 DEF RetryTimer, ControlTypes, Control
  <2>2. CounterTypes'
    BY <1>4 DEF RetryTimer, CounterTypes
  <2>3. EffectTypes'
    BY <1>4 DEF RetryTimer, EffectTypes
  <2>4. Limits'
    BY <1>4 DEF RetryTimer, Limits
  <2>5. Fresh'
    BY <1>4 DEF RetryTimer, Fresh
  <2>6. HeartbeatWhileAsking'
    BY <1>4 DEF RetryTimer
  <2>7. Budget'
    BY <1>4 DEF RetryTimer, Budget
  <2>8. Edits'
    BY <1>4 DEF RetryTimer, Edits
  <2>9. MutationsAuthorised'
    BY <1>4 DEF RetryTimer, MutationsAuthorised
  <2>10. UndoCoversTurn'
    BY <1>4 DEF RetryTimer, UndoCoversTurn
  <2>11. CompletionHasReceipt'
    BY <1>4 DEF RetryTimer, CompletionHasReceipt
  <2>12. QuestionsAreAnswered'
    BY <1>4 DEF RetryTimer, QuestionsAreAnswered
  <2> QED
    BY <2>1, <2>2, <2>3, <2>4, <2>5, <2>6, <2>7, <2>8, <2>9, <2>10, <2>11, <2>12, Zenon
<1>5. CASE RetryCancelled
  <2>1. ControlTypes'
    BY <1>5 DEF RetryCancelled, ControlTypes, Control, Outcome
  <2>2. CounterTypes'
    BY <1>5 DEF RetryCancelled, CounterTypes
  <2>3. EffectTypes'
    BY <1>5 DEF RetryCancelled, EffectTypes
  <2>4. Limits'
    BY <1>5 DEF RetryCancelled, Limits, CounterTypes
  <2>5. Fresh'
    BY <1>5 DEF RetryCancelled, Fresh
  <2>6. HeartbeatWhileAsking'
    BY <1>5 DEF RetryCancelled
  <2>7. Budget'
    BY <1>5 DEF RetryCancelled, Budget
  <2>8. Edits'
    BY <1>5 DEF RetryCancelled, Edits
  <2>9. MutationsAuthorised'
    BY <1>5 DEF RetryCancelled, MutationsAuthorised
  <2>10. UndoCoversTurn'
    BY <1>5 DEF RetryCancelled, UndoCoversTurn
  <2>11. CompletionHasReceipt'
    BY <1>5 DEF RetryCancelled, CompletionHasReceipt
  <2>12. QuestionsAreAnswered'
    BY <1>5 DEF RetryCancelled, QuestionsAreAnswered
  <2> QED
    BY <2>1, <2>2, <2>3, <2>4, <2>5, <2>6, <2>7, <2>8, <2>9, <2>10, <2>11, <2>12, Zenon
<1>6. CASE AnswerText
  <2>1. ControlTypes'
    BY <1>6 DEF AnswerText, ControlTypes, Control
  <2>2. CounterTypes'
    BY <1>6 DEF AnswerText, CounterTypes
  <2>3. EffectTypes'
    BY <1>6 DEF AnswerText, EffectTypes
  <2>4. Limits'
    BY <1>6 DEF AnswerText, Limits
  <2>5. Fresh'
    BY <1>6 DEF AnswerText, Fresh
  <2>6. HeartbeatWhileAsking'
    BY <1>6 DEF AnswerText
  <2>7. Budget'
    BY <1>6 DEF AnswerText, Budget
  <2>8. Edits'
    BY <1>6 DEF AnswerText, Edits
  <2>9. MutationsAuthorised'
    BY <1>6 DEF AnswerText, MutationsAuthorised
  <2>10. UndoCoversTurn'
    BY <1>6 DEF AnswerText, UndoCoversTurn
  <2>11. CompletionHasReceipt'
    BY <1>6 DEF AnswerText, CompletionHasReceipt
  <2>12. QuestionsAreAnswered'
    BY <1>6 DEF AnswerText, QuestionsAreAnswered
  <2> QED
    BY <2>1, <2>2, <2>3, <2>4, <2>5, <2>6, <2>7, <2>8, <2>9, <2>10, <2>11, <2>12, Zenon
<1> QED
  BY <1>1, <1>2, <1>3, <1>4, <1>5, <1>6

\* A reply with tool calls spends exploration budget.
LEMMA CallToolsPreserves ==
  ASSUME LoopInv, NEW b \in Batch, CallTools(b)
  PROVE  LoopInv'
<1> USE LoopAssumption DEF LoopAssumption, LoopInv, TypeOK
<1>1. CASE CallTools(b)
  <2>1. /\ UNCHANGED <<edited, tried, ckptStarted, untested, testResult, receipt>>
        /\ pc = "call" /\ pc' \in Executing /\ batch' = b /\ didEdit' = (didEdit \/ Calls(b, "Edit"))
    BY <1>1 DEF CallTools
  <2>2. (Calls(batch, "Edit")' => didEdit') /\ (didEdit => didEdit')
    BY <2>1
  <2>3. ControlTypes'
    BY <1>1, WeightIsOneOrTwo DEF CallTools, ControlTypes, Control
  <2>4. CounterTypes'
    BY <1>1, WeightIsOneOrTwo DEF CallTools, CounterTypes, Limits
  <2>5. EffectTypes'
    BY <1>1, WeightIsOneOrTwo DEF CallTools, EffectTypes
  <2>6. Limits'
    BY <1>1, WeightIsOneOrTwo DEF CallTools, Limits, CounterTypes
  <2>7. Fresh'
    BY <1>1, WeightIsOneOrTwo DEF CallTools, Fresh
  <2>8. HeartbeatWhileAsking'
    BY <1>1, WeightIsOneOrTwo DEF CallTools
  <2>9. Budget'
    BY <1>1, WeightIsOneOrTwo DEF CallTools, Budget, CounterTypes
  <2>10. Edits'
    BY <2>1, <2>2 DEF Edits
  <2>11. MutationsAuthorised'
    BY <1>1, WeightIsOneOrTwo DEF CallTools, MutationsAuthorised
  <2>12. UndoCoversTurn'
    BY <1>1, WeightIsOneOrTwo DEF CallTools, UndoCoversTurn
  <2>13. CompletionHasReceipt'
    BY <1>1, WeightIsOneOrTwo DEF CallTools, CompletionHasReceipt
  <2>14. QuestionsAreAnswered'
    BY <1>1, WeightIsOneOrTwo DEF CallTools, QuestionsAreAnswered
  <2> QED
    BY <2>3, <2>4, <2>5, <2>6, <2>7, <2>8, <2>9, <2>10, <2>11, <2>12, <2>13, <2>14, Zenon
<1> QED
  BY <1>1

\* The parallel calls, and the end of a round.
LEMMA ExecutingPreserves ==
  ASSUME LoopInv, RunParallel \/ EndRound
  PROVE  LoopInv'
<1> USE LoopAssumption DEF LoopAssumption, LoopInv, TypeOK
<1>1. CASE RunParallel
  <2>1. UNCHANGED <<didEdit, edited, testResult, receipt, undoBuffer, ckptStarted, persisted,
                    sessionHooks, untested, tried, earlier, batch, planMode, snapshot>>
    BY <1>1 DEF RunParallel
  <2> DEFINE started == {batch[i] : i \in Parallel(batch)} \ PlanModeTools
  <2>2. /\ \A i \in Parallel(batch) : i \in DOMAIN batch
        /\ started \subseteq {"SafeBash", "ListedBash"}
    BY DEF Parallel, ParallelTools, PlanModeTools
  <2>3. ran' = ran \cup started /\ ungated' = ungated \cup (started \cap Mutating)
    BY <1>1 DEF RunParallel
  <2>16. ungated \subseteq ran /\ ran \subseteq Tool \cup {"Tests"}
    BY DEF EffectTypes
  <2>17. ungated' \subseteq ran' /\ ran' \subseteq Tool \cup {"Tests"}
    <3> HIDE DEF started
    <3> QED
      BY <2>2, <2>3, <2>16 DEF Tool
  <2>4. ControlTypes'
    BY <1>1, BatchedCallsAreTools DEF RunParallel, ControlTypes, Control
  <2>5. CounterTypes'
    BY <1>1, BatchedCallsAreTools DEF RunParallel, CounterTypes
  <2>6. EffectTypes'
    BY <2>1, <2>17, <1>1, ZenonT(60) DEF RunParallel, Serial, EffectTypes
  <2>7. Limits'
    BY <1>1, BatchedCallsAreTools DEF RunParallel, Limits
  <2>8. Fresh'
    BY <1>1, BatchedCallsAreTools DEF RunParallel, Fresh
  <2>9. HeartbeatWhileAsking'
    BY <1>1, BatchedCallsAreTools DEF RunParallel
  <2>10. Budget'
    BY <1>1, BatchedCallsAreTools DEF RunParallel, Budget
  <2>11. Edits'
    BY <1>1, BatchedCallsAreTools DEF RunParallel, Edits
  <2>12. MutationsAuthorised'
    <3> HIDE DEF started
    <3>1. started \cap Mutating \subseteq {"ListedBash"}
      BY <2>2 DEF Mutating
    <3>2. (ran' \ ungated') \cap Mutating \subseteq (ran \ ungated) \cap Mutating
      BY <2>3
    <3> QED
      BY <2>1, <2>3, <3>1, <3>2 DEF MutationsAuthorised
  <2>13. UndoCoversTurn'
    BY <1>1, BatchedCallsAreTools DEF RunParallel, UndoCoversTurn
  <2>14. CompletionHasReceipt'
    BY <1>1, BatchedCallsAreTools DEF RunParallel, CompletionHasReceipt
  <2>15. QuestionsAreAnswered'
    BY <1>1, BatchedCallsAreTools DEF RunParallel, QuestionsAreAnswered
  <2> QED
    BY <2>4, <2>5, <2>6, <2>7, <2>8, <2>9, <2>10, <2>11, <2>12, <2>13, <2>14, <2>15, Zenon
<1>2. CASE EndRound
  <2>1. /\ pc = "serial"
        /\ errorRounds' = errorRounds + 1 \/ errorRounds' = 0
        /\ UNCHANGED <<explore, verifyAttempts, retry, readOnly, offered, request>>
    BY <1>2 DEF EndRound
  <2>2. /\ iter \in Nat /\ explore \in Nat /\ errorRounds \in Nat
        /\ iter < MaxIterations /\ explore <= 2 * iter + 2 /\ errorRounds < MaxErrorRounds
    BY <2>1 DEF CounterTypes, Limits
  <2>3. errorRounds' \in 0..MaxErrorRounds
    BY <2>1, <2>2
  <2>4. \/ pc' = "ended" /\ iter' = iter
        \/ pc' = "iterate" /\ iter' = iter + 1 /\ ~(errorRounds' >= MaxErrorRounds)
    BY <1>2 DEF EndRound
  <2>5. \/ pc' = "ended" /\ iter' = iter
        \/ pc' = "iterate" /\ iter' = iter + 1 /\ errorRounds' < MaxErrorRounds
    BY <2>3, <2>4
  <2>6. ControlTypes'
    BY <1>2 DEF EndRound, ControlTypes, Control, Outcome
  <2>7. CounterTypes'
    BY <2>3, <2>5, <2>1, <2>2 DEF CounterTypes
  <2>8. EffectTypes'
    BY <1>2 DEF EndRound, EffectTypes
  <2>9. Limits'
    BY <2>3, <2>5, <2>1, <2>2 DEF Limits
  <2>10. Fresh'
    BY <1>2 DEF EndRound, Fresh
  <2>11. HeartbeatWhileAsking'
    BY <1>2 DEF EndRound
  <2>12. Budget'
    BY <2>5, <2>1, <2>2 DEF CounterTypes, Budget
  <2>13. Edits'
    BY <1>2 DEF EndRound, Edits
  <2>14. MutationsAuthorised'
    BY <1>2 DEF EndRound, MutationsAuthorised
  <2>15. UndoCoversTurn'
    BY <1>2 DEF EndRound, UndoCoversTurn
  <2>16. CompletionHasReceipt'
    BY <1>2 DEF EndRound, CompletionHasReceipt
  <2>17. QuestionsAreAnswered'
    BY <1>2 DEF EndRound, QuestionsAreAnswered
  <2> QED
    BY <2>6, <2>7, <2>8, <2>9, <2>10, <2>11, <2>12, <2>13, <2>14, <2>15, <2>16, <2>17, Zenon
<1> QED
  BY <1>1, <1>2

\* One serial call, refused or executed.
LEMMA SerialPreserves ==
  ASSUME LoopInv, NEW i \in 1..MaxBatch, BlockSerial(i) \/ RunSerial(i)
  PROVE  LoopInv'
<1> USE LoopAssumption DEF LoopAssumption, LoopInv, TypeOK
<1>1. CASE BlockSerial(i)
  <2>1. ControlTypes'
    BY <1>1, BatchedCallsAreTools DEF BlockSerial, ControlTypes
  <2>2. CounterTypes'
    BY <1>1, BatchedCallsAreTools DEF BlockSerial, CounterTypes
  <2>3. EffectTypes'
    BY <1>1, BatchedCallsAreTools DEF BlockSerial, Turn, Remember, EffectTypes
  <2>4. Limits'
    BY <1>1, BatchedCallsAreTools DEF BlockSerial, Limits
  <2>5. Fresh'
    BY <1>1, BatchedCallsAreTools DEF BlockSerial, Fresh
  <2>6. HeartbeatWhileAsking'
    BY <1>1, BatchedCallsAreTools DEF BlockSerial
  <2>7. Budget'
    BY <1>1, BatchedCallsAreTools DEF BlockSerial, Budget
  <2>8. Edits'
    BY <1>1, BatchedCallsAreTools DEF BlockSerial, Edits
  <2>9. MutationsAuthorised'
    BY <1>1, BatchedCallsAreTools DEF BlockSerial, MutationsAuthorised
  <2>10. UndoCoversTurn'
    BY <1>1, BatchedCallsAreTools DEF BlockSerial, UndoCoversTurn
  <2>11. CompletionHasReceipt'
    BY <1>1, BatchedCallsAreTools DEF BlockSerial, CompletionHasReceipt
  <2>12. QuestionsAreAnswered'
    BY <1>1, BatchedCallsAreTools DEF BlockSerial, QuestionsAreAnswered
  <2> QED
    BY <2>1, <2>2, <2>3, <2>4, <2>5, <2>6, <2>7, <2>8, <2>9, <2>10, <2>11, <2>12, Zenon
<1>2. CASE RunSerial(i)
  <2>1. snapshot[batch[i]] # "deny" /\ ~(planMode /\ batch[i] \notin PlanModeTools)
    BY <1>2 DEF RunSerial, Granted, PlanModeBlocks
  <2>2. ran' = ran \cup ({batch[i]} \ PlanModeTools) /\ UNCHANGED <<planMode, snapshot, ungated>>
    BY <1>2 DEF RunSerial
  <2>3. UNCHANGED <<didEdit, batch, testResult, receipt, pc>> /\ pc = "serial" /\ i \in DOMAIN batch
    BY <1>2 DEF RunSerial, Turn, EffectTypes
  <2>4. ASSUME batch[i] = "Edit"
        PROVE  didEdit /\ ckptStarted' /\ tried' # {} /\ edited' \subseteq tried'
    BY <1>2, <2>3, <2>4 DEF RunSerial, EditFile, Edits, Calls
  <2>5. ASSUME batch[i] # "Edit" PROVE UNCHANGED <<edited, ckptStarted, untested, tried>>
    BY <1>2, <2>5 DEF RunSerial
  <2>6. /\ (edited' # {} => didEdit) /\ (untested' => didEdit)
        /\ edited' \subseteq tried' /\ ((tried' # {}) <=> ckptStarted')
    BY <2>4, <2>5 DEF Edits
  <2>7. ControlTypes'
    BY <1>2, BatchedCallsAreTools DEF RunSerial, ControlTypes
  <2>8. CounterTypes'
    BY <1>2, BatchedCallsAreTools DEF RunSerial, CounterTypes
  <2>9. EffectTypes'
    BY <1>2, BatchedCallsAreTools, ZenonT(60)
    DEF RunSerial, Turn, Remember, EditFile, Checkpointed, PlanModeBlocks, EffectTypes
  <2>10. Limits'
    BY <1>2, BatchedCallsAreTools DEF RunSerial, Limits
  <2>11. Fresh'
    BY <1>2, BatchedCallsAreTools DEF RunSerial, Fresh
  <2>12. HeartbeatWhileAsking'
    BY <1>2, BatchedCallsAreTools DEF RunSerial
  <2>13. Budget'
    BY <1>2, BatchedCallsAreTools DEF RunSerial, Budget
  <2>14. Edits'
    BY <2>3, <2>6 DEF Edits
  <2>15. MutationsAuthorised'
    BY <2>1, <2>2 DEF MutationsAuthorised
  <2>16. UndoCoversTurn'
    BY <1>2, BatchedCallsAreTools DEF RunSerial, EditFile, Checkpointed, UndoCoversTurn, Edits
  <2>17. CompletionHasReceipt'
    BY <1>2, BatchedCallsAreTools DEF RunSerial, CompletionHasReceipt, ControlTypes
  <2>18. QuestionsAreAnswered'
    BY <1>2, BatchedCallsAreTools DEF RunSerial, QuestionsAreAnswered
  <2> QED
    BY <2>7, <2>8, <2>9, <2>10, <2>11, <2>12, <2>13, <2>14, <2>15, <2>16, <2>17, <2>18, Zenon
<1> QED
  BY <1>1, <1>2

\* A reply in text: verification, receipt, end; and a cancellation at any time.
LEMMA FinishingPreserves ==
  ASSUME LoopInv, VerifyFails \/ Complete \/ Cancel
  PROVE  LoopInv'
<1> USE LoopAssumption DEF LoopAssumption, LoopInv, TypeOK
<1>1. CASE VerifyFails
  <2>1. ControlTypes'
    BY <1>1 DEF VerifyFails, ControlTypes, Control
  <2>2. CounterTypes'
    BY <1>1 DEF VerifyFails, VerifyDue, CounterTypes, Limits
  <2>3. EffectTypes'
    BY <1>1 DEF VerifyFails, EffectTypes
  <2>4. Limits'
    BY <1>1 DEF VerifyFails, Limits, CounterTypes
  <2>5. Fresh'
    BY <1>1 DEF VerifyFails, Fresh
  <2>6. HeartbeatWhileAsking'
    BY <1>1 DEF VerifyFails
  <2>7. Budget'
    BY <1>1 DEF VerifyFails, Budget, CounterTypes
  <2>8. Edits'
    BY <1>1 DEF VerifyFails, Edits
  <2>9. MutationsAuthorised'
    BY <1>1 DEF VerifyFails, MutationsAuthorised, Mutating
  <2>10. UndoCoversTurn'
    BY <1>1 DEF VerifyFails, UndoCoversTurn
  <2>11. CompletionHasReceipt'
    BY <1>1 DEF VerifyFails, CompletionHasReceipt
  <2>12. QuestionsAreAnswered'
    BY <1>1 DEF VerifyFails, QuestionsAreAnswered
  <2> QED
    BY <2>1, <2>2, <2>3, <2>4, <2>5, <2>6, <2>7, <2>8, <2>9, <2>10, <2>11, <2>12, Zenon
<1>2. CASE Complete
  <2>1. /\ UNCHANGED <<iter, explore, errorRounds, didEdit, edited, tried, ckptStarted, batch,
                        planMode, request>>
        /\ pc = "finish" /\ pc' = "ended"
    BY <1>2 DEF Complete
  <2>2. testResult # "passed"
    BY <2>1 DEF Edits
  <2>3. testResult' = "passed" => ~untested'
    BY <1>2, <2>2 DEF Complete
  <2>4. untested' => untested
    BY <1>2 DEF Complete
  <2>5. IF didEdit \/ planMode THEN receipt' \in {ReceiptStatus(testResult'), "unwritten"}
                             ELSE receipt' = "none"
    BY <1>2 DEF Complete, WriteReceipt
  <2>6. ReceiptStatus(testResult') # "none" /\ (ReceiptStatus(testResult') = "passed" => testResult' = "passed")
    BY <1>2 DEF Complete, ReceiptStatus, EffectTypes
  <2>7. ControlTypes'
    BY <1>2 DEF Complete, ControlTypes, Control, Outcome
  <2>8. CounterTypes'
    BY <1>2 DEF Complete, CounterTypes
  <2>9. EffectTypes'
    BY <1>2 DEF Complete, WriteReceipt, ReceiptStatus, EffectTypes
  <2>10. Limits'
    BY <2>1 DEF Limits, CounterTypes
  <2>11. Fresh'
    BY <1>2 DEF Complete, Fresh
  <2>12. HeartbeatWhileAsking'
    BY <1>2 DEF Complete
  <2>13. Budget'
    BY <1>2 DEF Complete, Budget
  <2>14. Edits'
    BY <2>1, <2>3, <2>4 DEF Edits
  <2>15. MutationsAuthorised'
    BY <1>2 DEF Complete, MutationsAuthorised, Mutating
  <2>16. UndoCoversTurn'
    BY <1>2 DEF Complete, UndoCoversTurn
  <2>17. CompletionHasReceipt'
    BY <2>1, <2>3, <2>5, <2>6 DEF Edits, CompletionHasReceipt
  <2>18. QuestionsAreAnswered'
    BY <1>2 DEF Complete, QuestionsAreAnswered
  <2> QED
    BY <2>7, <2>8, <2>9, <2>10, <2>11, <2>12, <2>13, <2>14, <2>15, <2>16, <2>17, <2>18, Zenon
<1>3. CASE Cancel
  <2>1. ControlTypes'
    BY <1>3 DEF Cancel, ControlTypes
  <2>2. CounterTypes'
    BY <1>3 DEF Cancel, CounterTypes
  <2>3. EffectTypes'
    BY <1>3 DEF Cancel, EffectTypes
  <2>4. Limits'
    BY <1>3 DEF Cancel, Limits
  <2>5. Fresh'
    BY <1>3 DEF Cancel, Fresh
  <2>6. HeartbeatWhileAsking'
    BY <1>3 DEF Cancel
  <2>7. Budget'
    BY <1>3 DEF Cancel, Budget
  <2>8. Edits'
    BY <1>3 DEF Cancel, Edits
  <2>9. MutationsAuthorised'
    BY <1>3 DEF Cancel, MutationsAuthorised
  <2>10. UndoCoversTurn'
    BY <1>3 DEF Cancel, UndoCoversTurn
  <2>11. CompletionHasReceipt'
    BY <1>3 DEF Cancel, CompletionHasReceipt
  <2>12. QuestionsAreAnswered'
    BY <1>3 DEF Cancel, QuestionsAreAnswered
  <2> QED
    BY <2>1, <2>2, <2>3, <2>4, <2>5, <2>6, <2>7, <2>8, <2>9, <2>10, <2>11, <2>12, Zenon
<1> QED
  BY <1>1, <1>2, <1>3

\* Every step, and every stuttering step, stays in the invariant.
LEMMA StepPreserves == LoopInv /\ [Next]_vars => LoopInv'
<1> SUFFICES ASSUME LoopInv, [Next]_vars PROVE LoopInv'
  OBVIOUS
<1>1. CASE UNCHANGED vars
  <2> USE <1>1 DEF LoopInv, vars, TypeOK
  <2>1. ControlTypes' /\ CounterTypes'
    BY DEF ControlTypes, CounterTypes
  <2>2. EffectTypes'
    BY DEF EffectTypes
  <2>3. Limits' /\ Fresh' /\ HeartbeatWhileAsking'
    BY DEF Limits, Fresh
  <2>4. Budget'
    BY DEF Budget
  <2>5. Edits'
    BY DEF Edits, Calls
  <2>6. MutationsAuthorised' /\ UndoCoversTurn'
    BY DEF MutationsAuthorised, UndoCoversTurn
  <2>7. CompletionHasReceipt' /\ QuestionsAreAnswered'
    BY DEF CompletionHasReceipt, QuestionsAreAnswered
  <2> QED
    BY <2>1, <2>2, <2>3, <2>4, <2>5, <2>6, <2>7, Zenon
<1>2. CASE Next
  BY <1>2, BeginningPreserves, AskingPreserves, CallToolsPreserves, ExecutingPreserves,
     SerialPreserves, FinishingPreserves DEF Next, RunLoop
<1> QED
  BY <1>1, <1>2

\* The invariant holds in every reachable state.
THEOREM Invariance == Spec => []LoopInv
<1> QED
  BY InitEstablishes, StepPreserves, PTL DEF Spec

\* Counters stay within the limits for any limits, and no batch loses a call.
THEOREM TypeCorrect == Spec => []TypeOK
<1>1. LoopInv => TypeOK
  BY DEF LoopInv
<1> QED
  BY <1>1, Invariance, PTL

\* What mutates runs past the gates, or is one of the commands the parallel path
\* takes for reading ones.
THEOREM AuthorisationTheorem == Spec => []MutationsAuthorised
<1>1. LoopInv => MutationsAuthorised
  BY DEF LoopInv
<1> QED
  BY <1>1, Invariance, PTL

\* No exit of RunLoop leaves the heartbeat goroutine behind.
THEOREM HeartbeatTheorem == Spec => []HeartbeatJoined
<1>1. LoopInv => HeartbeatJoined
  BY DEF LoopInv, HeartbeatJoined
<1> QED
  BY <1>1, Invariance, PTL

\* The undo buffer holds the last turn that tried an edit, whole and alone.
THEOREM UndoTheorem == Spec => []UndoCoversTurn
<1>1. LoopInv => UndoCoversTurn
  BY DEF LoopInv
<1> QED
  BY <1>1, Invariance, PTL

\* File-changing work completes with a truthful receipt.
THEOREM ReceiptTheorem == Spec => []CompletionHasReceipt
<1>1. LoopInv => CompletionHasReceipt
  BY DEF LoopInv
<1> QED
  BY <1>1, Invariance, PTL

\* The read-only guard gets every question answered, for every budget that fits.
THEOREM AnsweredTheorem == Spec => []QuestionsAreAnswered
<1>1. LoopInv => QuestionsAreAnswered
  BY DEF LoopInv
<1> QED
  BY <1>1, Invariance, PTL

-----------------------------------------------------------------------------
(* Induction, as a fact about sets of numbers *)

\* The library states induction for an operator; for a set it needs none.
LEMMA Induction ==
  ASSUME NEW n \in Nat, NEW S, 0 \in S, \A i \in 1..n : i - 1 \in S => i \in S
  PROVE  0..n \subseteq S
<1> SUFFICES ASSUME (0..n) \ S # {} PROVE FALSE
  OBVIOUS
<1> DEFINE Upto == {0..m : m \in (0..n) \ S}
<1>1. IsWellFoundedOn(StrictSubsetOrdering(0..n), FiniteSubsetsOf(0..n))
  BY FS_Interval, FS_StrictSubsetOrderingWellFounded
<1>2. Upto \subseteq FiniteSubsetsOf(0..n) /\ Upto # {}
  <2>1. \A m \in 0..n : 0..m \subseteq 0..n
    OBVIOUS
  <2>2. \A m \in 0..n : IsFiniteSet(0..m)
    BY FS_Interval
  <2> QED  BY <2>1, <2>2 DEF FiniteSubsetsOf
<1>3. PICK U \in Upto : \A V \in Upto : ~(<<V, U>> \in StrictSubsetOrdering(0..n))
  BY <1>1, <1>2, WFMin
<1>4. PICK m \in (0..n) \ S : U = 0..m
  BY <1>3
<1>5. m \in 1..n /\ m - 1 \in (0..n) \ S
  BY <1>4
<1>6. 0..(m - 1) \in Upto /\ 0..(m - 1) \subseteq 0..m /\ m \notin 0..(m - 1) /\ m \in 0..m
      /\ 0..m \subseteq 0..n
  BY <1>5
<1>7. <<0..(m - 1), 0..m>> \in StrictSubsetOrdering(0..n)
  BY <1>6 DEF StrictSubsetOrdering
<1> QED  BY <1>3, <1>4, <1>6, <1>7

-----------------------------------------------------------------------------
(* NormalizeMessages *)

Role == {"user", "assistant"}
Message == [role : Role, text : BOOLEAN, array : BOOLEAN, calls : SUBSET Nat, answers : SUBSET Nat]

Alternates(s) == \A i \in 1..(Len(s) - 1) : s[i].role # s[i + 1].role

\* f holds what the loop of mergeConsecutiveSameRole has after each message.
IsMerging(f, s) ==
  f = [n \in 0..Len(s) |-> IF n = 0 THEN <<>> ELSE AddMerged(f[n - 1], s[n])]
IsPadding(f, s) ==
  f = [n \in 0..Len(s) |-> IF n = 0 THEN <<>> ELSE AddAlternating(f[n - 1], s[n])]

\* The loops are well defined.
LEMMA MergingExists ==
  ASSUME NEW s, Len(s) \in Nat
  PROVE  \E f : IsMerging(f, s)
<1> DEFINE Upto(f, k) ==
      f = [n \in 0..k |-> IF n = 0 THEN <<>> ELSE AddMerged(f[n - 1], s[n])]
           S == {k \in 0..Len(s) : \E f : Upto(f, k)}
<1>1. 0 \in S
  <2> DEFINE f == [n \in 0..0 |-> <<>>]
  <2>1. \A n \in 0..0 : f[n] = IF n = 0 THEN <<>> ELSE AddMerged(f[n - 1], s[n])
    OBVIOUS
  <2>2. f = [n \in 0..0 |-> f[n]]
    OBVIOUS
  <2> HIDE DEF f
  <2>3. Upto(f, 0)
    BY <2>1, <2>2
  <2>4. \E g : Upto(g, 0)
    BY <2>3
  <2> QED  BY <2>4
<1>2. ASSUME NEW k \in 1..Len(s), k - 1 \in S PROVE k \in S
  <2>1. PICK g : Upto(g, k - 1)
    BY <1>2
  <2> DEFINE f == [n \in 0..k |-> IF n = k THEN AddMerged(g[k - 1], s[k]) ELSE g[n]]
  <2>2. \A n \in 0..(k - 1) : n \in 0..k /\ n # k /\ f[n] = g[n]
    OBVIOUS
  <2>3. \A n \in 0..(k - 1) : g[n] = IF n = 0 THEN <<>> ELSE AddMerged(g[n - 1], s[n])
    BY <2>1
  <2>4. ASSUME NEW n \in 0..k
        PROVE  f[n] = IF n = 0 THEN <<>> ELSE AddMerged(f[n - 1], s[n])
    <3>1. CASE n = k
      <4>1. f[n] = AddMerged(g[k - 1], s[k]) /\ n # 0 /\ k - 1 \in 0..(k - 1)
        BY <3>1
      <4>2. f[n - 1] = g[k - 1]
        BY <2>2, <3>1, <4>1
      <4> QED  BY <3>1, <4>1, <4>2
    <3>2. CASE n # k
      <4>1. n \in 0..(k - 1) /\ (n # 0 => n - 1 \in 0..(k - 1))
        BY <3>2
      <4>2. f[n] = g[n] /\ (n # 0 => f[n - 1] = g[n - 1])
        BY <2>2, <4>1
      <4> QED  BY <2>3, <4>1, <4>2
    <3> QED  BY <3>1, <3>2
  <2>5. f = [n \in 0..k |-> f[n]]
    OBVIOUS
  <2> HIDE DEF f
  <2>6. Upto(f, k)
    BY <2>4, <2>5
  <2>7. \E h : Upto(h, k)
    BY <2>6
  <2>8. k \in 0..Len(s)
    OBVIOUS
  <2> HIDE DEF Upto
  <2> QED  BY <2>7, <2>8
<1>3. Len(s) \in S
  <2> HIDE DEF S
  <2>1. \A k \in 1..Len(s) : k - 1 \in S => k \in S
    BY <1>2
  <2>2. 0..Len(s) \subseteq S
    BY <1>1, <2>1, Induction
  <2> QED  BY <2>2
<1> QED  BY <1>3 DEF IsMerging

LEMMA MergingUnfolds ==
  ASSUME NEW s, Len(s) \in Nat
  PROVE  \E f : IsMerging(f, s) /\ mergeConsecutiveSameRole(s) = f[Len(s)]
<1> DEFINE f == CHOOSE g : IsMerging(g, s)
<1>1. IsMerging(f, s)
  BY MergingExists
<1>2. mergeConsecutiveSameRole(s) = f[Len(s)]
  BY DEF mergeConsecutiveSameRole, IsMerging
<1> QED  BY <1>1, <1>2

LEMMA PaddingExists ==
  ASSUME NEW s, Len(s) \in Nat
  PROVE  \E f : IsPadding(f, s)
<1> DEFINE Upto(f, k) ==
      f = [n \in 0..k |-> IF n = 0 THEN <<>> ELSE AddAlternating(f[n - 1], s[n])]
           S == {k \in 0..Len(s) : \E f : Upto(f, k)}
<1>1. 0 \in S
  <2> DEFINE f == [n \in 0..0 |-> <<>>]
  <2>1. \A n \in 0..0 : f[n] = IF n = 0 THEN <<>> ELSE AddAlternating(f[n - 1], s[n])
    OBVIOUS
  <2>2. f = [n \in 0..0 |-> f[n]]
    OBVIOUS
  <2> HIDE DEF f
  <2>3. Upto(f, 0)
    BY <2>1, <2>2
  <2>4. \E g : Upto(g, 0)
    BY <2>3
  <2> QED  BY <2>4
<1>2. ASSUME NEW k \in 1..Len(s), k - 1 \in S PROVE k \in S
  <2>1. PICK g : Upto(g, k - 1)
    BY <1>2
  <2> DEFINE f == [n \in 0..k |-> IF n = k THEN AddAlternating(g[k - 1], s[k]) ELSE g[n]]
  <2>2. \A n \in 0..(k - 1) : n \in 0..k /\ n # k /\ f[n] = g[n]
    OBVIOUS
  <2>3. \A n \in 0..(k - 1) : g[n] = IF n = 0 THEN <<>> ELSE AddAlternating(g[n - 1], s[n])
    BY <2>1
  <2>4. ASSUME NEW n \in 0..k
        PROVE  f[n] = IF n = 0 THEN <<>> ELSE AddAlternating(f[n - 1], s[n])
    <3>1. CASE n = k
      <4>1. f[n] = AddAlternating(g[k - 1], s[k]) /\ n # 0 /\ k - 1 \in 0..(k - 1)
        BY <3>1
      <4>2. f[n - 1] = g[k - 1]
        BY <2>2, <3>1, <4>1
      <4> QED  BY <3>1, <4>1, <4>2
    <3>2. CASE n # k
      <4>1. n \in 0..(k - 1) /\ (n # 0 => n - 1 \in 0..(k - 1))
        BY <3>2
      <4>2. f[n] = g[n] /\ (n # 0 => f[n - 1] = g[n - 1])
        BY <2>2, <4>1
      <4> QED  BY <2>3, <4>1, <4>2
    <3> QED  BY <3>1, <3>2
  <2>5. f = [n \in 0..k |-> f[n]]
    OBVIOUS
  <2> HIDE DEF f
  <2>6. Upto(f, k)
    BY <2>4, <2>5
  <2>7. \E h : Upto(h, k)
    BY <2>6
  <2>8. k \in 0..Len(s)
    OBVIOUS
  <2> HIDE DEF Upto
  <2> QED  BY <2>7, <2>8
<1>3. Len(s) \in S
  <2> HIDE DEF S
  <2>1. \A k \in 1..Len(s) : k - 1 \in S => k \in S
    BY <1>2
  <2>2. 0..Len(s) \subseteq S
    BY <1>1, <2>1, Induction
  <2> QED  BY <2>2
<1> QED  BY <1>3 DEF IsPadding

LEMMA PaddingUnfolds ==
  ASSUME NEW s, Len(s) \in Nat
  PROVE  \E f : IsPadding(f, s) /\ ensureAlternatingRoles(s) = f[Len(s)]
<1> DEFINE f == CHOOSE g : IsPadding(g, s)
<1>1. IsPadding(f, s)
  BY PaddingExists
<1>2. ensureAlternatingRoles(s) = f[Len(s)]
  BY DEF ensureAlternatingRoles, IsPadding
<1> QED  BY <1>1, <1>2

LEMMA MessagesAreMade ==
  ASSUME NEW role \in Role, NEW text \in BOOLEAN, NEW r \in Nat
  PROVE  /\ Text(role) \in Message /\ ToolUse(r, text) \in Message
         /\ AnswerBlocks \in Message /\ ToolResults(r) \in Message
BY DEF Text, ToolUse, AnswerBlocks, ToolResults, Message, Role

LEMMA MergeKeepsRole ==
  ASSUME NEW m \in Message, NEW next \in Message, m.role = next.role
  PROVE  Merge(m, next) \in Message /\ Merge(m, next).role = m.role
<1>1. CASE m.text /\ next.text
  BY <1>1, MessagesAreMade DEF Merge, Text, Message
<1>2. CASE ~m.text /\ next.text
  BY <1>2 DEF Merge
<1>3. CASE ~next.text /\ m.array /\ next.array
  <2>1. Merge(m, next) =
          [m EXCEPT !.calls = m.calls \cup next.calls, !.answers = m.answers \cup next.answers]
    BY <1>3 DEF Merge
  <2> QED  BY <2>1 DEF Message
<1>4. CASE ~next.text /\ ~(m.array /\ next.array)
  BY <1>4 DEF Merge
<1> QED  BY <1>1, <1>2, <1>3, <1>4 DEF Message

\* Merging d: it begins and ends like the messages so far, and no two
\* neighbours are of one role.
IsMerged(d, s, n) ==
  /\ d \in Seq(Message)
  /\ n = 0 => d = <<>>
  /\ n # 0 =>
       /\ Len(d) \in 1..n /\ d[1].role = s[1].role /\ d[Len(d)].role = s[n].role
       /\ Alternates(d)
       /\ n # 1 /\ s[n - 1].role # s[n].role => d[Len(d)] = s[n]

LEMMA FrontOf ==
  ASSUME NEW d \in Seq(Message), Len(d) # 0
  PROVE  /\ Front(d) \in Seq(Message) /\ Len(Front(d)) = Len(d) - 1
         /\ \A i \in 1..(Len(d) - 1) : Front(d)[i] = d[i]
<1>1. PICK k : k = Len(d) - 1
  OBVIOUS
<1>2. k \in Nat /\ k <= Len(d) /\ Front(d) = SubSeq(d, 1, k)
  BY <1>1 DEF Front
<1>3. /\ SubSeq(d, 1, k) \in Seq(Message) /\ Len(SubSeq(d, 1, k)) = k
      /\ \A i \in 1..k : SubSeq(d, 1, k)[i] = d[i]
  BY <1>2
<1> QED  BY <1>1, <1>2, <1>3

LEMMA AddMergedKeeps ==
  ASSUME NEW s \in Seq(Message), NEW n \in 1..Len(s), NEW d, IsMerged(d, s, n - 1)
  PROVE  IsMerged(AddMerged(d, s[n]), s, n)
<1>1. s[n] \in Message /\ d \in Seq(Message) /\ Len(d) \in Nat
  BY DEF IsMerged
<1>2. CASE n = 1
  <2>1. d = <<>>
    BY <1>2 DEF IsMerged
  <2>2. AddMerged(d, s[n]) = <<s[n]>>
    BY <2>1 DEF AddMerged
  <2> QED  BY <1>1, <1>2, <2>2 DEF IsMerged, Alternates
<1>3. CASE n # 1
  <2>1. /\ Len(d) \in 1..(n - 1) /\ d[1].role = s[1].role /\ d[Len(d)].role = s[n - 1].role
        /\ Alternates(d) /\ d # <<>> /\ Last(d) = d[Len(d)] /\ d[Len(d)] \in Message
    BY <1>1, <1>3 DEF IsMerged, Last
  <2>2. CASE s[n - 1].role # s[n].role
    <3>1. PICK e : e = Append(d, s[n])
      OBVIOUS
    <3>2. AddMerged(d, s[n]) = e
      BY <2>1, <2>2, <3>1 DEF AddMerged
    <3>3. /\ e \in Seq(Message) /\ Len(e) = Len(d) + 1 /\ e[Len(e)] = s[n]
          /\ \A i \in 1..Len(d) : e[i] = d[i]
      BY <1>1, <3>1
    <3>4. Alternates(e)
      <4> SUFFICES ASSUME NEW i \in 1..Len(d) PROVE e[i].role # e[i + 1].role
        BY <1>1, <3>3 DEF Alternates
      <4>1. CASE i = Len(d)
        BY <1>1, <2>1, <2>2, <3>3, <4>1
      <4>2. CASE i # Len(d)
        <5>1. i \in 1..(Len(d) - 1) /\ i + 1 \in 1..Len(d)
          BY <1>1, <4>2
        <5>2. d[i].role # d[i + 1].role
          BY <2>1, <5>1 DEF Alternates
        <5> QED  BY <3>3, <5>1, <5>2
      <4> QED  BY <4>1, <4>2
    <3>5. e[1].role = s[1].role /\ Len(e) \in 1..n
      BY <1>1, <2>1, <3>3
    <3> QED  BY <1>3, <3>2, <3>3, <3>4, <3>5 DEF IsMerged
  <2>3. CASE s[n - 1].role = s[n].role
    <3>1. PICK m : m = Merge(d[Len(d)], s[n])
      OBVIOUS
    <3>2. m \in Message /\ m.role = s[n].role
      BY <1>1, <2>1, <2>3, <3>1, MergeKeepsRole
    <3>3. PICK e : e = Append(Front(d), m)
      OBVIOUS
    <3>4. AddMerged(d, s[n]) = e
      BY <2>1, <2>3, <3>1, <3>3 DEF AddMerged
    <3>5. PICK b : b = Front(d)
      OBVIOUS
    <3>6. /\ b \in Seq(Message) /\ Len(b) = Len(d) - 1 /\ \A i \in 1..(Len(d) - 1) : b[i] = d[i]
      <4>1. d \in Seq(Message) /\ Len(d) # 0
        BY <1>1, <2>1
      <4> QED  BY ONLY <3>5, <4>1, FrontOf
    <3>7. /\ e \in Seq(Message) /\ Len(e) = Len(d) /\ e[Len(d)] = m
          /\ \A i \in 1..(Len(d) - 1) : e[i] = d[i]
      BY <1>1, <2>1, <3>2, <3>3, <3>5, <3>6
    <3>8. ASSUME NEW i \in 1..Len(d) PROVE e[i].role = d[i].role
      <4>1. CASE i = Len(d)
        BY <2>1, <2>3, <3>2, <3>7, <4>1
      <4>2. CASE i # Len(d)
        BY <1>1, <3>7, <4>2
      <4> QED  BY <4>1, <4>2
    <3>9. Alternates(e)
      BY <1>1, <2>1, <3>7, <3>8 DEF Alternates
    <3> QED  BY <1>3, <2>1, <2>3, <3>2, <3>4, <3>7, <3>8, <3>9 DEF IsMerged
  <2> QED  BY <2>2, <2>3
<1> QED  BY <1>2, <1>3

\* What mergeConsecutiveSameRole makes of a history.
LEMMA MergedHistory ==
  ASSUME NEW s \in Seq(Message)
  PROVE  IsMerged(mergeConsecutiveSameRole(s), s, Len(s))
<1>1. PICK f : IsMerging(f, s) /\ mergeConsecutiveSameRole(s) = f[Len(s)]
  BY MergingUnfolds
<1>2. f[0] = <<>> /\ \A n \in 1..Len(s) : f[n] = AddMerged(f[n - 1], s[n])
  <2>1. f = [n \in 0..Len(s) |-> IF n = 0 THEN <<>> ELSE AddMerged(f[n - 1], s[n])]
    BY <1>1 DEF IsMerging
  <2>2. \A n \in 0..Len(s) : f[n] = IF n = 0 THEN <<>> ELSE AddMerged(f[n - 1], s[n])
    BY <2>1
  <2> QED  BY <2>2
<1> DEFINE S == {n \in 0..Len(s) : IsMerged(f[n], s, n)}
<1>3. 0 \in S
  <2>1. IsMerged(<<>>, s, 0)
    BY DEF IsMerged
  <2> QED  BY <1>2, <2>1
<1>4. ASSUME NEW n \in 1..Len(s), n - 1 \in S PROVE n \in S
  <2>1. IsMerged(AddMerged(f[n - 1], s[n]), s, n)
    BY <1>4, AddMergedKeeps
  <2> QED  BY <1>2, <2>1
<1>5. 0..Len(s) \subseteq S
  <2> HIDE DEF S
  <2>1. \A n \in 1..Len(s) : n - 1 \in S => n \in S
    BY <1>4
  <2>2. Len(s) \in Nat
    OBVIOUS
  <2> QED  BY <1>3, <2>1, <2>2, Induction
<1>6. IsMerged(f[Len(s)], s, Len(s))
  BY <1>5
<1> QED  BY <1>1, <1>6

IsStart(d, s, n) == d \in Seq(Message) /\ Len(d) = n /\ \A i \in 1..n : d[i] = s[i]

LEMMA WholeStart ==
  ASSUME NEW s \in Seq(Message), NEW d, IsStart(d, s, Len(s))
  PROVE  d = s
<1>1. d \in Seq(Message) /\ Len(d) = Len(s) /\ \A i \in 1..Len(s) : d[i] = s[i]
  BY DEF IsStart
<1>2. DOMAIN d = 1..Len(s) /\ DOMAIN s = 1..Len(s)
  BY <1>1
<1>3. d = [i \in 1..Len(s) |-> d[i]] /\ s = [i \in 1..Len(s) |-> s[i]]
  BY <1>1, <1>2
<1> QED  BY <1>1, <1>3

LEMMA StartGrows ==
  ASSUME NEW s \in Seq(Message), Alternates(s), NEW n \in 1..Len(s), NEW d, IsStart(d, s, n - 1)
  PROVE  IsStart(AddMerged(d, s[n]), s, n) /\ IsStart(AddAlternating(d, s[n]), s, n)
<1>1. d \in Seq(Message) /\ Len(d) = n - 1 /\ \A i \in 1..(n - 1) : d[i] = s[i]
  BY DEF IsStart
<1>2. ~(d # <<>> /\ Last(d).role = s[n].role)
  <2> SUFFICES ASSUME d # <<>> PROVE Last(d).role # s[n].role
    OBVIOUS
  <2>1. n - 1 \in 1..(Len(s) - 1) /\ Last(d) = s[n - 1]
    BY <1>1 DEF Last
  <2> QED  BY <2>1 DEF Alternates
<1>3. AddMerged(d, s[n]) = Append(d, s[n]) /\ AddAlternating(d, s[n]) = Append(d, s[n])
  BY <1>2 DEF AddMerged, AddAlternating
<1>4. IsStart(Append(d, s[n]), s, n)
  <2>1. PICK e : e = Append(d, s[n])
    OBVIOUS
  <2>2. s[n] \in Message
    OBVIOUS
  <2>3. e \in Seq(Message) /\ Len(e) = n /\ e[n] = s[n] /\ \A i \in 1..(n - 1) : e[i] = d[i]
    BY <1>1, <2>1, <2>2
  <2>4. \A i \in 1..n : i = n \/ i \in 1..(n - 1)
    OBVIOUS
  <2>5. IsStart(e, s, n)
    BY <1>1, <2>3, <2>4 DEF IsStart
  <2> QED  BY <2>1, <2>5
<1> QED  BY <1>3, <1>4

\* A history that alternates goes through both loops as it is.
LEMMA AlternatingStays ==
  ASSUME NEW s \in Seq(Message), Alternates(s)
  PROVE  mergeConsecutiveSameRole(s) = s /\ ensureAlternatingRoles(s) = s
<1>1. PICK f : IsMerging(f, s) /\ mergeConsecutiveSameRole(s) = f[Len(s)]
  BY MergingUnfolds
<1>2. PICK g : IsPadding(g, s) /\ ensureAlternatingRoles(s) = g[Len(s)]
  BY PaddingUnfolds
<1>3. f[0] = <<>> /\ \A n \in 1..Len(s) : f[n] = AddMerged(f[n - 1], s[n])
  <2>1. f = [n \in 0..Len(s) |-> IF n = 0 THEN <<>> ELSE AddMerged(f[n - 1], s[n])]
    BY <1>1 DEF IsMerging
  <2>2. \A n \in 0..Len(s) : f[n] = IF n = 0 THEN <<>> ELSE AddMerged(f[n - 1], s[n])
    BY <2>1
  <2> QED  BY <2>2
<1>4. g[0] = <<>> /\ \A n \in 1..Len(s) : g[n] = AddAlternating(g[n - 1], s[n])
  <2>1. g = [n \in 0..Len(s) |-> IF n = 0 THEN <<>> ELSE AddAlternating(g[n - 1], s[n])]
    BY <1>2 DEF IsPadding
  <2>2. \A n \in 0..Len(s) : g[n] = IF n = 0 THEN <<>> ELSE AddAlternating(g[n - 1], s[n])
    BY <2>1
  <2> QED  BY <2>2
<1> DEFINE S == {n \in 0..Len(s) : IsStart(f[n], s, n) /\ IsStart(g[n], s, n)}
<1>5. 0 \in S
  <2>1. IsStart(<<>>, s, 0)
    BY DEF IsStart
  <2> QED  BY <1>3, <1>4, <2>1
<1>6. ASSUME NEW n \in 1..Len(s), n - 1 \in S PROVE n \in S
  <2>1. IsStart(AddMerged(f[n - 1], s[n]), s, n)
    BY <1>6, StartGrows
  <2>2. IsStart(AddAlternating(g[n - 1], s[n]), s, n)
    BY <1>6, StartGrows
  <2> QED  BY <1>3, <1>4, <2>1, <2>2
<1>7. 0..Len(s) \subseteq S
  <2> HIDE DEF S
  <2>1. \A n \in 1..Len(s) : n - 1 \in S => n \in S
    BY <1>6
  <2>2. Len(s) \in Nat
    OBVIOUS
  <2> QED  BY <1>5, <2>1, <2>2, Induction
<1>8. IsStart(f[Len(s)], s, Len(s)) /\ IsStart(g[Len(s)], s, Len(s))
  BY <1>7
<1> QED  BY <1>1, <1>2, <1>8, WholeStart

LEMMA LastNOf ==
  ASSUME NEW s \in Seq(Message), NEW n \in 1..Len(s)
  PROVE  /\ LastN(s, n) \in Seq(Message) /\ Len(LastN(s, n)) = n
         /\ \A i \in 1..n : LastN(s, n)[i] = s[Len(s) - n + i]
<1>1. PICK k : k = Len(s)
  OBVIOUS
<1>2. PICK from : from = k - n + 1
  OBVIOUS
<1>3. k \in Nat /\ from \in 1..k /\ LastN(s, n) = SubSeq(s, from, k)
  BY <1>1, <1>2 DEF LastN
<1>4. /\ SubSeq(s, from, k) \in Seq(Message) /\ Len(SubSeq(s, from, k)) = k - from + 1
      /\ \A i \in 1..(k - from + 1) : SubSeq(s, from, k)[i] = s[from + i - 1]
  BY <1>1, <1>3, SubSeqProperties
<1>5. k - from + 1 = n /\ \A i \in 1..n : from + i - 1 = k - n + i
  BY <1>2, <1>3
<1> QED  BY <1>1, <1>3, <1>4, <1>5

\* d begins like a and ends like s.
Splices(d, a, s, n) ==
  /\ d \in Seq(Message) /\ Len(d) = Len(a) + n
  /\ d[1] = a[1] /\ d[Len(d)] = s[Len(s)]
  /\ n > 1 => d[Len(d) - 1] = s[Len(s) - 1]

\* Some messages and the end of a history.
LEMMA Spliced ==
  ASSUME NEW a \in Seq(Message), NEW s \in Seq(Message), NEW n \in 1..Len(s), Len(a) # 0
  PROVE  Splices(a \o LastN(s, n), a, s, n)
<1>1. PICK d : d = a \o LastN(s, n)
  OBVIOUS
<1>2. PICK b : b = LastN(s, n)
  OBVIOUS
<1>3. b \in Seq(Message) /\ Len(b) = n /\ \A i \in 1..n : b[i] = s[Len(s) - n + i]
  BY <1>2, LastNOf
<1>4. PICK j, k : j = Len(a) /\ k = Len(s)
  OBVIOUS
<1>5. j \in Nat \ {0} /\ k \in Nat /\ n \in 1..k
  BY <1>4
<1>6. /\ d \in Seq(Message) /\ Len(d) = j + n
      /\ \A i \in 1..(j + n) : d[i] = IF i <= j THEN a[i] ELSE b[i - j]
  <2>1. /\ a \o b \in Seq(Message) /\ Len(a \o b) = Len(a) + Len(b)
        /\ \A i \in 1..(Len(a) + Len(b)) : (a \o b)[i] = IF i <= Len(a) THEN a[i] ELSE b[i - Len(a)]
    BY <1>3, ConcatProperties
  <2>2. d = a \o b /\ Len(a) = j /\ Len(b) = n
    BY <1>1, <1>2, <1>3, <1>4
  <2> QED  BY ONLY <2>1, <2>2
<1>7. d[j + n] = b[n] /\ b[n] = s[k] /\ d[1] = a[1]
  <2>1. j + n \in 1..(j + n) /\ ~(j + n <= j) /\ j + n - j = n /\ n \in 1..n /\ k - n + n = k
        /\ 1 \in 1..(j + n) /\ 1 <= j
    BY <1>5
  <2> QED  BY <1>3, <1>4, <1>6, <2>1
<1>8. ASSUME n > 1 PROVE d[j + n - 1] = s[k - 1]
  <2>1. PICK i : i = j + n - 1
    OBVIOUS
  <2>2. i \in 1..(j + n) /\ ~(i <= j) /\ i - j = n - 1 /\ n - 1 \in 1..n /\ k - n + (n - 1) = k - 1
    BY <1>5, <1>8, <2>1
  <2>3. d[i] = b[n - 1]
    BY <1>6, <2>2
  <2>4. b[n - 1] = s[k - 1]
    BY <1>3, <1>4, <2>2
  <2> QED  BY <2>1, <2>3, <2>4
<1>9. Splices(d, a, s, n)
  BY <1>4, <1>5, <1>6, <1>7, <1>8 DEF Splices
<1> QED  BY <1>1, <1>9

\* What a request keeps of the history it is made from.
LEMMA Normalized ==
  ASSUME NEW s \in Seq(Message), Len(s) # 0, NEW sent, sent = NormalizeMessages(s)
  PROVE  /\ sent \in Seq(Message) /\ Len(sent) # 0
         /\ sent[1].role = s[1].role /\ sent[Len(sent)].role = s[Len(s)].role
         /\ Len(s) <= MaxTotalMessages => Alternates(sent)
         /\ Len(s) > 1 /\ s[Len(s) - 1].role # s[Len(s)].role => sent[Len(sent)] = s[Len(s)]
         /\ Len(s) <= MaxTotalMessages /\ Alternates(s) => sent = s
<1>1. MaxTotalMessages \in Nat /\ MaxTotalMessages > 2 /\ Len(s) \in Nat
  BY ConversationAssumption
<1>2. PICK d : d = mergeConsecutiveSameRole(s)
  OBVIOUS
<1>3. /\ d \in Seq(Message) /\ Len(d) \in 1..Len(s)
      /\ d[1].role = s[1].role /\ d[Len(d)].role = s[Len(s)].role /\ Alternates(d)
      /\ Len(s) # 1 /\ s[Len(s) - 1].role # s[Len(s)].role => d[Len(d)] = s[Len(s)]
  BY <1>2, MergedHistory DEF IsMerged
<1>4. sent = capMessageCount(d)
  BY <1>2, <1>3, AlternatingStays DEF NormalizeMessages
<1>5. Alternates(s) => d = s
  BY <1>2, AlternatingStays
<1>6. CASE Len(d) <= MaxTotalMessages
  <2>1. sent = d
    BY <1>4, <1>6 DEF capMessageCount
  <2> QED  BY <1>1, <1>3, <1>5, <2>1
<1>7. CASE Len(d) > MaxTotalMessages
  <2>1. PICK n, a : n = MaxTotalMessages - 2 /\ a = SubSeq(d, 1, 2)
    OBVIOUS
  <2>2. n \in 1..Len(d) /\ 2 <= Len(d)
    BY <1>1, <1>3, <1>7, <2>1
  <2>3. a \in Seq(Message) /\ Len(a) = 2 /\ a[1] = d[1]
    BY <1>3, <2>1, <2>2
  <2>4. sent = a \o LastN(d, n)
    BY <1>1, <1>3, <1>4, <1>7, <2>1 DEF capMessageCount
  <2>5. sent \in Seq(Message) /\ Len(sent) = 2 + n /\ sent[1] = d[1] /\ sent[Len(sent)] = d[Len(d)]
    <3>1. d \in Seq(Message) /\ a \in Seq(Message) /\ Len(a) = 2 /\ Len(a) # 0 /\ n \in 1..Len(d)
      BY <1>3, <2>2, <2>3
    <3>2. Splices(a \o LastN(d, n), a, d, n)
      BY ONLY <3>1, Spliced
    <3> QED  BY <2>3, <2>4, <3>1, <3>2 DEF Splices
  <2> QED  BY <1>1, <1>3, <1>7, <2>2, <2>5
<1> QED  BY <1>1, <1>3, <1>6, <1>7

\* Compaction and snip keep the end of the history behind a user's message.
LEMMA Shortened ==
  ASSUME NEW s \in Seq(Message), Len(s) >= MinForCompact, s[1].role = "user",
         NEW short \in {CompactMessages(s), Snip(s)}
  PROVE  /\ short \in Seq(Message) /\ Len(short) > 1 /\ short[1].role = "user"
         /\ short[Len(short)] = s[Len(s)] /\ short[Len(short) - 1] = s[Len(s) - 1]
<1>1. Len(s) \in Nat /\ Len(s) > 4 /\ 4 \in 1..Len(s)
  BY ConversationAssumption
<1>2. /\ Text("user") \in Message /\ Text("assistant") \in Message
      /\ Text("user").role = "user"
  BY MessagesAreMade DEF Role, Text
<1>3. CASE short = s
  BY <1>1, <1>3
<1>4. ASSUME NEW a \in Seq(Message), Len(a) # 0, a[1].role = "user", short = a \o LastN(s, 4)
      PROVE  /\ short \in Seq(Message) /\ Len(short) > 1 /\ short[1].role = "user"
             /\ short[Len(short)] = s[Len(s)] /\ short[Len(short) - 1] = s[Len(s) - 1]
  <2>1. /\ short \in Seq(Message) /\ Len(short) = Len(a) + 4 /\ short[1] = a[1]
        /\ short[Len(short)] = s[Len(s)] /\ short[Len(short) - 1] = s[Len(s) - 1]
    <3>1. s \in Seq(Message) /\ a \in Seq(Message) /\ Len(a) # 0 /\ 4 \in 1..Len(s) /\ 4 > 1
          /\ short = a \o LastN(s, 4)
      BY <1>1, <1>4
    <3>2. Splices(a \o LastN(s, 4), a, s, 4)
      BY <3>1, Spliced
    <3> QED  BY <3>1, <3>2 DEF Splices
  <2> QED  BY <1>4, <2>1
<1>5. CASE short # s /\ short = CompactMessages(s)
  <2>1. PICK a : a = <<Text("user"), Text("assistant")>>
    OBVIOUS
  <2>2. a \in Seq(Message) /\ Len(a) # 0 /\ a[1].role = "user"
    BY <1>2, <2>1
  <2> QED  BY <1>4, <1>5, <2>1, <2>2 DEF CompactMessages
<1>6. CASE short # s /\ short = Snip(s)
  <2>1. PICK a : a = SubSeq(s, 1, 2) \o <<Text("user")>>
    OBVIOUS
  <2>2. PICK b : b = SubSeq(s, 1, 2)
    OBVIOUS
  <2>3. b \in Seq(Message) /\ Len(b) = 2 /\ b[1] = s[1]
    BY <1>1, <2>2
  <2>4. a = Append(b, Text("user"))
    <3>1. b \o <<Text("user")>> = Append(b, Text("user"))
      BY <1>2, <2>3, AppendIsConcat
    <3> QED  BY <2>1, <2>2, <3>1
  <2>5. a \in Seq(Message) /\ Len(a) # 0 /\ a[1].role = "user"
    BY <1>2, <2>3, <2>4
  <2>6. short = a \o LastN(s, 4)
    BY <1>6, <2>1 DEF Snip
  <2> QED  BY <1>4, <2>5, <2>6
<1> QED  BY <1>3, <1>5, <1>6

-----------------------------------------------------------------------------
(* The history *)

\* The history begins and ends with the user.  A request alternates unless it
\* was cut; after a round of calls the message before the results is the
\* assistant's; until the history is rewritten it alternates in pairs.
HistoryInv ==
  /\ messages \in Seq(Message) /\ Len(messages) # 0 /\ round \in Nat
  /\ messages[1].role = "user" /\ messages[Len(messages)].role = "user"
  /\ stage = "reply" /\ ~capped => Alternates(messages)
  /\ stage = "send" /\ messages[Len(messages)].answers # {} =>
       Len(messages) > 1 /\ messages[Len(messages) - 1].role = "assistant"
  /\ rewritten \subseteq {"collapsed"} => Alternates(messages) /\ Paired(messages)

LEMMA HistoryAtFirst == HistoryInit => HistoryInv
<1> SUFFICES ASSUME HistoryInit PROVE HistoryInv
  OBVIOUS
<1>1. PICK n \in {k \in 1..MaxHistory : k % 2 = 1} :
        messages = [i \in 1..n |-> Text(IF i % 2 = 1 THEN "user" ELSE "assistant")]
  BY DEF HistoryInit
<1>2. n \in Nat \ {0} /\ n % 2 = 1
  BY <1>1, ConversationAssumption
<1>3. ASSUME NEW i \in 1..n
      PROVE  /\ messages[i] \in Message
             /\ messages[i].role = IF i % 2 = 1 THEN "user" ELSE "assistant"
             /\ messages[i].calls = {} /\ messages[i].answers = {}
  <2>1. PICK role \in Role : role = IF i % 2 = 1 THEN "user" ELSE "assistant"
    BY DEF Role
  <2>2. messages[i] = Text(role)
    BY <1>1, <2>1
  <2>3. Text(role) \in Message
    BY MessagesAreMade
  <2>4. Text(role).role = role /\ Text(role).calls = {} /\ Text(role).answers = {}
    BY DEF Text
  <2> QED  BY <2>1, <2>2, <2>3, <2>4
<1>4. messages \in Seq(Message) /\ Len(messages) = n
  <2>1. messages \in [1..n -> Message]
    BY <1>1, <1>3
  <2> QED  BY <1>2, <2>1
<1>5. messages[1].role = "user" /\ messages[n].role = "user"
  <2>1. 1 \in 1..n /\ n \in 1..n /\ 1 % 2 = 1
    BY <1>2
  <2> QED  BY <1>2, <1>3, <2>1
<1>6. Alternates(messages)
  <2> SUFFICES ASSUME NEW i \in 1..(n - 1) PROVE messages[i].role # messages[i + 1].role
    BY <1>4 DEF Alternates
  <2>1. i \in 1..n /\ i + 1 \in 1..n /\ (i % 2 = 1 <=> (i + 1) % 2 # 1)
    BY <1>2
  <2> QED  BY <1>3, <2>1
<1>7. Paired(messages)
  <2>1. DOMAIN messages = 1..n
    BY <1>1
  <2> QED  BY <1>3, <2>1 DEF Paired
<1>8. stage = "send" /\ round = 0 /\ rewritten = {}
  BY DEF HistoryInit
<1>9. messages[n].answers = {}
  BY <1>2, <1>3
<1> QED  BY <1>2, <1>4, <1>5, <1>6, <1>7, <1>8, <1>9 DEF HistoryInv

\* A request made from a history s that begins and ends with the user.
LEMMA SendingKeeps ==
  ASSUME HistoryInv, NEW s \in Seq(Message), Len(s) # 0,
         s[1].role = "user", s[Len(s)].role = "user",
         NEW change, SendNormalized(s, change),
         rewritten' \subseteq {"collapsed"} => Alternates(s) /\ Paired(s)
  PROVE  HistoryInv'
<1>1. /\ messages' = NormalizeMessages(s) /\ stage' = "reply" /\ round' = round
      /\ capped' = (Len(s) > MaxTotalMessages)
      /\ capped' => "capped" \in rewritten'
      /\ Len(s) \in Nat /\ MaxTotalMessages \in Nat
  BY ConversationAssumption DEF SendNormalized
<1>2. /\ messages' \in Seq(Message) /\ Len(messages') # 0
      /\ messages'[1].role = "user" /\ messages'[Len(messages')].role = "user"
      /\ Len(s) <= MaxTotalMessages => Alternates(messages')
      /\ Len(s) <= MaxTotalMessages /\ Alternates(s) => messages' = s
  BY <1>1, Normalized
<1>3. ~capped' => Len(s) <= MaxTotalMessages
  <2>1. ~capped' => ~(Len(s) > MaxTotalMessages)
    BY <1>1, Zenon
  <2> QED  BY <1>1, <2>1
<1>4. rewritten' \subseteq {"collapsed"} => messages' = s
  BY <1>1, <1>2, <1>3
<1>5. rewritten' \subseteq {"collapsed"} => Alternates(messages') /\ Paired(messages')
  BY <1>4
<1>6. round \in Nat
  BY DEF HistoryInv
<1> QED  BY <1>1, <1>2, <1>3, <1>5, <1>6 DEF HistoryInv

LEMMA SendKeeps ==
  ASSUME HistoryInv, SendPlain \/ SendCollapsed \/ SendCompacted \/ SendSnipped
  PROVE  HistoryInv'
<1>1. /\ messages \in Seq(Message) /\ Len(messages) # 0
      /\ messages[1].role = "user" /\ messages[Len(messages)].role = "user"
      /\ rewritten \subseteq {"collapsed"} => Alternates(messages) /\ Paired(messages)
  BY DEF HistoryInv
<1>2. CASE SendPlain
  <2>1. SendNormalized(messages, {})
    BY <1>2 DEF SendPlain
  <2>2. rewritten \subseteq rewritten'
    BY <2>1 DEF SendNormalized
  <2> QED  BY <1>1, <2>1, <2>2, SendingKeeps
<1>3. CASE SendCollapsed
  <2>1. PICK s : s = <<Text("user")>>
    OBVIOUS
  <2>2. SendNormalized(s, {"collapsed"})
    BY <1>3, <2>1 DEF SendCollapsed
  <2>3. Text("user") \in Message /\ Text("user").role = "user"
        /\ Text("user").calls = {} /\ Text("user").answers = {}
    BY MessagesAreMade DEF Role, Text
  <2>4. s \in Seq(Message) /\ Len(s) = 1 /\ s[1] = Text("user") /\ DOMAIN s = 1..1
    BY <2>1, <2>3
  <2>5. Alternates(s) /\ Paired(s)
    BY <2>3, <2>4 DEF Alternates, Paired
  <2>6. Len(s) # 0 /\ s[1].role = "user" /\ s[Len(s)].role = "user"
    BY <2>3, <2>4
  <2> QED  BY <2>2, <2>4, <2>5, <2>6, SendingKeeps
<1>4. CASE SendCompacted \/ SendSnipped
  <2>1. PICK s \in {CompactMessages(messages), Snip(messages)},
             change \in {{"compacted"}, {"snipped"}} :
          SendNormalized(s, change) /\ Len(messages) >= MinForCompact
    BY <1>4 DEF SendCompacted, SendSnipped, ShouldCompact
  <2>2. /\ s \in Seq(Message) /\ Len(s) > 1 /\ s[1].role = "user"
        /\ s[Len(s)] = messages[Len(messages)]
    BY <1>1, <2>1, Shortened
  <2>3. Len(s) # 0 /\ s[Len(s)].role = "user"
    BY <1>1, <2>2
  <2>4. ~(rewritten' \subseteq {"collapsed"})
    <3>1. change \subseteq rewritten'
      BY <2>1 DEF SendNormalized
    <3> QED  BY <2>1, <3>1
  <2> QED  BY <2>1, <2>2, <2>3, <2>4, SendingKeeps
<1> QED  BY <1>2, <1>3, <1>4

\* What a reply adds to the history.
LEMMA ReplyKeeps ==
  ASSUME HistoryInv, NEW text \in BOOLEAN,
         ReplyWithCalls(text) \/ (ReplyFailsVerification(text) /\ text)
  PROVE  HistoryInv'
<1>1. /\ messages \in Seq(Message) /\ Len(messages) # 0 /\ round \in Nat /\ stage = "reply"
      /\ messages[1].role = "user" /\ messages[Len(messages)].role = "user"
      /\ rewritten \subseteq {"collapsed"} => Alternates(messages) /\ Paired(messages)
  BY DEF HistoryInv, ReplyWithCalls, ReplyFailsVerification
<1>2. PICK a, b, added :
        /\ messages' = messages \o added
        /\ added \in Seq(Message) /\ Len(added) = 2 /\ added[1] = a /\ added[2] = b
        /\ a \in Message /\ b \in Message /\ a.role = "assistant" /\ b.role = "user"
        /\ a.calls = b.answers /\ a.answers = {} /\ b.calls = {}
  <2>1. CASE ReplyWithCalls(text)
    <3>1. PICK a, b : a = ToolUse(round + 1, text) /\ b = ToolResults(round + 1)
      OBVIOUS
    <3>2. /\ a \in Message /\ b \in Message /\ a.role = "assistant" /\ b.role = "user"
          /\ a.calls = b.answers /\ a.answers = {} /\ b.calls = {}
      BY <1>1, <3>1, MessagesAreMade DEF ToolUse, ToolResults, Role
    <3>3. PICK added : added = <<a, b>>
      OBVIOUS
    <3>4. messages' = messages \o added
      BY <2>1, <3>1, <3>3 DEF ReplyWithCalls
    <3>5. added \in Seq(Message) /\ Len(added) = 2 /\ added[1] = a /\ added[2] = b
      BY <3>2, <3>3
    <3> QED  BY <3>2, <3>4, <3>5
  <2>2. CASE ReplyFailsVerification(text) /\ text
    <3>1. PICK a, b : a = AnswerBlocks /\ b = Text("user")
      OBVIOUS
    <3>2. /\ a \in Message /\ b \in Message /\ a.role = "assistant" /\ b.role = "user"
          /\ a.calls = b.answers /\ a.answers = {} /\ b.calls = {}
      BY <3>1, MessagesAreMade DEF AnswerBlocks, Text, Role
    <3>3. PICK added : added = <<a>> \o <<b>>
      OBVIOUS
    <3>4. messages' = messages \o added
      <4>1. messages' = (messages \o <<a>>) \o <<b>>
        BY <2>2, <3>1 DEF ReplyFailsVerification
      <4>2. (messages \o <<a>>) \o <<b>> = messages \o (<<a>> \o <<b>>)
        BY <1>1, <3>2, ConcatAssociative
      <4> QED  BY <3>3, <4>1, <4>2
    <3>5. added \in Seq(Message) /\ Len(added) = 2 /\ added[1] = a /\ added[2] = b
      <4>1. <<a>> \in Seq(Message) /\ Len(<<a>>) = 1 /\ <<a>>[1] = a
        BY <3>2
      <4>2. added = Append(<<a>>, b)
        BY <3>2, <3>3, <4>1, AppendIsConcat
      <4> QED  BY <3>2, <4>1, <4>2
    <3> QED  BY <3>2, <3>4, <3>5
  <2> QED  BY <2>1, <2>2
<1>3. PICK n : n = Len(messages)
  OBVIOUS
<1>4. PICK new : new = messages \o added
  OBVIOUS
<1>5. /\ n \in Nat \ {0} /\ new \in Seq(Message) /\ Len(new) = n + 2
      /\ \A i \in 1..n : new[i] = messages[i]
      /\ new[n + 1] = a /\ new[n + 2] = b
  <2>1. /\ messages \o added \in Seq(Message)
        /\ Len(messages \o added) = Len(messages) + Len(added)
        /\ \A i \in 1..(Len(messages) + Len(added)) :
             (messages \o added)[i] =
               IF i <= Len(messages) THEN messages[i] ELSE added[i - Len(messages)]
    <3>1. messages \in Seq(Message) /\ added \in Seq(Message)
      BY <1>1, <1>2
    <3> QED  BY ONLY <3>1, ConcatProperties
  <2>2. n \in Nat \ {0} /\ Len(added) = 2 /\ added[1] = a /\ added[2] = b
    BY <1>1, <1>2, <1>3
  <2>3. /\ new \in Seq(Message) /\ Len(new) = n + 2
        /\ \A i \in 1..(n + 2) : new[i] = IF i <= n THEN messages[i] ELSE added[i - n]
    BY ONLY <1>3, <1>4, <2>1, <2>2
  <2>4. /\ n + 1 \in 1..(n + 2) /\ ~(n + 1 <= n) /\ n + 1 - n = 1
        /\ n + 2 \in 1..(n + 2) /\ ~(n + 2 <= n) /\ n + 2 - n = 2
        /\ \A i \in 1..n : i \in 1..(n + 2) /\ i <= n
    BY <2>2
  <2> QED  BY ONLY <2>2, <2>3, <2>4
<1>6. new[1].role = "user" /\ new[Len(new)].role = "user" /\ Len(new) # 0
      /\ Len(new) > 1 /\ new[Len(new) - 1].role = "assistant"
  <2>1. 1 \in 1..n /\ n + 2 - 1 = n + 1 /\ n + 2 > 1
    BY <1>5
  <2> QED  BY <1>1, <1>2, <1>3, <1>5, <2>1
<1>7. Alternates(messages) => Alternates(new)
  <2> SUFFICES ASSUME Alternates(messages), NEW i \in 1..(n + 1)
               PROVE  new[i].role # new[i + 1].role
    BY <1>5 DEF Alternates
  <2>1. CASE i \in 1..(n - 1)
    BY <1>3, <1>5, <2>1 DEF Alternates
  <2>2. CASE i = n
    BY <1>1, <1>2, <1>3, <1>5, <2>2
  <2>3. CASE i = n + 1
    BY <1>2, <1>5, <2>3
  <2> QED  BY <1>5, <2>1, <2>2, <2>3
<1>8. Paired(messages) => Paired(new)
  <2> SUFFICES ASSUME Paired(messages) PROVE Paired(new)
    OBVIOUS
  <2>1. /\ \A i \in 1..n : messages[i].calls # {} =>
             i < n /\ messages[i].calls \subseteq messages[i + 1].answers
        /\ \A i \in 1..n : messages[i].answers # {} =>
             i > 1 /\ messages[i].answers \subseteq messages[i - 1].calls
    <3>1. DOMAIN messages = 1..n
      BY <1>1, <1>3
    <3> QED  BY <1>3, <3>1 DEF Paired
  <2>2. DOMAIN new = 1..(n + 2)
    BY <1>5
  <2>3. ASSUME NEW i \in 1..(n + 2), new[i].calls # {}
        PROVE  i < n + 2 /\ new[i].calls \subseteq new[i + 1].answers
    <3>1. CASE i \in 1..n
      BY <1>5, <2>1, <2>3, <3>1
    <3>2. CASE i = n + 1
      BY <1>2, <1>5, <3>2
    <3>3. CASE i = n + 2
      BY <1>2, <1>5, <2>3, <3>3
    <3> QED  BY <1>5, <3>1, <3>2, <3>3
  <2>4. ASSUME NEW i \in 1..(n + 2), new[i].answers # {}
        PROVE  i > 1 /\ new[i].answers \subseteq new[i - 1].calls
    <3>1. CASE i \in 1..n
      BY <1>5, <2>1, <2>4, <3>1
    <3>2. CASE i = n + 1
      BY <1>2, <1>5, <2>4, <3>2
    <3>3. CASE i = n + 2
      BY <1>2, <1>5, <3>3
    <3> QED  BY <1>5, <3>1, <3>2, <3>3
  <2> QED  BY <1>5, <2>2, <2>3, <2>4 DEF Paired
<1>9. messages' = new /\ stage' = "send" /\ round' = round + 1
  BY <1>2, <1>4 DEF ReplyWithCalls, ReplyFailsVerification
<1>10. rewritten' = rewritten
  BY DEF ReplyWithCalls, ReplyFailsVerification
<1> QED  BY <1>1, <1>5, <1>6, <1>7, <1>8, <1>9, <1>10 DEF HistoryInv

\* A silent reply: the test output follows the user's message.
LEMMA SilentReplyKeeps ==
  ASSUME HistoryInv, ReplyFailsVerification(FALSE)
  PROVE  HistoryInv'
<1>1. /\ messages \in Seq(Message) /\ Len(messages) \in Nat \ {0} /\ round \in Nat
      /\ messages[1].role = "user"
  BY DEF HistoryInv
<1>2. /\ messages' = messages \o (<<>> \o <<Text("user")>>) /\ stage' = "send"
      /\ round' = round + 1 /\ "silent" \in rewritten'
  BY DEF ReplyFailsVerification
<1>3. Text("user") \in Message /\ Text("user").role = "user" /\ Text("user").answers = {}
  BY MessagesAreMade DEF Role, Text
<1>4. PICK b : b = Text("user")
  OBVIOUS
<1>5. messages' = Append(messages, b)
  <2>1. <<>> \o <<b>> = <<b>>
    BY <1>3, <1>4
  <2>2. messages \o <<b>> = Append(messages, b)
    BY <1>1, <1>3, <1>4, AppendIsConcat
  <2> QED  BY <1>2, <1>4, <2>1, <2>2
<1>6. PICK new : new = Append(messages, b)
  OBVIOUS
<1>7. /\ new \in Seq(Message) /\ Len(new) # 0 /\ new[1] = messages[1] /\ new[Len(new)] = b
  BY <1>1, <1>3, <1>4, <1>6
<1> QED  BY <1>1, <1>2, <1>3, <1>4, <1>5, <1>6, <1>7 DEF HistoryInv

LEMMA HistoryNextKeeps == HistoryInv /\ [HistoryNext]_historyVars => HistoryInv'
<1> SUFFICES ASSUME HistoryInv, [HistoryNext]_historyVars PROVE HistoryInv'
  OBVIOUS
<1>1. CASE SendPlain \/ SendCollapsed \/ SendCompacted \/ SendSnipped
  BY <1>1, SendKeeps
<1>2. CASE \E text \in BOOLEAN : ReplyWithCalls(text) \/ ReplyFailsVerification(text)
  <2>1. PICK text \in BOOLEAN : ReplyWithCalls(text) \/ ReplyFailsVerification(text)
    BY <1>2
  <2>2. text \/ text = FALSE
    BY <2>1
  <2> QED  BY <2>1, <2>2, ReplyKeeps, SilentReplyKeeps
<1>3. CASE ReplyEnds
  BY <1>3 DEF ReplyEnds, HistoryInv
<1>4. CASE UNCHANGED historyVars
  BY <1>4 DEF historyVars, HistoryInv
<1> QED  BY <1>1, <1>2, <1>3, <1>4 DEF HistoryNext

\* HistoryInv is inductive, however long the history and whatever its limits.
THEOREM HistoryInvariance == HistorySpec => []HistoryInv
BY HistoryAtFirst, HistoryNextKeeps, PTL DEF HistorySpec

\* Roles that differ from their neighbours' alternate from the first on.
LEMMA AlternatingRoles ==
  ASSUME NEW s \in Seq(Message), Len(s) # 0, Alternates(s), s[1].role = "user"
  PROVE  \A i \in DOMAIN s : s[i].role = (IF i % 2 = 1 THEN "user" ELSE "assistant")
<1> DEFINE Good(i) == s[i].role = (IF i % 2 = 1 THEN "user" ELSE "assistant")
           S == {n \in 0..Len(s) : n # 0 => Good(n)}
<1>1. 0 \in S
  OBVIOUS
<1>2. ASSUME NEW n \in 1..Len(s), n - 1 \in S PROVE n \in S
  <2>1. CASE n = 1
    BY <2>1
  <2>2. CASE n # 1
    <3>1. n - 1 \in 1..(Len(s) - 1) /\ Good(n - 1)
      BY <1>2, <2>2
    <3>2. s[n].role # s[n - 1].role
      BY <3>1 DEF Alternates
    <3>3. s[n].role \in Role /\ s[n - 1].role \in Role
      <4>1. s[n] \in Message /\ s[n - 1] \in Message
        BY <3>1
      <4> QED  BY <4>1 DEF Message
    <3>4. n % 2 = 1 <=> (n - 1) % 2 # 1
      OBVIOUS
    <3> QED  BY <3>1, <3>2, <3>3, <3>4 DEF Role
  <2> QED  BY <2>1, <2>2
<1>3. 0..Len(s) \subseteq S
  <2> HIDE DEF S
  <2>1. \A n \in 1..Len(s) : n - 1 \in S => n \in S
    BY <1>2
  <2>2. Len(s) \in Nat
    OBVIOUS
  <2> QED  BY <1>1, <2>1, <2>2, Induction
<1>4. \A n \in 1..Len(s) : Good(n)
  BY <1>3
<1> QED  BY <1>4

\* A request starts and ends with the user and alternates, whatever compaction,
\* snip, collapse and failed verifications made of the history before it
\* (NormalizeMessages), unless it has just been cut to MaxTotalMessages.
THEOREM RolesTheorem == HistorySpec => []RolesAlternate
<1>1. HistoryInv => RolesAlternate
  BY AlternatingRoles DEF HistoryInv, RolesAlternate, Last
<1> QED  BY <1>1, HistoryInvariance, PTL

\* Calls and results stay paired through every round, failed verification and
\* merge until compaction, snip, the cap or a silent reply rewrites the history.
THEOREM PairedTheorem == HistorySpec => []PairedUntilRewritten
<1>1. HistoryInv => PairedUntilRewritten
  BY DEF HistoryInv, PairedUntilRewritten
<1> QED  BY <1>1, HistoryInvariance, PTL

\* The results of the latest round reach the model in the request that follows,
\* compacted, snipped or cut, unless the collapse replaced the history.
THEOREM LatestResultsTheorem == HistorySpec => LatestResultsSent
<1> DEFINE Sent ==
      (stage = "send" /\ stage' = "reply" /\ messages # <<>> /\ Last(messages).answers # {}
       /\ collapsible' = collapsible)
        => Last(messages').answers = Last(messages).answers
<1>1. ASSUME HistoryInv, [HistoryNext]_historyVars PROVE Sent
  <2> SUFFICES ASSUME stage = "send", stage' = "reply", Last(messages).answers # {},
                      collapsible' = collapsible
               PROVE  Last(messages').answers = Last(messages).answers
    OBVIOUS
  <2>1. /\ messages \in Seq(Message) /\ Len(messages) > 1
        /\ messages[1].role = "user" /\ messages[Len(messages)].role = "user"
        /\ messages[Len(messages) - 1].role = "assistant"
    BY <1>1 DEF HistoryInv, Last
  <2>2. \E s \in {messages, CompactMessages(messages), Snip(messages)} :
          /\ messages' = NormalizeMessages(s)
          /\ s # messages => Len(messages) >= MinForCompact
    <3>1. CASE SendPlain \/ SendCompacted \/ SendSnipped
      BY <3>1 DEF SendPlain, SendCompacted, SendSnipped, SendNormalized, ShouldCompact
    <3>2. CASE SendCollapsed
      BY <3>2 DEF SendCollapsed
    <3>3. CASE ~(SendPlain \/ SendCompacted \/ SendSnipped \/ SendCollapsed)
      BY <1>1, <3>3 DEF HistoryNext, historyVars, ReplyWithCalls, ReplyFailsVerification,
                        ReplyEnds
    <3> QED  BY <3>1, <3>2, <3>3
  <2>3. PICK s \in {messages, CompactMessages(messages), Snip(messages)} :
          /\ messages' = NormalizeMessages(s)
          /\ s # messages => Len(messages) >= MinForCompact
    BY <2>2
  <2>4. /\ s \in Seq(Message) /\ Len(s) > 1
        /\ s[Len(s)] = messages[Len(messages)] /\ s[Len(s) - 1] = messages[Len(messages) - 1]
    <3>1. CASE s = messages
      BY <2>1, <3>1
    <3>2. CASE s # messages
      BY <2>1, <2>3, <3>2, Shortened
    <3> QED  BY <3>1, <3>2
  <2>5. s[Len(s) - 1].role # s[Len(s)].role /\ Len(s) # 0
    BY <2>1, <2>4
  <2>6. messages'[Len(messages')] = s[Len(s)]
    BY <2>3, <2>4, <2>5, Normalized
  <2> QED  BY <2>4, <2>6 DEF Last
<1>2. Sent <=>
        ((stage = "send" /\ stage' = "reply" /\ messages # <<>> /\ Last(messages).answers # {}
          /\ collapsible' = collapsible)
           => Last(messages').answers = Last(messages).answers)
  OBVIOUS
<1> HIDE DEF Sent
<1> QED  BY <1>1, <1>2, HistoryInvariance, PTL DEF HistorySpec, LatestResultsSent
=============================================================================
