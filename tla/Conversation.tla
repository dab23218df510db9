---------------------------- MODULE Conversation ----------------------------
(***************************************************************************)
(* The message history of one RunLoop: what each round appends, and what   *)
(* compaction, the snip fallback, the read-only collapse and               *)
(* NormalizeMessages make of it before it is sent to the provider.         *)
(*                                                                         *)
(* A message keeps its role, whether it holds text, whether its content is *)
(* an array of blocks, and the rounds whose tool calls (tool_use) or tool  *)
(* results (tool_result) are among its blocks.                             *)
(***************************************************************************)
EXTENDS Integers, Sequences, SequencesExt

CONSTANTS
  MaxRounds,           \* bound: replies of one session (maxIterations)
  MaxHistory,          \* bound: messages the client may send
  MaxTotalMessages,    \* 200 in the code
  MinForCompact,       \* minMessagesForCompact, 8
  MaxCompactFailures   \* 3

ASSUME ConversationAssumption ==
  /\ MaxRounds \in Nat /\ MaxHistory \in Nat \ {0}
  /\ MaxTotalMessages \in Nat \ 0..2
  /\ MinForCompact \in Nat \ 0..4 /\ MaxCompactFailures \in Nat \ {0}

VARIABLES
  stage,       \* "send", "reply" or "ended"
  messages,
  round,       \* replies so far
  failures,    \* compactCfg.CompactFailures
  collapsible, \* the collapse is still possible
  answered,    \* the latest round that has executed its calls, 0 if none
  rewritten,   \* history: in which ways the history was rewritten so far
  capped       \* history: the last request was cut by capMessageCount

historyVars == <<stage, messages, round, failures, collapsible, answered, rewritten, capped>>

Text(role) == [role |-> role, text |-> TRUE, array |-> FALSE, calls |-> {}, answers |-> {}]
ToolUse(r, text) ==
  [role |-> "assistant", text |-> text, array |-> TRUE, calls |-> {r}, answers |-> {}]
AnswerBlocks ==
  [role |-> "assistant", text |-> TRUE, array |-> TRUE, calls |-> {}, answers |-> {}]
ToolResults(r) ==
  [role |-> "user", text |-> FALSE, array |-> TRUE, calls |-> {}, answers |-> {r}]

LastN(s, n) == SubSeq(s, Len(s) - n + 1, Len(s))

HistoryInit ==
  /\ stage = "send"
  /\ \E n \in {k \in 1..MaxHistory : k % 2 = 1} :
       messages = [i \in 1..n |-> Text(IF i % 2 = 1 THEN "user" ELSE "assistant")]
  /\ round = 0 /\ failures = 0 /\ answered = 0
  /\ collapsible \in BOOLEAN
  /\ rewritten = {} /\ capped = FALSE

---------------------------------------------------------------------------
(* NormalizeMessages *)

\* Two neighbours of the same role: texts are joined and every block is lost, a
\* lone text replaces what it follows, and blocks are kept only next to blocks.
Merge(current, next) ==
  CASE current.text /\ next.text -> Text(current.role)
    [] ~current.text /\ next.text -> next
    [] ~next.text /\ current.array /\ next.array ->
         [current EXCEPT !.calls = @ \cup next.calls, !.answers = @ \cup next.answers]
    [] OTHER -> current

AddMerged(done, next) ==
  IF done # <<>> /\ Last(done).role = next.role
    THEN Append(Front(done), Merge(Last(done), next))
    ELSE Append(done, next)

mergeConsecutiveSameRole(s) ==
  LET merged[n \in 0..Len(s)] == IF n = 0 THEN <<>> ELSE AddMerged(merged[n - 1], s[n])
  IN  merged[Len(s)]

Other(role) == IF role = "user" THEN "assistant" ELSE "user"
AddAlternating(done, next) ==
  IF done # <<>> /\ Last(done).role = next.role
    THEN done \o <<Text(Other(next.role)), next>>
    ELSE Append(done, next)

ensureAlternatingRoles(s) ==
  LET done[n \in 0..Len(s)] == IF n = 0 THEN <<>> ELSE AddAlternating(done[n - 1], s[n])
  IN  done[Len(s)]

capMessageCount(s) ==
  IF Len(s) <= MaxTotalMessages THEN s ELSE SubSeq(s, 1, 2) \o LastN(s, MaxTotalMessages - 2)

NormalizeMessages(s) == capMessageCount(ensureAlternatingRoles(mergeConsecutiveSameRole(s)))

---------------------------------------------------------------------------
(* Compaction *)

ShouldCompact(s) == failures < MaxCompactFailures /\ Len(s) >= MinForCompact

\* A build that keeps the oldest messages instead of the latest.
CompactKeepsOldest(s) ==
  IF \E i \in 1..(Len(s) - 4) : s[i].text
    THEN <<Text("user"), Text("assistant")>> \o SubSeq(s, 2, 5)
    ELSE s

\* Summarised by the model: a summary, an acknowledgement and the last four.
\* With no text to summarise the history is returned as it is.
CompactMessages(s) ==
  IF \E i \in 1..(Len(s) - 4) : s[i].text
    THEN <<Text("user"), Text("assistant")>> \o LastN(s, 4)
    ELSE s

\* A fallback that loses the latest message.
SnipOffByOne(s) ==
  IF Len(s) > 8 THEN SubSeq(s, 1, 2) \o <<Text("user")>> \o SubSeq(s, Len(s) - 4, Len(s) - 1)
                ELSE s

\* The fallback when the summary fails: the first two, a digest, the last four.
Snip(s) ==
  IF Len(s) > 8 THEN SubSeq(s, 1, 2) \o <<Text("user")>> \o LastN(s, 4) ELSE s

---------------------------------------------------------------------------
(* One iteration *)

SendNormalized(s, change) ==
  /\ messages' = NormalizeMessages(s)
  /\ capped' = (Len(s) > MaxTotalMessages)
  /\ rewritten' = rewritten \cup change \cup (IF capped' THEN {"capped"} ELSE {})
  /\ stage' = "reply"
  /\ UNCHANGED <<round, answered>>

SendPlain ==
  /\ stage = "send" /\ round < MaxRounds
  /\ SendNormalized(messages, {})
  /\ UNCHANGED <<failures, collapsible>>

\* The read-only guard: the history becomes one digest message, once.
SendCollapsed ==
  /\ stage = "send" /\ round < MaxRounds
  /\ collapsible /\ answered > 0
  /\ SendNormalized(<<Text("user")>>, {"collapsed"})
  /\ collapsible' = FALSE
  /\ UNCHANGED failures

\* The token estimate is over the threshold and the model summarises.
SendCompacted ==
  /\ stage = "send" /\ round < MaxRounds
  /\ ShouldCompact(messages)
  /\ SendNormalized(CompactMessages(messages), {"compacted"})
  /\ failures' = 0
  /\ UNCHANGED collapsible

\* The summary fails.
SendSnipped ==
  /\ stage = "send" /\ round < MaxRounds
  /\ ShouldCompact(messages)
  /\ SendNormalized(Snip(messages), {"snipped"})
  /\ failures' = failures + 1
  /\ UNCHANGED collapsible

\* Results appended before the calls they answer.
ReplyWithCallsSwapped(text) ==
  /\ stage = "reply"
  /\ round' = round + 1 /\ answered' = round + 1
  /\ messages' = messages \o <<ToolResults(round + 1), ToolUse(round + 1, text)>>
  /\ stage' = "send"
  /\ UNCHANGED <<failures, collapsible, rewritten, capped>>

\* Every call of the round is answered in the message that follows it: by its
\* result, an error, or the reason it was blocked.
ReplyWithCalls(text) ==
  /\ stage = "reply"
  /\ round' = round + 1 /\ answered' = round + 1
  /\ messages' = messages \o <<ToolUse(round + 1, text), ToolResults(round + 1)>>
  /\ stage' = "send"
  /\ UNCHANGED <<failures, collapsible, rewritten, capped>>

\* A reply without calls after edits, and the tests fail: the reply is kept only
\* if it has text, the test output follows as a user message.
ReplyFailsVerification(text) ==
  /\ stage = "reply" /\ answered > 0
  /\ round' = round + 1
  /\ messages' = messages \o (IF text THEN <<AnswerBlocks>> ELSE <<>>) \o <<Text("user")>>
  /\ rewritten' = rewritten \cup (IF text THEN {} ELSE {"silent"})
  /\ stage' = "send"
  /\ UNCHANGED <<failures, collapsible, answered, capped>>

ReplyEnds ==
  /\ \/ stage = "reply"
     \/ stage = "send" /\ round = MaxRounds
  /\ stage' = "ended"
  /\ UNCHANGED <<messages, round, failures, collapsible, answered, rewritten, capped>>

HistoryNext ==
  \/ SendPlain \/ SendCollapsed \/ SendCompacted \/ SendSnipped
  \/ \E text \in BOOLEAN : ReplyWithCalls(text) \/ ReplyFailsVerification(text)
  \/ ReplyEnds

HistorySpec == HistoryInit /\ [][HistoryNext]_historyVars

---------------------------------------------------------------------------
(* Properties of the request on its way to the provider *)

\* "API requires alternating user/assistant" (mergeConsecutiveSameRole): a
\* request starts and ends with the user and alternates, however the history was
\* compacted, snipped or collapsed, unless capMessageCount has just cut it.
RolesAlternate ==
  stage = "reply" /\ ~capped =>
    /\ \A i \in DOMAIN messages : messages[i].role = (IF i % 2 = 1 THEN "user" ELSE "assistant")
    /\ Last(messages).role = "user"

\* Each tool call is answered by the message after it, and each result answers a
\* call of the message before it.
Paired(s) ==
  /\ \A i \in DOMAIN s : s[i].calls # {} =>
       i < Len(s) /\ s[i].calls \subseteq s[i + 1].answers
  /\ \A i \in DOMAIN s : s[i].answers # {} =>
       i > 1 /\ s[i].answers \subseteq s[i - 1].calls

\* As long as nothing but the collapse rewrote the history, calls and results
\* stay paired through every round, failed verification and merge.
PairedUntilRewritten == stage = "reply" /\ rewritten \subseteq {"collapsed"} => Paired(messages)

\* Compaction and snip keep the end of the history: directly after a round of
\* tool calls the model sees that round's results, unless it was collapsed.
LatestResultsSent ==
  [][(stage = "send" /\ stage' = "reply" /\ messages # <<>> /\ Last(messages).answers # {}
      /\ collapsible' = collapsible)
     => Last(messages').answers = Last(messages).answers]_historyVars

=============================================================================
