----------------------------- MODULE Transcript -----------------------------
(***************************************************************************)
(* The list of messages of the web client's chat page and how the events   *)
(* of one agent run are folded into it (pages/Chat.tsx, handleAgentEvent), *)
(* how a bubble is split into thinking and answer when it is shown         *)
(* (components/Markdown.tsx), and what of it a saved session keeps.        *)
(*                                                                         *)
(* A message is a record with the same fields for the three roles.  Text   *)
(* is a sequence of tokens: "open" and "close" are the think tags the      *)
(* client writes, "thought" and "answer" the deltas of the two kinds of    *)
(* text, "note" what the client adds after an interruption and "error" the *)
(* text of an error event.  A call of a tool is the pair of the turn and   *)
(* its number in the turn; NoCall stands for an absent result or diff.     *)
(* "of" records the conversations a message holds text of and "turn" the   *)
(* turn that created it: the client has neither, they say whose a message  *)
(* is.                                                                     *)
(***************************************************************************)
EXTENDS Integers, Sequences

Tokens == {"open", "close", "thought", "answer", "note", "error"}
NoCall == <<0, 0>>
NoTool == "none"
EditTools == {"Edit", "Write"}
\* What IsConcurrencySafe may let run in parallel.
ConcurrentTools == {"Read", "Glob", "Grep", "Bash"}

UserMessage(c, t) ==
  [role |-> "user", of |-> {c}, turn |-> t, content |-> <<"answer">>,
   tool |-> NoTool, call |-> NoCall, result |-> NoCall, diff |-> NoCall]

Bubble(c, t, text) ==
  [role |-> "assistant", of |-> {c}, turn |-> t, content |-> text,
   tool |-> NoTool, call |-> NoCall, result |-> NoCall, diff |-> NoCall]

\* An event names the conversation and the turn of the run that emits it.
Event(type, c, t, tool, call) ==
  [type |-> type, of |-> c, turn |-> t, tool |-> tool, call |-> call]

Includes(text, token) == \E i \in DOMAIN text : text[i] = token
Indices(msgs, P(_)) == {i \in DOMAIN msgs : P(msgs[i])}
Newest(S) == CHOOSE i \in S : \A j \in S : j <= i

EndsInBubble(msgs) == msgs # <<>> /\ msgs[Len(msgs)].role = "assistant"
EndsInEmptyBubble(msgs) == EndsInBubble(msgs) /\ msgs[Len(msgs)].content = <<>>

\* Text goes to the last message, if that is the assistant's.
AppendText(msgs, c, text) ==
  IF EndsInBubble(msgs)
  THEN [msgs EXCEPT ![Len(msgs)].content = @ \o text, ![Len(msgs)].of = @ \cup {c}]
  ELSE msgs

OnThinking(msgs, e) ==
  AppendText(msgs, e.of,
    IF EndsInBubble(msgs) /\ Includes(msgs[Len(msgs)].content, "open")
    THEN <<"thought">> ELSE <<"open", "thought">>)

\* Mutant: the block is not closed when the answer begins.
OnTextUnclosed(msgs, e) == AppendText(msgs, e.of, <<"answer">>)

OnText(msgs, e) ==
  AppendText(msgs, e.of,
    IF /\ EndsInBubble(msgs)
       /\ Includes(msgs[Len(msgs)].content, "open")
       /\ ~Includes(msgs[Len(msgs)].content, "close")
    THEN <<"close", "answer">> ELSE <<"answer">>)

OnToolInput(msgs, e) ==
  Append(msgs, [Bubble(e.of, e.turn, <<>>) EXCEPT
                  !.role = "tool", !.tool = e.tool, !.call = e.call])

\* Mutant: the newest card of the tool takes the result, even a second one.
OnToolResultAnyCard(msgs, e) ==
  LET OfTool(m) == m.role = "tool" /\ m.tool = e.tool
      cards == Indices(msgs, OfTool)
      filled == IF cards = {} THEN msgs
                ELSE [msgs EXCEPT ![Newest(cards)].result = e.call]
  IN  Append(filled, Bubble(e.of, e.turn, <<>>))

\* A result is matched by the name of its tool, not by the call's id: it goes
\* to the newest card of that tool without a result, and is lost when there is
\* none.  An empty text is as falsy as none: its card goes on waiting.  A new
\* bubble follows in any case.
OnToolResult(msgs, e) ==
  LET Waits(m) == m.role = "tool" /\ m.tool = e.tool /\ m.result = NoCall
      waiting == Indices(msgs, Waits)
      filled == IF waiting = {} \/ e.type = "empty_result" THEN msgs
                ELSE [msgs EXCEPT ![Newest(waiting)].result = e.call,
                                  ![Newest(waiting)].of = @ \cup {e.of}]
  IN  Append(filled, Bubble(e.of, e.turn, <<>>))

\* The diff goes to the newest card of an editing tool without one.
OnDiff(msgs, e) ==
  LET Waits(m) == m.role = "tool" /\ m.tool \in EditTools /\ m.diff = NoCall
      waiting == Indices(msgs, Waits)
  IN  IF waiting = {} THEN msgs
      ELSE [msgs EXCEPT ![Newest(waiting)].diff = e.call,
                        ![Newest(waiting)].of = @ \cup {e.of}]

\* done and stream_end drop one trailing empty bubble each.
OnDone(msgs) ==
  IF EndsInEmptyBubble(msgs) THEN SubSeq(msgs, 1, Len(msgs) - 1) ELSE msgs

OnError(msgs, e) == Append(msgs, Bubble(e.of, e.turn, <<"error">>))

\* handleAgentEvent's switch; an empty_result is a tool_result whose text is
\* empty.  tool_start, status and heartbeat change labels
\* only, other types nothing.
Apply(msgs, e) ==
  CASE e.type = "thinking" -> OnThinking(msgs, e)
    [] e.type = "text" -> OnText(msgs, e)
    [] e.type = "tool_input" -> OnToolInput(msgs, e)
    [] e.type \in {"tool_result", "empty_result"} -> OnToolResult(msgs, e)
    [] e.type = "diff" -> OnDiff(msgs, e)
    [] e.type \in {"done", "stream_end"} -> OnDone(msgs)
    [] e.type = "error" -> OnError(msgs, e)
    [] OTHER -> msgs

\* The note of a stopped or broken stream (send's catch).
OnInterrupt(msgs, c) == AppendText(msgs, c, <<"note">>)

\* What autoSave sends of a message and a later load shows again: all but the
\* diff.
Kept(msgs) == [i \in DOMAIN msgs |-> [msgs[i] EXCEPT !.diff = NoCall]]

\* Markdown shows token i inside a thinking block iff the last tag before it
\* opens one: <think>, anything, up to the next </think> or the end.
InThinkingBlock(text, i) ==
  \E j \in 1..(i - 1) : text[j] = "open" /\ \A k \in j..(i - 1) : text[k] # "close"

\* How a message is rendered: a card without a result says "executing" for
\* ever, every empty bubble shows the waiting dots while a stream is open.
Shown(m, streaming) ==
  CASE m.role = "user" -> "user"
    [] m.role = "tool" -> IF m.result = NoCall THEN "executing" ELSE "result"
    [] m.role = "assistant" /\ m.content = <<>> -> IF streaming THEN "waiting" ELSE "hidden"
    [] OTHER -> "text"

Conversations(msgs) == UNION {msgs[i].of : i \in DOMAIN msgs}
Turns(msgs) == {msgs[i].turn : i \in Indices(msgs, LAMBDA m : m.role = "user")}
=============================================================================
