--------------------------- MODULE WebChat_proofs ---------------------------
(***************************************************************************)
(* What holds of the chat page for any number of turns, sessions, clicks   *)
(* and failures: which races mix conversations and which lose messages,    *)
(* that deleted sessions stay deleted, that answers are never hidden in a  *)
(* thinking block, that a card tells the truth of its call and the         *)
(* approval prompt stands for the last turn.                               *)
(*                                                                         *)
(* ChatInv has four parts.  TypeOK also says that every session id the     *)
(* client holds was once handed out.  EachForItself says that every        *)
(* transcript, in the view, in a request or in a file, is of the           *)
(* conversation it claims; it needs both races excluded.  NothingDeleted   *)
(* says that no deleted id is left anywhere from where a save could be     *)
(* made.  AwayIsQuiet is about the unmounted page.                         *)
(*                                                                         *)
(* Four more invariants stand on it, in this order.  CardInv: of the turn  *)
(* under way at most the newest card waits, all other transcripts are      *)
(* settled.  ApprovalInv: the turn of the run, and the one whose plan      *)
(* waits, is the last of the view.  OrderlyInv: one save of the page is    *)
(* under way at most, none under a stream, and it extends what the session *)
(* holds.  PreservedInv: what a quiet view shows is saved or being saved.  *)
(***************************************************************************)
EXTENDS WebChat, SequenceTheorems, FiniteSetTheorems, TLAPS

-----------------------------------------------------------------------------
(* The invariant *)

\* A text that hides no answer, and that no delta can make hide one: one
\* thinking block at most, and what follows it is outside.
SoundText(t) ==
  /\ \A i, j \in DOMAIN t : t[i] = "open" /\ t[j] = "close" => i < j
  /\ \A i, j \in DOMAIN t : t[i] = "open" /\ t[j] = "open" => i = j
  /\ Includes(t, "close") => Includes(t, "open")
  /\ \A j \in DOMAIN t : t[j] \in {"answer", "error"} => ~InThinkingBlock(t, j)

SoundTexts == {t \in Seq(Tokens) : SoundText(t)}
ToolNames == Tools \cup {NoTool}

\* Messages that hold text of the conversations C only.
Messages(C) ==
  [role : {"user", "assistant", "tool"}, of : SUBSET C, turn : Nat, content : SoundTexts,
   tool : ToolNames, call : Nat \X Nat, result : Nat \X Nat, diff : Nat \X Nat]

Transcripts(C) == Seq(Messages(C))

Sids == DOMAIN owner \cup {NoSession}

Phases == {"sent", "reply", "thinking", "text", "call", "edited", "parallel", "ended"}
Runs == [conv : Nat, sid : Sids, turn : Nat, plan : BOOLEAN, phase : Phases, calls : Nat,
         tool : ToolNames]
Saves == [id : Sids, msgs : Transcripts(Nat), conv : Nat, first : BOOLEAN,
          at : {"sent", "stored"}, mine : BOOLEAN]
Loads == [id : DOMAIN owner, found : BOOLEAN, msgs : Transcripts(Nat), mine : BOOLEAN]

TypeOK ==
  /\ owner \in [DOMAIN owner -> Nat] /\ DOMAIN owner \subseteq Nat
  /\ store \in [DOMAIN store -> Transcripts(Nat)] /\ DOMAIN store \subseteq DOMAIN owner
  /\ view \in [msgs : Transcripts(Nat), sid : Sids, conv : Nat]
  /\ stream \subseteq Runs
  /\ saves \subseteq Saves
  /\ \A s \in saves : s.id = NoSession <=> s.first /\ s.at = "sent"
  /\ loads \subseteq Loads
  /\ history \subseteq DOMAIN owner /\ deleted \subseteq DOMAIN owner
  /\ clock \in Nat /\ turn \in Nat /\ convs \in Nat
  /\ budget \in Allowances

AwayIsQuiet == page = "away" => stream = {} /\ \A s \in saves : ~s.mine

ForItself ==
  /\ view.msgs \in Transcripts({view.conv})
  /\ view.sid # NoSession => owner[view.sid] = view.conv
  /\ \A s \in stream : s.conv = view.conv /\ (s.sid # NoSession => owner[s.sid] = s.conv)
  /\ \A s \in saves :
       /\ s.msgs \in Transcripts({s.conv})
       /\ s.id # NoSession => owner[s.id] = s.conv
       /\ s.first /\ s.mine => s.conv = view.conv
  /\ \A l \in loads : l.found => l.msgs \in Transcripts({owner[l.id]})
  /\ \A id \in DOMAIN store : store[id] \in Transcripts({owner[id]})

EachForItself == races \cap {"switched", "collided"} = {} => ForItself

Gone(id) ==
  /\ id \notin DOMAIN store /\ id \notin history /\ view.sid # id
  /\ \A s \in stream : s.sid # id
  /\ \A s \in saves : s.id # id
  /\ \A l \in loads : l.id # id

NothingDeleted == races \cap {"deleted", "collided"} = {} => \A id \in deleted : Gone(id)

ChatInv == TypeOK /\ AwayIsQuiet /\ EachForItself /\ NothingDeleted

-----------------------------------------------------------------------------
(* Texts *)

LEMMA TwoTokens ==
  ASSUME NEW t \in Seq(Tokens), NEW a \in Tokens, NEW b \in Tokens
  PROVE  /\ t \o <<a>> = Append(t, a)
         /\ t \o <<a, b>> = Append(Append(t, a), b)
  OBVIOUS

\* A token that opens no second block, closes only an open one, and is an
\* answer only outside a block, keeps the text sound.
LEMMA AppendKeepsSound ==
  ASSUME NEW t \in SoundTexts, NEW x \in Tokens,
         x = "open" => ~Includes(t, "open"),
         x = "close" => Includes(t, "open"),
         x \in {"answer", "error"} /\ Includes(t, "open") => Includes(t, "close")
  PROVE  Append(t, x) \in SoundTexts
<1> DEFINE u == Append(t, x)
           n == Len(t)
<1>1. /\ t \in Seq(Tokens) /\ u \in Seq(Tokens) /\ n \in Nat /\ DOMAIN t = 1..n
      /\ DOMAIN u = 1..(n + 1) /\ u[n + 1] = x /\ \A i \in 1..n : u[i] = t[i]
  BY DEF SoundTexts
<1>2. /\ \A i, j \in 1..n : t[i] = "open" /\ t[j] = "close" => i < j
      /\ \A i, j \in 1..n : t[i] = "open" /\ t[j] = "open" => i = j
      /\ Includes(t, "close") => Includes(t, "open")
      /\ \A j \in 1..n : t[j] \in {"answer", "error"} => ~InThinkingBlock(t, j)
  BY <1>1 DEF SoundTexts, SoundText
<1>3. \A token : Includes(t, token) <=> \E i \in 1..n : t[i] = token
  BY <1>1 DEF Includes
<1>4. \A token : Includes(u, token) <=> Includes(t, token) \/ x = token
  BY <1>1, <1>3 DEF Includes
<1>5. \A i, j \in 1..(n + 1) : u[i] = "open" /\ u[j] = "close" => i < j
  <2> SUFFICES ASSUME NEW i \in 1..(n + 1), NEW j \in 1..(n + 1),
                      u[i] = "open", u[j] = "close"
               PROVE  i < j
    OBVIOUS
  <2>1. CASE i = n + 1
    <3>1. x = "open" /\ j \in 1..n /\ t[j] = "close"
      BY <1>1, <2>1
    <3> QED  BY <3>1, <1>2, <1>3
  <2>2. CASE i # n + 1
    BY <1>1, <1>2, <2>2
  <2> QED  BY <2>1, <2>2
<1>6. \A i, j \in 1..(n + 1) : u[i] = "open" /\ u[j] = "open" => i = j
  <2> SUFFICES ASSUME NEW i \in 1..(n + 1), NEW j \in 1..(n + 1),
                      u[i] = "open", u[j] = "open", i # j
               PROVE  FALSE
    OBVIOUS
  <2>1. CASE i = n + 1 \/ j = n + 1
    BY <1>1, <1>3, <2>1
  <2>2. CASE i # n + 1 /\ j # n + 1
    BY <1>1, <1>2, <2>2
  <2> QED  BY <2>1, <2>2
<1>7. \A j \in 1..(n + 1) : u[j] \in {"answer", "error"} => ~InThinkingBlock(u, j)
  <2> SUFFICES ASSUME NEW j \in 1..(n + 1), u[j] \in {"answer", "error"},
                      InThinkingBlock(u, j)
               PROVE  FALSE
    OBVIOUS
  <2>1. PICK i \in 1..(j - 1) : u[i] = "open" /\ \A k \in i..(j - 1) : u[k] # "close"
    BY DEF InThinkingBlock
  <2>2. i \in 1..n /\ t[i] = "open" /\ \A k \in i..(j - 1) : k \in 1..n /\ t[k] # "close"
    BY <1>1, <2>1
  <2>3. CASE j = n + 1
    <3>1. PICK k \in 1..n : t[k] = "close"
      BY <1>1, <1>3, <2>2, <2>3
    <3>2. i < k
      BY <1>2, <2>2, <3>1
    <3> QED  BY <2>2, <2>3, <3>1, <3>2
  <2>4. CASE j # n + 1
    <3>1. j \in 1..n /\ t[j] \in {"answer", "error"}
      BY <1>1, <2>4
    <3>2. InThinkingBlock(t, j)
      BY <2>1, <2>2 DEF InThinkingBlock
    <3> QED  BY <1>2, <3>1, <3>2
  <2> QED  BY <2>3, <2>4
<1> QED  BY <1>1, <1>2, <1>4, <1>5, <1>6, <1>7 DEF SoundTexts, SoundText

\* The texts a message starts with.
LEMMA ShortTextsSound ==
  <<>> \in SoundTexts /\ <<"answer">> \in SoundTexts /\ <<"error">> \in SoundTexts
<1>1. <<>> \in SoundTexts
  BY DEF SoundTexts, SoundText, Includes
<1>2. ~Includes(<<>>, "open")
  BY DEF Includes
<1>3. <<"answer">> = Append(<<>>, "answer") /\ <<"error">> = Append(<<>>, "error")
  OBVIOUS
<1> QED  BY <1>1, <1>2, <1>3, AppendKeepsSound DEF Tokens

LEMMA ThinkingSound ==
  ASSUME NEW t \in SoundTexts
  PROVE  t \o (IF Includes(t, "open") THEN <<"thought">> ELSE <<"open", "thought">>)
           \in SoundTexts
<1>1. t \in Seq(Tokens) /\ Append(t, "open") \in Seq(Tokens)
  BY DEF SoundTexts, Tokens
<1>2. Append(t, "thought") \in SoundTexts
  BY AppendKeepsSound DEF Tokens
<1>3. ASSUME ~Includes(t, "open")
      PROVE  Append(Append(t, "open"), "thought") \in SoundTexts
  <2>1. Append(t, "open") \in SoundTexts
    BY <1>3, AppendKeepsSound DEF Tokens
  <2> QED  BY <2>1, AppendKeepsSound DEF Tokens
<1> QED  BY <1>1, <1>2, <1>3, TwoTokens DEF Tokens

LEMMA AnswerSound ==
  ASSUME NEW t \in SoundTexts
  PROVE  t \o (IF Includes(t, "open") /\ ~Includes(t, "close")
               THEN <<"close", "answer">> ELSE <<"answer">>)
           \in SoundTexts
<1>1. t \in Seq(Tokens)
  BY DEF SoundTexts
<1>2. ASSUME Includes(t, "open") => Includes(t, "close")
      PROVE  Append(t, "answer") \in SoundTexts
  BY <1>2, AppendKeepsSound DEF Tokens
<1>3. ASSUME Includes(t, "open")
      PROVE  Append(Append(t, "close"), "answer") \in SoundTexts
  <2>1. Append(t, "close") \in SoundTexts
    BY <1>3, AppendKeepsSound DEF Tokens
  <2>2. Append(t, "close")[Len(t) + 1] = "close" /\ Len(t) + 1 \in DOMAIN Append(t, "close")
    BY <1>1
  <2>3. Includes(Append(t, "close"), "close")
    BY <2>2 DEF Includes
  <2> QED  BY <2>1, <2>3, AppendKeepsSound DEF Tokens
<1> QED  BY <1>1, <1>2, <1>3, TwoTokens DEF Tokens

LEMMA NoteSound ==
  ASSUME NEW t \in SoundTexts
  PROVE  t \o <<"note">> \in SoundTexts
<1>1. Append(t, "note") \in SoundTexts
  BY AppendKeepsSound DEF Tokens
<1> QED  BY <1>1, TwoTokens DEF SoundTexts, Tokens

-----------------------------------------------------------------------------
(* Transcripts *)

EventTypes == {"thinking", "text", "status", "tool_input", "tool_result",
               "empty_result", "diff", "done", "error"}

\* The events of a run of conversation c.
Events(c) ==
  [type : EventTypes, of : {c}, turn : Nat, tool : ToolNames, call : Nat \X Nat]

LEMMA NewMessages ==
  ASSUME NEW C, NEW c \in C, NEW t \in Nat, NEW text \in SoundTexts
  PROVE  Bubble(c, t, text) \in Messages(C) /\ UserMessage(c, t) \in Messages(C)
BY ShortTextsSound DEF Bubble, UserMessage, Messages, ToolNames, NoCall

\* Replacing one message of a transcript.
LEMMA ReplaceMessage ==
  ASSUME NEW C, NEW msgs \in Transcripts(C), NEW k, NEW m \in Messages(C)
  PROVE  [msgs EXCEPT ![k] = m] \in Transcripts(C)
<1>1. CASE k \in 1..Len(msgs)
  BY <1>1, ExceptSeq, Zenon DEF Transcripts
<1>2. CASE k \notin 1..Len(msgs)
  <2>1. DOMAIN msgs = 1..Len(msgs) /\ msgs = [i \in DOMAIN msgs |-> msgs[i]]
    BY LenProperties, Zenon DEF Transcripts
  <2>2. [msgs EXCEPT ![k] = m] = msgs
    BY <1>2, <2>1, Zenon
  <2> QED  BY <2>2
<1> QED  BY <1>1, <1>2

LEMMA LastMessage ==
  ASSUME NEW C, NEW msgs \in Transcripts(C), EndsInBubble(msgs)
  PROVE  /\ Len(msgs) \in DOMAIN msgs
         /\ msgs[Len(msgs)] \in Messages(C)
         /\ msgs[Len(msgs)].content \in SoundTexts
<1> DEFINE M == Messages(C)
<1>1. Len(msgs) \in DOMAIN msgs /\ msgs[Len(msgs)] \in M
  <2>1. msgs \in Seq(M) /\ msgs # <<>>
    BY DEF EndsInBubble, Transcripts
  <2> HIDE DEF M
  <2>2. Len(msgs) \in 1..Len(msgs) /\ DOMAIN msgs = 1..Len(msgs)
    BY <2>1, EmptySeq, LenProperties
  <2> QED  BY <2>1, <2>2, ElementOfSeq
<1> QED  BY <1>1 DEF Messages

\* More text of a conversation in C.
LEMMA LongerMessage ==
  ASSUME NEW C, NEW m \in Messages(C), NEW c \in C, NEW text,
         m.content \o text \in SoundTexts
  PROVE  [m EXCEPT !.content = @ \o text, !.of = @ \cup {c}] \in Messages(C)
<1> DEFINE longer == m.content \o text
<1>1. longer \in SoundTexts
  OBVIOUS
<1> HIDE DEF longer
<1>2. [m EXCEPT !.content = longer, !.of = m.of \cup {c}] \in Messages(C)
  BY <1>1 DEF Messages
<1> QED  BY <1>2 DEF longer

LEMMA AppendTextKeeps ==
  ASSUME NEW C, NEW msgs \in Transcripts(C), NEW c \in C, NEW text,
         EndsInBubble(msgs) => msgs[Len(msgs)].content \o text \in SoundTexts
  PROVE  AppendText(msgs, c, text) \in Transcripts(C)
<1> DEFINE n == Len(msgs)
           m == [msgs[n] EXCEPT !.content = @ \o text, !.of = @ \cup {c}]
<1>1. SUFFICES ASSUME EndsInBubble(msgs)
               PROVE  AppendText(msgs, c, text) \in Transcripts(C)
  BY DEF AppendText
<1>2. n \in DOMAIN msgs /\ msgs[n] \in Messages(C)
  BY <1>1, LastMessage
<1>3. m \in Messages(C)
  BY <1>1, <1>2, LongerMessage
<1>4. [msgs EXCEPT ![n] = m] \in Transcripts(C)
  BY <1>3, ReplaceMessage
<1> QED  BY <1>1, <1>4 DEF AppendText

LEMMA OnThinkingKeeps ==
  ASSUME NEW C, NEW c \in C, NEW msgs \in Transcripts(C), NEW e \in Events(c)
  PROVE  OnThinking(msgs, e) \in Transcripts(C)
<1>1. e.of \in C
  BY DEF Events
<1>2. CASE EndsInBubble(msgs)
  BY <1>1, <1>2, LastMessage, ThinkingSound, AppendTextKeeps DEF OnThinking
<1>3. CASE ~EndsInBubble(msgs)
  BY <1>3 DEF OnThinking, AppendText
<1> QED  BY <1>2, <1>3

LEMMA OnTextKeeps ==
  ASSUME NEW C, NEW c \in C, NEW msgs \in Transcripts(C), NEW e \in Events(c)
  PROVE  OnText(msgs, e) \in Transcripts(C)
<1>1. e.of \in C
  BY DEF Events
<1>2. CASE EndsInBubble(msgs)
  BY <1>1, <1>2, LastMessage, AnswerSound, AppendTextKeeps DEF OnText
<1>3. CASE ~EndsInBubble(msgs)
  BY <1>3 DEF OnText, AppendText
<1> QED  BY <1>2, <1>3

LEMMA OnInterruptKeeps ==
  ASSUME NEW C, NEW c \in C, NEW msgs \in Transcripts(C)
  PROVE  OnInterrupt(msgs, c) \in Transcripts(C)
<1>1. CASE EndsInBubble(msgs)
  BY <1>1, LastMessage, NoteSound, AppendTextKeeps DEF OnInterrupt
<1>2. CASE ~EndsInBubble(msgs)
  BY <1>2 DEF OnInterrupt, AppendText
<1> QED  BY <1>1, <1>2

LEMMA AppendMessage ==
  ASSUME NEW C, NEW msgs \in Transcripts(C), NEW m \in Messages(C)
  PROVE  Append(msgs, m) \in Transcripts(C)
<1> DEFINE M == Messages(C)
<1> HIDE DEF M
<1>1. msgs \in Seq(M) /\ m \in M
  BY DEF Transcripts, M
<1>2. Append(msgs, m) \in Seq(M)
  BY <1>1, AppendProperties
<1> QED  BY <1>2 DEF Transcripts, M

LEMMA OnToolInputKeeps ==
  ASSUME NEW C, NEW c \in C, NEW msgs \in Transcripts(C), NEW e \in Events(c)
  PROVE  OnToolInput(msgs, e) \in Transcripts(C)
<1> DEFINE b == Bubble(e.of, e.turn, <<>>)
           m == [b EXCEPT !.role = "tool", !.tool = e.tool, !.call = e.call]
<1>1. e.of \in C /\ e.turn \in Nat /\ e.tool \in ToolNames /\ e.call \in Nat \X Nat
  BY DEF Events
<1>2. b \in Messages(C)
  BY <1>1, ShortTextsSound, NewMessages
<1>3. m \in Messages(C)
  <2> HIDE DEF b
  <2> QED  BY <1>1, <1>2 DEF Messages
<1> QED  BY <1>3, AppendMessage DEF OnToolInput

\* A card that takes a result or a diff of conversation c.
LEMMA CardFilled ==
  ASSUME NEW C, NEW c \in C, NEW msgs \in Transcripts(C), NEW k, NEW call \in Nat \X Nat
  PROVE  /\ [msgs EXCEPT ![k].result = call, ![k].of = @ \cup {c}] \in Transcripts(C)
         /\ [msgs EXCEPT ![k].diff = call, ![k].of = @ \cup {c}] \in Transcripts(C)
<1> DEFINE r == [msgs[k] EXCEPT !.result = call, !.of = @ \cup {c}]
           d == [msgs[k] EXCEPT !.diff = call, !.of = @ \cup {c}]
<1>1. CASE k \in DOMAIN msgs
  <2>1. msgs[k] \in Messages(C)
    <3> DEFINE M == Messages(C)
    <3> HIDE DEF M
    <3>1. msgs \in Seq(M)
      BY DEF Transcripts, M
    <3>2. msgs[k] \in M
      BY <1>1, <3>1, LenProperties, ElementOfSeq
    <3> QED  BY <3>2 DEF M
  <2>2. \A m \in Messages(C) :
          /\ [m EXCEPT !.result = call, !.of = @ \cup {c}] \in Messages(C)
          /\ [m EXCEPT !.diff = call, !.of = @ \cup {c}] \in Messages(C)
    BY ZenonT(60) DEF Messages
  <2>3. r \in Messages(C) /\ d \in Messages(C)
    BY <2>1, <2>2, Zenon
  <2>4. [msgs EXCEPT ![k] = r] \in Transcripts(C) /\ [msgs EXCEPT ![k] = d] \in Transcripts(C)
    BY <2>3, ReplaceMessage
  <2> QED  BY <2>4, ZenonT(60)
<1>2. CASE k \notin DOMAIN msgs
  <2>1. msgs = [i \in DOMAIN msgs |-> msgs[i]]
    BY LenProperties, Zenon DEF Transcripts
  <2>2. [msgs EXCEPT ![k] = r] = msgs /\ [msgs EXCEPT ![k] = d] = msgs
    BY <1>2, <2>1, Zenon
  <2> QED  BY <2>2, ZenonT(60)
<1> QED  BY <1>1, <1>2

LEMMA OnToolResultKeeps ==
  ASSUME NEW C, NEW c \in C, NEW msgs \in Transcripts(C), NEW e \in Events(c)
  PROVE  OnToolResult(msgs, e) \in Transcripts(C)
<1>1. e.of \in C /\ e.turn \in Nat /\ e.call \in Nat \X Nat
  BY DEF Events
<1>2. Bubble(e.of, e.turn, <<>>) \in Messages(C)
  BY <1>1, ShortTextsSound, NewMessages
<1>3. \A k : [msgs EXCEPT ![k].result = e.call, ![k].of = @ \cup {e.of}] \in Transcripts(C)
  BY <1>1, CardFilled
<1> QED  BY <1>2, <1>3, AppendMessage DEF OnToolResult

LEMMA OnDiffKeeps ==
  ASSUME NEW C, NEW c \in C, NEW msgs \in Transcripts(C), NEW e \in Events(c)
  PROVE  OnDiff(msgs, e) \in Transcripts(C)
<1>1. e.of \in C /\ e.call \in Nat \X Nat
  BY DEF Events
<1>2. \A k : [msgs EXCEPT ![k].diff = e.call, ![k].of = @ \cup {e.of}] \in Transcripts(C)
  BY <1>1, CardFilled
<1> QED  BY <1>2 DEF OnDiff

LEMMA OnDoneKeeps ==
  ASSUME NEW C, NEW msgs \in Transcripts(C)
  PROVE  OnDone(msgs) \in Transcripts(C)
<1> DEFINE M == Messages(C)
<1> HIDE DEF M
<1>1. msgs \in Seq(M) /\ Len(msgs) \in Nat
  BY LenProperties DEF Transcripts, M
<1>2. \A i \in 1..(Len(msgs) - 1) : msgs[i] \in M
  BY <1>1, ElementOfSeq
<1>3. SubSeq(msgs, 1, Len(msgs) - 1) \in Seq(M)
  BY <1>1, <1>2, SubSeqProperties
<1> QED  BY <1>1, <1>3 DEF OnDone, Transcripts, M

LEMMA OnErrorKeeps ==
  ASSUME NEW C, NEW c \in C, NEW msgs \in Transcripts(C), NEW e \in Events(c)
  PROVE  OnError(msgs, e) \in Transcripts(C)
<1>1. e.of \in C /\ e.turn \in Nat
  BY DEF Events
<1>2. Bubble(e.of, e.turn, <<"error">>) \in Messages(C)
  BY <1>1, ShortTextsSound, NewMessages
<1> QED  BY <1>2, AppendMessage DEF OnError

\* An event of conversation c adds text of c only and hides no answer.
LEMMA ApplyKeeps ==
  ASSUME NEW C, NEW c \in C, NEW msgs \in Transcripts(C), NEW e \in Events(c)
  PROVE  Apply(msgs, e) \in Transcripts(C)
BY OnThinkingKeeps, OnTextKeeps, OnToolInputKeeps, OnToolResultKeeps, OnDiffKeeps, OnDoneKeeps,
   OnErrorKeeps DEF Apply

\* Saving drops the diffs and nothing else.
LEMMA KeptKeeps ==
  ASSUME NEW C, NEW msgs \in Transcripts(C)
  PROVE  Kept(msgs) \in Transcripts(C)
<1> DEFINE M == Messages(C)
           K(i) == [msgs[i] EXCEPT !.diff = NoCall]
<1>1. \A m \in M : [m EXCEPT !.diff = NoCall] \in M
  BY DEF Messages, NoCall
<1> HIDE DEF M
<1>2. msgs \in Seq(M) /\ Len(msgs) \in Nat /\ DOMAIN msgs = 1..Len(msgs)
  BY LenProperties DEF Transcripts, M
<1>3. \A i \in 1..Len(msgs) : K(i) \in M
  BY <1>1, <1>2, ElementOfSeq
<1> HIDE DEF K
<1>4. [i \in 1..Len(msgs) |-> K(i)] \in Seq(M)
  BY <1>2, <1>3, IsASeq
<1> QED  BY <1>2, <1>4 DEF Kept, Transcripts, M, K

LEMMA WithTurnKeeps ==
  ASSUME NEW C, NEW c \in C, NEW msgs \in Transcripts(C), NEW t \in Nat
  PROVE  WithTurn(msgs, c, t) \in Transcripts(C)
<1> DEFINE M == Messages(C)
           pair == <<UserMessage(c, t), Bubble(c, t, <<>>)>>
<1>1. UserMessage(c, t) \in M /\ Bubble(c, t, <<>>) \in M
  BY ShortTextsSound, NewMessages
<1>2. msgs \in Seq(M)
  BY DEF Transcripts
<1> HIDE DEF M
<1>3. pair \in Seq(M)
  BY <1>1
<1>4. msgs \o pair \in Seq(M)
  BY <1>2, <1>3, ConcatProperties
<1> QED  BY <1>4 DEF WithTurn, Transcripts, M

LEMMA NoMessages == ASSUME NEW C PROVE <<>> \in Transcripts(C)
BY EmptySeq DEF Transcripts

-----------------------------------------------------------------------------
(* The steps *)

Spendable == {"sends", "texts", "calls", "thinks", "fails", "loads", "news", "deletes",
              "leaves", "ticks"}

LEMMA SpendKeeps ==
  ASSUME TypeOK, NEW what \in Spendable, Spend(what)
  PROVE  budget' \in Allowances
BY DEF TypeOK, Spend, Spendable, Allowances

\* The fields of the view and of a run after an update of some of them.
LEMMA ViewUpdated ==
  ASSUME TypeOK, NEW msgs, NEW sid
  PROVE  /\ [view EXCEPT !.msgs = msgs] = [msgs |-> msgs, sid |-> view.sid, conv |-> view.conv]
         /\ [view EXCEPT !.sid = sid] = [msgs |-> view.msgs, sid |-> sid, conv |-> view.conv]
BY DEF TypeOK

\* A run's event reaches the view.
LEMMA ReceiveKeeps ==
  ASSUME ChatInv, NEW s \in stream, NEW type \in EventTypes, NEW tool \in ToolNames,
         NEW call \in Nat \X Nat, NEW phase \in Phases,
         Receive(s, type, tool, call, phase), budget' \in Allowances
  PROVE  ChatInv'
<1> DEFINE e == Event(type, s.conv, s.turn, tool, call)
           run == [s EXCEPT !.phase = phase, !.calls = call[2], !.tool = tool]
<1> USE DEF ChatInv
<1>1. s \in Runs /\ e \in Events(s.conv) /\ s.conv \in Nat
  BY DEF TypeOK, Runs, Events, Event
<1>2. /\ view'.msgs = Apply(view.msgs, e) /\ view'.sid = view.sid /\ view'.conv = view.conv
      /\ view' = [msgs |-> Apply(view.msgs, e), sid |-> view.sid, conv |-> view.conv]
  BY ViewUpdated DEF Receive
<1>3. run \in Runs /\ run.conv = s.conv /\ run.sid = s.sid /\ stream' = {run}
  BY <1>1 DEF Runs, Receive
<1>4. /\ store' = store /\ owner' = owner /\ clock' = clock /\ page' = page /\ saves' = saves
      /\ loads' = loads /\ history' = history /\ turn' = turn /\ convs' = convs
      /\ deleted' = deleted /\ races' = races
  BY DEF Receive, ghosts
<1> HIDE DEF e, run
<1>5. TypeOK'
  <2>1. Apply(view.msgs, e) \in Transcripts(Nat)
    BY <1>1, ApplyKeeps DEF TypeOK
  <2>2. /\ Sids' = Sids /\ Runs' = Runs /\ Saves' = Saves /\ Loads' = Loads
    BY <1>4 DEF Sids, Runs, Saves, Loads
  <2> QED  BY <2>1, <2>2, <1>2, <1>3, <1>4 DEF TypeOK
<1>6. AwayIsQuiet'
  BY <1>4 DEF AwayIsQuiet
<1>7. EachForItself'
  <2>1. SUFFICES ASSUME ForItself PROVE ForItself'
    BY <1>4 DEF EachForItself
  <2>2. Apply(view.msgs, e) \in Transcripts({view.conv})
    BY <1>1, <2>1, ApplyKeeps DEF ForItself
  <2> QED  BY <1>2, <1>3, <1>4, <2>1, <2>2 DEF ForItself
<1>8. NothingDeleted'
  BY <1>2, <1>3, <1>4 DEF NothingDeleted, Gone
<1> QED  BY <1>5, <1>6, <1>7, <1>8

\* A turn is sent.
LEMMA PostTurnKeeps ==
  ASSUME ChatInv, NEW plan \in BOOLEAN, PostTurn(plan)
  PROVE  ChatInv'
<1> DEFINE msgs == WithTurn(view.msgs, view.conv, turn')
           run == [conv |-> view.conv, sid |-> view.sid, turn |-> turn', plan |-> plan,
                   phase |-> "sent", calls |-> 0, tool |-> NoTool]
<1> USE DEF ChatInv
<1>1. /\ turn' \in Nat /\ view.conv \in Nat /\ view.sid \in Sids
      /\ view' = [msgs |-> msgs, sid |-> view.sid, conv |-> view.conv]
      /\ stream' = {run} /\ run \in Runs /\ run.conv = view.conv /\ run.sid = view.sid
  BY ViewUpdated DEF PostTurn, TypeOK, Runs, Phases, ToolNames
<1>2. /\ store' = store /\ owner' = owner /\ clock' = clock /\ page' = page /\ saves' = saves
      /\ loads' = loads /\ history' = history /\ convs' = convs /\ deleted' = deleted
      /\ races \subseteq races' /\ page = "chat"
  BY DEF PostTurn, Race
<1>3. budget' \in Allowances
  BY SpendKeeps DEF PostTurn, Spendable
<1> HIDE DEF run
<1>4. TypeOK'
  <2>1. msgs \in Transcripts(Nat)
    BY <1>1, WithTurnKeeps DEF TypeOK
  <2>2. /\ Sids' = Sids /\ Runs' = Runs /\ Saves' = Saves /\ Loads' = Loads
    BY <1>2 DEF Sids, Runs, Saves, Loads
  <2> HIDE DEF msgs
  <2> QED  BY <2>1, <2>2, <1>1, <1>2, <1>3 DEF TypeOK
<1>5. AwayIsQuiet'
  BY <1>2 DEF AwayIsQuiet
<1>6. EachForItself'
  <2>1. SUFFICES ASSUME ForItself PROVE ForItself'
    BY <1>2 DEF EachForItself
  <2>2. msgs \in Transcripts({view.conv})
    BY <1>1, <2>1, WithTurnKeeps DEF ForItself
  <2> HIDE DEF msgs
  <2> QED  BY <1>1, <1>2, <2>1, <2>2 DEF ForItself
<1>7. NothingDeleted'
  <2> HIDE DEF msgs
  <2> QED  BY <1>1, <1>2 DEF NothingDeleted, Gone
<1> QED  BY <1>4, <1>5, <1>6, <1>7

\* A run's stream is over: the view of that moment is saved.
LEMMA FinallyKeeps ==
  ASSUME ChatInv, NEW s \in stream, NEW msgs \in Transcripts(Nat), Finally(s, msgs),
         ForItself => msgs \in Transcripts({view.conv}), budget' \in Allowances
  PROVE  ChatInv'
<1> DEFINE save == [id |-> s.sid, msgs |-> Kept(msgs), conv |-> s.conv,
                    first |-> s.sid = NoSession, at |-> "sent", mine |-> TRUE]
<1> USE DEF ChatInv
<1>1. s \in Runs /\ s.conv \in Nat /\ s.sid \in Sids
  BY DEF TypeOK, Runs
<1>2. view' = [msgs |-> msgs, sid |-> view.sid, conv |-> view.conv]
  BY ViewUpdated DEF Finally
<1>3. /\ store' = store /\ owner' = owner /\ clock' = clock /\ page' = page
      /\ loads' = loads /\ history' = history /\ turn' = turn /\ convs' = convs
      /\ deleted' = deleted /\ races' = races
      /\ stream' = {} /\ saves' \subseteq saves \cup {save}
  BY DEF Finally, ghosts
<1>4. /\ save \in Saves /\ save.id = s.sid /\ save.conv = s.conv /\ save.at = "sent"
      /\ save.first <=> s.sid = NoSession
      /\ save.msgs = Kept(msgs) /\ save.mine
  BY <1>1, KeptKeeps DEF Saves
<1> HIDE DEF save
<1>5. TypeOK'
  <2>1. /\ Sids' = Sids /\ Runs' = Runs /\ Saves' = Saves /\ Loads' = Loads
    BY <1>3 DEF Sids, Runs, Saves, Loads
  <2> QED  BY <2>1, <1>2, <1>3, <1>4 DEF TypeOK
<1>6. AwayIsQuiet'
  BY <1>3 DEF AwayIsQuiet
<1>7. EachForItself'
  <2>1. SUFFICES ASSUME ForItself PROVE ForItself'
    BY <1>3 DEF EachForItself
  <2>2. Kept(msgs) \in Transcripts({s.conv}) /\ s.conv = view.conv
    BY <2>1, KeptKeeps DEF ForItself
  <2>3. \A x \in saves' :
          /\ x.msgs \in Transcripts({x.conv})
          /\ x.id # NoSession => owner[x.id] = x.conv
          /\ x.first /\ x.mine => x.conv = view.conv
    <3> TAKE x \in saves'
    <3>1. CASE x \in saves
      BY <3>1, <2>1 DEF ForItself
    <3>2. CASE x = save
      BY <3>2, <2>1, <2>2, <1>4 DEF ForItself
    <3> QED  BY <3>1, <3>2, <1>3
  <2> QED  BY <1>2, <1>3, <2>1, <2>3 DEF ForItself
<1>8. NothingDeleted'
  BY <1>2, <1>3, <1>4 DEF NothingDeleted, Gone
<1> QED  BY <1>5, <1>6, <1>7, <1>8

LEMMA StreamKeeps ==
  ASSUME ChatInv,
         \/ StreamThinking \/ StreamText \/ VerificationFails \/ CallTool \/ AnswerCall
         \/ ShowDiff \/ AnswerParallel \/ StreamDone \/ StreamError
  PROVE  ChatInv'
<1>1. /\ \A s \in stream : s.turn \in Nat /\ s.calls \in Nat /\ s.tool \in ToolNames
      /\ NoTool \in ToolNames /\ Tools \subseteq ToolNames /\ budget \in Allowances
  BY DEF ChatInv, TypeOK, Runs, ToolNames
<1>2. \A s \in stream : LastCall(s) \in Nat \X Nat /\ NextCall(s) \in Nat \X Nat
  BY <1>1 DEF LastCall, NextCall
<1>3. \A what \in Spendable : Spend(what) => budget' \in Allowances
  BY SpendKeeps DEF ChatInv
<1>4. CASE StreamThinking
  <2>1. PICK s \in stream : Receive(s, "thinking", NoTool, LastCall(s), "thinking") /\ Spend("thinks")
    BY <1>4 DEF StreamThinking
  <2> QED  BY <1>1, <1>2, <1>3, <2>1, ReceiveKeeps DEF Phases, EventTypes, Spendable
<1>5. CASE StreamText
  <2>1. PICK s \in stream : Receive(s, "text", NoTool, LastCall(s), "text") /\ Spend("texts")
    BY <1>5 DEF StreamText
  <2> QED  BY <1>1, <1>2, <1>3, <2>1, ReceiveKeeps DEF Phases, EventTypes, Spendable
<1>6. CASE VerificationFails
  <2>1. PICK s \in stream : Receive(s, "status", NoTool, LastCall(s), "reply") /\ Spend("texts")
    BY <1>6 DEF VerificationFails
  <2> QED  BY <1>1, <1>2, <1>3, <2>1, ReceiveKeeps DEF Phases, EventTypes, Spendable
<1>7. CASE CallTool
  <2>1. PICK s \in stream, tool \in Tools : 
          Receive(s, "tool_input", tool, NextCall(s), "call") /\ Spend("calls")
    BY <1>7 DEF CallTool
  <2> QED  BY <1>1, <1>2, <1>3, <2>1, ReceiveKeeps DEF Phases, EventTypes, Spendable
<1>8. CASE AnswerCall
  <2>1. PICK s \in stream, phase \in {"reply", "edited"}, type \in {"tool_result", "empty_result"} :
          Receive(s, type, s.tool, LastCall(s), phase) /\ budget' = budget
    BY <1>8 DEF AnswerCall
  <2> QED  BY <1>1, <1>2, <2>1, ReceiveKeeps DEF Phases, EventTypes
<1>9. CASE ShowDiff
  <2>1. PICK s \in stream : Receive(s, "diff", s.tool, LastCall(s), "reply") /\ budget' = budget
    BY <1>9 DEF ShowDiff
  <2> QED  BY <1>1, <1>2, <2>1, ReceiveKeeps DEF Phases, EventTypes
<1>10. CASE AnswerParallel
  <2>1. PICK s \in stream, tool \in Tools, phase \in {"parallel", "reply"} :
          /\ Receive(s, "tool_result", tool, NextCall(s), phase)
          /\ Spend("calls") \/ budget' = budget
    BY <1>10 DEF AnswerParallel
  <2> QED  BY <1>1, <1>2, <1>3, <2>1, ReceiveKeeps DEF Phases, EventTypes, Spendable
<1>11. CASE StreamDone
  <2>1. PICK s \in stream : Receive(s, "done", NoTool, LastCall(s), "ended") /\ budget' = budget
    BY <1>11 DEF StreamDone
  <2> QED  BY <1>1, <1>2, <2>1, ReceiveKeeps DEF Phases, EventTypes
<1>12. CASE StreamError
  <2>1. PICK s \in stream : Receive(s, "error", NoTool, LastCall(s), "ended") /\ Spend("fails")
    BY <1>12 DEF StreamError
  <2> QED  BY <1>1, <1>2, <1>3, <2>1, ReceiveKeeps DEF Phases, EventTypes, Spendable
<1> QED  BY <1>4, <1>5, <1>6, <1>7, <1>8, <1>9, <1>10, <1>11, <1>12

LEMMA EndKeeps ==
  ASSUME ChatInv, StreamEnds \/ Interrupt \/ Refuse
  PROVE  ChatInv'
<1>1. /\ view.msgs \in Transcripts(Nat) /\ budget \in Allowances
      /\ \A s \in stream : s.conv \in Nat
  BY DEF ChatInv, TypeOK, Runs
<1>2. ForItself => /\ view.msgs \in Transcripts({view.conv})
                   /\ \A s \in stream : s.conv = view.conv
  BY DEF ForItself
<1>3. Spend("fails") => budget' \in Allowances
  BY SpendKeeps DEF ChatInv, Spendable
<1>4. CASE StreamEnds
  <2>1. OnDone(view.msgs) \in Transcripts(Nat)
    BY <1>1, OnDoneKeeps
  <2>2. ForItself => OnDone(view.msgs) \in Transcripts({view.conv})
    BY <1>2, OnDoneKeeps
  <2> QED  BY <1>1, <1>4, <2>1, <2>2, FinallyKeeps DEF StreamEnds
<1>5. CASE Interrupt
  <2>1. PICK s \in stream : Finally(s, OnInterrupt(view.msgs, s.conv)) /\ Spend("fails")
    BY <1>5 DEF Interrupt
  <2>2. OnInterrupt(view.msgs, s.conv) \in Transcripts(Nat)
    BY <1>1, OnInterruptKeeps
  <2>3. ForItself => OnInterrupt(view.msgs, s.conv) \in Transcripts({view.conv})
    BY <1>2, OnInterruptKeeps
  <2> QED  BY <1>3, <2>1, <2>2, <2>3, FinallyKeeps
<1>6. CASE Refuse
  BY <1>1, <1>2, <1>3, <1>6, FinallyKeeps DEF Refuse
<1> QED  BY <1>4, <1>5, <1>6

\* The server writes a session; a first save hands out an id.
LEMMA SaveStoredKeeps ==
  ASSUME ChatInv, SaveStored
  PROVE  ChatInv'
<1> USE DEF ChatInv
<1>1. PICK s \in saves : 
        LET id == IF s.first THEN clock ELSE s.id IN
        /\ s.at = "sent"
        /\ store' = With(store, id, s.msgs)
        /\ owner' = IF s.first THEN With(owner, id, s.conv) ELSE owner
        /\ saves' = (saves \ {s}) \cup {Stored(s, id)}
        /\ Race("collided", s.first /\ id \in DOMAIN owner)
  BY DEF SaveStored
<1> DEFINE id == IF s.first THEN clock ELSE s.id
           done == Stored(s, id)
<1>2. /\ clock' = clock /\ page' = page /\ view' = view /\ stream' = stream /\ loads' = loads
      /\ history' = history /\ turn' = turn /\ convs' = convs /\ deleted' = deleted
      /\ budget' = budget /\ races \subseteq races'
  BY <1>1 DEF SaveStored, Race
<1>3. /\ s \in Saves /\ s.id \in Sids /\ s.msgs \in Transcripts(Nat) /\ s.conv \in Nat
      /\ s.first \in BOOLEAN /\ s.mine \in BOOLEAN
      /\ id \in Nat /\ (~s.first => id \in DOMAIN owner /\ id = s.id /\ id # NoSession)
      /\ (s.first => id = clock)
  BY <1>1, NoSessionAssumption DEF TypeOK, Saves, Sids
<1>4. /\ done.id = id /\ done.at = "stored" /\ done.msgs = <<>> /\ done.conv = s.conv
      /\ done.first = s.first /\ done.mine = s.mine
      /\ done = [id |-> id, msgs |-> <<>>, conv |-> s.conv, first |-> s.first, at |-> "stored",
                 mine |-> s.mine]
  BY DEF Stored
<1>5. /\ DOMAIN owner' = DOMAIN owner \cup {id}
      /\ DOMAIN store' = DOMAIN store \cup {id}
      /\ store' = [i \in DOMAIN store \cup {id} |-> IF i = id THEN s.msgs ELSE store[i]]
      /\ s.first => owner' = [i \in DOMAIN owner \cup {id} |-> IF i = id THEN s.conv ELSE owner[i]]
      /\ ~s.first => owner' = owner
  BY <1>1, <1>3 DEF With
<1>6. saves' = (saves \ {s}) \cup {done}
  BY <1>1
<1>7. Sids \subseteq Sids' /\ id \in Sids' /\ id # NoSession
  BY <1>3, <1>5, NoSessionAssumption DEF Sids
<1> HIDE DEF id, done
<1>8. TypeOK'
  <2>1. owner' \in [DOMAIN owner' -> Nat] /\ DOMAIN owner' \subseteq Nat
    BY <1>3, <1>5 DEF TypeOK
  <2>2. store' \in [DOMAIN store' -> Transcripts(Nat)] /\ DOMAIN store' \subseteq DOMAIN owner'
    BY <1>3, <1>5 DEF TypeOK
  <2>3. stream' \subseteq Runs'
    BY <1>2, <1>7 DEF TypeOK, Runs
  <2>4. saves \subseteq Saves' /\ done \in Saves'
    BY <1>3, <1>4, <1>7, NoMessages DEF TypeOK, Saves
  <2>5. saves' \subseteq Saves'
    BY <2>4, <1>6
  <2>6. \A x \in saves' : x.id = NoSession <=> x.first /\ x.at = "sent"
    BY <1>4, <1>6, <1>7 DEF TypeOK
  <2>7. loads' \subseteq Loads'
    BY <1>2, <1>5 DEF TypeOK, Loads
  <2>8. view' \in [msgs : Transcripts(Nat), sid : Sids', conv : Nat]
    BY <1>2, <1>7 DEF TypeOK
  <2> QED  BY <1>2, <1>5, <2>1, <2>2, <2>3, <2>5, <2>6, <2>7, <2>8 DEF TypeOK
<1>9. AwayIsQuiet'
  BY <1>2, <1>4, <1>6 DEF AwayIsQuiet
<1>10. EachForItself'
  <2>1. SUFFICES ASSUME ForItself, races' \cap {"switched", "collided"} = {}
                 PROVE  ForItself'
    BY <1>2 DEF EachForItself
  <2>2. s.first => id \notin DOMAIN owner
    BY <1>1, <2>1 DEF Race, id
  <2>3. /\ \A i \in DOMAIN owner : owner'[i] = owner[i]
        /\ owner'[id] = s.conv
    BY <1>3, <1>5, <2>1, <2>2 DEF ForItself
  <2>4. /\ view.sid \in Sids /\ \A x \in stream : x.sid \in Sids
        /\ \A x \in saves : x.id \in Sids /\ \A l \in loads : l.id \in DOMAIN owner
    BY DEF TypeOK, Runs, Saves, Loads
  <2>5. \A x \in saves' : /\ x.msgs \in Transcripts({x.conv})
                          /\ x.id # NoSession => owner'[x.id] = x.conv
                          /\ x.first /\ x.mine => x.conv = view.conv
    <3> TAKE x \in saves'
    <3>1. CASE x \in saves
      BY <3>1, <2>1, <2>3, <2>4 DEF ForItself, Sids
    <3>2. CASE x = done
      BY <3>2, <1>4, <2>1, <2>3, NoMessages DEF ForItself
    <3> QED  BY <3>1, <3>2, <1>6
  <2>6. \A i \in DOMAIN store' : store'[i] \in Transcripts({owner'[i]})
    <3> TAKE i \in DOMAIN store'
    <3>1. CASE i = id
      BY <3>1, <1>5, <2>1, <2>3 DEF ForItself
    <3>2. CASE i # id
      <4>1. i \in DOMAIN store /\ i \in DOMAIN owner /\ store'[i] = store[i]
        BY <3>2, <1>5 DEF TypeOK
      <4> QED  BY <4>1, <2>1, <2>3 DEF ForItself
    <3> QED  BY <3>1, <3>2
  <2> QED  BY <1>2, <2>1, <2>3, <2>4, <2>5, <2>6 DEF ForItself, Sids
<1>11. NothingDeleted'
  <2>1. SUFFICES ASSUME NEW d \in deleted, Gone(d), races' \cap {"deleted", "collided"} = {}
                 PROVE  Gone(d)'
    BY <1>2 DEF NothingDeleted
  <2>2. d # id
    BY <1>1, <1>3, <2>1 DEF Race, Gone, TypeOK, id
  <2> QED  BY <1>2, <1>4, <1>5, <1>6, <2>1, <2>2 DEF Gone
<1> QED  BY <1>8, <1>9, <1>10, <1>11

\* The client hears of a save, or of its failure.
LEMMA SaveOverKeeps ==
  ASSUME ChatInv, SaveAnswered \/ SaveFails
  PROVE  ChatInv'
<1> USE DEF ChatInv
<1>1. PICK s \in saves :
        /\ saves' = saves \ {s}
        /\ \/ view' = view
           \/ s.at = "stored" /\ s.first /\ s.mine /\ view' = [view EXCEPT !.sid = s.id]
  BY DEF SaveAnswered, SaveFails
<1>2. /\ store' = store /\ owner' = owner /\ clock' = clock /\ page' = page /\ stream' = stream
      /\ loads' = loads /\ history' = history /\ turn' = turn /\ convs' = convs
      /\ deleted' = deleted /\ races \subseteq races'
  BY DEF SaveAnswered, SaveFails, ghosts, Race
<1>3. budget' \in Allowances
  BY SpendKeeps DEF SaveAnswered, SaveFails, Spendable, TypeOK
<1>4. /\ view'.msgs = view.msgs /\ view'.conv = view.conv
      /\ view'.sid = view.sid \/ (view'.sid = s.id /\ s.first /\ s.mine /\ s.id # NoSession)
      /\ view' = [msgs |-> view.msgs, sid |-> view'.sid, conv |-> view.conv]
  BY <1>1, ViewUpdated DEF TypeOK
<1>5. s.id \in Sids
  BY DEF TypeOK, Saves
<1>6. TypeOK'
  <2>1. /\ Sids' = Sids /\ Runs' = Runs /\ Saves' = Saves /\ Loads' = Loads
    BY <1>2 DEF Sids, Runs, Saves, Loads
  <2>2. view' \in [msgs : Transcripts(Nat), sid : Sids, conv : Nat]
    BY <1>4, <1>5 DEF TypeOK
  <2> QED  BY <2>1, <2>2, <1>1, <1>2, <1>3 DEF TypeOK
<1>7. AwayIsQuiet'
  BY <1>1, <1>2 DEF AwayIsQuiet
<1>8. EachForItself'
  BY <1>1, <1>2, <1>4 DEF EachForItself, ForItself
<1>9. NothingDeleted'
  BY <1>1, <1>2, <1>4 DEF NothingDeleted, Gone
<1> QED  BY <1>6, <1>7, <1>8, <1>9

\* A session is asked for and read.
LEMMA LoadKeeps ==
  ASSUME ChatInv, ClickSession \/ LoadRead
  PROVE  ChatInv'
<1> USE DEF ChatInv
<1>1. /\ store' = store /\ owner' = owner /\ clock' = clock /\ page' = page /\ stream' = stream
      /\ view' = view /\ saves' = saves /\ history' = history /\ turn' = turn /\ convs' = convs
      /\ deleted' = deleted /\ races' = races
  BY DEF ClickSession, LoadRead, ghosts
<1>2. budget' \in Allowances
  BY SpendKeeps DEF ClickSession, LoadRead, Spendable, TypeOK
<1>3. \A l \in loads' \ loads :
        /\ l \in Loads
        /\ l.found => l.id \in DOMAIN store /\ l.msgs = store[l.id]
        /\ l.id \in history \/ \E k \in loads : k.id = l.id
  <2>1. CASE ClickSession
    <3>1. PICK id \in history :
            loads' = loads \cup {[id |-> id, found |-> FALSE, msgs |-> <<>>, mine |-> TRUE]}
      BY <2>1 DEF ClickSession
    <3> DEFINE load == [id |-> id, found |-> FALSE, msgs |-> <<>>, mine |-> TRUE]
    <3>2. load \in Loads /\ ~load.found /\ load.id = id
      BY NoMessages DEF TypeOK, Loads
    <3>3. \A l \in loads' \ loads : l = load
      BY <3>1
    <3> HIDE DEF load
    <3> QED  BY <3>2, <3>3
  <2>2. CASE LoadRead
    <3>1. PICK k \in loads :
            loads' = (loads \ {k}) \cup
              IF k.id \in DOMAIN store
              THEN {[k EXCEPT !.found = TRUE, !.msgs = store[k.id]]}
              ELSE {}
      BY <2>2 DEF LoadRead
    <3> DEFINE read == [k EXCEPT !.found = TRUE, !.msgs = store[k.id]]
    <3>2. ASSUME k.id \in DOMAIN store
          PROVE  /\ read \in Loads /\ read.id = k.id /\ read.msgs = store[k.id]
      BY <3>2 DEF TypeOK, Loads
    <3> HIDE DEF read
    <3>3. \A l \in loads' \ loads : l = read /\ k.id \in DOMAIN store
      BY <3>1 DEF read
    <3> QED  BY <3>2, <3>3
  <2> QED  BY <2>1, <2>2
<1>4. TypeOK'
  <2>1. /\ Sids' = Sids /\ Runs' = Runs /\ Saves' = Saves /\ Loads' = Loads
    BY <1>1 DEF Sids, Runs, Saves, Loads
  <2>2. loads' \subseteq Loads
    BY <1>3 DEF TypeOK
  <2> QED  BY <2>1, <2>2, <1>1, <1>2 DEF TypeOK
<1>5. AwayIsQuiet'
  BY <1>1 DEF AwayIsQuiet
<1>6. EachForItself'
  BY <1>1, <1>3 DEF EachForItself, ForItself
<1>7. NothingDeleted'
  <2>1. SUFFICES ASSUME NEW d \in deleted, Gone(d) PROVE Gone(d)'
    BY <1>1 DEF NothingDeleted
  <2> QED  BY <1>1, <1>3, <2>1 DEF Gone
<1> QED  BY <1>4, <1>5, <1>6, <1>7

\* The view changes hands.
LEMMA ShowKeeps ==
  ASSUME ChatInv, LoadAnswered \/ NewChat
  PROVE  ChatInv'
<1> USE DEF ChatInv
<1>1. /\ store' = store /\ owner' = owner /\ clock' = clock /\ page' = page /\ stream' = stream
      /\ saves' = saves /\ history' = history /\ turn' = turn /\ convs' \in Nat
      /\ deleted' = deleted /\ races \subseteq races' /\ loads' \subseteq loads
  BY DEF LoadAnswered, NewChat, Show, ghosts, TypeOK
<1>2. budget' \in Allowances
  BY SpendKeeps DEF LoadAnswered, NewChat, Spendable, TypeOK
<1>3. \/ view' = view
      \/ /\ view' = [msgs |-> <<>>, sid |-> NoSession, conv |-> convs']
         /\ Busy => "switched" \in races'
      \/ /\ Busy => "switched" \in races'
         /\ \E l \in loads : l.found /\ view' = [msgs |-> l.msgs, sid |-> l.id, conv |-> owner[l.id]]
  BY DEF LoadAnswered, NewChat, Show, Fresh
<1>4. \A l \in loads : l.id \in DOMAIN owner /\ l.msgs \in Transcripts(Nat)
  BY DEF TypeOK, Loads
<1>5. TypeOK'
  <2>1. /\ Sids' = Sids /\ Runs' = Runs /\ Saves' = Saves /\ Loads' = Loads
    BY <1>1 DEF Sids, Runs, Saves, Loads
  <2>2. view' \in [msgs : Transcripts(Nat), sid : Sids, conv : Nat]
    BY <1>1, <1>3, <1>4, NoMessages DEF TypeOK, Sids
  <2> QED  BY <2>1, <2>2, <1>1, <1>2 DEF TypeOK
<1>6. AwayIsQuiet'
  BY <1>1 DEF AwayIsQuiet
<1>7. EachForItself'
  <2>1. SUFFICES ASSUME ForItself, races' \cap {"switched", "collided"} = {}
                 PROVE  ForItself'
    BY <1>1 DEF EachForItself
  <2>2. CASE view' = view
    BY <1>1, <2>1, <2>2 DEF ForItself
  <2>3. CASE view' # view
    <3>1. stream = {} /\ \A s \in saves : ~(s.mine /\ s.first)
      BY <1>3, <2>1, <2>3 DEF Busy, OpenFirstSave
    <3>2. /\ view'.msgs \in Transcripts({view'.conv})
          /\ view'.sid # NoSession => owner[view'.sid] = view'.conv
      BY <1>3, <2>1, <2>3, NoMessages DEF ForItself
    <3> QED  BY <1>1, <2>1, <3>1, <3>2 DEF ForItself
  <2> QED  BY <2>2, <2>3
<1>8. NothingDeleted'
  <2>1. SUFFICES ASSUME NEW d \in deleted, Gone(d) PROVE Gone(d)'
    BY <1>1 DEF NothingDeleted
  <2>2. d # NoSession
    BY NoSessionAssumption DEF TypeOK
  <2>3. view'.sid # d
    BY <1>3, <2>1, <2>2 DEF Gone
  <2> QED  BY <1>1, <2>1, <2>3 DEF Gone
<1> QED  BY <1>5, <1>6, <1>7, <1>8

LEMMA DeleteKeeps ==
  ASSUME ChatInv, Delete
  PROVE  ChatInv'
<1> USE DEF ChatInv
<1>1. PICK id \in history :
        /\ store' = RemoveSession(id) /\ history' = DOMAIN store' /\ deleted' = deleted \cup {id}
        /\ Race("deleted", InUse(id))
  BY DEF Delete
<1>2. /\ owner' = owner /\ clock' = clock /\ page' = page /\ view' = view /\ stream' = stream
      /\ saves' = saves /\ loads' = loads /\ turn' = turn /\ convs' = convs
      /\ races \subseteq races'
  BY <1>1 DEF Delete, Race
<1>3. budget' \in Allowances
  BY SpendKeeps DEF Delete, Spendable
<1>4. /\ store' = [i \in DOMAIN store \ {id} |-> store[i]]
      /\ DOMAIN store' = DOMAIN store \ {id} /\ history' = DOMAIN store \ {id}
      /\ id \in DOMAIN owner
  BY <1>1 DEF RemoveSession, TypeOK
<1>5. TypeOK'
  <2>1. /\ Sids' = Sids /\ Runs' = Runs /\ Saves' = Saves /\ Loads' = Loads
    BY <1>2 DEF Sids, Runs, Saves, Loads
  <2>2. store' \in [DOMAIN store' -> Transcripts(Nat)]
    BY <1>4 DEF TypeOK
  <2> QED  BY <2>1, <2>2, <1>1, <1>2, <1>3, <1>4 DEF TypeOK
<1>6. AwayIsQuiet'
  BY <1>2 DEF AwayIsQuiet
<1>7. EachForItself'
  BY <1>2, <1>4 DEF EachForItself, ForItself
<1>8. NothingDeleted'
  <2>1. SUFFICES ASSUME NEW d \in deleted', races' \cap {"deleted", "collided"} = {}
                 PROVE  Gone(d)'
    BY DEF NothingDeleted
  <2>2. CASE d = id
    BY <1>1, <1>2, <1>4, <2>1, <2>2 DEF Gone, InUse, Race
  <2>3. CASE d # id
    BY <1>1, <1>2, <1>4, <2>1, <2>3 DEF Gone, NothingDeleted
  <2> QED  BY <2>2, <2>3
<1> QED  BY <1>5, <1>6, <1>7, <1>8

LEMMA DisownedRequests ==
  ASSUME TypeOK
  PROVE  /\ \A s \in saves : LET t == [s EXCEPT !.mine = FALSE] IN
              /\ t \in Saves /\ t.id = s.id /\ t.msgs = s.msgs /\ t.conv = s.conv
              /\ t.first = s.first /\ t.at = s.at /\ ~t.mine
         /\ \A l \in loads : LET t == [l EXCEPT !.mine = FALSE] IN
              t \in Loads /\ t.id = l.id /\ t.msgs = l.msgs /\ t.found = l.found
BY DEF TypeOK, Saves, Loads

\* The page is left.
LEMMA LeaveKeeps ==
  ASSUME ChatInv, Leave
  PROVE  ChatInv'
<1> USE DEF ChatInv
<1>1. /\ store' = store /\ owner' = owner /\ clock' = clock /\ view' = view /\ stream' = {}
      /\ history' = history /\ turn' = turn /\ convs' = convs /\ deleted' = deleted
      /\ races' = races
  BY DEF Leave, ghosts
<1>2. budget' \in Allowances
  BY SpendKeeps DEF Leave, Spendable
<1>3. \A t \in saves' :
        /\ t \in Saves /\ ~t.mine
        /\ \E s \in saves : /\ t.id = s.id /\ t.msgs = s.msgs /\ t.conv = s.conv
                           /\ t.first = s.first /\ t.at = s.at
  <2> TAKE t \in saves'
  <2>1. PICK s \in saves : t = [s EXCEPT !.mine = FALSE]
    BY DEF Leave
  <2> QED  BY <2>1, DisownedRequests
<1>4. \A t \in loads' :
        t \in Loads /\ \E l \in loads : t.id = l.id /\ t.msgs = l.msgs /\ t.found = l.found
  BY DisownedRequests, ZenonT(60) DEF Leave
<1>5. TypeOK'
  <2>1. /\ Sids' = Sids /\ Runs' = Runs /\ Saves' = Saves /\ Loads' = Loads
    BY <1>1 DEF Sids, Runs, Saves, Loads
  <2>2. saves' \subseteq Saves /\ loads' \subseteq Loads
    BY <1>3, <1>4
  <2>3. \A t \in saves' : t.id = NoSession <=> t.first /\ t.at = "sent"
    BY <1>3 DEF TypeOK
  <2> QED  BY <2>1, <2>2, <2>3, <1>1, <1>2 DEF TypeOK
<1>6. AwayIsQuiet'
  BY <1>1, <1>3 DEF AwayIsQuiet
<1>7. EachForItself'
  BY <1>1, <1>3, <1>4 DEF EachForItself, ForItself
<1>8. NothingDeleted'
  BY <1>1, <1>3, <1>4 DEF NothingDeleted, Gone
<1> QED  BY <1>5, <1>6, <1>7, <1>8

\* The page is opened anew, or time passes.
LEMMA ReturnKeeps ==
  ASSUME ChatInv, Return \/ Tick
  PROVE  ChatInv'
<1> USE DEF ChatInv
<1>1. /\ store' = store /\ owner' = owner /\ clock' \in Nat /\ stream' = stream /\ saves' = saves
      /\ loads' = loads /\ turn' = turn /\ convs' \in Nat /\ deleted' = deleted
      /\ races' = races
  BY DEF Return, Tick, ghosts, TypeOK
<1>2. budget' \in Allowances
  BY SpendKeeps DEF Return, Tick, Spendable, TypeOK
<1>3. \/ view' = view /\ page' = page /\ history' = history
      \/ /\ view' = [msgs |-> <<>>, sid |-> NoSession, conv |-> convs']
         /\ page = "away" /\ page' = "chat" /\ history' = DOMAIN store
  BY DEF Return, Tick, Fresh, ghosts
<1>4. TypeOK'
  <2>1. /\ Sids' = Sids /\ Runs' = Runs /\ Saves' = Saves /\ Loads' = Loads
    BY <1>1 DEF Sids, Runs, Saves, Loads
  <2>2. view' \in [msgs : Transcripts(Nat), sid : Sids, conv : Nat]
    BY <1>1, <1>3, NoMessages DEF TypeOK, Sids
  <2>3. history' \subseteq DOMAIN owner
    BY <1>3 DEF TypeOK
  <2> QED  BY <2>1, <2>2, <2>3, <1>1, <1>2 DEF TypeOK
<1>5. AwayIsQuiet'
  BY <1>1, <1>3 DEF AwayIsQuiet
<1>6. EachForItself'
  <2>1. SUFFICES ASSUME ForItself PROVE ForItself'
    BY <1>1 DEF EachForItself
  <2>2. CASE view' = view
    BY <1>1, <2>1, <2>2 DEF ForItself
  <2>3. CASE view' # view
    <3>1. stream = {} /\ \A s \in saves : ~s.mine
      BY <1>3, <2>3 DEF AwayIsQuiet
    <3>2. view'.msgs \in Transcripts({view'.conv}) /\ view'.sid = NoSession
      BY <1>3, <2>3, NoMessages
    <3> QED  BY <1>1, <2>1, <3>1, <3>2 DEF ForItself
  <2> QED  BY <2>2, <2>3
<1>7. NothingDeleted'
  <2>1. SUFFICES ASSUME NEW d \in deleted, Gone(d) PROVE Gone(d)'
    BY <1>1 DEF NothingDeleted
  <2>2. d # NoSession
    BY NoSessionAssumption DEF TypeOK
  <2>3. view'.sid # d /\ d \notin history'
    BY <1>3, <2>1, <2>2 DEF Gone
  <2> QED  BY <1>1, <2>1, <2>3 DEF Gone
<1> QED  BY <1>4, <1>5, <1>6, <1>7

-----------------------------------------------------------------------------
(* The theorems *)

LEMMA InitHolds == Init => ChatInv
<1> SUFFICES ASSUME Init PROVE ChatInv
  OBVIOUS
<1>1. TypeOK
  BY NoMessages, BudgetsAssumption DEF Init, TypeOK, Fresh, Sids
<1>2. AwayIsQuiet
  BY DEF Init, AwayIsQuiet
<1>3. EachForItself
  BY NoMessages DEF Init, EachForItself, ForItself, Fresh
<1>4. NothingDeleted
  BY DEF Init, NothingDeleted
<1> QED  BY <1>1, <1>2, <1>3, <1>4 DEF ChatInv

LEMMA NextKeeps == ChatInv /\ [Next]_vars => ChatInv'
<1> SUFFICES ASSUME ChatInv, [Next]_vars PROVE ChatInv'
  OBVIOUS
<1>1. CASE ApprovePlan \/ Send
  <2>1. \E plan \in BOOLEAN : PostTurn(plan)
    BY <1>1 DEF ApprovePlan, Send, ChatInv, TypeOK, Allowances
  <2> QED  BY <2>1, PostTurnKeeps
<1>2. CASE UNCHANGED vars
  <2>1. TypeOK' /\ AwayIsQuiet'
    BY <1>2 DEF ChatInv, TypeOK, AwayIsQuiet, Sids, Runs, Saves, Loads, vars
  <2>2. EachForItself' /\ NothingDeleted'
    BY <1>2 DEF ChatInv, EachForItself, ForItself, NothingDeleted, Gone, vars
  <2> QED  BY <2>1, <2>2 DEF ChatInv
<1>3. CASE Next /\ ~(ApprovePlan \/ Send)
  BY <1>3, StreamKeeps, EndKeeps, SaveStoredKeeps, SaveOverKeeps, LoadKeeps, ShowKeeps,
     DeleteKeeps, LeaveKeeps, ReturnKeeps DEF Next
<1> QED  BY <1>1, <1>2, <1>3

\* ChatInv is inductive, for any number of turns, sessions, clicks and failures
\* (Chat.tsx's send, autoSave, loadSession and newChat, SidePanel.tsx's delete).
THEOREM Invariance == Spec => []ChatInv
BY InitHolds, NextKeeps, PTL DEF Spec

\* The variables keep their types; every session id the client holds was once
\* handed out by the server.
THEOREM TypeCorrect == Spec => []TypeOK
<1>1. ChatInv => TypeOK
  BY DEF ChatInv
<1> QED  BY <1>1, Invariance, PTL

LEMMA TextOfOne ==
  ASSUME NEW c, NEW msgs \in Transcripts({c})
  PROVE  Within(msgs, c)
<1> DEFINE M == Messages({c})
<1>1. \A m \in M : m.of \subseteq {c}
  BY DEF Messages
<1> HIDE DEF M
<1>2. msgs \in Seq(M)
  BY DEF Transcripts, M
<1>3. \A i \in DOMAIN msgs : msgs[i] \in M
  BY <1>2, LenProperties, ElementOfSeq
<1> QED  BY <1>1, <1>3 DEF Within, Conversations

\* Two conversations mix in a session file only if the view changed hands under
\* a stream or a first save, or two sessions were first saved in one second
\* (Chat.tsx's autoSave and sessions.go's Save).
THEOREM ApartTheorem == Spec => []ConversationsApart
<1>1. ChatInv => ConversationsApart
  BY TextOfOne DEF ChatInv, EachForItself, ForItself, ConversationsApart,
     OneConversationPerSession
<1> QED  BY <1>1, Invariance, PTL

\* A session deleted while nothing shows, loads or saves it never comes back
\* (SidePanel.tsx's delete against Chat.tsx's autoSave).
THEOREM DeletedTheorem == Spec => []DeletedStaysDeleted
<1>1. ChatInv => DeletedStaysDeleted
  BY DEF ChatInv, NothingDeleted, Gone, DeletedStaysDeleted
<1> QED  BY <1>1, Invariance, PTL

\* However deltas, tools and failed verifications alternate, no answer ends up
\* inside a collapsed thinking block (Chat.tsx's handleAgentEvent against
\* Markdown.tsx).
THEOREM AnswersTheorem == Spec => []AnswersAreVisible
<1>1. ASSUME NEW msgs \in Transcripts(Nat), NEW i \in DOMAIN msgs
      PROVE  msgs[i].content \in SoundTexts
  <2> DEFINE M == Messages(Nat)
  <2>1. \A m \in M : m.content \in SoundTexts
    BY DEF Messages
  <2> HIDE DEF M
  <2>2. msgs \in Seq(M)
    BY DEF Transcripts, M
  <2> QED  BY <2>1, <2>2, LenProperties, ElementOfSeq
<1>2. ChatInv => view.msgs \in Transcripts(Nat)
  BY DEF ChatInv, TypeOK
<1>3. ChatInv => AnswersAreVisible
  BY <1>1, <1>2 DEF AnswersAreVisible, SoundTexts, SoundText
<1> QED  BY <1>3, Invariance, PTL
-----------------------------------------------------------------------------
(* What an event changes *)

SameMessage(m, old) ==
  m.role = old.role /\ m.turn = old.turn /\ m.call = old.call /\ m.tool = old.tool

\* new is msgs after an event of turn t: messages keep their places, a last
\* bubble may take text or go, and what is added is no user message.
Follows(new, msgs, t) ==
  /\ \A i \in DOMAIN msgs : i \notin DOMAIN new => i = Len(msgs) /\ msgs[i].role = "assistant"
  /\ \A i \in DOMAIN new :
       /\ i \in DOMAIN msgs => SameMessage(new[i], msgs[i])
       /\ i \in DOMAIN msgs /\ new[i].content # msgs[i].content
            => i = Len(msgs) /\ msgs[i].role = "assistant"
       /\ i \notin DOMAIN msgs => new[i].role # "user" /\ new[i].turn = t

\* Message i of new is a card of msgs, as it was.
AsBefore(new, msgs, i) ==
  i \in DOMAIN msgs /\ new[i].result = msgs[i].result /\ new[i].diff = msgs[i].diff

\* No card is new, none takes a result or a diff.
CardsUntouched(new, msgs) ==
  \A i \in DOMAIN new : new[i].role = "tool" => AsBefore(new, msgs, i)

\* The card at k takes the result (the diff) of a call, no other card changes.
ResultTaken(new, msgs, k, call) ==
  \A i \in DOMAIN new : new[i].role = "tool" =>
    IF i = k THEN i \in DOMAIN msgs /\ new[i].result = call /\ new[i].diff = msgs[i].diff
             ELSE AsBefore(new, msgs, i)

DiffTaken(new, msgs, k, call) ==
  \A i \in DOMAIN new : new[i].role = "tool" =>
    IF i = k THEN i \in DOMAIN msgs /\ new[i].diff = call /\ new[i].result = msgs[i].result
             ELSE AsBefore(new, msgs, i)

WaitsForResult(m, tool) == m.role = "tool" /\ m.tool = tool /\ m.result = NoCall
WaitsForDiff(m) == m.role = "tool" /\ m.tool \in EditTools /\ m.diff = NoCall

\* k is the last of the messages that satisfy a condition, which S holds.
IsNewest(k, S) == k \in S /\ \A j \in S : j <= k

LEMMA LeastNumber ==
  ASSUME NEW n \in Nat, NEW S \in SUBSET (0..n), S # {}
  PROVE  \E m \in S : \A i \in S : m <= i
<1> DEFINE Upto == {0..m : m \in S}
<1>1. IsFiniteSet(0..n)
  BY FS_Interval
<1>2. IsWellFoundedOn(StrictSubsetOrdering(0..n), FiniteSubsetsOf(0..n))
  BY <1>1, FS_StrictSubsetOrderingWellFounded
<1>3. Upto \subseteq FiniteSubsetsOf(0..n) /\ Upto # {}
  <2>1. \A m \in S : 0..m \subseteq 0..n /\ IsFiniteSet(0..m)
    BY FS_Interval
  <2> QED  BY <2>1 DEF FiniteSubsetsOf
<1>4. PICK U \in Upto : \A V \in Upto : ~(<<V, U>> \in StrictSubsetOrdering(0..n))
  BY <1>2, <1>3, WFMin
<1>5. PICK m \in S : U = 0..m
  BY <1>4
<1>6. ASSUME NEW i \in S, i < m PROVE FALSE
  <2>1. 0..i \in Upto /\ 0..i \subseteq 0..m /\ m \notin 0..i /\ m \in 0..m
    BY <1>6
  <2>2. <<0..i, 0..m>> \in StrictSubsetOrdering(0..n)
    BY <2>1, <1>5 DEF StrictSubsetOrdering
  <2> QED  BY <2>1, <2>2, <1>4, <1>5
<1>7. S \in SUBSET Nat
  OBVIOUS
<1> QED  BY <1>6, <1>7

\* The newest of some messages is one of them, and no other is newer.
LEMMA NewestOf ==
  ASSUME NEW n \in Nat, NEW S \in SUBSET (1..n), S # {}
  PROVE  IsNewest(Newest(S), S)
<1> DEFINE T == {n - i : i \in S}
<1>1. \E m \in T : \A i \in T : m <= i
  <2>1. T \in SUBSET (0..n) /\ T # {}
    <3>1. \A i \in S : n - i \in 0..n
      OBVIOUS
    <3> QED  BY <3>1
  <2> HIDE DEF T
  <2> QED  BY <2>1, LeastNumber
<1>2. \E m \in S : \A i \in S : i <= m
  <2>1. PICK m \in T : \A i \in T : m <= i
    BY <1>1
  <2>2. PICK k \in S : m = n - k
    BY <2>1
  <2>3. ASSUME NEW i \in S
        PROVE  i <= k
    <3>1. m <= n - i
      BY <2>1
    <3> QED  BY <2>2, <3>1
  <2> QED  BY <2>3
<1> QED  BY <1>2 DEF Newest, IsNewest

\* A transcript is a sequence of messages, all of them of the right type.
LEMMA Places ==
  ASSUME NEW msgs \in Transcripts(Nat)
  PROVE  /\ Len(msgs) \in Nat /\ DOMAIN msgs = 1..Len(msgs)
         /\ \A i \in DOMAIN msgs : msgs[i] \in Messages(Nat)
<1> DEFINE M == Messages(Nat)
<1> HIDE DEF M
<1>1. msgs \in Seq(M)
  BY DEF Transcripts, M
<1> QED  BY <1>1, LenProperties, ElementOfSeq DEF M

LEMMA NothingChanges ==
  ASSUME NEW msgs \in Transcripts(Nat), NEW t
  PROVE  Follows(msgs, msgs, t) /\ CardsUntouched(msgs, msgs)
BY DEF Follows, CardsUntouched, SameMessage, AsBefore

\* One message more.
LEMMA OneMore ==
  ASSUME NEW msgs \in Transcripts(Nat), NEW m
  PROVE  /\ Len(Append(msgs, m)) = Len(msgs) + 1
         /\ DOMAIN Append(msgs, m) = 1..(Len(msgs) + 1)
         /\ Append(msgs, m)[Len(msgs) + 1] = m
         /\ \A i \in DOMAIN msgs : Append(msgs, m)[i] = msgs[i]
<1> DEFINE M == Messages(Nat) \cup {m}
<1>1. msgs \in Seq(M) /\ m \in M
  BY SeqMonotonic DEF Transcripts
<1> HIDE DEF M
<1>2. Append(msgs, m) \in Seq(M) /\ DOMAIN msgs = 1..Len(msgs)
  BY <1>1, AppendProperties, LenProperties
<1> QED  BY <1>1, <1>2

\* A message that is neither a card nor the user's is added behind the others,
\* as a bubble is.
LEMMA BubbleAdded ==
  ASSUME NEW old \in Transcripts(Nat), NEW msgs \in Transcripts(Nat), NEW t, NEW m,
         m.role = "assistant", m.turn = t,
         DOMAIN msgs = DOMAIN old, Follows(msgs, old, t)
  PROVE  /\ Follows(Append(msgs, m), old, t)
         /\ CardsUntouched(msgs, old) => CardsUntouched(Append(msgs, m), old)
         /\ \A k, call : ResultTaken(msgs, old, k, call) => ResultTaken(Append(msgs, m), old, k, call)
<1> DEFINE new == Append(msgs, m)
<1> USE Places
<1>1. Len(msgs) = Len(old) /\ Len(old) \in Nat /\ DOMAIN old = 1..Len(old)
  OBVIOUS
<1>2. /\ DOMAIN new = 1..(Len(old) + 1) /\ new[Len(old) + 1] = m
      /\ \A i \in DOMAIN old : i \in DOMAIN new /\ new[i] = msgs[i]
  BY <1>1, OneMore
<1>3. \A i \in DOMAIN new : i \in DOMAIN old \/ (i = Len(old) + 1 /\ i \notin DOMAIN old)
  BY <1>1, <1>2
<1> HIDE DEF new
<1>4. Follows(new, old, t)
  BY <1>2, <1>3 DEF Follows
<1>5. CardsUntouched(msgs, old) => CardsUntouched(new, old)
  BY <1>2, <1>3 DEF CardsUntouched, AsBefore
<1>6. \A k, call : ResultTaken(msgs, old, k, call) => ResultTaken(new, old, k, call)
  BY <1>2, <1>3 DEF ResultTaken, AsBefore
<1> QED  BY <1>4, <1>5, <1>6 DEF new

LEMMA AppendTextFollows ==
  ASSUME NEW msgs \in Transcripts(Nat), NEW c, NEW text, NEW t
  PROVE  /\ Follows(AppendText(msgs, c, text), msgs, t)
         /\ CardsUntouched(AppendText(msgs, c, text), msgs)
<1> DEFINE n == Len(msgs)
           m == [msgs[n] EXCEPT !.content = @ \o text, !.of = @ \cup {c}]
           new == [msgs EXCEPT ![n] = m]
<1>1. CASE EndsInBubble(msgs)
  <2>1. /\ n \in DOMAIN msgs /\ msgs[n] \in Messages(Nat) /\ msgs[n].role = "assistant"
    BY <1>1, LastMessage DEF EndsInBubble
  <2>2. SameMessage(m, msgs[n]) /\ m.result = msgs[n].result /\ m.diff = msgs[n].diff
    <3> DEFINE content == msgs[n].content \o text
               of == msgs[n].of \cup {c}
    <3>1. m = [msgs[n] EXCEPT !.content = content, !.of = of]
      OBVIOUS
    <3> HIDE DEF content, of, m
    <3>2. PICK x \in Messages(Nat) : x = msgs[n]
      BY <2>1
    <3>3. m = [x EXCEPT !.content = content, !.of = of]
      BY <3>1, <3>2
    <3>4. SameMessage(m, x) /\ m.result = x.result /\ m.diff = x.diff
      BY ONLY <3>3, x \in Messages(Nat) DEF Messages, SameMessage
    <3> QED  BY ONLY <3>2, <3>4
  <2> HIDE DEF m
  <2>3. /\ DOMAIN new = DOMAIN msgs /\ new[n] = m
        /\ \A i \in DOMAIN msgs : i # n => new[i] = msgs[i]
    BY <2>1
  <2> HIDE DEF new
  <2>4. Follows(new, msgs, t) /\ CardsUntouched(new, msgs)
    BY <2>1, <2>2, <2>3 DEF Follows, CardsUntouched, AsBefore, SameMessage
  <2>5. AppendText(msgs, c, text) = new
    BY <1>1 DEF AppendText, new, m
  <2> QED  BY <2>4, <2>5
<1>2. CASE ~EndsInBubble(msgs)
  BY <1>2, NothingChanges DEF AppendText
<1> QED  BY <1>1, <1>2

LEMMA OnDoneFollows ==
  ASSUME NEW msgs \in Transcripts(Nat), NEW t
  PROVE  Follows(OnDone(msgs), msgs, t) /\ CardsUntouched(OnDone(msgs), msgs)
<1>1. CASE EndsInEmptyBubble(msgs)
  <2> DEFINE n == Len(msgs)
             new == SubSeq(msgs, 1, n - 1)
  <2>1. n \in Nat /\ n # 0 /\ DOMAIN msgs = 1..n /\ msgs[n].role = "assistant"
    BY <1>1, LastMessage, Places DEF EndsInEmptyBubble, EndsInBubble
  <2>2. DOMAIN new = 1..(n - 1) /\ \A i \in 1..(n - 1) : new[i] = msgs[i]
    BY <2>1
  <2>3. OnDone(msgs) = new
    BY <1>1 DEF OnDone
  <2> HIDE DEF new
  <2>4. \A i \in DOMAIN new : i \in DOMAIN msgs /\ new[i] = msgs[i]
    BY <2>1, <2>2
  <2>5. \A i \in DOMAIN msgs : i \notin DOMAIN new => i = n
    BY <2>1, <2>2
  <2> QED  BY <2>1, <2>3, <2>4, <2>5 DEF Follows, CardsUntouched, AsBefore, SameMessage
<1>2. CASE ~EndsInEmptyBubble(msgs)
  BY <1>2, NothingChanges DEF OnDone
<1> QED  BY <1>1, <1>2

LEMMA BubbleFields ==
  ASSUME NEW c, NEW t, NEW text
  PROVE  Bubble(c, t, text).role = "assistant" /\ Bubble(c, t, text).turn = t
BY DEF Bubble

\* Thinking, text, a status, an error or the end of a run touch no card.
QuietTypes == {"thinking", "text", "status", "done", "error", "empty_result"}

LEMMA QuietEvents ==
  ASSUME NEW msgs \in Transcripts(Nat), NEW c \in Nat, NEW e \in Events(c), e.type \in QuietTypes
  PROVE  Follows(Apply(msgs, e), msgs, e.turn) /\ CardsUntouched(Apply(msgs, e), msgs)
<1>1. CASE e.type = "thinking"
  BY <1>1, AppendTextFollows DEF Apply, OnThinking
<1>2. CASE e.type = "text"
  BY <1>2, AppendTextFollows DEF Apply, OnText
<1>3. CASE e.type = "status"
  BY <1>3, NothingChanges DEF Apply
<1>4. CASE e.type = "done"
  BY <1>4, OnDoneFollows DEF Apply
<1>5. CASE e.type = "error"
  <2>1. Apply(msgs, e) = Append(msgs, Bubble(e.of, e.turn, <<"error">>))
    BY <1>5 DEF Apply, OnError
  <2> QED  BY <2>1, NothingChanges, BubbleAdded, BubbleFields
<1>6. CASE e.type = "empty_result"
  <2>1. Apply(msgs, e) = Append(msgs, Bubble(e.of, e.turn, <<>>))
    BY <1>6 DEF Apply, OnToolResult
  <2> QED  BY <2>1, NothingChanges, BubbleAdded, BubbleFields
<1> QED  BY <1>1, <1>2, <1>3, <1>4, <1>5, <1>6 DEF QuietTypes

\* A call adds its card.
LEMMA ToolInputEvent ==
  ASSUME NEW msgs \in Transcripts(Nat), NEW c \in Nat, NEW e \in Events(c),
         e.type = "tool_input", NEW new, new = Apply(msgs, e), NEW n, n = Len(msgs) + 1
  PROVE  /\ Follows(new, msgs, e.turn)
         /\ DOMAIN new = 1..n
         /\ new[n].role = "tool" /\ new[n].turn = e.turn /\ new[n].tool = e.tool
         /\ new[n].call = e.call /\ new[n].result = NoCall /\ new[n].diff = NoCall
         /\ \A i \in DOMAIN msgs : new[i] = msgs[i]
<1>1. PICK m : m = [Bubble(e.of, e.turn, <<>>) EXCEPT
                      !.role = "tool", !.tool = e.tool, !.call = e.call]
  OBVIOUS
<1>2. new = Append(msgs, m)
  BY <1>1 DEF Apply, OnToolInput
<1>3. /\ m.role = "tool" /\ m.turn = e.turn /\ m.tool = e.tool /\ m.call = e.call
      /\ m.result = NoCall /\ m.diff = NoCall
  BY ONLY <1>1 DEF Bubble
<1>4. /\ Len(msgs) \in Nat /\ DOMAIN msgs = 1..Len(msgs)
      /\ DOMAIN new = 1..n /\ new[n] = m
      /\ \A i \in DOMAIN msgs : new[i] = msgs[i]
  BY <1>2, OneMore, Places
<1>5. /\ \A i \in DOMAIN msgs : i \in DOMAIN new
      /\ \A i \in DOMAIN new : i \in DOMAIN msgs \/ (i = n /\ i \notin DOMAIN msgs)
  BY <1>4
<1>6. Follows(new, msgs, e.turn)
  BY ONLY <1>3, <1>4, <1>5 DEF Follows, SameMessage
<1> QED  BY ONLY <1>3, <1>4, <1>6

\* A result goes to the newest card of its tool that waits for one, if any.
LEMMA ToolResultEvent ==
  ASSUME NEW msgs \in Transcripts(Nat), NEW c \in Nat, NEW e \in Events(c), e.type = "tool_result"
  PROVE  LET waiting == {i \in DOMAIN msgs : WaitsForResult(msgs[i], e.tool)} IN
         /\ Follows(Apply(msgs, e), msgs, e.turn)
         /\ waiting = {} => CardsUntouched(Apply(msgs, e), msgs)
         /\ waiting # {} => \E k : IsNewest(k, waiting) /\ ResultTaken(Apply(msgs, e), msgs, k, e.call)
<1> DEFINE W == {i \in DOMAIN msgs : WaitsForResult(msgs[i], e.tool)}
           filled(k) == [msgs EXCEPT ![k].result = e.call, ![k].of = @ \cup {e.of}]
           b == Bubble(e.of, e.turn, <<>>)
<1>1. Apply(msgs, e) = Append(IF W = {} THEN msgs ELSE filled(Newest(W)), b)
  BY DEF Apply, OnToolResult, Indices, WaitsForResult
<1>2. b.role = "assistant" /\ b.turn = e.turn
  BY BubbleFields
<1> HIDE DEF b
<1>3. CASE W = {}
  <2>1. Apply(msgs, e) = Append(msgs, b)
    BY <1>1, <1>3
  <2> HIDE DEF W, filled
  <2>2. Follows(Append(msgs, b), msgs, e.turn) /\ CardsUntouched(Append(msgs, b), msgs)
    BY <1>2, NothingChanges, BubbleAdded
  <2>3. Follows(Apply(msgs, e), msgs, e.turn) /\ CardsUntouched(Apply(msgs, e), msgs)
    BY <2>1, <2>2
  <2> QED  BY <2>3, <1>3 DEF W
<1>4. CASE W # {}
  <2>1. IsNewest(Newest(W), W)
    <3>1. W \in SUBSET (1..Len(msgs)) /\ Len(msgs) \in Nat
      BY Places
    <3> HIDE DEF W
    <3> QED  BY <1>4, <3>1, NewestOf
  <2>2. PICK k : k = Newest(W)
    OBVIOUS
  <2>3. k \in DOMAIN msgs /\ IsNewest(k, W)
    BY <2>1, <2>2 DEF IsNewest
  <2>4. filled(k) \in Transcripts(Nat)
    <3>1. e.call \in Nat \X Nat /\ e.of = c
      BY DEF Events
    <3> QED  BY <3>1, CardFilled
  <2>5. PICK new : new = filled(k)
    OBVIOUS
  <2>6. /\ DOMAIN new = DOMAIN msgs /\ \A i \in DOMAIN msgs : i # k => new[i] = msgs[i]
        /\ SameMessage(new[k], msgs[k]) /\ new[k].content = msgs[k].content
        /\ new[k].result = e.call /\ new[k].diff = msgs[k].diff
    <3>1. PICK m \in Messages(Nat) : m = msgs[k]
      BY <2>3, Places
    <3>2. PICK of : of = m.of \cup {e.of}
      OBVIOUS
    <3>3. PICK call : call = e.call
      OBVIOUS
    <3>4. PICK r : r = [m EXCEPT !.result = call, !.of = of]
      OBVIOUS
    <3>5. SameMessage(r, m) /\ r.content = m.content /\ r.result = call /\ r.diff = m.diff
      BY ONLY <3>4, m \in Messages(Nat) DEF Messages, SameMessage
    <3>6. DOMAIN new = DOMAIN msgs /\ \A i \in DOMAIN msgs : i # k => new[i] = msgs[i]
      BY ONLY <2>3, <2>5 DEF filled
    <3>7. new[k] = [msgs[k] EXCEPT !.result = e.call, !.of = msgs[k].of \cup {e.of}]
      BY ONLY <2>3, <3>1, <2>5 DEF filled, Messages
    <3>8. new[k] = r
      BY ONLY <3>1, <3>2, <3>3, <3>4, <3>7
    <3> QED  BY ONLY <3>1, <3>3, <3>5, <3>6, <3>8
  <2>7. Follows(new, msgs, e.turn) /\ ResultTaken(new, msgs, k, e.call)
    BY ONLY <2>3, <2>6 DEF Follows, ResultTaken, AsBefore, SameMessage
  <2>8. Apply(msgs, e) = Append(new, b)
    BY <1>1, <1>4, <2>2, <2>5
  <2>9. Follows(Append(new, b), msgs, e.turn) /\ ResultTaken(Append(new, b), msgs, k, e.call)
    <3> HIDE DEF filled, W
    <3>1. new \in Transcripts(Nat)
      BY <2>4, <2>5
    <3> QED  BY ONLY <1>2, <2>6, <2>7, <3>1, msgs \in Transcripts(Nat), BubbleAdded
  <2>10. /\ Follows(Apply(msgs, e), msgs, e.turn)
         /\ \E j : IsNewest(j, W) /\ ResultTaken(Apply(msgs, e), msgs, j, e.call)
    BY ONLY <2>3, <2>8, <2>9
  <2> QED  BY ONLY <1>4, <2>10, Zenon DEF W
<1> QED  BY <1>3, <1>4

\* A diff goes to the newest card of an editing tool without one, if any.
LEMMA DiffEvent ==
  ASSUME NEW msgs \in Transcripts(Nat), NEW c \in Nat, NEW e \in Events(c), e.type = "diff"
  PROVE  LET waiting == {i \in DOMAIN msgs : WaitsForDiff(msgs[i])} IN
         /\ Follows(Apply(msgs, e), msgs, e.turn)
         /\ waiting = {} => CardsUntouched(Apply(msgs, e), msgs)
         /\ waiting # {} => \E k : IsNewest(k, waiting) /\ DiffTaken(Apply(msgs, e), msgs, k, e.call)
<1> DEFINE W == {i \in DOMAIN msgs : WaitsForDiff(msgs[i])}
           filled(k) == [msgs EXCEPT ![k].diff = e.call, ![k].of = @ \cup {e.of}]
<1>1. Apply(msgs, e) = IF W = {} THEN msgs ELSE filled(Newest(W))
  BY DEF Apply, OnDiff, Indices, WaitsForDiff
<1>2. CASE W = {}
  <2>1. Apply(msgs, e) = msgs
    BY <1>1, <1>2
  <2>2. Follows(Apply(msgs, e), msgs, e.turn) /\ CardsUntouched(Apply(msgs, e), msgs)
    BY <2>1, NothingChanges
  <2> QED  BY <2>2, <1>2
<1>3. CASE W # {}
  <2>1. IsNewest(Newest(W), W)
    <3>1. W \in SUBSET (1..Len(msgs)) /\ Len(msgs) \in Nat
      BY Places
    <3> HIDE DEF W
    <3> QED  BY <1>3, <3>1, NewestOf
  <2>2. PICK k : k = Newest(W)
    OBVIOUS
  <2>3. k \in DOMAIN msgs /\ IsNewest(k, W)
    BY <2>1, <2>2 DEF IsNewest
  <2>4. PICK new : new = filled(k)
    OBVIOUS
  <2>5. /\ DOMAIN new = DOMAIN msgs /\ \A i \in DOMAIN msgs : i # k => new[i] = msgs[i]
        /\ SameMessage(new[k], msgs[k]) /\ new[k].content = msgs[k].content
        /\ new[k].diff = e.call /\ new[k].result = msgs[k].result
    <3>1. PICK m \in Messages(Nat) : m = msgs[k]
      BY <2>3, Places
    <3>2. PICK of : of = m.of \cup {e.of}
      OBVIOUS
    <3>3. PICK call : call = e.call
      OBVIOUS
    <3>4. PICK r : r = [m EXCEPT !.diff = call, !.of = of]
      OBVIOUS
    <3>5. SameMessage(r, m) /\ r.content = m.content /\ r.diff = call /\ r.result = m.result
      BY ONLY <3>4, m \in Messages(Nat) DEF Messages, SameMessage
    <3>6. DOMAIN new = DOMAIN msgs /\ \A i \in DOMAIN msgs : i # k => new[i] = msgs[i]
      BY ONLY <2>3, <2>4 DEF filled
    <3>7. new[k] = [msgs[k] EXCEPT !.diff = e.call, !.of = msgs[k].of \cup {e.of}]
      BY ONLY <2>3, <3>1, <2>4 DEF filled, Messages
    <3>8. new[k] = r
      BY ONLY <3>1, <3>2, <3>3, <3>4, <3>7
    <3> QED  BY ONLY <3>1, <3>3, <3>5, <3>6, <3>8
  <2>6. Follows(new, msgs, e.turn) /\ DiffTaken(new, msgs, k, e.call)
    BY ONLY <2>3, <2>5 DEF Follows, DiffTaken, AsBefore, SameMessage
  <2>7. Apply(msgs, e) = new
    BY <1>1, <1>3, <2>2, <2>4
  <2>8. /\ Follows(Apply(msgs, e), msgs, e.turn)
        /\ \E j : IsNewest(j, W) /\ DiffTaken(Apply(msgs, e), msgs, j, e.call)
    BY ONLY <2>3, <2>6, <2>7
  <2> QED  BY ONLY <1>3, <2>8, Zenon DEF W
<1> QED  BY <1>2, <1>3

\* Every event leaves the user's messages and all before them alone.
LEMMA EventFollows ==
  ASSUME NEW msgs \in Transcripts(Nat), NEW c \in Nat, NEW e \in Events(c)
  PROVE  Follows(Apply(msgs, e), msgs, e.turn)
BY QuietEvents, ToolInputEvent, ToolResultEvent, DiffEvent
   DEF Events, EventTypes, QuietTypes

\* A turn adds the user's message and a bubble.
LEMMA TurnAdded ==
  ASSUME NEW msgs \in Transcripts(Nat), NEW c, NEW t, NEW new, new = WithTurn(msgs, c, t)
  PROVE  LET n == Len(msgs) IN
         /\ DOMAIN new = 1..(n + 2)
         /\ \A i \in DOMAIN msgs : new[i] = msgs[i]
         /\ new[n + 1].role = "user" /\ new[n + 1].turn = t
         /\ new[n + 2].role = "assistant" /\ new[n + 2].turn = t
<1>1. PICK u : u = UserMessage(c, t)
  OBVIOUS
<1>2. PICK b : b = Bubble(c, t, <<>>)
  OBVIOUS
<1>3. u.role = "user" /\ u.turn = t /\ b.role = "assistant" /\ b.turn = t
  BY <1>1, <1>2 DEF UserMessage, Bubble
<1> DEFINE S == Messages(Nat) \cup {u, b}
<1>4. msgs \in Seq(S) /\ u \in S /\ b \in S
  BY SeqMonotonic DEF Transcripts
<1>5. new = msgs \o <<u, b>>
  BY <1>1, <1>2 DEF WithTurn
<1> HIDE DEF S
<1>6. /\ Len(msgs) \in Nat /\ DOMAIN msgs = 1..Len(msgs)
      /\ DOMAIN new = 1..(Len(msgs) + 2)
      /\ \A i \in DOMAIN msgs : new[i] = msgs[i]
      /\ new[Len(msgs) + 1] = u /\ new[Len(msgs) + 2] = b
  BY <1>4, <1>5
<1> QED  BY ONLY <1>3, <1>6

-----------------------------------------------------------------------------
(* The cards *)

\* A message of one of the first t turns.  A card carries its turn in its call
\* and shows no other call of it.
Genuine(m, t) ==
  /\ m.turn \in 1..t
  /\ m.role = "tool" =>
       /\ m.call[1] = m.turn
       /\ m.result[1] = m.turn => m.result = m.call
       /\ m.diff[1] = m.turn => m.diff = m.call

Waiting(m) == m.role = "tool" /\ m.result = NoCall

InCall(s, m) == s.phase = "call" /\ m.call = LastCall(s)

\* The call of a card came back with an empty text.
Blank(m, blanks) == <<m.call, m.tool>> \in blanks

\* A card that waits for ever: its turn was cut off, or its result was empty.
Excused(m, ends, blanks) == m.turn \in ends \/ Blank(m, blanks)

\* A card waits for ever or because its call runs.
Explained(m, runs, ends, blanks) ==
  Waiting(m) => Excused(m, ends, blanks) \/ \E s \in runs : InCall(s, m)

\* A transcript of turns that are over.
Settled(msgs, t, runs, ends, blanks) ==
  \A i \in DOMAIN msgs :
    /\ Genuine(msgs[i], t)
    /\ \A s \in runs : msgs[i].turn # s.turn
    /\ Waiting(msgs[i]) => Excused(msgs[i], ends, blanks)

\* No card of the turn of s is among msgs, or the newest card there is that of
\* the call under way, and it alone of the turn's may wait but for those with an
\* empty result.
NoOwnCard(s, msgs) ==
  \A i \in DOMAIN msgs : msgs[i].role = "tool" => msgs[i].turn # s.turn

CardUnderWay(s, msgs, i, blanks) ==
  /\ i \in DOMAIN msgs
  /\ msgs[i].role = "tool" /\ msgs[i].call = LastCall(s) /\ msgs[i].tool = s.tool
  /\ msgs[i].diff = NoCall /\ (s.phase = "call" => msgs[i].result = NoCall)
  /\ \A j \in DOMAIN msgs : msgs[j].role = "tool" => j <= i
  /\ \A j \in DOMAIN msgs : Waiting(msgs[j]) /\ msgs[j].turn = s.turn
       => j = i \/ Blank(msgs[j], blanks)

RunInOrder(s, msgs, t, ends, blanks) ==
  /\ s.turn = t /\ t # 0
  /\ s.phase # "ended" => s.turn \notin ends
  /\ s.phase = "edited" => s.tool \in EditTools
  /\ s.phase \in {"call", "edited"} =>
       NoOwnCard(s, msgs) \/ \E i : CardUnderWay(s, msgs, i, blanks)

ViewIsGenuine ==
  \A i \in DOMAIN view.msgs :
    Genuine(view.msgs[i], turn) /\ Explained(view.msgs[i], stream, stopped, blank)

SavedAreSettled ==
  /\ \A s \in saves : Settled(s.msgs, turn, stream, stopped, blank)
  /\ \A l \in loads : Settled(l.msgs, turn, stream, stopped, blank)
  /\ \A id \in DOMAIN store : Settled(store[id], turn, stream, stopped, blank)

CardInv ==
  /\ stopped \subseteq 1..turn
  /\ \A b \in blank : b[2] \notin ConcurrentTools
  /\ \A r, s \in stream : r = s
  /\ \A s \in stream : RunInOrder(s, view.msgs, turn, stopped, blank)
  /\ ViewIsGenuine /\ SavedAreSettled

\* Turns that are over stay so.
LEMMA SettledStays ==
  ASSUME NEW msgs, NEW t \in Nat, NEW u \in Nat, NEW runs, NEW next, NEW ends, NEW now,
         NEW blanks, NEW more, Settled(msgs, t, runs, ends, blanks),
         t <= u, ends \subseteq now, blanks \subseteq more,
         \A r \in next : r.turn \notin 1..t \/ \E s \in runs : s.turn = r.turn
  PROVE  Settled(msgs, u, next, now, more)
<1>1. \A m : Genuine(m, t) => Genuine(m, u) /\ m.turn \in 1..t
  BY DEF Genuine
<1>2. \A m : Excused(m, ends, blanks) => Excused(m, now, more)
  BY DEF Excused, Blank
<1> QED  BY <1>1, <1>2 DEF Settled

\* The saved transcripts stay settled while the same turn or none runs.
LEMMA SavedStay ==
  ASSUME ChatInv, CardInv,
         store' = store /\ saves' = saves /\ loads' = loads,
         turn' = turn, stopped \subseteq stopped', blank \subseteq blank',
         \A r \in stream' : \E s \in stream : s.turn = r.turn
  PROVE  SavedAreSettled'
<1>1. turn \in Nat
  BY DEF ChatInv, TypeOK
<1>2. \A msgs : Settled(msgs, turn, stream, stopped, blank)
                  => Settled(msgs, turn', stream', stopped', blank')
  BY <1>1, SettledStays
<1> QED  BY <1>2 DEF CardInv, SavedAreSettled

\* An event of run s, as the view and the run see it.
LEMMA Received ==
  ASSUME ChatInv, NEW s \in stream, NEW type \in EventTypes, NEW tool \in ToolNames,
         NEW call \in Nat \X Nat, NEW phase, Receive(s, type, tool, call, phase)
  PROVE  /\ \E e \in Events(s.conv) :
              /\ e.type = type /\ e.turn = s.turn /\ e.tool = tool /\ e.call = call
              /\ view'.msgs = Apply(view.msgs, e)
         /\ \E run : /\ stream' = {run} /\ run.turn = s.turn /\ run.phase = phase
                     /\ LastCall(run) = <<s.turn, call[2]>> /\ run.tool = tool
                     /\ run.sid = s.sid
         /\ s.turn \in Nat /\ s.conv \in Nat /\ turn \in Nat
         /\ view.msgs \in Transcripts(Nat)
         /\ view'.sid = view.sid
         /\ store' = store /\ saves' = saves /\ loads' = loads /\ turn' = turn /\ page' = page
         /\ races' = races
         /\ type # "empty_result" => blank' = blank
         /\ type = "empty_result" => blank' = blank \cup {<<call, tool>>}
<1> DEFINE e == Event(type, s.conv, s.turn, tool, call)
           run == [s EXCEPT !.phase = phase, !.calls = call[2], !.tool = tool]
<1>1. s \in Runs /\ s.turn \in Nat /\ s.conv \in Nat /\ turn \in Nat
      /\ view.msgs \in Transcripts(Nat)
  BY DEF ChatInv, TypeOK, Runs
<1>2. e \in Events(s.conv)
  BY <1>1 DEF Events, Event
<1>3. e.type = type /\ e.turn = s.turn /\ e.tool = tool /\ e.call = call
  BY DEF Event
<1>4. view'.msgs = Apply(view.msgs, e) /\ view'.sid = view.sid
  <2>1. view' = [view EXCEPT !.msgs = Apply(view.msgs, e)]
    BY DEF Receive
  <2> HIDE DEF e
  <2> QED  BY <2>1, ViewUpdated DEF ChatInv
<1>5. /\ stream' = {run} /\ run.turn = s.turn /\ run.phase = phase /\ run.calls = call[2]
      /\ run.tool = tool /\ run.sid = s.sid
  BY <1>1 DEF Receive, Runs
<1>6. /\ store' = store /\ saves' = saves /\ loads' = loads /\ turn' = turn /\ page' = page
      /\ races' = races
      /\ blank' = blank \cup (IF type = "empty_result" THEN {<<call, tool>>} ELSE {})
  BY DEF Receive
<1> HIDE DEF e, run
<1>7. LastCall(run) = <<s.turn, call[2]>>
  BY <1>5 DEF LastCall
<1> QED  BY <1>1, <1>2, <1>3, <1>4, <1>5, <1>6, <1>7

\* A card that stays as it was, and what is no card, stays genuine.
LEMMA GenuineStays ==
  ASSUME NEW m, NEW old, NEW t, Genuine(old, t), SameMessage(m, old),
         m.role = "tool" => m.result = old.result /\ m.diff = old.diff
  PROVE  Genuine(m, t) /\ (Waiting(m) => Waiting(old))
BY DEF Genuine, SameMessage, Waiting

\* A transcript that follows another without a change of its cards.
LEMMA UntouchedCards ==
  ASSUME NEW msgs, NEW new, NEW t, NEW u, Follows(new, msgs, u), CardsUntouched(new, msgs),
         u \in 1..t, \A i \in DOMAIN msgs : Genuine(msgs[i], t)
  PROVE  \A i \in DOMAIN new :
           /\ Genuine(new[i], t)
           /\ Waiting(new[i]) => i \in DOMAIN msgs /\ Waiting(msgs[i]) /\ SameMessage(new[i], msgs[i])
<1> TAKE i \in DOMAIN new
<1>1. CASE i \in DOMAIN msgs
  BY <1>1, GenuineStays DEF Follows, CardsUntouched, AsBefore
<1>2. CASE i \notin DOMAIN msgs
  BY <1>2 DEF Follows, CardsUntouched, AsBefore, Genuine, Waiting
<1> QED  BY <1>1, <1>2

\* What the view's invariant says of a card that waits.
LEMMA WaitingCards ==
  ASSUME CardInv, NEW s \in stream
  PROVE  \A i \in DOMAIN view.msgs : Waiting(view.msgs[i]) =>
           \/ Excused(view.msgs[i], stopped, blank)
           \/ InCall(s, view.msgs[i])
BY DEF CardInv, ViewIsGenuine, Explained

\* An event that touches no card, of a run that is in no call afterwards.
LEMMA QuietKeepsCards ==
  ASSUME ChatInv, CardInv, NEW s \in stream, NEW type \in QuietTypes, NEW phase,
         Receive(s, type, NoTool, LastCall(s), phase), LastCall(s) \in Nat \X Nat,
         type # "empty_result",
         s.phase # "call", s.phase # "ended", phase \notin {"call", "edited"},
         stopped' = stopped \/ (stopped' = stopped \cup {s.turn} /\ phase = "ended")
  PROVE  CardInv'
<1>1. type \in EventTypes /\ NoTool \in ToolNames
  BY DEF QuietTypes, EventTypes, ToolNames
<1>2. PICK e \in Events(s.conv) :
        e.type = type /\ e.turn = s.turn /\ view'.msgs = Apply(view.msgs, e)
  BY <1>1, Received
<1>3. PICK run : stream' = {run} /\ run.turn = s.turn /\ run.phase = phase
  BY <1>1, Received
<1>4. /\ s.turn \in Nat /\ s.conv \in Nat /\ turn \in Nat /\ view.msgs \in Transcripts(Nat)
      /\ store' = store /\ saves' = saves /\ loads' = loads /\ turn' = turn /\ blank' = blank
  BY <1>1, Received
<1>5. s.turn = turn /\ turn # 0 /\ turn \notin stopped
  BY DEF CardInv, RunInOrder
<1>6. PICK new : new = view'.msgs
  OBVIOUS
<1>7. Follows(new, view.msgs, turn) /\ CardsUntouched(new, view.msgs)
  BY <1>2, <1>4, <1>5, <1>6, QuietEvents
<1>8. \A i \in DOMAIN new :
        /\ Genuine(new[i], turn)
        /\ Waiting(new[i]) => Excused(new[i], stopped, blank)
  <2>1. turn \in 1..turn /\ \A i \in DOMAIN view.msgs : Genuine(view.msgs[i], turn)
    BY <1>4, <1>5 DEF CardInv, ViewIsGenuine
  <2>2. \A i \in DOMAIN new :
          /\ Genuine(new[i], turn)
          /\ Waiting(new[i]) => i \in DOMAIN view.msgs /\ Waiting(view.msgs[i])
                                /\ SameMessage(new[i], view.msgs[i])
    BY <1>7, <2>1, UntouchedCards
  <2> QED  BY <2>2, WaitingCards DEF InCall, SameMessage, Excused, Blank
<1>9. SavedAreSettled'
  BY <1>3, <1>4, SavedStay
<1>10. stopped' \subseteq 1..turn'
  <2>1. turn \in 1..turn /\ stopped \subseteq 1..turn
    BY <1>4, <1>5 DEF CardInv
  <2> QED  BY <1>4, <1>5, <2>1
<1>11. \A r \in stream' : RunInOrder(r, view'.msgs, turn', stopped', blank')
  BY <1>3, <1>4, <1>5 DEF RunInOrder
<1>12. ViewIsGenuine'
  BY <1>4, <1>6, <1>8 DEF ViewIsGenuine, Explained, Excused
<1> QED  BY <1>3, <1>4, <1>9, <1>10, <1>11, <1>12 DEF CardInv

\* A call is announced: its card is the newest and waits.
LEMMA CallKeepsCards ==
  ASSUME ChatInv, CardInv, NEW s \in stream, NEW tool \in ToolNames,
         Receive(s, "tool_input", tool, NextCall(s), "call"), NextCall(s) \in Nat \X Nat,
         s.phase # "call", s.phase # "ended", stopped' = stopped
  PROVE  CardInv'
<1>1. "tool_input" \in EventTypes
  BY DEF EventTypes
<1>2. PICK e \in Events(s.conv) :
        /\ e.type = "tool_input" /\ e.turn = s.turn /\ e.tool = tool /\ e.call = NextCall(s)
        /\ view'.msgs = Apply(view.msgs, e)
  BY <1>1, Received
<1>3. PICK run : /\ stream' = {run} /\ run.turn = s.turn /\ run.phase = "call"
                 /\ LastCall(run) = <<s.turn, NextCall(s)[2]>> /\ run.tool = tool
  BY <1>1, Received
<1>4. /\ s.turn \in Nat /\ s.conv \in Nat /\ turn \in Nat /\ view.msgs \in Transcripts(Nat)
      /\ store' = store /\ saves' = saves /\ loads' = loads /\ turn' = turn /\ blank' = blank
  BY <1>1, Received
<1>5. s.turn = turn /\ turn # 0 /\ turn \notin stopped /\ stopped \subseteq 1..turn
  BY DEF CardInv, RunInOrder
<1>6. LastCall(run) = NextCall(s) /\ NextCall(s)[1] = turn
  BY <1>3, <1>5 DEF NextCall
<1>7. PICK new : new = view'.msgs
  OBVIOUS
<1>8. PICK n : n = Len(view.msgs) + 1
  OBVIOUS
<1>9. /\ DOMAIN new = 1..n /\ n \in 1..n /\ DOMAIN view.msgs = 1..(n - 1) /\ n \in Nat
      /\ new[n].role = "tool" /\ new[n].turn = turn /\ new[n].tool = tool
      /\ new[n].call = NextCall(s) /\ new[n].result = NoCall /\ new[n].diff = NoCall
      /\ \A i \in 1..(n - 1) : new[i] = view.msgs[i]
  <2>1. /\ DOMAIN view.msgs = 1..Len(view.msgs) /\ Len(view.msgs) \in Nat
    BY <1>4, Places
  <2>2. /\ DOMAIN new = 1..n
        /\ new[n].role = "tool" /\ new[n].turn = turn /\ new[n].tool = tool
        /\ new[n].call = NextCall(s) /\ new[n].result = NoCall /\ new[n].diff = NoCall
        /\ \A i \in DOMAIN view.msgs : new[i] = view.msgs[i]
    BY <1>2, <1>4, <1>5, <1>7, <1>8, ToolInputEvent
  <2> QED  BY <1>8, <2>1, <2>2
<1>10. \A i \in 1..n : i = n \/ i \in 1..(n - 1)
  BY <1>9
<1>11. \A i \in 1..(n - 1) :
         Genuine(view.msgs[i], turn) /\ (Waiting(view.msgs[i]) => Excused(view.msgs[i], stopped, blank))
  BY <1>9, WaitingCards DEF CardInv, ViewIsGenuine, InCall
<1>12. Genuine(new[n], turn)
  BY <1>4, <1>5, <1>6, <1>9 DEF Genuine, NoCall
<1>13. ViewIsGenuine'
  <2>1. InCall(run, new[n])
    BY <1>3, <1>6, <1>9 DEF InCall
  <2> QED  BY <1>3, <1>4, <1>7, <1>9, <1>10, <1>11, <1>12, <2>1 DEF ViewIsGenuine, Explained
<1>14. CardUnderWay(run, new, n, blank)
  <2>1. \A j \in 1..n : Waiting(new[j]) /\ new[j].turn = turn => j = n \/ Blank(new[j], blank)
    BY <1>5, <1>9, <1>10, <1>11 DEF Excused
  <2>2. \A j \in 1..n : j <= n
    BY <1>9
  <2> QED  BY <1>3, <1>5, <1>6, <1>9, <2>1, <2>2 DEF CardUnderWay
<1>15. \A r \in stream' : RunInOrder(r, view'.msgs, turn', stopped', blank')
  BY <1>3, <1>4, <1>5, <1>7, <1>14 DEF RunInOrder
<1>16. SavedAreSettled'
  BY <1>3, <1>4, SavedStay
<1> QED  BY <1>3, <1>4, <1>5, <1>13, <1>15, <1>16 DEF CardInv

\* A result or a diff of run s, at the transcript: who takes it shows its own
\* call or one of another turn.
LEMMA TakenIsGenuine ==
  ASSUME NEW msgs, NEW new, NEW t, NEW k, NEW call, Follows(new, msgs, t), t \in 1..t,
         ResultTaken(new, msgs, k, call) \/ DiffTaken(new, msgs, k, call),
         call[1] = t, k \in DOMAIN msgs,
         msgs[k].turn # t \/ msgs[k].call = call,
         \A i \in DOMAIN msgs : Genuine(msgs[i], t)
  PROVE  \A i \in DOMAIN new : Genuine(new[i], t)
<1> TAKE i \in DOMAIN new
<1>1. CASE i \notin DOMAIN msgs
  BY <1>1 DEF Follows, ResultTaken, DiffTaken, AsBefore, Genuine
<1>2. CASE i \in DOMAIN msgs /\ i # k
  BY <1>2, GenuineStays DEF Follows, ResultTaken, DiffTaken, AsBefore
<1>3. CASE i = k
  <2>1. Genuine(msgs[k], t) /\ SameMessage(new[k], msgs[k])
    BY <1>3 DEF Follows
  <2>2. new[k].role = "tool" =>
          \/ new[k].result = call /\ new[k].diff = msgs[k].diff
          \/ new[k].diff = call /\ new[k].result = msgs[k].result
    BY <1>3 DEF ResultTaken, DiffTaken
  <2> QED  BY <1>3, <2>1, <2>2 DEF Genuine, SameMessage
<1> QED  BY <1>1, <1>2, <1>3

\* Parallel calls have no cards: their results go to cards of other turns, or
\* are lost.
LEMMA ParallelKeepsCards ==
  ASSUME ChatInv, CardInv, NEW s \in stream, NEW tool \in ToolNames \cap ConcurrentTools,
         NEW phase, Receive(s, "tool_result", tool, NextCall(s), phase), NextCall(s) \in Nat \X Nat,
         s.phase # "call", s.phase # "ended", phase \notin {"call", "edited", "ended"},
         stopped' = stopped
  PROVE  CardInv'
<1>1. "tool_result" \in EventTypes
  BY DEF EventTypes
<1>2. PICK e \in Events(s.conv) :
        /\ e.type = "tool_result" /\ e.turn = s.turn /\ e.tool = tool /\ e.call = NextCall(s)
        /\ view'.msgs = Apply(view.msgs, e)
  BY <1>1, Received
<1>3. PICK run : stream' = {run} /\ run.turn = s.turn /\ run.phase = phase
  BY <1>1, Received
<1>4. /\ s.turn \in Nat /\ s.conv \in Nat /\ turn \in Nat /\ view.msgs \in Transcripts(Nat)
      /\ store' = store /\ saves' = saves /\ loads' = loads /\ turn' = turn /\ blank' = blank
  BY <1>1, Received
<1>5. /\ s.turn = turn /\ turn # 0 /\ turn \notin stopped /\ stopped \subseteq 1..turn
      /\ turn \in 1..turn /\ NextCall(s)[1] = turn /\ NextCall(s) # NoCall
  BY <1>4 DEF CardInv, RunInOrder, NextCall, NoCall
<1>6. PICK new : new = view'.msgs
  OBVIOUS
<1>7. PICK msgs \in Transcripts(Nat) : msgs = view.msgs
  BY <1>4
<1>8. \A i \in DOMAIN msgs :
        /\ Genuine(msgs[i], turn)
        /\ Waiting(msgs[i]) => Excused(msgs[i], stopped, blank)
  BY <1>7, WaitingCards DEF CardInv, ViewIsGenuine, InCall
<1> DEFINE W == {i \in DOMAIN msgs : WaitsForResult(msgs[i], tool)}
<1>9. /\ Follows(new, msgs, turn)
      /\ W = {} => CardsUntouched(new, msgs)
      /\ W # {} => \E k : IsNewest(k, W) /\ ResultTaken(new, msgs, k, NextCall(s))
  BY <1>2, <1>4, <1>5, <1>6, <1>7, ToolResultEvent
<1>10. \A i \in DOMAIN new :
         Genuine(new[i], turn) /\ (Waiting(new[i]) => Excused(new[i], stopped, blank))
  <2>1. CASE W = {}
    <3>1. CardsUntouched(new, msgs)
      BY <1>9, <2>1
    <3> HIDE DEF W
    <3>2. \A i \in DOMAIN new :
            /\ Genuine(new[i], turn)
            /\ Waiting(new[i]) => i \in DOMAIN msgs /\ Waiting(msgs[i])
                                  /\ SameMessage(new[i], msgs[i])
      BY <1>5, <1>8, <1>9, <3>1, UntouchedCards
    <3> QED  BY <1>8, <3>2 DEF SameMessage, Excused, Blank
  <2>2. CASE W # {}
    <3>1. PICK k : IsNewest(k, W) /\ ResultTaken(new, msgs, k, NextCall(s))
      BY <1>9, <2>2
    <3>2. k \in DOMAIN msgs /\ Waiting(msgs[k]) /\ msgs[k].tool = tool
      BY <3>1 DEF IsNewest, WaitsForResult, Waiting
    <3> HIDE DEF W
    <3>3. msgs[k].turn # turn
      <4>1. ~Blank(msgs[k], blank)
        BY <3>2 DEF CardInv, Blank
      <4> QED  BY <1>5, <1>8, <3>2, <4>1 DEF Excused
    <3>4. \A i \in DOMAIN new : Genuine(new[i], turn)
      BY <1>5, <1>8, <1>9, <3>1, <3>2, <3>3, TakenIsGenuine
    <3>5. \A i \in DOMAIN new : Waiting(new[i]) => i \in DOMAIN msgs /\ Waiting(msgs[i])
                                                   /\ SameMessage(new[i], msgs[i])
      BY <1>5, <1>9, <3>1 DEF Follows, ResultTaken, AsBefore, Waiting, SameMessage
    <3> QED  BY <1>8, <3>4, <3>5 DEF SameMessage, Excused, Blank
  <2> QED  BY <2>1, <2>2
<1>11. ViewIsGenuine'
  BY <1>4, <1>6, <1>10 DEF ViewIsGenuine, Explained
<1>12. \A r \in stream' : RunInOrder(r, view'.msgs, turn', stopped', blank')
  BY <1>3, <1>4, <1>5 DEF RunInOrder
<1>13. SavedAreSettled'
  BY <1>3, <1>4, SavedStay
<1> QED  BY <1>3, <1>4, <1>5, <1>11, <1>12, <1>13 DEF CardInv

\* The result of a serial call goes to the call's card, or the card is gone and
\* a card of another turn may take it.
LEMMA AnswerKeepsCards ==
  ASSUME ChatInv, CardInv, NEW s \in stream, NEW phase, s.tool \in ToolNames,
         Receive(s, "tool_result", s.tool, LastCall(s), phase), LastCall(s) \in Nat \X Nat,
         s.phase = "call", phase \notin {"call", "ended"},
         phase = "edited" => s.tool \in EditTools,
         stopped' = stopped
  PROVE  CardInv'
<1>1. "tool_result" \in EventTypes
  BY DEF EventTypes
<1>2. PICK e \in Events(s.conv) :
        /\ e.type = "tool_result" /\ e.turn = s.turn /\ e.tool = s.tool /\ e.call = LastCall(s)
        /\ view'.msgs = Apply(view.msgs, e)
  BY <1>1, Received
<1>3. PICK run : /\ stream' = {run} /\ run.turn = s.turn /\ run.phase = phase
                 /\ LastCall(run) = <<s.turn, LastCall(s)[2]>> /\ run.tool = s.tool
  BY <1>1, Received
<1>4. /\ s.turn \in Nat /\ s.conv \in Nat /\ turn \in Nat /\ view.msgs \in Transcripts(Nat)
      /\ store' = store /\ saves' = saves /\ loads' = loads /\ turn' = turn /\ blank' = blank
  BY <1>1, Received
<1>5. /\ s.turn = turn /\ turn # 0 /\ turn \notin stopped /\ stopped \subseteq 1..turn
      /\ turn \in 1..turn /\ LastCall(s)[1] = turn /\ LastCall(s) # NoCall
      /\ LastCall(run) = LastCall(s)
  BY <1>3, <1>4 DEF CardInv, RunInOrder, LastCall, NoCall
<1>6. PICK new : new = view'.msgs
  OBVIOUS
<1>7. PICK msgs \in Transcripts(Nat) : msgs = view.msgs
  BY <1>4
<1>8. \A i \in DOMAIN msgs :
        /\ Genuine(msgs[i], turn)
        /\ Waiting(msgs[i]) /\ msgs[i].turn # turn => Excused(msgs[i], stopped, blank)
  <2>1. \A i \in DOMAIN msgs : Genuine(msgs[i], turn)
    BY <1>7 DEF CardInv, ViewIsGenuine
  <2>2. \A i \in DOMAIN msgs : Waiting(msgs[i]) /\ InCall(s, msgs[i]) => msgs[i].turn = turn
    BY <1>5, <2>1 DEF Genuine, Waiting, InCall
  <2> QED  BY <1>7, <2>1, <2>2, WaitingCards
<1> DEFINE W == {i \in DOMAIN msgs : WaitsForResult(msgs[i], s.tool)}
<1>9. /\ Follows(new, msgs, turn)
      /\ W = {} => CardsUntouched(new, msgs)
      /\ W # {} => \E k : IsNewest(k, W) /\ ResultTaken(new, msgs, k, LastCall(s))
  BY <1>2, <1>4, <1>5, <1>6, <1>7, ToolResultEvent
<1>10. \E k : /\ ResultTaken(new, msgs, k, LastCall(s)) \/ (W = {} /\ CardsUntouched(new, msgs))
              /\ W # {} => IsNewest(k, W)
  BY <1>9, Zenon
<1>11. PICK k : /\ ResultTaken(new, msgs, k, LastCall(s)) \/ (W = {} /\ CardsUntouched(new, msgs))
                /\ W # {} => IsNewest(k, W)
  BY <1>10, Zenon
<1>12. \A i \in W : msgs[i].role = "tool" /\ Waiting(msgs[i])
  BY DEF WaitsForResult, Waiting
<1>13. \A i \in DOMAIN msgs : WaitsForResult(msgs[i], s.tool) => i \in W
  OBVIOUS
<1>14. W \subseteq DOMAIN msgs
  OBVIOUS
<1> HIDE DEF W
<1>15. \A i \in DOMAIN new : new[i].role = "tool" =>
         /\ i \in DOMAIN msgs /\ SameMessage(new[i], msgs[i]) /\ new[i].diff = msgs[i].diff
         /\ Waiting(new[i]) => Waiting(msgs[i]) /\ (W # {} => i # k)
  BY <1>5, <1>9, <1>11
     DEF Follows, ResultTaken, CardsUntouched, AsBefore, Waiting, SameMessage
<1>16. \A i \in DOMAIN msgs : msgs[i].role = "tool" => i \in DOMAIN new
  BY <1>9 DEF Follows
<1>17. ASSUME W # {} => msgs[k].turn # turn \/ msgs[k].call = LastCall(s)
       PROVE  \A i \in DOMAIN new : Genuine(new[i], turn)
  <2>1. CASE W = {} /\ CardsUntouched(new, msgs)
    BY <1>5, <1>8, <1>9, <2>1, UntouchedCards
  <2>2. CASE W # {} /\ ResultTaken(new, msgs, k, LastCall(s))
    <3>1. k \in DOMAIN msgs /\ (msgs[k].turn # turn \/ msgs[k].call = LastCall(s))
      BY <1>11, <1>14, <1>17, <2>2 DEF IsNewest
    <3> QED  BY <1>5, <1>8, <1>9, <2>2, <3>1, TakenIsGenuine
  <2> QED  BY <1>9, <1>11, <2>1, <2>2
<1> DEFINE Result == /\ \A i \in DOMAIN new : Genuine(new[i], turn)
                     /\ \A i \in DOMAIN new : Waiting(new[i]) => Excused(new[i], stopped, blank)
                     /\ NoOwnCard(run, new) \/ \E i : CardUnderWay(run, new, i, blank)
<1>18. ASSUME NoOwnCard(s, msgs)
       PROVE  Result
  <2>1. \A i \in DOMAIN new : Genuine(new[i], turn)
    BY <1>5, <1>11, <1>12, <1>14, <1>17, <1>18 DEF IsNewest, NoOwnCard
  <2>2. \A i \in DOMAIN new : Waiting(new[i]) => Excused(new[i], stopped, blank)
    BY <1>5, <1>8, <1>15, <1>18 DEF NoOwnCard, Waiting, SameMessage, Excused, Blank
  <2>3. NoOwnCard(run, new)
    BY <1>3, <1>15, <1>18 DEF NoOwnCard, SameMessage
  <2> QED  BY <2>1, <2>2, <2>3
<1>19. ASSUME NEW i, CardUnderWay(s, msgs, i, blank)
       PROVE  Result
  <2>1. i \in W
    BY <1>13, <1>19 DEF CardUnderWay, WaitsForResult
  <2>2. k = i
    <3>1. k \in W /\ i <= k
      BY <1>11, <2>1 DEF IsNewest
    <3>2. k <= i
      BY <1>12, <1>14, <1>19, <3>1 DEF CardUnderWay
    <3>3. k \in Int /\ i \in Int
      BY <1>14, <2>1, <3>1, Places
    <3> QED  BY <3>1, <3>2, <3>3
  <2>3. \A j \in DOMAIN new : Genuine(new[j], turn)
    BY <1>17, <1>19, <2>2 DEF CardUnderWay
  <2>4. \A j \in DOMAIN new : Waiting(new[j]) => j \in DOMAIN msgs /\ Waiting(msgs[j]) /\ j # i
                                                 /\ SameMessage(new[j], msgs[j])
    BY <1>15, <2>1, <2>2 DEF Waiting
  <2>5. \A j \in DOMAIN new : Waiting(new[j]) => msgs[j].turn # turn \/ Blank(msgs[j], blank)
    BY <1>5, <1>19, <2>4 DEF CardUnderWay
  <2>6. \A j \in DOMAIN new : Waiting(new[j]) => Excused(new[j], stopped, blank)
    BY <1>8, <2>4, <2>5 DEF SameMessage, Excused, Blank
  <2>7. CardUnderWay(run, new, i, blank)
    <3>1. i \in DOMAIN new /\ new[i].role = "tool" /\ SameMessage(new[i], msgs[i])
          /\ new[i].diff = msgs[i].diff
      BY <1>15, <1>16, <1>9, <1>19 DEF CardUnderWay, Follows, SameMessage
    <3>2. \A j \in DOMAIN new : new[j].role = "tool" => j <= i
      BY <1>15, <1>19 DEF CardUnderWay, SameMessage
    <3>3. \A j \in DOMAIN new : Waiting(new[j]) /\ new[j].turn = run.turn
                                  => Blank(new[j], blank)
      BY <1>3, <1>5, <2>4, <2>5 DEF SameMessage, Blank
    <3> QED  BY <1>3, <1>5, <1>19, <3>1, <3>2, <3>3 DEF CardUnderWay, SameMessage
  <2> QED  BY <2>3, <2>6, <2>7
<1>20. Result
  <2>1. NoOwnCard(s, msgs) \/ \E i : CardUnderWay(s, msgs, i, blank)
    BY <1>7 DEF CardInv, RunInOrder
  <2> HIDE DEF Result
  <2> QED  BY <1>18, <1>19, <2>1
<1>21. ViewIsGenuine'
  BY <1>4, <1>6, <1>20 DEF ViewIsGenuine, Explained
<1>22. \A r \in stream' : RunInOrder(r, view'.msgs, turn', stopped', blank')
  BY <1>3, <1>4, <1>5, <1>6, <1>20 DEF RunInOrder
<1>23. SavedAreSettled'
  BY <1>3, <1>4, SavedStay
<1> QED  BY <1>3, <1>4, <1>5, <1>21, <1>22, <1>23 DEF CardInv

\* An empty text leaves the call's card waiting, and says so.
LEMMA BlankKeepsCards ==
  ASSUME ChatInv, CardInv, NEW s \in stream, s.tool \in ToolNames,
         s.tool \notin EditTools \cup ConcurrentTools,
         Receive(s, "empty_result", s.tool, LastCall(s), "reply"), LastCall(s) \in Nat \X Nat,
         s.phase = "call", stopped' = stopped
  PROVE  CardInv'
<1>1. "empty_result" \in EventTypes
  BY DEF EventTypes
<1>2. PICK e \in Events(s.conv) :
        e.type = "empty_result" /\ e.turn = s.turn /\ view'.msgs = Apply(view.msgs, e)
  BY <1>1, Received
<1>3. PICK run : stream' = {run} /\ run.turn = s.turn /\ run.phase = "reply"
  BY <1>1, Received
<1>4. /\ s.turn \in Nat /\ s.conv \in Nat /\ turn \in Nat /\ view.msgs \in Transcripts(Nat)
      /\ store' = store /\ saves' = saves /\ loads' = loads /\ turn' = turn
      /\ blank' = blank \cup {<<LastCall(s), s.tool>>}
  BY <1>1, Received
<1>5. s.turn = turn /\ turn # 0 /\ turn \notin stopped /\ stopped \subseteq 1..turn
      /\ turn \in 1..turn /\ LastCall(s)[1] = turn
  BY <1>4 DEF CardInv, RunInOrder, LastCall
<1>6. PICK new : new = view'.msgs
  OBVIOUS
<1>7. Follows(new, view.msgs, turn) /\ CardsUntouched(new, view.msgs)
  BY <1>2, <1>4, <1>5, <1>6, QuietEvents DEF QuietTypes
<1>8. \A i \in DOMAIN view.msgs :
        /\ Genuine(view.msgs[i], turn)
        /\ Waiting(view.msgs[i]) => Excused(view.msgs[i], stopped, blank')
  <2> TAKE i \in DOMAIN view.msgs
  <2>1. Genuine(view.msgs[i], turn)
    BY DEF CardInv, ViewIsGenuine
  <2>2. ASSUME Waiting(view.msgs[i]), InCall(s, view.msgs[i])
        PROVE  Blank(view.msgs[i], blank')
    <3>1. view.msgs[i].turn = s.turn /\ view.msgs[i].role = "tool"
      BY <1>5, <2>1, <2>2 DEF Genuine, Waiting, InCall
    <3>2. PICK k : CardUnderWay(s, view.msgs, k, blank)
      BY <3>1 DEF CardInv, RunInOrder, NoOwnCard
    <3>3. i = k \/ Blank(view.msgs[i], blank)
      BY <2>2, <3>1, <3>2 DEF CardUnderWay
    <3>4. view.msgs[k].call = LastCall(s) /\ view.msgs[k].tool = s.tool
      BY <3>2 DEF CardUnderWay
    <3> QED  BY <1>4, <3>3, <3>4 DEF Blank
  <2>3. Waiting(view.msgs[i]) => Excused(view.msgs[i], stopped, blank) \/ InCall(s, view.msgs[i])
    BY WaitingCards
  <2> QED  BY <1>4, <2>1, <2>2, <2>3 DEF Excused, Blank
<1>9. \A i \in DOMAIN new :
        /\ Genuine(new[i], turn)
        /\ Waiting(new[i]) => Excused(new[i], stopped, blank')
  <2>1. \A i \in DOMAIN new :
          /\ Genuine(new[i], turn)
          /\ Waiting(new[i]) => i \in DOMAIN view.msgs /\ Waiting(view.msgs[i])
                                /\ SameMessage(new[i], view.msgs[i])
    BY <1>5, <1>7, <1>8, UntouchedCards
  <2> QED  BY <1>8, <2>1 DEF Excused, Blank, SameMessage
<1>10. ViewIsGenuine'
  BY <1>4, <1>6, <1>9 DEF ViewIsGenuine, Explained
<1>11. \A r \in stream' : RunInOrder(r, view'.msgs, turn', stopped', blank')
  BY <1>3, <1>4, <1>5 DEF RunInOrder
<1>12. SavedAreSettled'
  BY <1>3, <1>4, SavedStay
<1>13. \A b \in blank' : b[2] \notin ConcurrentTools
  BY <1>4 DEF CardInv
<1> QED  BY <1>3, <1>4, <1>5, <1>10, <1>11, <1>12, <1>13 DEF CardInv

\* The diff of an edit goes to the card that just took its result, or the card
\* is gone.
LEMMA DiffKeepsCards ==
  ASSUME ChatInv, CardInv, NEW s \in stream, s.tool \in ToolNames,
         Receive(s, "diff", s.tool, LastCall(s), "reply"), LastCall(s) \in Nat \X Nat,
         s.phase = "edited", stopped' = stopped
  PROVE  CardInv'
<1>1. "diff" \in EventTypes
  BY DEF EventTypes
<1>2. PICK e \in Events(s.conv) :
        /\ e.type = "diff" /\ e.turn = s.turn /\ e.call = LastCall(s)
        /\ view'.msgs = Apply(view.msgs, e)
  BY <1>1, Received
<1>3. PICK run : stream' = {run} /\ run.turn = s.turn /\ run.phase = "reply"
  BY <1>1, Received
<1>4. /\ s.turn \in Nat /\ s.conv \in Nat /\ turn \in Nat /\ view.msgs \in Transcripts(Nat)
      /\ store' = store /\ saves' = saves /\ loads' = loads /\ turn' = turn /\ blank' = blank
  BY <1>1, Received
<1>5. /\ s.turn = turn /\ turn # 0 /\ turn \notin stopped /\ stopped \subseteq 1..turn
      /\ turn \in 1..turn /\ LastCall(s)[1] = turn /\ s.tool \in EditTools
  BY <1>4 DEF CardInv, RunInOrder, LastCall
<1>6. PICK new : new = view'.msgs
  OBVIOUS
<1>7. PICK msgs \in Transcripts(Nat) : msgs = view.msgs
  BY <1>4
<1>8. \A i \in DOMAIN msgs :
        /\ Genuine(msgs[i], turn)
        /\ Waiting(msgs[i]) => Excused(msgs[i], stopped, blank)
  BY <1>7, WaitingCards DEF CardInv, ViewIsGenuine, InCall
<1> DEFINE W == {i \in DOMAIN msgs : WaitsForDiff(msgs[i])}
<1>9. /\ Follows(new, msgs, turn)
      /\ W = {} => CardsUntouched(new, msgs)
      /\ W # {} => \E k : IsNewest(k, W) /\ DiffTaken(new, msgs, k, LastCall(s))
  BY <1>2, <1>4, <1>5, <1>6, <1>7, DiffEvent
<1>10. W \subseteq DOMAIN msgs /\ \A i \in W : msgs[i].role = "tool"
  BY DEF WaitsForDiff
<1>11. \A i \in DOMAIN msgs : WaitsForDiff(msgs[i]) => i \in W
  OBVIOUS
<1> HIDE DEF W
<1>12. \A i \in DOMAIN new :
         Genuine(new[i], turn) /\ (Waiting(new[i]) => Excused(new[i], stopped, blank))
  <2>1. CASE W = {}
    <3>1. \A i \in DOMAIN new :
            /\ Genuine(new[i], turn)
            /\ Waiting(new[i]) => i \in DOMAIN msgs /\ Waiting(msgs[i])
                                  /\ SameMessage(new[i], msgs[i])
      BY <1>5, <1>8, <1>9, <2>1, UntouchedCards
    <3> QED  BY <1>8, <3>1 DEF SameMessage, Excused, Blank
  <2>2. CASE W # {}
    <3>1. PICK k : IsNewest(k, W) /\ DiffTaken(new, msgs, k, LastCall(s))
      BY <1>9, <2>2
    <3>2. k \in W /\ k \in DOMAIN msgs /\ msgs[k].role = "tool"
      BY <1>10, <3>1 DEF IsNewest
    <3>3. msgs[k].turn # turn \/ msgs[k].call = LastCall(s)
      <4>1. CASE NoOwnCard(s, msgs)
        BY <1>5, <3>2, <4>1 DEF NoOwnCard
      <4>2. ASSUME NEW i, CardUnderWay(s, msgs, i, blank)
            PROVE  msgs[k].call = LastCall(s)
        <5>1. i \in W
          BY <1>5, <1>11, <4>2 DEF CardUnderWay, WaitsForDiff
        <5>2. i <= k /\ k <= i /\ k \in Int /\ i \in Int
          BY <1>10, <3>1, <3>2, <4>2, <5>1, Places DEF IsNewest, CardUnderWay
        <5> QED  BY <4>2, <5>2 DEF CardUnderWay
      <4> QED  BY <1>7, <4>1, <4>2 DEF CardInv, RunInOrder
    <3>4. \A i \in DOMAIN new : Genuine(new[i], turn)
      BY <1>5, <1>8, <1>9, <3>1, <3>2, <3>3, TakenIsGenuine
    <3>5. \A i \in DOMAIN new : Waiting(new[i]) => i \in DOMAIN msgs /\ Waiting(msgs[i])
                                                   /\ SameMessage(new[i], msgs[i])
      BY <1>9, <3>1 DEF Follows, DiffTaken, AsBefore, Waiting, SameMessage
    <3> QED  BY <1>8, <3>4, <3>5 DEF SameMessage, Excused, Blank
  <2> QED  BY <2>1, <2>2
<1>13. ViewIsGenuine'
  BY <1>4, <1>6, <1>12 DEF ViewIsGenuine, Explained
<1>14. \A r \in stream' : RunInOrder(r, view'.msgs, turn', stopped', blank')
  BY <1>3, <1>4, <1>5 DEF RunInOrder
<1>15. SavedAreSettled'
  BY <1>3, <1>4, SavedStay
<1> QED  BY <1>3, <1>4, <1>5, <1>13, <1>14, <1>15 DEF CardInv

\* What is sent to be saved: the same messages without their diffs.
LEMMA KeptPlaces ==
  ASSUME NEW msgs \in Transcripts(Nat), NEW new, new = Kept(msgs)
  PROVE  /\ DOMAIN new = DOMAIN msgs
         /\ \A i \in DOMAIN msgs :
              /\ SameMessage(new[i], msgs[i]) /\ new[i].content = msgs[i].content
              /\ new[i].result = msgs[i].result /\ new[i].diff = NoCall
<1>1. DOMAIN new = DOMAIN msgs
  BY DEF Kept
<1>2. ASSUME NEW i \in DOMAIN msgs
      PROVE  /\ SameMessage(new[i], msgs[i]) /\ new[i].content = msgs[i].content
             /\ new[i].result = msgs[i].result /\ new[i].diff = NoCall
  <2>1. PICK m \in Messages(Nat) : m = msgs[i]
    BY <1>2, Places
  <2>2. new[i] = [m EXCEPT !.diff = NoCall]
    BY <1>2, <2>1 DEF Kept
  <2>3. PICK r : r = new[i]
    OBVIOUS
  <2>4. /\ SameMessage(r, m) /\ r.content = m.content /\ r.result = m.result /\ r.diff = NoCall
    <3>1. r = [m EXCEPT !.diff = NoCall]
      BY <2>2, <2>3
    <3> QED  BY ONLY <3>1, m \in Messages(Nat) DEF Messages, SameMessage
  <2> QED  BY ONLY <2>1, <2>3, <2>4
<1> QED  BY <1>1, <1>2

\* However a run ends, what is saved is what the view then shows.
LEMMA Ending ==
  ASSUME ChatInv, StreamEnds \/ Interrupt \/ Refuse
  PROVE  \E s \in stream, msgs \in Transcripts(Nat) :
           /\ Finally(s, msgs)
           /\ Follows(msgs, view.msgs, s.turn) /\ CardsUntouched(msgs, view.msgs)
           /\ s.phase = "call" => s.turn \in stopped'
           /\ stopped' = stopped \/ stopped' = stopped \cup {s.turn}
           /\ view'.msgs = msgs /\ view'.sid = view.sid
<1>1. view.msgs \in Transcripts(Nat) /\ \A s \in stream : s.conv \in Nat
  BY DEF ChatInv, TypeOK, Runs
<1>2. \A s \in stream, msgs \in Transcripts(Nat) :
        Finally(s, msgs) => view'.msgs = msgs /\ view'.sid = view.sid
  BY ViewUpdated DEF Finally, ChatInv
<1>3. CASE StreamEnds
  <2>1. PICK s \in stream :
          s.phase = "ended" /\ Finally(s, OnDone(view.msgs)) /\ stopped' = stopped
    BY <1>3 DEF StreamEnds
  <2> QED  BY <1>1, <1>2, <2>1, OnDoneKeeps, OnDoneFollows
<1>4. CASE Interrupt
  <2>1. PICK s \in stream :
          Finally(s, OnInterrupt(view.msgs, s.conv)) /\ stopped' = stopped \cup {s.turn}
    BY <1>4 DEF Interrupt
  <2>2. OnInterrupt(view.msgs, s.conv) \in Transcripts(Nat)
    BY <1>1, OnInterruptKeeps
  <2>3. /\ Follows(OnInterrupt(view.msgs, s.conv), view.msgs, s.turn)
        /\ CardsUntouched(OnInterrupt(view.msgs, s.conv), view.msgs)
    BY <1>1, AppendTextFollows DEF OnInterrupt
  <2> QED  BY <1>2, <2>1, <2>2, <2>3
<1>5. CASE Refuse
  <2>1. PICK s \in stream :
          s.phase = "sent" /\ Finally(s, view.msgs) /\ stopped' = stopped \cup {s.turn}
    BY <1>5 DEF Refuse
  <2> QED  BY <1>1, <1>2, <2>1, NothingChanges
<1> QED  BY <1>3, <1>4, <1>5

LEMMA EndKeepsCards ==
  ASSUME ChatInv, CardInv, StreamEnds \/ Interrupt \/ Refuse
  PROVE  CardInv'
<1>1. PICK s \in stream, msgs \in Transcripts(Nat) :
        /\ Finally(s, msgs)
        /\ Follows(msgs, view.msgs, s.turn) /\ CardsUntouched(msgs, view.msgs)
        /\ s.phase = "call" => s.turn \in stopped'
        /\ stopped' = stopped \/ stopped' = stopped \cup {s.turn}
        /\ view'.msgs = msgs
  BY Ending
<1>2. /\ stream' = {} /\ store' = store /\ loads' = loads /\ turn' = turn
      /\ blank' = blank
      /\ \A x \in saves' : x \in saves \/ x.msgs = Kept(msgs)
  BY <1>1 DEF Finally, ghosts
<1>3. /\ s.turn = turn /\ turn \in 1..turn /\ turn \in Nat /\ stopped \subseteq 1..turn
  BY DEF CardInv, RunInOrder, ChatInv, TypeOK
<1>4. \A i \in DOMAIN msgs :
        Genuine(msgs[i], turn) /\ (Waiting(msgs[i]) => Excused(msgs[i], stopped', blank'))
  <2>1. \A i \in DOMAIN view.msgs :
          /\ Genuine(view.msgs[i], turn)
          /\ Waiting(view.msgs[i]) /\ InCall(s, view.msgs[i]) => view.msgs[i].turn = turn
    BY <1>3 DEF CardInv, ViewIsGenuine, Genuine, Waiting, InCall, LastCall
  <2>2. \A i \in DOMAIN msgs :
          /\ Genuine(msgs[i], turn)
          /\ Waiting(msgs[i]) => i \in DOMAIN view.msgs /\ Waiting(view.msgs[i])
                                 /\ SameMessage(msgs[i], view.msgs[i])
    BY <1>1, <1>3, <2>1, UntouchedCards
  <2>3. \A i \in DOMAIN view.msgs : Waiting(view.msgs[i]) => Excused(view.msgs[i], stopped', blank')
    BY <1>1, <1>2, <1>3, <2>1, WaitingCards DEF InCall, Excused, Blank
  <2> QED  BY <2>2, <2>3 DEF SameMessage, Excused, Blank
<1>5. Settled(msgs, turn, {}, stopped', blank')
  BY <1>4 DEF Settled
<1>6. Settled(Kept(msgs), turn, {}, stopped', blank')
  <2>1. PICK new : new = Kept(msgs)
    OBVIOUS
  <2>2. /\ DOMAIN new = DOMAIN msgs
        /\ \A i \in DOMAIN msgs :
              /\ SameMessage(new[i], msgs[i])
              /\ new[i].result = msgs[i].result /\ new[i].diff = NoCall
    BY <2>1, KeptPlaces
  <2>3. NoCall[1] = 0
    BY DEF NoCall
  <2>4. \A i \in DOMAIN msgs : Genuine(new[i], turn)
    BY <1>3, <1>4, <2>2, <2>3 DEF Genuine, SameMessage
  <2>5. Settled(new, turn, {}, stopped', blank')
    BY <1>4, <2>2, <2>4 DEF Settled, Waiting, SameMessage, Excused, Blank
  <2> QED  BY <2>1, <2>5
<1>7. \A old : Settled(old, turn, stream, stopped, blank)
                 => Settled(old, turn, {}, stopped', blank')
  BY <1>1, <1>2, <1>3, SettledStays
<1>8. SavedAreSettled'
  BY <1>2, <1>6, <1>7 DEF CardInv, SavedAreSettled
<1>9. ViewIsGenuine'
  BY <1>1, <1>2, <1>4 DEF ViewIsGenuine, Explained
<1> QED  BY <1>1, <1>2, <1>3, <1>8, <1>9 DEF CardInv

LEMMA PostTurnKeepsCards ==
  ASSUME ChatInv, CardInv, NEW plan, PostTurn(plan)
  PROVE  CardInv'
<1>1. PICK new : new = WithTurn(view.msgs, view.conv, turn')
  OBVIOUS
<1>2. /\ turn \in Nat /\ turn' = turn + 1 /\ view.msgs \in Transcripts(Nat)
      /\ stream = {} /\ stopped' = stopped /\ store' = store /\ saves' = saves /\ loads' = loads
      /\ view'.msgs = new /\ blank' = blank
  BY <1>1 DEF PostTurn, ChatInv, TypeOK, OffersSend, Streaming
<1>3. PICK run : stream' = {run} /\ run.turn = turn' /\ run.phase = "sent"
  <2> DEFINE r == [conv |-> view.conv, sid |-> view.sid, turn |-> turn', plan |-> plan,
                   phase |-> "sent", calls |-> 0, tool |-> NoTool]
  <2>1. stream' = {r} /\ r.turn = turn' /\ r.phase = "sent"
    BY DEF PostTurn
  <2> HIDE DEF r
  <2> QED  BY <2>1
<1>4. PICK n : n = Len(view.msgs)
  OBVIOUS
<1>5. /\ n \in Nat /\ DOMAIN view.msgs = 1..n /\ DOMAIN new = 1..(n + 2)
      /\ \A i \in 1..n : new[i] = view.msgs[i]
      /\ new[n + 1].role = "user" /\ new[n + 1].turn = turn'
      /\ new[n + 2].role = "assistant" /\ new[n + 2].turn = turn'
  BY <1>1, <1>2, <1>4, Places, TurnAdded
<1>6. \A i \in 1..(n + 2) : i \in 1..n \/ i = n + 1 \/ i = n + 2
  BY <1>5
<1>7. \A i \in 1..n : Genuine(view.msgs[i], turn') /\ Explained(view.msgs[i], {run}, stopped, blank)
  BY <1>2, <1>5 DEF CardInv, ViewIsGenuine, Genuine, Explained
<1>8. \A i \in 1..(n + 2) : Genuine(new[i], turn') /\ Explained(new[i], {run}, stopped, blank)
  <2> TAKE i \in 1..(n + 2)
  <2>1. CASE i \in 1..n
    BY <2>1, <1>5, <1>7
  <2>2. CASE i = n + 1 \/ i = n + 2
    <3>1. new[i].role # "tool" /\ new[i].turn = turn' /\ turn' \in 1..turn'
      BY <2>2, <1>2, <1>5
    <3> QED  BY <3>1 DEF Genuine, Explained, Waiting
  <2> QED  BY <2>1, <2>2, <1>6
<1>9. ViewIsGenuine'
  BY <1>2, <1>3, <1>5, <1>8 DEF ViewIsGenuine
<1>10. turn' \notin 1..turn /\ turn \in 0..turn' /\ turn' \in Nat /\ turn' # 0
  BY <1>2
<1>11. SavedAreSettled'
  <2>1. \A msgs : Settled(msgs, turn, stream, stopped, blank)
                    => Settled(msgs, turn', stream', stopped', blank')
    BY <1>2, <1>3, <1>10, SettledStays
  <2> QED  BY <1>2, <2>1 DEF CardInv, SavedAreSettled
<1>12. stopped \subseteq 1..turn /\ stopped' \subseteq 1..turn'
  BY <1>2 DEF CardInv
<1>13. \A r \in stream' : RunInOrder(r, view'.msgs, turn', stopped', blank')
  BY <1>2, <1>3, <1>10, <1>12 DEF RunInOrder
<1> QED  BY <1>2, <1>3, <1>9, <1>11, <1>12, <1>13 DEF CardInv

\* Saves, loads and clicks carry transcripts that are settled from one place to
\* another.
LEMMA OtherStepsKeepCards ==
  ASSUME ChatInv, CardInv,
         \/ SaveStored \/ SaveAnswered \/ SaveFails \/ ClickSession \/ LoadRead
         \/ LoadAnswered \/ NewChat \/ Delete \/ Leave \/ Return \/ Tick \/ UNCHANGED vars
  PROVE  CardInv'
<1> DEFINE ok(msgs) == Settled(msgs, turn, stream, stopped, blank)
<1>1. ok(<<>>)
  BY DEF Settled
<1>2. turn' = turn /\ turn \in Nat /\ stopped \subseteq 1..turn /\ blank' = blank
  BY DEF SaveStored, SaveAnswered, SaveFails, ClickSession, LoadRead, LoadAnswered, NewChat,
     Delete, Leave, Return, Tick, ghosts, vars, ChatInv, TypeOK, CardInv
<1>3. \/ stream' = stream /\ stopped' = stopped
      \/ stream' = {} /\ stopped' = stopped \cup {s.turn : s \in stream}
  BY DEF SaveStored, SaveAnswered, SaveFails, ClickSession, LoadRead, LoadAnswered, NewChat,
     Delete, Leave, Return, Tick, ghosts, vars
<1>4. \A msgs : ok(msgs) => Settled(msgs, turn', stream', stopped', blank')
  BY <1>2, <1>3, SettledStays
<1>5. \/ view'.msgs = view.msgs
      \/ ok(view'.msgs) /\ stream' = stream /\ stopped' = stopped
  <2>1. CASE LoadAnswered
    BY <2>1 DEF LoadAnswered, Show, CardInv, SavedAreSettled
  <2>2. CASE NewChat \/ Return
    BY <2>2, <1>1 DEF NewChat, Return, Show, Fresh
  <2>3. CASE SaveAnswered
    BY <2>3, ViewUpdated DEF SaveAnswered, ChatInv
  <2> QED  BY <2>1, <2>2, <2>3 DEF SaveStored, SaveFails, ClickSession, LoadRead, Delete,
           Leave, Tick, vars
<1>6. \A x \in saves' : ok(x.msgs)
  <2>1. \A x \in saves : ok(x.msgs)
    BY DEF CardInv, SavedAreSettled
  <2>2. CASE SaveStored
    BY <1>1, <2>1, <2>2 DEF SaveStored, Stored
  <2>3. CASE Leave
    <3>1. ASSUME NEW x \in saves' PROVE \E y \in saves : x.msgs = y.msgs
      <4>1. PICK s \in saves : x = [s EXCEPT !.mine = FALSE]
        BY <2>3 DEF Leave
      <4> QED  BY <4>1, DisownedRequests DEF ChatInv
    <3> QED  BY <2>1, <3>1
  <2>4. CASE ~SaveStored /\ ~Leave
    <3>1. saves' \subseteq saves
      BY <2>4 DEF SaveAnswered, SaveFails, ClickSession, LoadRead, LoadAnswered, NewChat,
         Delete, Return, Tick, vars
    <3> QED  BY <2>1, <3>1
  <2> QED  BY <2>2, <2>3, <2>4
<1>7. \A x \in loads' : ok(x.msgs)
  <2>1. /\ \A x \in loads : ok(x.msgs)
        /\ \A id \in DOMAIN store : ok(store[id])
    BY DEF CardInv, SavedAreSettled
  <2>2. CASE ClickSession
    BY <1>1, <2>1, <2>2 DEF ClickSession
  <2>3. CASE LoadRead
    <3>1. PICK k \in loads :
            loads' = (loads \ {k}) \cup
              IF k.id \in DOMAIN store
              THEN {[k EXCEPT !.found = TRUE, !.msgs = store[k.id]]}
              ELSE {}
      BY <2>3 DEF LoadRead
    <3> DEFINE read == [k EXCEPT !.found = TRUE, !.msgs = store[k.id]]
    <3>2. k.id \in DOMAIN store => read.msgs = store[k.id]
      BY DEF ChatInv, TypeOK, Loads
    <3> HIDE DEF read
    <3>3. \A l \in loads' : l \in loads \/ (l = read /\ k.id \in DOMAIN store)
      BY <3>1 DEF read
    <3> QED  BY <2>1, <3>2, <3>3
  <2>4. CASE Leave
    <3>1. ASSUME NEW x \in loads' PROVE \E y \in loads : x.msgs = y.msgs
      <4>1. PICK s \in loads : x = [s EXCEPT !.mine = FALSE]
        BY <2>4 DEF Leave
      <4> QED  BY <4>1, DisownedRequests DEF ChatInv
    <3> QED  BY <2>1, <3>1
  <2>5. CASE ~ClickSession /\ ~LoadRead /\ ~Leave
    <3>1. loads' \subseteq loads
      BY <2>5 DEF SaveStored, SaveAnswered, SaveFails, LoadAnswered, NewChat,
         Delete, Return, Tick, vars
    <3> QED  BY <2>1, <3>1
  <2> QED  BY <2>2, <2>3, <2>4, <2>5
<1>8. \A id \in DOMAIN store' : ok(store'[id])
  <2>1. /\ \A x \in saves : ok(x.msgs)
        /\ \A id \in DOMAIN store : ok(store[id])
    BY DEF CardInv, SavedAreSettled
  <2>2. CASE SaveStored
    <3>1. PICK s \in saves : \E id : store' = With(store, id, s.msgs)
      BY <2>2 DEF SaveStored
    <3> QED  BY <2>1, <3>1 DEF With
  <2>3. CASE Delete
    BY <2>1, <2>3 DEF Delete, RemoveSession
  <2>4. CASE ~SaveStored /\ ~Delete
    <3>1. store' = store
      BY <2>4 DEF SaveAnswered, SaveFails, ClickSession, LoadRead, LoadAnswered, NewChat,
         Leave, Return, Tick, vars
    <3> QED  BY <2>1, <3>1
  <2> QED  BY <2>2, <2>3, <2>4
<1>9. SavedAreSettled'
  BY <1>4, <1>6, <1>7, <1>8 DEF SavedAreSettled
<1>10. PICK msgs : msgs = view'.msgs
  OBVIOUS
<1>11. \/ msgs = view.msgs
       \/ ok(msgs) /\ stream' = stream /\ stopped' = stopped
  BY <1>5, <1>10
<1> HIDE DEF ok
<1>12. \A i \in DOMAIN msgs : Genuine(msgs[i], turn) /\ Explained(msgs[i], stream', stopped', blank')
  <2>1. CASE msgs = view.msgs
    <3>1. \A i \in DOMAIN msgs : Genuine(msgs[i], turn) /\ Explained(msgs[i], stream, stopped, blank)
      BY <2>1 DEF CardInv, ViewIsGenuine
    <3>2. \A i \in DOMAIN msgs, s \in stream :
            Waiting(msgs[i]) /\ InCall(s, msgs[i]) => msgs[i].turn = s.turn
      BY <3>1 DEF Genuine, Waiting, InCall, LastCall
    <3> QED  BY <1>2, <1>3, <3>1, <3>2 DEF Explained, Excused
  <2>2. CASE ok(msgs) /\ stream' = stream /\ stopped' = stopped
    BY <1>2, <2>2 DEF ok, Settled, Explained
  <2> QED  BY <1>11, <2>1, <2>2
<1>13. ViewIsGenuine'
  BY <1>2, <1>10, <1>12 DEF ViewIsGenuine
<1>14. \A s \in stream' : RunInOrder(s, msgs, turn', stopped', blank')
  <2>1. CASE stream' = {}
    BY <2>1
  <2>2. CASE stream' = stream /\ stopped' = stopped
    <3>1. ok(msgs) => \A s \in stream : NoOwnCard(s, msgs)
      BY DEF ok, Settled, NoOwnCard
    <3>2. \A s \in stream : RunInOrder(s, view.msgs, turn, stopped, blank)
      BY DEF CardInv
    <3>3. msgs = view.msgs \/ ok(msgs)
      BY <1>11
    <3> QED  BY <1>2, <2>2, <3>1, <3>2, <3>3 DEF RunInOrder
  <2> QED  BY <1>3, <2>1, <2>2
<1>15. stopped' \subseteq 1..turn'
  <2>1. \A s \in stream : s.turn = turn /\ turn # 0
    BY DEF CardInv, RunInOrder
  <2>2. \A s \in stream : s.turn \in 1..turn
    BY <1>2, <2>1
  <2> QED  BY <1>2, <1>3, <2>2
<1>16. \A r, s \in stream' : r = s
  BY <1>3 DEF CardInv
<1> QED  BY <1>2, <1>9, <1>10, <1>13, <1>14, <1>15, <1>16 DEF CardInv

LEMMA CardsHoldAtFirst == Init => CardInv
<1> SUFFICES ASSUME Init PROVE CardInv
  OBVIOUS
<1>1. stream = {} /\ saves = {} /\ loads = {} /\ stopped = {} /\ blank = {}
      /\ DOMAIN store = {} /\ view.msgs = <<>>
  BY DEF Init, Fresh
<1> QED  BY <1>1 DEF CardInv, ViewIsGenuine, SavedAreSettled

LEMMA StreamKeepsCards ==
  ASSUME ChatInv, CardInv,
         \/ StreamThinking \/ StreamText \/ VerificationFails \/ CallTool \/ AnswerCall
         \/ ShowDiff \/ AnswerParallel \/ StreamDone \/ StreamError
  PROVE  CardInv'
<1>1. /\ \A s \in stream : s.turn \in Nat /\ s.calls \in Nat /\ s.tool \in ToolNames
      /\ Tools \subseteq ToolNames
  BY DEF ChatInv, TypeOK, Runs, ToolNames
<1>2. \A s \in stream : LastCall(s) \in Nat \X Nat /\ NextCall(s) \in Nat \X Nat
  BY <1>1 DEF LastCall, NextCall
<1>3. CASE StreamThinking
  <2>1. PICK s \in stream :
          /\ Receive(s, "thinking", NoTool, LastCall(s), "thinking")
          /\ s.phase \in {"sent", "reply", "thinking"} /\ stopped' = stopped
    BY <1>3 DEF StreamThinking
  <2>2. /\ s.phase # "call" /\ s.phase # "ended" /\ "thinking" \notin {"call", "edited"}
        /\ "thinking" \in QuietTypes
    BY <2>1 DEF QuietTypes
  <2> QED  BY <1>2, <2>1, <2>2, QuietKeepsCards
<1>4. CASE StreamText
  <2>1. PICK s \in stream :
          /\ Receive(s, "text", NoTool, LastCall(s), "text")
          /\ Replying(s) /\ stopped' = stopped
    BY <1>4 DEF StreamText
  <2>2. /\ s.phase # "call" /\ s.phase # "ended" /\ "text" \notin {"call", "edited"}
        /\ "text" \in QuietTypes
    BY <2>1 DEF QuietTypes, Replying
  <2> QED  BY <1>2, <2>1, <2>2, QuietKeepsCards
<1>5. CASE VerificationFails
  <2>1. PICK s \in stream :
          /\ Receive(s, "status", NoTool, LastCall(s), "reply")
          /\ s.phase = "text" /\ stopped' = stopped
    BY <1>5 DEF VerificationFails
  <2>2. /\ s.phase # "call" /\ s.phase # "ended" /\ "reply" \notin {"call", "edited"}
        /\ "status" \in QuietTypes
    BY <2>1 DEF QuietTypes
  <2> QED  BY <1>2, <2>1, <2>2, QuietKeepsCards
<1>6. CASE CallTool
  <2>1. PICK s \in stream, tool \in Tools :
          /\ Receive(s, "tool_input", tool, NextCall(s), "call")
          /\ Replying(s) /\ stopped' = stopped
    BY <1>6 DEF CallTool
  <2>2. s.phase # "call" /\ s.phase # "ended" /\ tool \in ToolNames
    BY <1>1, <2>1 DEF Replying
  <2> QED  BY <1>2, <2>1, <2>2, CallKeepsCards
<1>7. CASE AnswerCall
  <2>1. PICK s \in stream :
          /\ s.phase = "call" /\ stopped' = stopped
          /\ \/ \E phase \in {"reply", "edited"} :
                  /\ Receive(s, "tool_result", s.tool, LastCall(s), phase)
                  /\ phase = "edited" => s.tool \in EditTools
             \/ /\ s.tool \notin EditTools \cup ConcurrentTools
                /\ Receive(s, "empty_result", s.tool, LastCall(s), "reply")
    BY <1>7 DEF AnswerCall
  <2> QED  BY <1>1, <1>2, <2>1, AnswerKeepsCards, BlankKeepsCards
<1>8. CASE ShowDiff
  BY <1>1, <1>2, <1>8, DiffKeepsCards DEF ShowDiff
<1>9. CASE AnswerParallel
  <2>1. PICK s \in stream, tool \in Tools \cap ConcurrentTools, phase \in {"parallel", "reply"} :
          /\ Receive(s, "tool_result", tool, NextCall(s), phase)
          /\ Replying(s) \/ s.phase = "parallel"
          /\ stopped' = stopped
    BY <1>9 DEF AnswerParallel
  <2>2. s.phase # "call" /\ s.phase # "ended" /\ tool \in ToolNames \cap ConcurrentTools
        /\ phase \notin {"call", "edited", "ended"}
    BY <1>1, <2>1 DEF Replying
  <2> QED  BY <1>2, <2>1, <2>2, ParallelKeepsCards
<1>10. CASE StreamDone
  <2>1. PICK s \in stream :
          /\ Receive(s, "done", NoTool, LastCall(s), "ended")
          /\ s.phase \in {"thinking", "text"} /\ stopped' = stopped
    BY <1>10 DEF StreamDone
  <2>2. /\ s.phase # "call" /\ s.phase # "ended" /\ "ended" \notin {"call", "edited"}
        /\ "done" \in QuietTypes
    BY <2>1 DEF QuietTypes
  <2> QED  BY <1>2, <2>1, <2>2, QuietKeepsCards
<1>11. CASE StreamError
  <2>1. PICK s \in stream :
          /\ Receive(s, "error", NoTool, LastCall(s), "ended")
          /\ Replying(s) /\ stopped' = stopped \cup {s.turn}
    BY <1>11 DEF StreamError
  <2>2. /\ s.phase # "call" /\ s.phase # "ended" /\ "ended" \notin {"call", "edited"}
        /\ "error" \in QuietTypes
    BY <2>1 DEF QuietTypes, Replying
  <2> QED  BY <1>2, <2>1, <2>2, QuietKeepsCards
<1> QED  BY <1>3, <1>4, <1>5, <1>6, <1>7, <1>8, <1>9, <1>10, <1>11

LEMMA NextKeepsCards == ChatInv /\ CardInv /\ [Next]_vars => CardInv'
<1> SUFFICES ASSUME ChatInv, CardInv, [Next]_vars PROVE CardInv'
  OBVIOUS
<1>1. CASE ApprovePlan \/ Send
  <2>1. \E plan : PostTurn(plan)
    BY <1>1 DEF ApprovePlan, Send
  <2> QED  BY <2>1, PostTurnKeepsCards
<1>2. CASE ~(ApprovePlan \/ Send)
  BY <1>2, StreamKeepsCards, EndKeepsCards, OtherStepsKeepCards DEF Next
<1> QED  BY <1>1, <1>2

\* CardInv is inductive, whatever the view shows between the events of a run.
THEOREM CardInvariance == Spec => []CardInv
BY CardsHoldAtFirst, NextKeepsCards, Invariance, PTL DEF Spec

\* A card shows no other call of its own turn, and spins only while its call
\* runs, because its turn was cut off or because its call came back with an
\* empty text, however often the view changes hands
\* under a stream (Chat.tsx's handleAgentEvent, which matches results by the
\* tool's name and diffs by position).
THEOREM CardsTheorem == Spec => []CardsAreTrue
<1>1. CardInv => CardsAreTrue
  <2> SUFFICES ASSUME CardInv PROVE CardsAreTrue
    OBVIOUS
  <2>1. ResultsOnTheirCards
    BY DEF CardInv, ViewIsGenuine, Genuine, ResultsOnTheirCards
  <2>2. \A m : Shown(m, Streaming) = "executing" => Waiting(m)
    BY DEF Shown, Waiting
  <2>3. SpinnersAreExplained
    BY <2>2 DEF CardInv, ViewIsGenuine, Explained, Excused, Blank, InCall, SpinnersAreExplained
  <2> QED  BY <2>1, <2>3 DEF CardsAreTrue
<1> QED  BY <1>1, CardInvariance, PTL

-----------------------------------------------------------------------------
(* The approval of a plan *)

\* Of the turns of a transcript, t is the last.
LastTurn(t, msgs) == t \in Turns(msgs) /\ \A u \in Turns(msgs) : u <= t

\* Unless the view changed hands at the wrong time, the turn of the run is the
\* last of the view, and so is that whose plan waits.
ApprovalInv ==
  races \cap {"switched", "planKept"} = {} =>
    /\ \A s \in stream : LastTurn(s.turn, view.msgs)
    /\ page = "chat" /\ planReady # 0 => LastTurn(planReady, view.msgs)

LEMMA UserTurns ==
  ASSUME NEW msgs
  PROVE  Turns(msgs) = {msgs[i].turn : i \in {j \in DOMAIN msgs : msgs[j].role = "user"}}
BY DEF Turns, Indices

\* Following a transcript adds and drops no turn.
LEMMA TurnsStay ==
  ASSUME NEW msgs, NEW new, NEW t, Follows(new, msgs, t)
  PROVE  Turns(new) = Turns(msgs)
<1>1. \A i : i \in DOMAIN msgs /\ msgs[i].role = "user"
               => i \in DOMAIN new /\ new[i].role = "user" /\ new[i].turn = msgs[i].turn
  BY DEF Follows, SameMessage
<1>2. \A i : i \in DOMAIN new /\ new[i].role = "user"
               => i \in DOMAIN msgs /\ msgs[i].role = "user" /\ new[i].turn = msgs[i].turn
  BY DEF Follows, SameMessage
<1> QED  BY <1>1, <1>2, UserTurns, ZenonT(60)

LEMMA TurnsGrow ==
  ASSUME NEW msgs \in Transcripts(Nat), NEW c, NEW t
  PROVE  Turns(WithTurn(msgs, c, t)) = Turns(msgs) \cup {t}
<1>1. PICK new : new = WithTurn(msgs, c, t)
  OBVIOUS
<1>2. PICK n : n = Len(msgs)
  OBVIOUS
<1>3. /\ n \in Nat /\ DOMAIN msgs = 1..n /\ DOMAIN new = 1..(n + 2)
      /\ \A i \in 1..n : new[i] = msgs[i]
      /\ new[n + 1].role = "user" /\ new[n + 1].turn = t /\ new[n + 2].role = "assistant"
  BY <1>1, <1>2, Places, TurnAdded
<1>4. PICK m : m = n + 1
  OBVIOUS
<1>5. /\ m \in DOMAIN new /\ new[m].role = "user" /\ new[m].turn = t
      /\ \A i : i \in DOMAIN msgs /\ msgs[i].role = "user"
                  => i \in DOMAIN new /\ new[i].role = "user" /\ new[i].turn = msgs[i].turn
      /\ \A i : i \in DOMAIN new /\ new[i].role = "user" /\ i # m
                  => i \in DOMAIN msgs /\ msgs[i].role = "user" /\ new[i].turn = msgs[i].turn
  <2>1. \A i \in 1..(n + 2) : i \in 1..n \/ i = n + 1 \/ i = n + 2
    BY <1>3
  <2>2. \A i \in 1..n : i \in 1..(n + 2)
    BY <1>3
  <2> QED  BY <1>3, <1>4, <2>1, <2>2
<1>6. Turns(new) = Turns(msgs) \cup {t}
  BY ONLY <1>5, UserTurns, ZenonT(60)
<1> QED  BY <1>1, <1>6

\* Every turn the view shows has been sent.
LEMMA TurnsSent ==
  ASSUME CardInv
  PROVE  \A u \in Turns(view.msgs) : u \in 1..turn
<1>1. \A i \in DOMAIN view.msgs : view.msgs[i].turn \in 1..turn
  BY DEF CardInv, ViewIsGenuine, Genuine
<1> QED  BY <1>1, UserTurns

\* What the steps of a run's stream have in common.
LEMMA Receiving ==
  ASSUME ChatInv,
         \/ StreamThinking \/ StreamText \/ VerificationFails \/ CallTool \/ AnswerCall
         \/ ShowDiff \/ AnswerParallel \/ StreamDone \/ StreamError
  PROVE  \E s \in stream : \E e \in Events(s.conv) :
           /\ view'.msgs = Apply(view.msgs, e) /\ view'.sid = view.sid
           /\ stream' # {} /\ \A r \in stream' : r.turn = s.turn /\ r.sid = s.sid
           /\ planReady' = planReady \/ planReady' = s.turn
           /\ store' = store /\ saves' = saves /\ loads' = loads /\ page' = page
<1>1. \A s \in stream : s.turn \in Nat /\ s.calls \in Nat /\ s.tool \in ToolNames
  BY DEF ChatInv, TypeOK, Runs
<1>2. Tools \subseteq ToolNames /\ NoTool \in ToolNames
  BY DEF ToolNames
<1>3. \A s \in stream : LastCall(s) \in Nat \X Nat /\ NextCall(s) \in Nat \X Nat
  BY <1>1 DEF LastCall, NextCall
<1>4. PICK s \in stream : \E type \in EventTypes, tool \in ToolNames, call \in Nat \X Nat :
        /\ \E phase : Receive(s, type, tool, call, phase)
        /\ planReady' = planReady \/ planReady' = s.turn
  <2>1. CASE StreamThinking \/ StreamText \/ VerificationFails \/ CallTool
    BY <1>1, <1>2, <1>3, <2>1
       DEF StreamThinking, StreamText, VerificationFails, CallTool, EventTypes
  <2>2. CASE AnswerCall \/ ShowDiff \/ AnswerParallel
    BY <1>1, <1>2, <1>3, <2>2 DEF AnswerCall, ShowDiff, AnswerParallel, EventTypes
  <2>3. CASE StreamDone \/ StreamError
    BY <1>1, <1>2, <1>3, <2>3 DEF StreamDone, StreamError, EventTypes
  <2> QED  BY <2>1, <2>2, <2>3
<1>5. PICK type \in EventTypes, tool \in ToolNames, call \in Nat \X Nat :
        \E phase : Receive(s, type, tool, call, phase)
  BY <1>4
<1>6. PICK e \in Events(s.conv) : view'.msgs = Apply(view.msgs, e)
  BY <1>5, Received
<1>7. PICK run : stream' = {run} /\ run.turn = s.turn /\ run.sid = s.sid
  BY <1>5, Received
<1>8. /\ view'.sid = view.sid /\ store' = store /\ saves' = saves /\ loads' = loads
      /\ page' = page
  BY <1>5, Received
<1> QED  BY <1>4, <1>6, <1>7, <1>8

LEMMA RacesStay == [Next]_vars => races \subseteq races'
BY DEF Next, ApprovePlan, Send, PostTurn, StreamThinking, StreamText, VerificationFails,
   CallTool, AnswerCall, ShowDiff, AnswerParallel, StreamDone, StreamError, StreamEnds,
   Interrupt, Refuse, Receive, Finally, SaveStored, SaveAnswered, SaveFails, ClickSession,
   LoadRead, LoadAnswered, NewChat, Show, Delete, Leave, Return, Tick, Race, ghosts, vars

LEMMA NextKeepsApproval == ChatInv /\ CardInv /\ ApprovalInv /\ [Next]_vars => ApprovalInv'
<1> SUFFICES ASSUME ChatInv, CardInv, ApprovalInv, [Next]_vars,
                    races' \cap {"switched", "planKept"} = {}
             PROVE  /\ \A s \in stream' : LastTurn(s.turn, view'.msgs)
                    /\ page' = "chat" /\ planReady' # 0 => LastTurn(planReady', view'.msgs)
  BY DEF ApprovalInv
<1>1. races \subseteq races'
  BY RacesStay
<1>2. /\ \A s \in stream : LastTurn(s.turn, view.msgs)
      /\ page = "chat" /\ planReady # 0 => LastTurn(planReady, view.msgs)
  BY <1>1 DEF ApprovalInv
<1>3. /\ view.msgs \in Transcripts(Nat) /\ turn \in Nat
      /\ \A s \in stream : s.turn = turn /\ s.turn \in Nat /\ s.calls \in Nat
                           /\ s.tool \in ToolNames
      /\ Tools \subseteq ToolNames /\ NoTool \in ToolNames
      /\ page = "away" => stream = {}
  BY DEF ChatInv, TypeOK, Runs, ToolNames, CardInv, RunInOrder, AwayIsQuiet
<1>4. CASE ApprovePlan \/ Send
  <2>1. PICK plan : PostTurn(plan)
    BY <1>4 DEF ApprovePlan, Send
  <2>2. /\ turn' = turn + 1 /\ planReady' = 0
        /\ view'.msgs = WithTurn(view.msgs, view.conv, turn')
        /\ \A s \in stream' : s.turn = turn'
    BY <2>1, ViewUpdated DEF PostTurn, PlanAtSend, ChatInv
  <2>3. Turns(view'.msgs) = Turns(view.msgs) \cup {turn'}
    BY <1>3, <2>2, TurnsGrow
  <2>4. LastTurn(turn', view'.msgs)
    BY <1>3, <2>2, <2>3, TurnsSent DEF LastTurn
  <2> QED  BY <2>2, <2>4
<1>5. CASE \/ StreamThinking \/ StreamText \/ VerificationFails \/ CallTool \/ AnswerCall
           \/ ShowDiff \/ AnswerParallel \/ StreamDone \/ StreamError
  <2>1. PICK s \in stream : \E e \in Events(s.conv) :
          /\ view'.msgs = Apply(view.msgs, e) /\ page' = page
          /\ \A r \in stream' : r.turn = s.turn
          /\ planReady' = planReady \/ planReady' = s.turn
    BY <1>5, Receiving, ZenonT(60)
  <2>2. s.conv \in Nat
    BY DEF ChatInv, TypeOK, Runs
  <2>3. Turns(view'.msgs) = Turns(view.msgs)
    BY <1>3, <2>1, <2>2, EventFollows, TurnsStay
  <2> QED  BY <1>2, <2>1, <2>3 DEF LastTurn
<1>6. CASE StreamEnds \/ Interrupt \/ Refuse
  <2>1. PICK s \in stream, msgs \in Transcripts(Nat) :
          Finally(s, msgs) /\ Follows(msgs, view.msgs, s.turn) /\ view'.msgs = msgs
    BY <1>6, Ending
  <2>2. stream' = {} /\ planReady' = planReady /\ page' = page
    BY <2>1 DEF Finally
  <2>3. Turns(view'.msgs) = Turns(view.msgs)
    BY <2>1, TurnsStay
  <2> QED  BY <1>2, <2>2, <2>3 DEF LastTurn
<1>7. CASE LoadAnswered \/ NewChat
  <2>1. stream' = stream /\ planReady' = planReady /\ page' = page
    BY <1>7 DEF LoadAnswered, NewChat
  <2>2. view' = view \/ (stream = {} /\ planReady = 0)
    BY <1>7 DEF LoadAnswered, NewChat, Show, Busy
  <2> QED  BY <1>2, <2>1, <2>2
<1>8. CASE Return
  BY <1>3, <1>8 DEF Return
<1>9. CASE \/ SaveStored \/ SaveAnswered \/ SaveFails \/ ClickSession \/ LoadRead
           \/ Delete \/ Leave \/ Tick \/ UNCHANGED vars
  <2>1. view'.msgs = view.msgs
    BY <1>9, ViewUpdated DEF SaveStored, SaveAnswered, SaveFails, ClickSession, LoadRead,
       Delete, Leave, Tick, vars, ChatInv
  <2>2. /\ stream' \subseteq stream /\ planReady' = planReady /\ page' \in {page, "away"}
    BY <1>9 DEF SaveStored, SaveAnswered, SaveFails, ClickSession, LoadRead,
       Delete, Leave, Tick, vars
  <2> QED  BY <1>2, <2>1, <2>2
<1> QED  BY <1>4, <1>5, <1>6, <1>7, <1>8, <1>9 DEF Next

\* The button of the approval prompt approves the plan of the last turn the
\* view shows, unless the view changed hands with the prompt open or under the
\* stream (Chat.tsx's planReady, which loadSession and newChat leave alone).
THEOREM ApprovalTheorem == Spec => []ApprovalIsForLastTurn
<1>1. Init => ApprovalInv
  BY DEF Init, ApprovalInv
<1>2. Spec => []ApprovalInv
  BY <1>1, NextKeepsApproval, Invariance, CardInvariance, PTL DEF Spec
<1>3. ApprovalInv => ApprovalIsForLastTurn
  BY DEF ApprovalInv, ApprovalIsForLastTurn, LastTurn
<1> QED  BY <1>2, <1>3, PTL

-----------------------------------------------------------------------------
(* What is saved *)

\* Nothing of old is dropped, reordered or reworded in new.
Extends(new, old) ==
  \A i \in DOMAIN old : i \in DOMAIN new /\ Card(new[i]) = Card(old[i])

\* The turn under way in msgs begins behind all that is saved.
TurnIsNew(msgs, saved) ==
  \E n \in DOMAIN msgs : msgs[n].role = "user" /\ \A i \in DOMAIN saved : i < n

Sent(s) == s.at = "sent"
\* A save whose answer concerns the session of the view.
OfView(s, sid) == IF s.first THEN s.mine ELSE s.id = sid

\* One save of the page is under way at most, and none under a stream; a sent
\* save extends what the session holds, and no other is sent for it.
SavesInOrder ==
  /\ \A s \in saves : s.mine => stream = {}
  /\ \A r, s \in saves : r.mine /\ s.mine => r = s
  /\ \A r, s \in saves : Sent(r) /\ Sent(s) /\ ~r.first /\ ~s.first /\ r.id = s.id => r = s
  /\ \A r, s \in saves : r.first /\ r.mine /\ Sent(s) /\ ~s.first => r.id # s.id
  /\ \A s \in saves : Sent(s) /\ ~s.first /\ s.id \in DOMAIN store
                        => Extends(s.msgs, store[s.id])

\* What is sent for the session of the view is the view, and what that holds
\* already the view extends.
ViewInOrder ==
  /\ \A s \in saves : Sent(s) /\ OfView(s, view.sid) => s.mine /\ s.msgs = Kept(view.msgs)
  /\ \A s \in saves : ~Sent(s) /\ s.first /\ s.mine /\ s.id \in DOMAIN store
                        => store[s.id] = Kept(view.msgs)
  /\ view.sid \in DOMAIN store =>
       /\ Extends(view.msgs, store[view.sid])
       /\ stream # {} => TurnIsNew(view.msgs, store[view.sid])

Orderly ==
  /\ \A s \in stream : s.sid = view.sid
  /\ SavesInOrder
  /\ page # "away" => ViewInOrder

Disorders == {"switched", "resent", "collided", "outdated"}

OrderlyInv == races \cap Disorders = {} => Orderly

LEMMA ExtendsItself ==
  ASSUME NEW msgs \in Transcripts(Nat)
  PROVE  Extends(msgs, msgs) /\ Extends(Kept(msgs), msgs) /\ Extends(msgs, Kept(msgs))
<1>1. PICK new : new = Kept(msgs)
  OBVIOUS
<1>2. Extends(new, msgs) /\ Extends(msgs, new)
  BY <1>1, KeptPlaces DEF Extends, Card, SameMessage
<1> QED  BY <1>1, <1>2 DEF Extends

LEMMA ExtendsThrough ==
  ASSUME NEW a, NEW b, NEW c, Extends(b, a), Extends(c, b)
  PROVE  Extends(c, a)
BY DEF Extends

\* An event or the end of a run leaves all up to the user's message alone.
LEMMA FollowsExtends ==
  ASSUME NEW msgs \in Transcripts(Nat), NEW new \in Transcripts(Nat), NEW t, NEW saved,
         Follows(new, msgs, t), Extends(msgs, saved), TurnIsNew(msgs, saved)
  PROVE  Extends(new, saved) /\ TurnIsNew(new, saved)
<1>1. PICK n \in DOMAIN msgs : msgs[n].role = "user" /\ \A i \in DOMAIN saved : i < n
  BY DEF TurnIsNew
<1>2. n \in DOMAIN new /\ new[n].role = "user"
  BY <1>1 DEF Follows, SameMessage
<1>3. ASSUME NEW i \in DOMAIN saved
      PROVE  i \in DOMAIN new /\ Card(new[i]) = Card(saved[i])
  <2>1. i \in DOMAIN msgs /\ Card(msgs[i]) = Card(saved[i]) /\ i < n
    BY <1>1, <1>3 DEF Extends
  <2>2. i \in DOMAIN new /\ i # Len(msgs)
    BY <1>1, <1>2, <2>1, Places
  <2>3. Card(new[i]) = Card(msgs[i])
    BY <2>1, <2>2 DEF Follows, SameMessage, Card
  <2> QED  BY <2>1, <2>2, <2>3
<1> QED  BY <1>1, <1>2, <1>3 DEF Extends, TurnIsNew

\* A new turn begins behind what is saved.
LEMMA TurnExtends ==
  ASSUME NEW msgs \in Transcripts(Nat), NEW c, NEW t, NEW saved, Extends(msgs, saved)
  PROVE  Extends(WithTurn(msgs, c, t), saved) /\ TurnIsNew(WithTurn(msgs, c, t), saved)
<1>1. PICK new : new = WithTurn(msgs, c, t)
  OBVIOUS
<1>2. PICK n : n = Len(msgs)
  OBVIOUS
<1>3. /\ n \in Nat /\ DOMAIN msgs = 1..n /\ DOMAIN new = 1..(n + 2)
      /\ \A i \in 1..n : new[i] = msgs[i]
      /\ new[n + 1].role = "user"
  BY <1>1, <1>2, Places, TurnAdded
<1>4. \A i \in DOMAIN saved : i \in 1..n /\ Card(msgs[i]) = Card(saved[i])
  BY <1>3 DEF Extends
<1>5. Extends(new, saved)
  <2>1. \A i \in 1..n : i \in 1..(n + 2)
    BY <1>3
  <2> QED  BY <1>3, <1>4, <2>1 DEF Extends
<1>6. TurnIsNew(new, saved)
  <2>1. n + 1 \in DOMAIN new /\ \A i \in 1..n : i < n + 1
    BY <1>3
  <2> QED  BY <1>3, <1>4, <2>1 DEF TurnIsNew
<1> QED  BY <1>1, <1>5, <1>6

LEMMA ReceivingKeepsOrder ==
  ASSUME ChatInv, Orderly,
         \/ StreamThinking \/ StreamText \/ VerificationFails \/ CallTool \/ AnswerCall
         \/ ShowDiff \/ AnswerParallel \/ StreamDone \/ StreamError
  PROVE  Orderly'
<1>1. PICK s \in stream : \E e \in Events(s.conv) :
        /\ view'.msgs = Apply(view.msgs, e) /\ view'.sid = view.sid
        /\ stream' # {} /\ \A r \in stream' : r.turn = s.turn /\ r.sid = s.sid
        /\ store' = store /\ saves' = saves /\ loads' = loads /\ page' = page
  BY Receiving, ZenonT(60)
<1>2. PICK e \in Events(s.conv) : view'.msgs = Apply(view.msgs, e)
  BY <1>1
<1>3. s.conv \in Nat /\ view.msgs \in Transcripts(Nat)
  BY DEF ChatInv, TypeOK, Runs
<1>4. Follows(view'.msgs, view.msgs, e.turn) /\ view'.msgs \in Transcripts(Nat)
  BY <1>2, <1>3, EventFollows, ApplyKeeps
<1>5. /\ view'.sid = view.sid /\ \A r \in stream' : r.sid = view.sid
      /\ store' = store /\ saves' = saves /\ page' = page
  BY <1>1 DEF Orderly
<1>6. \A x \in saves : ~x.mine
  BY DEF Orderly, SavesInOrder
<1>7. SavesInOrder'
  BY <1>5, <1>6 DEF Orderly, SavesInOrder
<1>8. page # "away" => ViewInOrder'
  <2> SUFFICES ASSUME page # "away" PROVE ViewInOrder'
    OBVIOUS
  <2>1. ViewInOrder
    BY DEF Orderly
  <2>2. view.sid \in DOMAIN store =>
          /\ Extends(view'.msgs, store[view.sid])
          /\ TurnIsNew(view'.msgs, store[view.sid])
    BY <1>3, <1>4, <2>1, FollowsExtends DEF ViewInOrder
  <2> QED  BY <1>5, <1>6, <2>1, <2>2 DEF ViewInOrder, OfView
<1> QED  BY <1>5, <1>7, <1>8 DEF Orderly

LEMMA PostTurnKeepsOrder ==
  ASSUME ChatInv, Orderly, NEW plan, PostTurn(plan), "resent" \notin races'
  PROVE  Orderly'
<1>1. /\ view'.msgs = WithTurn(view.msgs, view.conv, turn') /\ view'.sid = view.sid
      /\ store' = store /\ saves' = saves /\ page' = page
      /\ \A r \in stream' : r.sid = view.sid
      /\ \A x \in saves : ~x.mine
  BY ViewUpdated DEF PostTurn, Race, ChatInv
<1>2. view.msgs \in Transcripts(Nat)
  BY DEF ChatInv, TypeOK
<1>3. SavesInOrder'
  BY <1>1 DEF Orderly, SavesInOrder
<1>4. page # "away" => ViewInOrder'
  <2> SUFFICES ASSUME page # "away" PROVE ViewInOrder'
    OBVIOUS
  <2>1. ViewInOrder
    BY DEF Orderly
  <2>2. view.sid \in DOMAIN store =>
          /\ Extends(view'.msgs, store[view.sid])
          /\ TurnIsNew(view'.msgs, store[view.sid])
    BY <1>1, <1>2, <2>1, TurnExtends DEF ViewInOrder
  <2> QED  BY <1>1, <2>1, <2>2 DEF ViewInOrder, OfView
<1> QED  BY <1>1, <1>3, <1>4 DEF Orderly

\* The save that ends a run.
LEMMA EndSave ==
  ASSUME NEW s, NEW msgs, Finally(s, msgs)
  PROVE  \E save :
           /\ save.id = s.sid /\ save.msgs = Kept(msgs) /\ save.at = "sent" /\ save.mine
           /\ save.first <=> s.sid = NoSession
           /\ saves' = IF msgs = <<>> THEN saves ELSE saves \cup {save}
<1> DEFINE save == [id |-> s.sid, msgs |-> Kept(msgs), conv |-> s.conv,
                    first |-> s.sid = NoSession, at |-> "sent", mine |-> TRUE]
<1>1. saves' = IF msgs = <<>> THEN saves ELSE saves \cup {save}
  BY DEF Finally
<1>2. /\ save.id = s.sid /\ save.msgs = Kept(msgs) /\ save.at = "sent" /\ save.mine
      /\ save.first <=> s.sid = NoSession
  OBVIOUS
<1> HIDE DEF save
<1> QED  BY <1>1, <1>2

LEMMA EndKeepsOrder ==
  ASSUME ChatInv, Orderly, StreamEnds \/ Interrupt \/ Refuse
  PROVE  Orderly'
<1>1. PICK s \in stream, msgs \in Transcripts(Nat) :
        Finally(s, msgs) /\ Follows(msgs, view.msgs, s.turn)
        /\ view'.msgs = msgs /\ view'.sid = view.sid
  BY Ending
<1>2. PICK save :
        /\ save.id = s.sid /\ save.msgs = Kept(msgs) /\ save.at = "sent" /\ save.mine
        /\ save.first <=> s.sid = NoSession
        /\ saves' = IF msgs = <<>> THEN saves ELSE saves \cup {save}
  BY <1>1, EndSave
<1>3. stream' = {} /\ store' = store /\ page' = page
  BY <1>1 DEF Finally
<1>4. ViewInOrder
  BY <1>1 DEF ChatInv, AwayIsQuiet, Orderly
<1>5. /\ \A x \in saves : ~x.mine
      /\ s.sid = view.sid
      /\ view.msgs \in Transcripts(Nat)
      /\ \A x \in saves : x.id = NoSession <=> x.first /\ Sent(x)
  BY <1>1 DEF Orderly, SavesInOrder, ChatInv, TypeOK, Sent
<1>6. \A x \in saves : Sent(x) /\ ~x.first => x.id # view.sid
  BY <1>4, <1>5 DEF ViewInOrder, OfView
<1>7. view.sid \in DOMAIN store => Extends(msgs, store[view.sid])
  BY <1>1, <1>4, <1>5, FollowsExtends DEF ViewInOrder
<1>8. view.sid \in DOMAIN store => Extends(save.msgs, store[view.sid])
  <2>1. PICK kept : kept = save.msgs
    OBVIOUS
  <2>2. Extends(kept, msgs)
    BY <1>2, <2>1, ExtendsItself
  <2> QED  BY <1>7, <2>1, <2>2, ExtendsThrough
<1>9. SavesInOrder'
  <2>1. \A x \in saves' : x = save \/ x \in saves
    BY <1>2
  <2>2. Sent(save) /\ (save.first => view.sid = NoSession) /\ (view.sid = NoSession => save.first)
    BY <1>2, <1>5 DEF Sent
  <2> QED  BY <1>2, <1>3, <1>5, <1>6, <1>8, <2>1, <2>2 DEF Orderly, SavesInOrder
<1>10. ViewInOrder'
  <2>1. \A x \in saves' : x = save \/ x \in saves
    BY <1>2
  <2>2. \A x \in saves : Sent(x) => ~OfView(x, view.sid)
    BY <1>5, <1>6 DEF OfView
  <2>3. \A x \in saves' : Sent(x) /\ OfView(x, view'.sid) => x.mine /\ x.msgs = Kept(view'.msgs)
    BY <1>1, <1>2, <2>1, <2>2
  <2>4. \A x \in saves' : Sent(x) \/ ~x.mine
    BY <1>2, <1>5, <2>1 DEF Sent
  <2> QED  BY <1>1, <1>3, <1>7, <2>3, <2>4 DEF ViewInOrder
<1> QED  BY <1>3, <1>9, <1>10 DEF Orderly

\* The server writes a save.
LEMMA StoringSaves ==
  ASSUME ChatInv, SaveStored, "collided" \notin races'
  PROVE  \E s \in saves : \E stored, id :
           /\ Sent(s) /\ ~Sent(stored) /\ stored.id = id /\ stored.msgs = <<>>
           /\ stored.first = s.first /\ stored.mine = s.mine
           /\ saves' = (saves \ {s}) \cup {stored}
           /\ DOMAIN store' = DOMAIN store \cup {id}
           /\ \A i \in DOMAIN store' : store'[i] = IF i = id THEN s.msgs ELSE store[i]
           /\ IF s.first THEN id \notin Sids ELSE id = s.id
           /\ UNCHANGED <<page, view, stream, loads, deleted>>
<1>1. PICK s \in saves :
        LET id == IF s.first THEN clock ELSE s.id IN
        /\ s.at = "sent"
        /\ store' = With(store, id, s.msgs)
        /\ saves' = (saves \ {s}) \cup {Stored(s, id)}
        /\ ~(s.first /\ id \in DOMAIN owner)
        /\ UNCHANGED <<page, view, stream, loads, deleted>>
  BY DEF SaveStored, Race
<1>2. PICK id : id = IF s.first THEN clock ELSE s.id
  OBVIOUS
<1>3. PICK stored : stored = Stored(s, id)
  OBVIOUS
<1>4. /\ ~Sent(stored) /\ stored.id = id /\ stored.first = s.first /\ stored.mine = s.mine
      /\ stored.msgs = <<>>
  BY <1>3 DEF Stored, Sent
<1>5. store' = With(store, id, s.msgs) /\ saves' = (saves \ {s}) \cup {stored}
  BY <1>1, <1>2, <1>3
<1>6. /\ DOMAIN store' = DOMAIN store \cup {id}
      /\ \A i \in DOMAIN store' : store'[i] = IF i = id THEN s.msgs ELSE store[i]
  BY <1>5 DEF With
<1>7. IF s.first THEN id \notin Sids ELSE id = s.id
  <2>1. clock \in Nat
    BY DEF ChatInv, TypeOK
  <2> QED  BY <1>1, <1>2, <2>1, NoSessionAssumption DEF Sids
<1>8. Sent(s)
  BY <1>1 DEF Sent
<1>9. UNCHANGED <<page, view, stream, loads, deleted>>
  BY <1>1
<1> QED  BY <1>4, <1>5, <1>6, <1>7, <1>8, <1>9

LEMMA SaveStoredKeepsOrder ==
  ASSUME ChatInv, Orderly, SaveStored, "collided" \notin races'
  PROVE  Orderly'
<1>1. PICK s \in saves : \E stored, id :
        /\ Sent(s) /\ ~Sent(stored) /\ stored.id = id /\ stored.msgs = <<>>
        /\ stored.first = s.first /\ stored.mine = s.mine
        /\ saves' = (saves \ {s}) \cup {stored}
        /\ DOMAIN store' = DOMAIN store \cup {id}
        /\ \A i \in DOMAIN store' : store'[i] = IF i = id THEN s.msgs ELSE store[i]
        /\ IF s.first THEN id \notin Sids ELSE id = s.id
        /\ UNCHANGED <<page, view, stream, loads, deleted>>
  BY StoringSaves
<1>2. PICK stored, id :
        /\ Sent(s) /\ ~Sent(stored) /\ stored.id = id /\ stored.msgs = <<>>
        /\ stored.first = s.first /\ stored.mine = s.mine
        /\ saves' = (saves \ {s}) \cup {stored}
        /\ DOMAIN store' = DOMAIN store \cup {id}
        /\ \A i \in DOMAIN store' : store'[i] = IF i = id THEN s.msgs ELSE store[i]
        /\ IF s.first THEN id \notin Sids ELSE id = s.id
        /\ UNCHANGED <<page, view, stream, loads, deleted>>
  BY <1>1
<1>3. /\ view.msgs \in Transcripts(Nat) /\ view.sid \in Sids /\ \A x \in saves : x.id \in Sids
      /\ \A x \in stream : x.sid = view.sid
  BY DEF ChatInv, TypeOK, Saves, Orderly
<1>4. /\ \A x \in saves : x.mine => stream = {}
      /\ \A x, y \in saves : x.mine /\ y.mine => x = y
      /\ \A x, y \in saves : Sent(x) /\ Sent(y) /\ ~x.first /\ ~y.first /\ x.id = y.id => x = y
      /\ \A x, y \in saves : x.first /\ x.mine /\ Sent(y) /\ ~y.first => x.id # y.id
      /\ \A x \in saves : Sent(x) /\ ~x.first /\ x.id \in DOMAIN store
                            => Extends(x.msgs, store[x.id])
  BY DEF Orderly, SavesInOrder
<1>5. \A x \in saves' : x = stored \/ (x \in saves /\ x # s)
  BY <1>2
<1>6. \A x \in saves : x # s /\ Sent(x) /\ ~x.first => x.id # id
  BY <1>2, <1>3, <1>4
<1>7. SavesInOrder'
  <2>1. /\ \A x \in saves' : x.mine => stream' = {}
        /\ \A x, y \in saves' : x.mine /\ y.mine => x = y
        /\ \A x, y \in saves' : Sent(x) /\ Sent(y) /\ ~x.first /\ ~y.first /\ x.id = y.id => x = y
        /\ \A x, y \in saves' : x.first /\ x.mine /\ Sent(y) /\ ~y.first => x.id # y.id
    BY ONLY <1>2, <1>4, <1>5, <1>6
  <2>2. \A x \in saves' : Sent(x) /\ ~x.first /\ x.id \in DOMAIN store'
                            => Extends(x.msgs, store'[x.id])
    BY ONLY <1>2, <1>4, <1>5, <1>6
  <2> QED  BY <2>1, <2>2 DEF SavesInOrder
<1>8. ASSUME page # "away" PROVE ViewInOrder'
  <2>1. /\ \A x \in saves : Sent(x) /\ OfView(x, view.sid)
                              => x.mine /\ x.msgs = Kept(view.msgs)
        /\ \A x \in saves : ~Sent(x) /\ x.first /\ x.mine /\ x.id \in DOMAIN store
                              => store[x.id] = Kept(view.msgs)
        /\ view.sid \in DOMAIN store =>
             /\ Extends(view.msgs, store[view.sid])
             /\ stream # {} => TurnIsNew(view.msgs, store[view.sid])
    BY <1>8 DEF Orderly, ViewInOrder
  <2>2. \A x \in saves' : Sent(x) /\ OfView(x, view.sid)
                            => x.mine /\ x.msgs = Kept(view.msgs)
    BY <1>2, <1>5, <2>1
  <2>3. ASSUME NEW x \in saves', ~Sent(x), x.first, x.mine, x.id \in DOMAIN store'
        PROVE  store'[x.id] = Kept(view.msgs)
    <3>1. CASE x = stored
      <4>1. s.first /\ s.mine /\ OfView(s, view.sid)
        BY <1>2, <2>3, <3>1 DEF OfView
      <4> QED  BY <1>2, <2>1, <2>3, <3>1, <4>1
    <3>2. CASE x # stored
      <4>1. x \in saves /\ x.id # id
        BY <1>2, <1>3, <1>4, <1>5, <2>3, <3>2
      <4> QED  BY <1>2, <2>1, <2>3, <4>1
    <3> QED  BY <3>1, <3>2
  <2>4. ASSUME view.sid \in DOMAIN store'
        PROVE  /\ Extends(view.msgs, store'[view.sid])
               /\ stream # {} => TurnIsNew(view.msgs, store'[view.sid])
    <3>1. CASE view.sid = id
      <4>1. ~s.first /\ OfView(s, view.sid)
        BY <1>2, <1>3, <3>1 DEF OfView
      <4>2. s.mine /\ s.msgs = Kept(view.msgs)
        BY <1>2, <2>1, <4>1
      <4>3. stream = {} /\ store'[view.sid] = Kept(view.msgs)
        BY <1>2, <1>4, <2>4, <3>1, <4>2
      <4> QED  BY <1>3, <4>3, ExtendsItself
    <3>2. CASE view.sid # id
      BY <1>2, <2>1, <2>4, <3>2
    <3> QED  BY <3>1, <3>2
  <2> QED  BY <1>2, <2>2, <2>3, <2>4 DEF ViewInOrder
<1> QED  BY <1>2, <1>3, <1>7, <1>8 DEF Orderly

\* A save that is over, one way or the other, is out of flight.
LEMMA SaveOverKeepsOrder ==
  ASSUME ChatInv, Orderly, SaveAnswered \/ SaveFails
  PROVE  Orderly'
<1>1. /\ saves' \subseteq saves /\ stream' = stream /\ store' = store /\ page' = page
      /\ view'.msgs = view.msgs
  BY ViewUpdated DEF SaveAnswered, SaveFails, ChatInv
<1>2. SavesInOrder'
  <2>1. SavesInOrder
    BY DEF Orderly
  <2> QED  BY <1>1, <2>1 DEF SavesInOrder
<1>3. CASE view' = view
  <2>1. page # "away" => ViewInOrder'
    BY <1>1, <1>3 DEF Orderly, ViewInOrder
  <2> QED  BY <1>1, <1>2, <1>3, <2>1 DEF Orderly
<1>4. CASE view' # view
  <2>1. PICK s \in saves :
          /\ ~Sent(s) /\ s.first /\ s.mine /\ saves' = saves \ {s}
          /\ view' = [view EXCEPT !.sid = s.id]
    BY <1>4 DEF SaveAnswered, SaveFails, Sent
  <2>2. view'.sid = s.id /\ stream = {} /\ view.msgs \in Transcripts(Nat)
    BY <2>1, ViewUpdated DEF Orderly, SavesInOrder, ChatInv, TypeOK
  <2>3. /\ \A x \in saves : x.mine => x = s
        /\ \A x \in saves : Sent(x) /\ ~x.first => s.id # x.id
    BY <2>1 DEF Orderly, SavesInOrder
  <2>4. ASSUME page # "away" PROVE ViewInOrder'
    <3>1. s.id \in DOMAIN store => store[s.id] = Kept(view.msgs)
      BY <2>1, <2>4 DEF Orderly, ViewInOrder
    <3>2. s.id \in DOMAIN store => Extends(view.msgs, store[s.id])
      BY <2>2, <3>1, ExtendsItself
    <3>3. \A x \in saves' : ~x.mine /\ ~(Sent(x) /\ OfView(x, s.id))
      BY <2>1, <2>3 DEF OfView
    <3> QED  BY <1>1, <2>2, <3>2, <3>3 DEF ViewInOrder
  <2> QED  BY <1>1, <1>2, <2>2, <2>4 DEF Orderly
<1> QED  BY <1>3, <1>4

\* A view that takes the place of a quiet one is in order when no save is under
\* way for its session.
LEMMA NewViewInOrder ==
  ASSUME Orderly, stream = {}, UNCHANGED <<stream, saves, store>>,
         \A s \in saves : ~(s.first /\ s.mine),
         \A s \in saves : Sent(s) /\ ~s.first => s.id # view'.sid,
         view'.sid \in DOMAIN store => Extends(view'.msgs, store[view'.sid])
  PROVE  Orderly'
<1>1. SavesInOrder'
  BY DEF Orderly, SavesInOrder
<1>2. ViewInOrder'
  BY DEF ViewInOrder, OfView
<1> QED  BY <1>1, <1>2 DEF Orderly

LEMMA ShowKeepsOrder ==
  ASSUME ChatInv, Orderly, LoadAnswered \/ NewChat,
         "switched" \notin races', "outdated" \notin races'
  PROVE  Orderly'
<1>1. UNCHANGED <<stream, saves, store, page>>
  BY DEF LoadAnswered, NewChat
<1>2. /\ NoSession \notin DOMAIN store
      /\ \A s \in saves : s.id = NoSession <=> s.first /\ s.at = "sent"
      /\ \A l \in loads : l.msgs \in Transcripts(Nat)
  BY NoSessionAssumption DEF ChatInv, TypeOK, Loads
<1>3. CASE view' = view
  <2>1. SavesInOrder'
    BY <1>1 DEF Orderly, SavesInOrder
  <2>2. page # "away" => ViewInOrder'
    BY <1>1, <1>3 DEF Orderly, ViewInOrder
  <2> QED  BY <1>1, <1>3, <2>1, <2>2 DEF Orderly
<1>4. CASE view' # view
  <2>1. \E new, outdated : Show(new, outdated)
    BY <1>4 DEF LoadAnswered, NewChat
  <2>2. stream = {} /\ \A s \in saves : ~(s.first /\ s.mine)
    BY <2>1 DEF Show, Busy, OpenFirstSave
  <2>3. CASE NewChat
    <3>1. view'.sid = NoSession
      BY <2>3 DEF NewChat, Show, Fresh
    <3> QED  BY <1>1, <1>2, <2>2, <3>1, NewViewInOrder DEF Sent
  <2>4. CASE LoadAnswered
    <3>1. PICK l \in loads :
            /\ view' = [msgs |-> l.msgs, sid |-> l.id, conv |-> owner[l.id]]
            /\ ~Outdated(l)
      BY <1>4, <2>4 DEF LoadAnswered, Show
    <3>2. /\ view'.sid = l.id /\ view'.msgs = l.msgs
          /\ l.id \in DOMAIN store => store[l.id] = l.msgs
          /\ \A s \in saves : Sent(s) => s.id # l.id
      BY <3>1 DEF Outdated, Sent
    <3>3. Extends(l.msgs, l.msgs)
      BY <1>2, ExtendsItself
    <3> QED  BY <1>1, <2>2, <3>2, <3>3, NewViewInOrder
  <2> QED  BY <2>3, <2>4
<1> QED  BY <1>3, <1>4

LEMMA DeleteKeepsOrder ==
  ASSUME Orderly, Delete
  PROVE  Orderly'
<1>1. /\ DOMAIN store' \subseteq DOMAIN store
      /\ \A i \in DOMAIN store' : store'[i] = store[i]
      /\ UNCHANGED <<stream, saves, view, page>>
  BY DEF Delete, RemoveSession
<1>2. SavesInOrder'
  BY <1>1 DEF Orderly, SavesInOrder
<1>3. page # "away" => ViewInOrder'
  BY <1>1 DEF Orderly, ViewInOrder
<1> QED  BY <1>1, <1>2, <1>3 DEF Orderly

\* What is under way when the page is left goes on, of no page.
LEMMA Disowned ==
  ASSUME ChatInv, Leave
  PROVE  /\ \A x \in saves' : \E s \in saves :
              /\ x = [s EXCEPT !.mine = FALSE]
              /\ x.id = s.id /\ x.msgs = s.msgs /\ x.first = s.first /\ x.at = s.at /\ ~x.mine
         /\ \A x \in loads' : \E l \in loads : x.id = l.id /\ x.found = l.found
<1>1. /\ saves' = {[s EXCEPT !.mine = FALSE] : s \in saves}
      /\ loads' = {[l EXCEPT !.mine = FALSE] : l \in loads}
  BY DEF Leave
<1>2. ASSUME NEW x \in saves'
      PROVE  \E s \in saves :
               /\ x = [s EXCEPT !.mine = FALSE]
               /\ x.id = s.id /\ x.msgs = s.msgs /\ x.first = s.first /\ x.at = s.at /\ ~x.mine
  <2>1. PICK s \in saves : x = [s EXCEPT !.mine = FALSE]
    BY <1>1, <1>2
  <2>2. s \in Saves
    BY DEF ChatInv, TypeOK
  <2>3. x.id = s.id /\ x.msgs = s.msgs /\ x.first = s.first /\ x.at = s.at /\ ~x.mine
    BY ONLY <2>1, <2>2 DEF Saves
  <2> QED  BY <2>1, <2>3
<1>3. ASSUME NEW x \in loads'
      PROVE  \E l \in loads : x.id = l.id /\ x.found = l.found
  <2>1. PICK l \in loads : x = [l EXCEPT !.mine = FALSE]
    BY <1>1, <1>3
  <2>2. l \in Loads
    BY DEF ChatInv, TypeOK
  <2>3. x.id = l.id /\ x.found = l.found
    BY ONLY <2>1, <2>2 DEF Loads
  <2> QED  BY <2>3
<1> QED  BY <1>2, <1>3

LEMMA LeaveKeepsOrder ==
  ASSUME ChatInv, Orderly, Leave
  PROVE  Orderly'
<1>1. /\ stream' = {} /\ store' = store /\ page' = "away"
      /\ saves' = {[s EXCEPT !.mine = FALSE] : s \in saves}
  BY DEF Leave
<1>2. \A x \in saves' : \E s \in saves :
        /\ x = [s EXCEPT !.mine = FALSE]
        /\ x.id = s.id /\ x.msgs = s.msgs /\ x.first = s.first /\ x.at = s.at /\ ~x.mine
  BY Disowned
<1>3. \A x \in saves' : ~x.mine
  BY <1>2
<1>4. ASSUME NEW x \in saves', NEW y \in saves', Sent(x), Sent(y), ~x.first, ~y.first,
             x.id = y.id
      PROVE  x = y
  <2>1. PICK r \in saves : x = [r EXCEPT !.mine = FALSE] /\ x.id = r.id /\ x.first = r.first
                           /\ x.at = r.at
    BY <1>2
  <2>2. PICK s \in saves : y = [s EXCEPT !.mine = FALSE] /\ y.id = s.id /\ y.first = s.first
                           /\ y.at = s.at
    BY <1>2
  <2>3. r = s
    BY <1>4, <2>1, <2>2 DEF Orderly, SavesInOrder, Sent
  <2> QED  BY <2>1, <2>2, <2>3
<1>5. ASSUME NEW x \in saves', Sent(x), ~x.first, x.id \in DOMAIN store'
      PROVE  Extends(x.msgs, store'[x.id])
  <2>1. PICK s \in saves : x.id = s.id /\ x.msgs = s.msgs /\ x.first = s.first /\ x.at = s.at
    BY <1>2
  <2> QED  BY <1>1, <1>5, <2>1 DEF Orderly, SavesInOrder, Sent
<1>6. SavesInOrder'
  BY <1>3, <1>4, <1>5 DEF SavesInOrder
<1> QED  BY <1>1, <1>6 DEF Orderly

LEMMA ReturnKeepsOrder ==
  ASSUME ChatInv, Orderly, Return
  PROVE  Orderly'
<1>1. /\ UNCHANGED <<stream, saves, store>> /\ view'.sid = NoSession /\ page = "away"
  BY DEF Return, Fresh
<1>2. /\ NoSession \notin DOMAIN store /\ stream = {}
      /\ \A s \in saves : ~s.mine /\ (s.id = NoSession <=> s.first /\ s.at = "sent")
  BY <1>1, NoSessionAssumption DEF ChatInv, TypeOK, AwayIsQuiet
<1> QED  BY <1>1, <1>2, NewViewInOrder DEF Sent

LEMMA NextKeepsOrder == ChatInv /\ OrderlyInv /\ [Next]_vars => OrderlyInv'
<1> SUFFICES ASSUME ChatInv, OrderlyInv, [Next]_vars, races' \cap Disorders = {}
             PROVE  Orderly'
  BY DEF OrderlyInv
<1>1. Orderly
  BY RacesStay DEF OrderlyInv
<1>2. /\ "switched" \notin races' /\ "resent" \notin races'
      /\ "collided" \notin races' /\ "outdated" \notin races'
  BY DEF Disorders
<1>3. CASE ApprovePlan \/ Send
  <2>1. PICK plan : PostTurn(plan)
    BY <1>3 DEF ApprovePlan, Send
  <2> QED  BY <1>1, <1>2, <2>1, PostTurnKeepsOrder
<1>4. CASE \/ StreamThinking \/ StreamText \/ VerificationFails \/ CallTool \/ AnswerCall
           \/ ShowDiff \/ AnswerParallel \/ StreamDone \/ StreamError
  BY <1>1, <1>4, ReceivingKeepsOrder
<1>5. CASE StreamEnds \/ Interrupt \/ Refuse
  BY <1>1, <1>5, EndKeepsOrder
<1>6. CASE SaveStored \/ SaveAnswered \/ SaveFails
  BY <1>1, <1>2, <1>6, SaveStoredKeepsOrder, SaveOverKeepsOrder
<1>7. CASE LoadAnswered \/ NewChat
  BY <1>1, <1>2, <1>7, ShowKeepsOrder
<1>8. CASE Delete \/ Leave \/ Return
  BY <1>1, <1>8, DeleteKeepsOrder, LeaveKeepsOrder, ReturnKeepsOrder
<1>9. CASE ClickSession \/ LoadRead \/ Tick \/ UNCHANGED vars
  <2>1. UNCHANGED <<stream, saves, view, page, store>>
    BY <1>9 DEF ClickSession, LoadRead, Tick, vars
  <2>2. SavesInOrder'
    BY <1>1, <2>1 DEF Orderly, SavesInOrder
  <2>3. page # "away" => ViewInOrder'
    BY <1>1, <2>1 DEF Orderly, ViewInOrder
  <2> QED  BY <1>1, <2>1, <2>2, <2>3 DEF Orderly
<1> QED  BY <1>3, <1>4, <1>5, <1>6, <1>7, <1>8, <1>9 DEF Next

LEMMA OrderHoldsAtFirst == Init => OrderlyInv
<1> SUFFICES ASSUME Init PROVE Orderly
  BY DEF OrderlyInv
<1>1. stream = {} /\ saves = {} /\ DOMAIN store = {}
  BY DEF Init
<1> QED  BY <1>1 DEF Orderly, SavesInOrder, ViewInOrder

\* OrderlyInv is inductive over ChatInv.
THEOREM OrderInvariance == Spec => []OrderlyInv
BY OrderHoldsAtFirst, NextKeepsOrder, Invariance, PTL DEF Spec

\* The saved form of Extends, in the terms of SavedOnlyGrows.
LEMMA GrownCards ==
  ASSUME NEW old \in Transcripts(Nat), NEW new \in Transcripts(Nat), Extends(new, old)
  PROVE  /\ Len(Cards(old)) <= Len(Cards(new))
         /\ SubSeq(Cards(new), 1, Len(Cards(old))) = Cards(old)
<1>1. PICK n : n = Len(old)
  OBVIOUS
<1>2. PICK m : m = Len(new)
  OBVIOUS
<1>3. n \in Nat /\ m \in Nat /\ DOMAIN old = 1..n /\ DOMAIN new = 1..m
  BY <1>1, <1>2, Places
<1>4. n <= m
  <2>1. n \in 1..n => n \in 1..m
    BY <1>3 DEF Extends
  <2> QED  BY <1>3, <2>1
<1>5. PICK a : a = Cards(old)
  OBVIOUS
<1>6. PICK b : b = Cards(new)
  OBVIOUS
<1>7. a = [i \in 1..n |-> Card(old[i])] /\ b = [i \in 1..m |-> Card(new[i])]
  BY <1>3, <1>5, <1>6 DEF Cards
<1>8. \A i \in 1..n : i \in 1..m /\ Card(new[i]) = Card(old[i])
  BY <1>3 DEF Extends
<1>9. Len(a) = n /\ Len(b) = m
  BY <1>3, <1>7
<1>10. \A i \in 1..n : i \in 1..m /\ a[i] = b[i]
  BY <1>7, <1>8
<1>11. SubSeq(b, 1, n) = [i \in 1..n |-> b[i]]
  <2>1. SubSeq(b, 1, n) = [i \in 1..(n - 1 + 1) |-> b[i]]
    BY <1>3
  <2> QED  BY <1>3, <2>1
<1>12. SubSeq(b, 1, n) = a
  BY <1>7, <1>10, <1>11
<1> QED  BY <1>4, <1>5, <1>6, <1>9, <1>12

\* A save of a session appends to the one before, whatever is interrupted,
\* refused, deleted or left in between; the four races the client does not
\* guard against are the only ways to drop or reword what was saved.
THEOREM GrowsTheorem == Spec => SavedOnlyGrows
<1> DEFINE Grows ==
      races' \cap Disorders = {} =>
        \A id \in DOMAIN store \cap DOMAIN store' :
          LET old == Cards(store[id])
              new == Cards(store'[id])
          IN  Len(old) <= Len(new) /\ SubSeq(new, 1, Len(old)) = old
<1>1. ASSUME ChatInv, ChatInv', OrderlyInv, [Next]_vars PROVE Grows
  <2> SUFFICES ASSUME races' \cap Disorders = {}, NEW id \in DOMAIN store, id \in DOMAIN store'
               PROVE  /\ Len(Cards(store[id])) <= Len(Cards(store'[id]))
                      /\ SubSeq(Cards(store'[id]), 1, Len(Cards(store[id]))) = Cards(store[id])
    OBVIOUS
  <2>1. store[id] \in Transcripts(Nat) /\ store'[id] \in Transcripts(Nat)
    BY <1>1 DEF ChatInv, TypeOK
  <2>2. Orderly
    BY <1>1, RacesStay DEF OrderlyInv
  <2>3. Extends(store'[id], store[id])
    <3>1. CASE SaveStored
      <4>1. "collided" \notin races'
        BY DEF Disorders
      <4>2. PICK s \in saves : \E stored, at :
              /\ Sent(s)
              /\ \A i \in DOMAIN store' : store'[i] = IF i = at THEN s.msgs ELSE store[i]
              /\ IF s.first THEN at \notin Sids ELSE at = s.id
        BY <1>1, <3>1, <4>1, StoringSaves
      <4>3. PICK at :
              /\ \A i \in DOMAIN store' : store'[i] = IF i = at THEN s.msgs ELSE store[i]
              /\ IF s.first THEN at \notin Sids ELSE at = s.id
        BY <4>2
      <4>4. CASE id = at
        <5>1. id \in Sids
          BY <1>1 DEF ChatInv, TypeOK, Sids
        <5> QED  BY <2>2, <4>2, <4>3, <4>4, <5>1 DEF Orderly, SavesInOrder
      <4>5. CASE id # at
        BY <2>1, <4>3, <4>5, ExtendsItself
      <4> QED  BY <4>4, <4>5
    <3>2. CASE Delete
      <4>1. store'[id] = store[id]
        BY <3>2 DEF Delete, RemoveSession
      <4> QED  BY <2>1, <4>1, ExtendsItself
    <3>3. CASE ~(SaveStored \/ Delete)
      <4>1. store' = store
        BY <1>1, <3>3
           DEF Next, ApprovePlan, Send, PostTurn, StreamThinking, StreamText, VerificationFails,
               CallTool, AnswerCall, ShowDiff, AnswerParallel, StreamDone, StreamError,
               StreamEnds, Interrupt, Refuse, Receive, Finally, SaveAnswered, SaveFails,
               ClickSession, LoadRead, LoadAnswered, NewChat, Leave, Return, Tick, vars
      <4> QED  BY <2>1, <4>1, ExtendsItself
    <3> QED  BY <3>1, <3>2, <3>3
  <2> QED  BY <2>1, <2>3, GrownCards
<1>2. Grows <=>
        (races' \cap {"switched", "resent", "collided", "outdated"} = {} =>
           \A id \in DOMAIN store \cap DOMAIN store' :
             LET old == Cards(store[id])
                 new == Cards(store'[id])
             IN  Len(old) <= Len(new) /\ SubSeq(new, 1, Len(old)) = old)
  BY DEF Disorders
<1> HIDE DEF Grows
<1> QED  BY <1>1, <1>2, Invariance, OrderInvariance, PTL DEF Spec, SavedOnlyGrows

-----------------------------------------------------------------------------
(* What the page shows is saved *)

IsKept(msgs) == msgs = Kept(msgs)
SavedAs(id, msgs) == id \in DOMAIN store /\ store[id] = Kept(msgs)

\* A save whose end leaves the session of the view with what the view shows.
SavesView(s, sid) == s.mine /\ (s.first \/ (Sent(s) /\ s.id = sid))

\* Messages shown with no run under way are saved or being saved; nothing in
\* use is missing at the server, and nothing at the server has a diff.
Preserved ==
  /\ \A l \in loads : l.found => l.id \in DOMAIN store
  /\ \A s \in saves : IsKept(s.msgs) /\ (~Sent(s) => s.id \in DOMAIN store)
  /\ \A id \in DOMAIN store : IsKept(store[id])
  /\ page # "away" /\ stream = {} /\ view.msgs # <<>> =>
       (\E s \in saves : SavesView(s, view.sid)) \/ SavedAs(view.sid, view.msgs)

Losses == Disorders \cup {"failed", "deleted"}

PreservedInv == races \cap Losses = {} => Preserved

\* Keeping twice is keeping once.
LEMMA KeptTwice ==
  ASSUME NEW msgs \in Transcripts(Nat), NEW kept, kept = Kept(msgs)
  PROVE  IsKept(kept)
<1>1. DOMAIN kept = DOMAIN msgs /\ DOMAIN msgs = 1..Len(msgs)
  BY KeptPlaces
<1>2. kept = [i \in DOMAIN msgs |-> [msgs[i] EXCEPT !.diff = NoCall]]
  BY DEF Kept
<1>3. ASSUME NEW i \in DOMAIN msgs PROVE [kept[i] EXCEPT !.diff = NoCall] = kept[i]
  <2>1. PICK m \in Messages(Nat) : m = msgs[i]
    BY DEF Transcripts
  <2>2. kept[i] = [m EXCEPT !.diff = NoCall]
    BY <1>2, <2>1
  <2>3. [[m EXCEPT !.diff = NoCall] EXCEPT !.diff = NoCall] = [m EXCEPT !.diff = NoCall]
    BY <2>1 DEF Messages
  <2> QED  BY <2>2, <2>3
<1>4. Kept(kept) = [i \in DOMAIN msgs |-> kept[i]]
  BY <1>1, <1>3 DEF Kept
<1> QED  BY <1>1, <1>2, <1>4 DEF IsKept

LEMMA EndPreserves ==
  ASSUME ChatInv, Orderly, Preserved, StreamEnds \/ Interrupt \/ Refuse
  PROVE  Preserved'
<1>1. PICK s \in stream, msgs \in Transcripts(Nat) :
        Finally(s, msgs) /\ view'.msgs = msgs /\ view'.sid = view.sid
  BY Ending
<1>2. PICK save :
        /\ save.id = s.sid /\ save.msgs = Kept(msgs) /\ save.at = "sent" /\ save.mine
        /\ save.first <=> s.sid = NoSession
        /\ saves' = IF msgs = <<>> THEN saves ELSE saves \cup {save}
  BY <1>1, EndSave
<1>3. /\ store' = store /\ loads' = loads /\ s.sid = view.sid
      /\ \A x \in saves' : x = save \/ x \in saves
  BY <1>1, <1>2 DEF Finally, Orderly
<1>4. IsKept(save.msgs)
  BY <1>2, KeptTwice
<1>5. view'.msgs # <<>> => \E x \in saves' : SavesView(x, view'.sid)
  BY <1>1, <1>2, <1>3 DEF SavesView, Sent
<1> QED  BY <1>2, <1>3, <1>4, <1>5 DEF Preserved, Sent

LEMMA SaveStoredPreserves ==
  ASSUME ChatInv, Orderly, Preserved, SaveStored, "collided" \notin races'
  PROVE  Preserved'
<1>1. PICK s \in saves : \E stored, id :
        /\ Sent(s) /\ ~Sent(stored) /\ stored.id = id /\ stored.msgs = <<>>
        /\ stored.first = s.first /\ stored.mine = s.mine
        /\ saves' = (saves \ {s}) \cup {stored}
        /\ DOMAIN store' = DOMAIN store \cup {id}
        /\ \A i \in DOMAIN store' : store'[i] = IF i = id THEN s.msgs ELSE store[i]
        /\ IF s.first THEN id \notin Sids ELSE id = s.id
        /\ UNCHANGED <<page, view, stream, loads, deleted>>
  BY StoringSaves
<1>2. PICK stored, id :
        /\ Sent(s) /\ ~Sent(stored) /\ stored.id = id /\ stored.msgs = <<>>
        /\ stored.first = s.first /\ stored.mine = s.mine
        /\ saves' = (saves \ {s}) \cup {stored}
        /\ DOMAIN store' = DOMAIN store \cup {id}
        /\ \A i \in DOMAIN store' : store'[i] = IF i = id THEN s.msgs ELSE store[i]
        /\ IF s.first THEN id \notin Sids ELSE id = s.id
        /\ UNCHANGED <<page, view, stream, loads, deleted>>
  BY <1>1
<1>3. \A x \in saves' : x = stored \/ x \in saves
  BY <1>2
<1>4. IsKept(stored.msgs)
  <2>1. <<>> \in Transcripts(Nat) /\ <<>> = Kept(<<>>)
    BY NoMessages DEF Kept
  <2> QED  BY <1>2, <2>1 DEF IsKept
<1>5. /\ \A l \in loads' : l.found => l.id \in DOMAIN store'
      /\ \A x \in saves' : IsKept(x.msgs) /\ (~Sent(x) => x.id \in DOMAIN store')
      /\ \A i \in DOMAIN store' : IsKept(store'[i])
  <2>1. /\ \A l \in loads : l.found => l.id \in DOMAIN store
        /\ \A x \in saves : IsKept(x.msgs) /\ (~Sent(x) => x.id \in DOMAIN store)
        /\ \A i \in DOMAIN store : IsKept(store[i])
    BY DEF Preserved
  <2>2. \A x \in saves' : IsKept(x.msgs) /\ (~Sent(x) => x.id \in DOMAIN store')
    BY <1>2, <1>3, <1>4, <2>1
  <2>3. \A i \in DOMAIN store' : IsKept(store'[i])
    BY <1>2, <2>1
  <2> QED  BY <1>2, <2>1, <2>2, <2>3
<1>6. ASSUME page # "away", stream = {}, view.msgs # <<>>
      PROVE  (\E x \in saves' : SavesView(x, view.sid))
               \/ (view.sid \in DOMAIN store' /\ store'[view.sid] = Kept(view.msgs))
  <2>1. \A x \in saves : Sent(x) /\ OfView(x, view.sid) => x.msgs = Kept(view.msgs)
    BY <1>6 DEF Orderly, ViewInOrder
  <2>2. CASE \E x \in saves : SavesView(x, view.sid)
    <3>1. PICK x \in saves : SavesView(x, view.sid)
      BY <2>2
    <3>2. CASE x # s
      BY <1>2, <3>1, <3>2
    <3>3. CASE x = s /\ s.first
      <4>1. SavesView(stored, view.sid)
        BY <1>2, <3>1, <3>3 DEF SavesView
      <4> QED  BY <1>2, <4>1
    <3>4. CASE x = s /\ ~s.first
      <4>1. view.sid = id /\ s.msgs = Kept(view.msgs)
        BY <1>2, <2>1, <3>1, <3>4 DEF SavesView, OfView
      <4> QED  BY <1>2, <4>1
    <3> QED  BY <3>2, <3>3, <3>4
  <2>3. CASE SavedAs(view.sid, view.msgs)
    <3>1. view.sid \in Sids
      BY DEF ChatInv, TypeOK
    <3>2. view.sid = id => s.msgs = Kept(view.msgs)
      BY <1>2, <2>1, <3>1 DEF OfView
    <3> QED  BY <1>2, <2>3, <3>2 DEF SavedAs
  <2> QED  BY <1>6, <2>2, <2>3 DEF Preserved
<1> QED  BY <1>2, <1>5, <1>6 DEF Preserved, SavedAs

LEMMA SaveAnsweredPreserves ==
  ASSUME ChatInv, Orderly, Preserved, SaveAnswered
  PROVE  Preserved'
<1>1. PICK s \in saves :
        /\ ~Sent(s) /\ saves' = saves \ {s}
        /\ view' = IF s.first /\ s.mine THEN [view EXCEPT !.sid = s.id] ELSE view
        /\ UNCHANGED <<store, page, stream, loads>>
  BY DEF SaveAnswered, Sent
<1>2. view'.msgs = view.msgs /\ (s.first /\ s.mine => view'.sid = s.id)
  BY <1>1, ViewUpdated DEF ChatInv
<1>3. ASSUME page # "away", stream = {}, view.msgs # <<>>
      PROVE  (\E x \in saves' : SavesView(x, view'.sid)) \/ SavedAs(view'.sid, view.msgs)
  <2>1. CASE s.first /\ s.mine
    BY <1>1, <1>2, <1>3, <2>1 DEF Preserved, Orderly, ViewInOrder, SavedAs
  <2>2. CASE ~(s.first /\ s.mine)
    <3>1. view' = view /\ ~SavesView(s, view.sid)
      BY <1>1, <2>2 DEF SavesView
    <3> QED  BY <1>1, <1>3, <3>1 DEF Preserved
  <2> QED  BY <2>1, <2>2
<1> QED  BY <1>1, <1>2, <1>3 DEF Preserved, SavedAs

LEMMA ShowPreserves ==
  ASSUME ChatInv, Preserved, LoadAnswered \/ NewChat, "outdated" \notin races'
  PROVE  Preserved'
<1>1. UNCHANGED <<stream, saves, store, page>> /\ loads' \subseteq loads
  BY DEF LoadAnswered, NewChat
<1>2. CASE view' = view
  BY <1>1, <1>2 DEF Preserved, SavedAs
<1>3. CASE NewChat
  <2>1. view'.msgs = <<>>
    BY <1>3 DEF NewChat, Show, Fresh
  <2> QED  BY <1>1, <2>1 DEF Preserved
<1>4. CASE LoadAnswered /\ view' # view
  <2>1. PICK l \in loads :
          /\ view' = [msgs |-> l.msgs, sid |-> l.id, conv |-> owner[l.id]]
          /\ l.found /\ ~Outdated(l)
    BY <1>4 DEF LoadAnswered, Show
  <2>2. l.id \in DOMAIN store /\ store[l.id] = l.msgs /\ IsKept(l.msgs)
    BY <2>1 DEF Outdated, Preserved
  <2>3. view'.sid \in DOMAIN store /\ store[view'.sid] = Kept(view'.msgs)
    BY <2>1, <2>2 DEF IsKept
  <2> QED  BY <1>1, <2>3 DEF Preserved, SavedAs
<1> QED  BY <1>2, <1>3, <1>4

LEMMA DeletePreserves ==
  ASSUME Preserved, Delete, "deleted" \notin races'
  PROVE  Preserved'
<1>1. PICK id \in history : store' = RemoveSession(id) /\ ~InUse(id)
  BY DEF Delete, Race
<1>2. /\ DOMAIN store' = DOMAIN store \ {id} /\ \A i \in DOMAIN store' : store'[i] = store[i]
      /\ UNCHANGED <<stream, saves, loads, view, page>>
  BY <1>1 DEF Delete, RemoveSession
<1>3. /\ view.sid # id
      /\ \A s \in saves : s.id # id
      /\ \A l \in loads : l.id # id
  BY <1>1 DEF InUse
<1>4. /\ \A l \in loads : l.found => l.id \in DOMAIN store'
      /\ \A s \in saves : IsKept(s.msgs) /\ (~Sent(s) => s.id \in DOMAIN store')
      /\ \A i \in DOMAIN store' : IsKept(store'[i])
  BY <1>2, <1>3 DEF Preserved
<1>5. SavedAs(view.sid, view.msgs)
        => view.sid \in DOMAIN store' /\ store'[view.sid] = Kept(view.msgs)
  BY <1>2, <1>3 DEF SavedAs
<1> QED  BY <1>2, <1>4, <1>5 DEF Preserved, SavedAs

LEMMA LeavePreserves ==
  ASSUME ChatInv, Preserved, Leave
  PROVE  Preserved'
<1>1. store' = store /\ page' = "away"
  BY DEF Leave
<1>2. \A x \in saves' : \E s \in saves : x.id = s.id /\ x.msgs = s.msgs /\ x.at = s.at
  BY Disowned
<1>3. \A x \in loads' : \E l \in loads : x.id = l.id /\ x.found = l.found
  BY Disowned
<1>4. \A x \in saves' : IsKept(x.msgs) /\ (~Sent(x) => x.id \in DOMAIN store)
  BY <1>2 DEF Preserved, Sent
<1>5. \A x \in loads' : x.found => x.id \in DOMAIN store
  BY <1>3 DEF Preserved
<1> QED  BY <1>1, <1>4, <1>5 DEF Preserved

LEMMA LoadReadPreserves ==
  ASSUME ChatInv, Preserved, ClickSession \/ LoadRead
  PROVE  Preserved'
<1>1. UNCHANGED <<store, saves, stream, page, view>>
  BY DEF ClickSession, LoadRead
<1>2. \A l \in loads' : l.found => l.id \in DOMAIN store
  <2>1. CASE ClickSession
    BY <2>1 DEF ClickSession, Preserved
  <2>2. CASE LoadRead
    <3>1. PICK l \in loads :
            loads' = (loads \ {l}) \cup
              IF l.id \in DOMAIN store
              THEN {[l EXCEPT !.found = TRUE, !.msgs = store[l.id]]}
              ELSE {}
      BY <2>2 DEF LoadRead
    <3>2. [l EXCEPT !.found = TRUE, !.msgs = store[l.id]].id = l.id
      BY DEF ChatInv, TypeOK, Loads
    <3>3. \A x \in loads' : x \in loads \/ (l.id \in DOMAIN store /\ x.id = l.id)
      BY <3>1, <3>2
    <3> QED  BY <3>3 DEF Preserved
  <2> QED  BY <2>1, <2>2
<1> QED  BY <1>1, <1>2 DEF Preserved, SavedAs

LEMMA NextPreserves ==
  ChatInv /\ OrderlyInv /\ PreservedInv /\ [Next]_vars => PreservedInv'
<1> SUFFICES ASSUME ChatInv, OrderlyInv, PreservedInv, [Next]_vars, races' \cap Losses = {}
             PROVE  Preserved'
  BY DEF PreservedInv
<1>1. Orderly /\ Preserved
  BY RacesStay DEF OrderlyInv, PreservedInv, Losses
<1>2. "collided" \notin races' /\ "outdated" \notin races' /\ "deleted" \notin races'
      /\ "failed" \notin races'
  BY DEF Losses, Disorders
<1>3. CASE ApprovePlan \/ Send
  <2>1. stream' # {} /\ UNCHANGED <<store, saves, loads>>
    BY <1>3 DEF ApprovePlan, Send, PostTurn
  <2> QED  BY <1>1, <2>1 DEF Preserved
<1>4. CASE \/ StreamThinking \/ StreamText \/ VerificationFails \/ CallTool \/ AnswerCall
           \/ ShowDiff \/ AnswerParallel \/ StreamDone \/ StreamError
  <2>1. stream' # {} /\ UNCHANGED <<store, saves, loads>>
    BY <1>4, Receiving
  <2> QED  BY <1>1, <2>1 DEF Preserved
<1>5. CASE StreamEnds \/ Interrupt \/ Refuse
  BY <1>1, <1>5, EndPreserves
<1>6. CASE SaveStored \/ SaveAnswered
  BY <1>1, <1>2, <1>6, SaveStoredPreserves, SaveAnsweredPreserves
<1>7. CASE SaveFails
  BY <1>2, <1>7 DEF SaveFails, Race
<1>8. CASE LoadAnswered \/ NewChat
  BY <1>1, <1>2, <1>8, ShowPreserves
<1>9. CASE Delete \/ Leave
  BY <1>1, <1>2, <1>9, DeletePreserves, LeavePreserves
<1>10. CASE Return
  <2>1. view'.msgs = <<>> /\ UNCHANGED <<store, saves, loads>>
    BY <1>10 DEF Return, Fresh
  <2> QED  BY <1>1, <2>1 DEF Preserved
<1>11. CASE ClickSession \/ LoadRead
  BY <1>1, <1>11, LoadReadPreserves
<1>12. CASE Tick \/ UNCHANGED vars
  <2>1. UNCHANGED <<store, saves, loads, stream, page, view>>
    BY <1>12 DEF Tick, vars
  <2> QED  BY <1>1, <2>1 DEF Preserved, SavedAs
<1> QED  BY <1>3, <1>4, <1>5, <1>6, <1>7, <1>8, <1>9, <1>10, <1>11, <1>12 DEF Next

LEMMA PreservedAtFirst == Init => PreservedInv
<1> SUFFICES ASSUME Init PROVE Preserved
  BY DEF PreservedInv
<1>1. saves = {} /\ loads = {} /\ DOMAIN store = {} /\ view.msgs = <<>>
  BY DEF Init, Fresh
<1> QED  BY <1>1 DEF Preserved

\* A page at rest shows what its session file holds, but for the diffs: a
\* reload loses no message, unless one of the named races was met or a request
\* failed (Chat.tsx's autoSave and loadSession).
THEOREM ShownTheorem == Spec => []ShownIsSaved
<1>1. Spec => []PreservedInv
  BY PreservedAtFirst, NextPreserves, Invariance, OrderInvariance, PTL DEF Spec
<1>2. PreservedInv => ShownIsSaved
  BY DEF PreservedInv, Preserved, Losses, Disorders, ShownIsSaved, AtRest, SavedAs
<1> QED  BY <1>1, <1>2, PTL
=============================================================================
