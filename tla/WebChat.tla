------------------------------ MODULE WebChat ------------------------------
(***************************************************************************)
(* The chat of the web client: the chat page (pages/Chat.tsx) with the     *)
(* stream of the agent's run, the session it saves itself to, and the      *)
(* history in the side panel (components/SidePanel.tsx) whose clicks load, *)
(* leave and delete sessions while requests are under way.                 *)
(*                                                                         *)
(* The handlers interleave at every await: a save, a load and the stream   *)
(* are requests in flight, and a click is possible between any two of      *)
(* their steps.  send() keeps the session id of the render it was called   *)
(* in and the functional updates of the stream write to whatever the view  *)
(* then shows.                                                             *)
(*                                                                         *)
(* Ghosts: conversations and turns are numbered; the view and the requests *)
(* know the conversation they were made for, and owner that of a session;  *)
(* races names the interleavings met that the client does not guard        *)
(* against.                                                                *)
(***************************************************************************)
EXTENDS Transcript, FiniteSets

CONSTANTS
  NoSession,   \* the null session id
  Budgets,     \* bounds of a run, see Spend
  Tools        \* the tools the agent calls

\* What a run may spend, and whether its turns may be /plan turns.
Allowances ==
  [sends : Nat, plans : SUBSET BOOLEAN, texts : Nat, calls : Nat, thinks : Nat, fails : Nat,
   loads : Nat, news : Nat, deletes : Nat, leaves : Nat, ticks : Nat]

ASSUME BudgetsAssumption == Budgets \subseteq Allowances
ASSUME ToolsAssumption == NoTool \notin Tools
ASSUME NoSessionAssumption == NoSession \notin Nat

VARIABLES
  store,       \* session id -> messages, the server's session files
  owner,       \* ghost: session id -> the conversation it was made for
  clock,       \* the second, from which ids of new sessions are made
  page,        \* "chat" or "away": whether the chat page is mounted
  view,        \* [msgs, sid, conv]: messages and sessionId
  planReady,   \* the turn whose plan waits for approval, or 0
  stream,      \* the runs being read: at most one, see OneStream
  saves,       \* POST /api/sessions in flight
  loads,       \* GET /api/sessions/{id} in flight
  history,     \* the ids the side panel lists
  turn,        \* turns sent so far
  convs,       \* conversations opened so far
  stopped,     \* turns that ended without a done
  blank,       \* ghost: calls answered with an empty text, with their tools
  deleted,     \* ids the user has deleted
  races,       \* unguarded interleavings met
  budget       \* what may still happen

vars == <<store, owner, clock, page, view, planReady, stream, saves, loads, history,
          turn, convs, stopped, blank, deleted, races, budget>>
ghosts == <<owner, turn, convs, blank, deleted>>

Fresh(c) == [msgs |-> <<>>, sid |-> NoSession, conv |-> c]
Spend(what) == budget[what] > 0 /\ budget' = [budget EXCEPT ![what] = @ - 1]
Race(name, met) == races' = races \cup (IF met THEN {name} ELSE {})

OpenFirstSave == \E s \in saves : s.mine /\ s.first
\* The view must not change under a stream or under a save whose answer names it.
Busy == stream # {} \/ OpenFirstSave

-----------------------------------------------------------------------------
(* The view and the agent's stream *)

\* Mutant: a refused turn's empty bubble is cleaned up before the next turn.
WithTurnTidied(msgs, c, t) == OnDone(msgs) \o <<UserMessage(c, t), Bubble(c, t, <<>>)>>
\* The bubble for the reply stands at once.
WithTurn(msgs, c, t) == msgs \o <<UserMessage(c, t), Bubble(c, t, <<>>)>>
\* Mutant: the prompt survives the next turn.
PlanKeptAtSend == planReady
\* setPlanReady(false): any new turn clears the prompt.
PlanAtSend == 0

Streaming == stream # {}
OffersApproval == planReady # 0 /\ ~Streaming
\* The button is Send or Stop; Enter sends, Escape stops.
OffersSend == ~Streaming
OffersStop == Streaming

PostTurn(plan) ==
  /\ page = "chat" /\ OffersSend
  /\ Spend("sends")
  /\ turn' = turn + 1
  /\ planReady' = PlanAtSend
  /\ view' = [view EXCEPT !.msgs = WithTurn(@, view.conv, turn')]
  /\ stream' = {[conv |-> view.conv, sid |-> view.sid, turn |-> turn', plan |-> plan,
                 phase |-> "sent", calls |-> 0, tool |-> NoTool]}
  /\ Race("resent", \E s \in saves : s.mine)
  /\ UNCHANGED <<store, owner, clock, page, saves, loads, history, convs, stopped, blank,
                 deleted>>

Send == \E plan \in budget.plans : PostTurn(plan)
\* The button of the approval prompt sends a fixed text.
ApprovePlan == OffersApproval /\ PostTurn(FALSE)

\* One event of run s reaches the view.
Receive(s, type, tool, call, phase) ==
  /\ view' = [view EXCEPT !.msgs = Apply(@, Event(type, s.conv, s.turn, tool, call))]
  /\ stream' = {[s EXCEPT !.phase = phase, !.calls = call[2], !.tool = tool]}
  /\ blank' = blank \cup (IF type = "empty_result" THEN {<<call, tool>>} ELSE {})
  /\ UNCHANGED <<store, owner, clock, page, saves, loads, history, turn, convs, deleted, races>>

Replying(s) == s.phase \in {"sent", "reply", "thinking", "text"}
LastCall(s) == <<s.turn, s.calls>>
NextCall(s) == <<s.turn, s.calls + 1>>

StreamThinking == \E s \in stream :
  /\ s.phase \in {"sent", "reply", "thinking"} /\ Spend("thinks")
  /\ Receive(s, "thinking", NoTool, LastCall(s), "thinking")
  /\ UNCHANGED <<planReady, stopped>>

StreamText == \E s \in stream :
  /\ Replying(s) /\ Spend("texts")
  /\ Receive(s, "text", NoTool, LastCall(s), "text")
  /\ UNCHANGED <<planReady, stopped>>

\* A failed verification starts another reply in the same bubble.
VerificationFails == \E s \in stream :
  /\ s.phase = "text" /\ Spend("texts")
  /\ Receive(s, "status", NoTool, LastCall(s), "reply")
  /\ UNCHANGED <<planReady, stopped>>

\* A call of the serial loop announces its input.
CallTool == \E s \in stream, tool \in Tools :
  /\ Replying(s) /\ Spend("calls")
  /\ Receive(s, "tool_input", tool, NextCall(s), "call")
  /\ UNCHANGED <<planReady, stopped>>

\* Git, say, may answer with an empty text; the editing and the concurrent tools
\* never do.
AnswerCall == \E s \in stream :
  /\ s.phase = "call"
  /\ \/ \E phase \in {"reply"} \cup (IF s.tool \in EditTools THEN {"edited"} ELSE {}) :
          Receive(s, "tool_result", s.tool, LastCall(s), phase)
     \/ /\ s.tool \notin EditTools \cup ConcurrentTools
        /\ Receive(s, "empty_result", s.tool, LastCall(s), "reply")
  /\ UNCHANGED <<planReady, stopped, budget>>

ShowDiff == \E s \in stream :
  /\ s.phase = "edited"
  /\ Receive(s, "diff", s.tool, LastCall(s), "reply")
  /\ UNCHANGED <<planReady, stopped, budget>>

\* Two or more concurrency-safe calls run at once: results only, no inputs.
AnswerParallel == \E s \in stream, tool \in Tools \cap ConcurrentTools :
  /\ \/ Replying(s) /\ Spend("calls") /\ Receive(s, "tool_result", tool, NextCall(s), "parallel")
     \/ s.phase = "parallel" /\ UNCHANGED budget
        /\ Receive(s, "tool_result", tool, NextCall(s), "reply")
  /\ UNCHANGED <<planReady, stopped>>

StreamDone == \E s \in stream :
  /\ s.phase \in {"thinking", "text"}
  /\ Receive(s, "done", NoTool, LastCall(s), "ended")
  /\ planReady' = IF s.plan THEN s.turn ELSE planReady
  /\ UNCHANGED <<stopped, budget>>

StreamError == \E s \in stream :
  /\ Replying(s) /\ Spend("fails")
  /\ Receive(s, "error", NoTool, LastCall(s), "ended")
  /\ stopped' = stopped \cup {s.turn}
  /\ UNCHANGED planReady

\* Mutant: the messages of the last render are saved, not the updated ones.
FinallyStale(s, msgs) ==
  /\ stream' = {}
  /\ view' = [view EXCEPT !.msgs = msgs]
  /\ saves' = saves \cup {[id |-> s.sid, msgs |-> Kept(view.msgs), conv |-> s.conv,
                           first |-> s.sid = NoSession, at |-> "sent", mine |-> TRUE]}
  /\ UNCHANGED <<store, clock, page, planReady, loads, history, races, ghosts>>

\* send's finally: the view of that moment is saved under the id of the call.
Finally(s, msgs) ==
  /\ stream' = {}
  /\ view' = [view EXCEPT !.msgs = msgs]
  /\ saves' = IF msgs = <<>> THEN saves
              ELSE saves \cup {[id |-> s.sid, msgs |-> Kept(msgs), conv |-> s.conv,
                                first |-> s.sid = NoSession, at |-> "sent", mine |-> TRUE]}
  /\ UNCHANGED <<store, clock, page, planReady, loads, history, races, ghosts>>

StreamEnds == \E s \in stream :
  /\ s.phase = "ended"
  /\ Finally(s, OnDone(view.msgs))
  /\ UNCHANGED <<stopped, budget>>

\* Stop, Escape or a broken connection.
Interrupt == OffersStop /\ \E s \in stream :
  /\ Spend("fails")
  /\ Finally(s, OnInterrupt(view.msgs, s.conv))
  /\ stopped' = stopped \cup {s.turn}

\* A refusal (429, 503) is read as a stream without events: send never looks
\* at res.ok.
Refuse == \E s \in stream :
  /\ s.phase = "sent" /\ Spend("fails")
  /\ Finally(s, view.msgs)
  /\ stopped' = stopped \cup {s.turn}

-----------------------------------------------------------------------------
(* Saving, loading, deleting *)

\* The server: SessionStore.Save.  A new id is the second it is made in.
With(f, id, x) == [i \in DOMAIN f \cup {id} |-> IF i = id THEN x ELSE f[i]]

\* The server has written save s under id.
Stored(s, id) == [id |-> id, msgs |-> <<>>, conv |-> s.conv, first |-> s.first,
                  at |-> "stored", mine |-> s.mine]

SaveStored == \E s \in saves :
  LET id == IF s.first THEN clock ELSE s.id IN
  /\ s.at = "sent"
  /\ store' = With(store, id, s.msgs)
  /\ owner' = IF s.first THEN With(owner, id, s.conv) ELSE owner
  /\ saves' = (saves \ {s}) \cup {Stored(s, id)}
  /\ Race("collided", s.first /\ id \in DOMAIN owner)
  /\ UNCHANGED <<clock, page, view, planReady, stream, loads, history, turn, convs, blank, deleted,
                 stopped, budget>>

\* autoSave goes on: the id of a first save becomes the view's, whatever the
\* view shows by now; an unmounted page hears nothing.
SaveAnswered == \E s \in saves :
  /\ s.at = "stored"
  /\ saves' = saves \ {s}
  /\ view' = IF s.first /\ s.mine THEN [view EXCEPT !.sid = s.id] ELSE view
  /\ UNCHANGED <<store, clock, page, planReady, stream, loads, history, ghosts, stopped,
                 races, budget>>

\* postJSON throws and nobody catches.
SaveFails == \E s \in saves :
  /\ Spend("fails")
  /\ saves' = saves \ {s}
  /\ Race("failed", TRUE)
  /\ UNCHANGED <<store, clock, page, view, planReady, stream, loads, history, ghosts, stopped>>

ClickSession == \E id \in history :
  /\ page = "chat" /\ Spend("loads")
  /\ loads' = loads \cup {[id |-> id, found |-> FALSE, msgs |-> <<>>, mine |-> TRUE]}
  /\ UNCHANGED <<store, clock, page, view, planReady, stream, saves, history, ghosts,
                 stopped, races>>

\* A session that is gone answers 404: getSession throws, the view stays.
LoadRead == \E l \in loads :
  /\ ~l.found
  /\ loads' = (loads \ {l}) \cup
              IF l.id \in DOMAIN store
              THEN {[l EXCEPT !.found = TRUE, !.msgs = store[l.id]]}
              ELSE {}
  /\ UNCHANGED <<store, clock, page, view, planReady, stream, saves, history, ghosts,
                 stopped, races, budget>>

\* The session was saved since load l read it, or is being saved.
Outdated(l) ==
  \/ l.id \in DOMAIN store /\ store[l.id] # l.msgs
  \/ \E s \in saves : s.at = "sent" /\ s.id = l.id

\* Mutant: a new view keeps the session id of the old one.
ShowKeepingId(new, outdated) ==
  /\ view' = [new EXCEPT !.sid = view.sid]
  /\ races' = races \cup (IF outdated THEN {"outdated"} ELSE {})
                    \cup (IF Busy THEN {"switched"} ELSE {})
                    \cup (IF planReady # 0 THEN {"planKept"} ELSE {})

\* The view changes hands; planReady stays as it is.
Show(new, outdated) ==
  /\ view' = new
  /\ races' = races \cup (IF outdated THEN {"outdated"} ELSE {})
                    \cup (IF Busy THEN {"switched"} ELSE {})
                    \cup (IF planReady # 0 THEN {"planKept"} ELSE {})

LoadAnswered == \E l \in loads :
  /\ l.found
  /\ loads' = loads \ {l}
  /\ IF l.mine
     THEN Show([msgs |-> l.msgs, sid |-> l.id, conv |-> owner[l.id]], Outdated(l))
     ELSE UNCHANGED <<view, races>>
  /\ UNCHANGED <<store, clock, page, planReady, stream, saves, history, ghosts, stopped, budget>>

NewChat ==
  /\ page = "chat" /\ Spend("news")
  /\ convs' = convs + 1
  /\ Show(Fresh(convs'), FALSE)
  /\ UNCHANGED <<store, owner, clock, page, planReady, stream, saves, loads, history, turn,
                 stopped, blank, deleted>>

\* The history's delete: the chat page is not told.
InUse(id) ==
  \/ view.sid = id
  \/ \E s \in stream : s.sid = id
  \/ \E s \in saves : s.id = id \/ s.first
  \/ \E l \in loads : l.id = id

\* Mutant: the file is not found, the handler answers ok all the same.
RemoveNothing(id) == store
RemoveSession(id) == [i \in DOMAIN store \ {id} |-> store[i]]

Delete == \E id \in history :
  /\ page = "chat" /\ Spend("deletes")
  /\ store' = RemoveSession(id)
  /\ history' = DOMAIN store'
  /\ deleted' = deleted \cup {id}
  /\ Race("deleted", InUse(id))
  /\ UNCHANGED <<owner, clock, page, view, planReady, stream, saves, loads, turn, convs, stopped,
                 blank>>

\* Leaving unmounts the page.  The run goes on at the server, but nobody reads
\* it and the unmounted page saves nothing.
Leave ==
  /\ page = "chat" /\ Spend("leaves")
  /\ page' = "away"
  /\ stream' = {}
  /\ stopped' = stopped \cup {s.turn : s \in stream}
  /\ saves' = {[s EXCEPT !.mine = FALSE] : s \in saves}
  /\ loads' = {[l EXCEPT !.mine = FALSE] : l \in loads}
  /\ UNCHANGED <<store, clock, view, planReady, history, ghosts, races>>

\* The page and the panel are mounted anew, the panel lists the sessions.
Return ==
  /\ page = "away"
  /\ page' = "chat"
  /\ convs' = convs + 1
  /\ view' = Fresh(convs')
  /\ planReady' = 0
  /\ history' = DOMAIN store
  /\ UNCHANGED <<store, owner, clock, stream, saves, loads, turn, stopped, blank, deleted, races,
                 budget>>

Tick ==
  /\ Spend("ticks")
  /\ clock' = clock + 1
  /\ UNCHANGED <<store, page, view, planReady, stream, saves, loads, history, ghosts,
                 stopped, races>>

Init ==
  /\ budget \in Budgets
  /\ store = [i \in {} |-> <<>>] /\ owner = [i \in {} |-> 0] /\ clock = 0 /\ page = "chat"
  /\ view = Fresh(1) /\ planReady = 0 /\ stream = {} /\ saves = {} /\ loads = {}
  /\ history = {} /\ turn = 0 /\ convs = 1 /\ stopped = {} /\ blank = {} /\ deleted = {}
  /\ races = {}

Next ==
  \/ ApprovePlan \/ Send
  \/ StreamThinking \/ StreamText \/ VerificationFails \/ CallTool \/ AnswerCall \/ ShowDiff
  \/ AnswerParallel \/ StreamDone \/ StreamError \/ StreamEnds \/ Interrupt \/ Refuse
  \/ SaveStored \/ SaveAnswered \/ SaveFails
  \/ ClickSession \/ LoadRead \/ LoadAnswered \/ NewChat \/ Delete
  \/ Leave \/ Return \/ Tick

Spec == Init /\ [][Next]_vars

-----------------------------------------------------------------------------
(* Properties *)

Card(m) == [role |-> m.role, turn |-> m.turn, call |-> m.call, content |-> m.content]
Cards(msgs) == [i \in DOMAIN msgs |-> Card(msgs[i])]
Within(msgs, c) == Conversations(msgs) \subseteq {c}

\* A session file holds the text of one conversation: that of the chat it was
\* opened for ("Session represents a saved chat conversation.", sessions.go).
OneConversationPerSession ==
  \A id \in DOMAIN store : Within(store[id], owner[id])

\* Conversations mix in a session only after the view changed hands under a
\* stream or a first save (Chat.tsx lets loadSession and newChat through at any
\* time), or two chats were first saved in one second.
ConversationsApart ==
  races \cap {"switched", "collided"} = {} => OneConversationPerSession

\* Nothing is under way on a mounted page.
AtRest == page = "chat" /\ stream = {} /\ saves = {} /\ loads = {}

\* What the page shows at rest is what the server keeps, but for the diffs: a
\* reload loses no message.  An interrupted, refused or broken turn is saved
\* like any other; only the named races and a failed request break this.
ShownIsSaved ==
  AtRest /\ races \cap {"switched", "resent", "collided", "failed", "deleted", "outdated"} = {}
         /\ view.msgs # <<>>
    => /\ view.sid \in DOMAIN store
       /\ store[view.sid] = Kept(view.msgs)

\* A later save of a session appends to the earlier one: no message of a saved
\* session is dropped, reordered or reworded (a card may get its result).
SavedOnlyGrows ==
  [][races' \cap {"switched", "resent", "collided", "outdated"} = {} =>
     \A id \in DOMAIN store \cap DOMAIN store' :
       LET old == Cards(store[id])
           new == Cards(store'[id])
       IN  Len(old) <= Len(new) /\ SubSeq(new, 1, Len(old)) = old]_vars

\* A deleted session stays deleted unless it was shown, being loaded or being
\* saved when it was deleted: the next save of the page would bring it back.
DeletedStaysDeleted ==
  races \cap {"deleted", "collided"} = {} => deleted \cap DOMAIN store = {}

\* The approval prompt stands for the last turn of the view, a /plan turn that
\* is over.  A load or a new chat with the prompt open, or under the stream,
\* carries it to another conversation.
ApprovalIsForLastTurn ==
  page = "chat" /\ planReady # 0 /\ races \cap {"switched", "planKept"} = {}
    => planReady \in Turns(view.msgs) /\ \A t \in Turns(view.msgs) : t <= planReady

\* Results are matched to cards by the tool's name and diffs by position; still
\* a card never shows another call of its own turn.
ResultsOnTheirCards ==
  \A m \in {view.msgs[i] : i \in DOMAIN view.msgs} : m.role = "tool" =>
    /\ m.result[1] = m.call[1] => m.result = m.call
    /\ m.diff[1] = m.call[1] => m.diff = m.call

\* A card goes on spinning only while its call runs, when its turn was cut off or
\* when its call came back with an empty text, whatever the view showed in
\* between.
SpinnersAreExplained ==
  \A i \in DOMAIN view.msgs : Shown(view.msgs[i], Streaming) = "executing" =>
    \/ view.msgs[i].turn \in stopped
    \/ <<view.msgs[i].call, view.msgs[i].tool>> \in blank
    \/ \E s \in stream : s.phase = "call" /\ view.msgs[i].call = LastCall(s)

\* What a card says of its call is true.
CardsAreTrue == ResultsOnTheirCards /\ SpinnersAreExplained

\* An answer is never shown inside a collapsed thinking block, however thinking,
\* text, tools and failed verifications alternate.
AnswersAreVisible ==
  \A i \in DOMAIN view.msgs : \A j \in DOMAIN view.msgs[i].content :
    view.msgs[i].content[j] \in {"answer", "error"}
      => ~InThinkingBlock(view.msgs[i].content, j)
=============================================================================
