------------------------------ MODULE WebPages ------------------------------
(***************************************************************************)
(* The pages of the web client that show and change data of the server:    *)
(* Costs, Kairos, Team, Memory and Routes (src/web/src/pages).             *)
(*                                                                         *)
(* A page is mounted empty and loads its parts, one GET each, which are    *)
(* read at the server one by one and shown together when the last of them  *)
(* is answered; Costs and Kairos load again on a timer (Kairos also on     *)
(* every notification), the others after their own writes only.  Nothing   *)
(* keeps two loads apart, and an older one may be answered last.           *)
(*                                                                         *)
(* A part is abstracted to its version, the number of changes made to it.  *)
(* acked and pageRaces are ghosts: the version every part had when a write *)
(* of this client was answered, and the interleavings met that the pages   *)
(* do not guard against.                                                   *)
(***************************************************************************)
EXTENDS Integers, Sequences, SequencesExt

CONSTANTS
  Asked,       \* a GET without its answer
  Nothing      \* a part that was not loaded, or failed

VARIABLES
  page,        \* the page mounted, "other" for one that is not modelled here
  data,        \* part -> its version at the server
  shown,       \* part -> the version the page shows, or Nothing
  loads,       \* the loads under way, in the order they were begun
  writes,      \* the page's POST and PUT in flight
  filled,      \* the form is filled in, or a route is being edited
  running,     \* teamRunning, abRunning: the button is disabled
  runs,        \* team runs and comparisons under way at the server, by page
  acked,       \* ghost
  pageRaces,   \* ghost
  pageBudget   \* bounds of a run

pageVars == <<page, data, shown, loads, writes, filled, running, runs, acked, pageRaces, pageBudget>>

PageSpend(what) == pageBudget[what] > 0 /\ pageBudget' = [pageBudget EXCEPT ![what] = @ - 1]

\* What the load of a page asks for and the page shows: the load fails when one
\* of "must" fails, and one of "may" that fails is shown as nothing.
CostsPage == [must |-> {"costs"}, may |-> {"metrics"}]   \* and traces, feedback
KairosPage == [must |-> {"status", "tasks"}, may |-> {"git"}]   \* and logs
TeamPage == [must |-> {"users", "audit"}, may |-> {}]
MemoryPage == [must |-> {"entries"}, may |-> {}]
RoutesPage == [must |-> {"rules"}, may |-> {}]
OtherPage == [must |-> {}, may |-> {}]
PageParts == [costs |-> CostsPage, kairos |-> KairosPage, team |-> TeamPage,
              memory |-> MemoryPage, routes |-> RoutesPage, other |-> OtherPage]
Page == DOMAIN PageParts
PartsOf(p) == PageParts[p].must \cup PageParts[p].may
Part == UNION {PartsOf(p) : p \in Page}

\* What a run may visit and spend.
PageAllowances ==
  [visits : Seq(Page), loads : Nat, traffic : Nat, fails : Nat, writes : Nat, runs : Nat]

Polled == {"costs", "kairos"}

\* The writes of the pages, with the parts each changes.
Op(p, form, changes) == [page |-> p, form |-> form, changes |-> changes]
KairosOps == {Op("kairos", FALSE, {"status"}),           \* stop, setAutonomy
              Op("kairos", FALSE, {"status", "tasks"}),  \* start
              Op("kairos", TRUE, {"status", "tasks"})}   \* addTask
TeamOps == {Op("team", TRUE, {"users"})}                 \* addUser
MemoryOps == {Op("memory", TRUE, {"entries"}),           \* add
              Op("memory", FALSE, {"entries"})}          \* dream
RoutesOps == {Op("routes", TRUE, {"rules"})}             \* save
Ops == KairosOps \cup TeamOps \cup MemoryOps \cup RoutesOps

\* A load of page p whose GETs have all been sent.
Load(p) == [part \in PartsOf(p) |-> Asked]
Changed(parts) == [part \in Part |-> IF part \in parts THEN data[part] + 1 ELSE data[part]]

-----------------------------------------------------------------------------
(* Mounting and loading *)

\* The old page is unmounted: its timer stops, what its requests bring is lost,
\* and the server goes on with them.
Mounted(p) ==
  /\ page' = p
  /\ shown' = [part \in Part |-> Nothing]
  /\ loads' = IF p = "other" THEN <<>> ELSE <<Load(p)>>
  /\ writes' = {[w EXCEPT !.mine = FALSE] : w \in writes}
  /\ filled' = FALSE
  /\ running' = FALSE
  /\ pageRaces' = pageRaces \cup (IF running THEN {"left"} ELSE {})
                            \cup (IF writes # {} THEN {"abandoned"} ELSE {})
  /\ UNCHANGED <<data, runs, acked>>

\* Mutant: the page loads until it shows something.
RefreshOnce ==
  /\ page \in Polled /\ loads = <<>> /\ \A part \in Part : shown[part] = Nothing
  /\ loads' = <<Load(page)>>
  /\ UNCHANGED <<page, data, shown, writes, filled, running, runs, acked, pageRaces, pageBudget>>

\* The timer, or a notification.  A run bounds how many loads are under way.
Refresh ==
  /\ page \in Polled /\ Len(loads) < pageBudget.loads
  /\ loads' = Append(loads, Load(page))
  /\ UNCHANGED <<page, data, shown, writes, filled, running, runs, acked, pageRaces, pageBudget>>

\* The server answers the GET of one part of load i.
ReadPart(i) == \E part \in DOMAIN loads[i] :
  /\ loads[i][part] = Asked
  /\ loads' = [loads EXCEPT ![i][part] = data[part]]
  /\ UNCHANGED <<page, data, shown, writes, filled, running, runs, acked, pageRaces, pageBudget>>

\* Promise.all rejects as soon as a part without .catch fails.
LoadAfterFailure(i, part) ==
  IF part \in PageParts[page].must THEN RemoveAt(loads, i)
  ELSE [loads EXCEPT ![i][part] = Nothing]

PartFails == \E i \in DOMAIN loads : \E part \in DOMAIN loads[i] :
  /\ PageSpend("fails")
  /\ loads[i][part] = Asked
  /\ loads' = LoadAfterFailure(i, part)
  /\ pageRaces' = pageRaces \cup IF part \in PageParts[page].must THEN {"failed"} ELSE {}
  /\ UNCHANGED <<page, data, shown, writes, filled, running, runs, acked>>

\* The page shows load i: what an older load brings later is shown over it.
Apply(i) ==
  /\ \A part \in DOMAIN loads[i] : loads[i][part] # Asked
  /\ shown' = [part \in Part |-> IF part \in DOMAIN loads[i] THEN loads[i][part] ELSE shown[part]]
  /\ loads' = RemoveAt(loads, i)
  /\ pageRaces' = pageRaces \cup IF i > 1 THEN {"overtook"} ELSE {}
  /\ UNCHANGED <<page, data, writes, filled, running, runs, acked, pageBudget>>

\* Requests, ticks of the daemon, other clients.
Traffic == \E part \in PartsOf(page) :
  /\ PageSpend("traffic")
  /\ data' = Changed({part})
  /\ UNCHANGED <<page, shown, loads, writes, filled, running, runs, acked, pageRaces>>

-----------------------------------------------------------------------------
(* Writing *)

FillIn ==
  /\ ~filled /\ \E o \in Ops : o.page = page /\ o.form
  /\ filled' = TRUE
  /\ UNCHANGED <<page, data, shown, loads, writes, running, runs, acked, pageRaces, pageBudget>>

Write == \E o \in Ops :
  /\ o.page = page /\ (o.form => filled) /\ PageSpend("writes")
  /\ writes' = writes \cup {[op |-> o, at |-> "sent", mine |-> TRUE, version |-> data]}
  /\ UNCHANGED <<page, data, shown, loads, filled, running, runs, acked, pageRaces>>

Serve == \E w \in writes :
  /\ w.at = "sent"
  /\ data' = Changed(w.op.changes)
  /\ writes' = (writes \ {w}) \cup {[w EXCEPT !.at = "done", !.version = data']}
  /\ UNCHANGED <<page, shown, loads, filled, running, runs, acked, pageRaces, pageBudget>>

\* 400 (no daemon, no router): fetchJSON throws and nobody catches it, so the
\* form stays as it is.
WriteRefused == \E w \in writes :
  /\ w.at = "sent" /\ PageSpend("fails")
  /\ writes' = writes \ {w}
  /\ UNCHANGED <<page, data, shown, loads, filled, running, runs, acked, pageRaces>>

\* Mutant: a write is not followed by a load.
LoadsAfterNone(w) == loads

\* load() after the await, in the page that is still mounted.
LoadsAfter(w) == IF w.mine THEN Append(loads, Load(page)) ELSE loads

WriteAnswered == \E w \in writes :
  /\ w.at = "done"
  /\ writes' = writes \ {w}
  /\ loads' = LoadsAfter(w)
  /\ filled' = IF w.mine /\ w.op.form THEN FALSE ELSE filled
  /\ acked' = [part \in Part |-> IF part \in w.op.changes /\ w.version[part] > acked[part]
                                 THEN w.version[part] ELSE acked[part]]
  /\ UNCHANGED <<page, data, shown, running, runs, pageRaces, pageBudget>>

-----------------------------------------------------------------------------
(* A team run (Team) and a comparison of two models (Costs) *)

StartRun(p) ==
  /\ page = p /\ ~running /\ PageSpend("runs")
  /\ running' = TRUE
  /\ runs' = [runs EXCEPT ![page] = @ + 1]
  /\ UNCHANGED <<page, data, shown, loads, writes, filled, acked, pageRaces>>

RunTeam == StartRun("team")
Compare == StartRun("costs")

\* The answer or the stream ends, in an error too: it is the run of this page,
\* or one of a page that was left, which nobody hears of.
RunEnds == \E p \in {"team", "costs"} :
  /\ runs[p] > 0
  /\ runs' = [runs EXCEPT ![p] = @ - 1]
  /\ \/ p = page /\ running /\ running' = FALSE
     \/ runs[p] > (IF p = page /\ running THEN 1 ELSE 0) /\ UNCHANGED running
  /\ UNCHANGED <<page, data, shown, loads, writes, filled, acked, pageRaces, pageBudget>>

-----------------------------------------------------------------------------
PagesInit ==
  /\ data = [part \in Part |-> 0] /\ acked = data
  /\ page = "other" /\ shown = [part \in Part |-> Nothing] /\ loads = <<>>
  /\ writes = {} /\ filled = FALSE
  /\ running = FALSE /\ runs = [p \in {"team", "costs"} |-> 0]
  /\ pageRaces = {}

PagesNext ==
  \/ Refresh \/ PartFails \/ Traffic
  \/ \E i \in DOMAIN loads : ReadPart(i) \/ Apply(i)
  \/ FillIn \/ Write \/ Serve \/ WriteRefused \/ WriteAnswered
  \/ RunTeam \/ Compare \/ RunEnds

\* The timer goes on firing and the server goes on answering.
PagesFairness ==
  /\ WF_pageVars(Refresh)
  /\ WF_pageVars(loads # <<>> /\ ReadPart(1))
  /\ WF_pageVars(loads # <<>> /\ Apply(1))
=============================================================================
