---------------------------- MODULE MCWebPanels ----------------------------
(***************************************************************************)
(* WebPanels with a local and two cloud providers, under budgets for one   *)
(* data page alone or the settings alone.                                  *)
(***************************************************************************)
EXTENDS WebPanels

NoPages == [visits |-> <<>>, loads |-> 1, traffic |-> 0, fails |-> 0, writes |-> 0, runs |-> 0]
NoSettings == [visits |-> 0, requests |-> 0, selects |-> 0, keys |-> 0, fails |-> 0, restarts |-> 0]
Writing(p) == [NoPages EXCEPT !.visits = <<p>>, !.traffic = 1, !.writes = 2]
Refusing(p) == [NoPages EXCEPT !.visits = <<p, "other", p>>, !.fails = 1, !.writes = 1]
Traffics(p) == [NoPages EXCEPT !.visits = <<p>>, !.loads = 2, !.fails = 1, !.traffic = 1]
Running(p) == [NoPages EXCEPT !.visits = <<p, "other", p>>, !.runs = 2]
Choosing == [NoSettings EXCEPT !.visits = 1, !.requests = 1, !.selects = 3, !.keys = 1]
Overlapping == [NoSettings EXCEPT !.visits = 1, !.requests = 2, !.selects = 1]
Failing == [NoSettings EXCEPT !.visits = 2, !.requests = 1, !.selects = 1, !.keys = 1, !.fails = 1,
                              !.restarts = 1]
PageBudgets == {Writing("team"), Writing("memory"), Refusing("kairos"), Refusing("routes"),
                Traffics("costs"), Running("team"), Running("costs")}
MCBudgets == {[pages |-> p, settings |-> NoSettings] : p \in PageBudgets}
             \cup {[pages |-> NoPages, settings |-> s] : s \in {Choosing, Overlapping, Failing}}
MCProvider == {"ollama", "openai", "gemini"}
MCModelsOf == [ollama |-> {"q"}, openai |-> {"g"}, gemini |-> {"f"}]
MCPreset == [ollama |-> "q", openai |-> "g", gemini |-> "f"]
=============================================================================
