----------------------------- MODULE MCWebChat -----------------------------
(***************************************************************************)
(* WebChat under six budgets.  Three spend it on clicks around two or      *)
(* three short turns: two conversations switched and loaded, sessions      *)
(* deleted, the page left and sessions reopened.  Two spend it on the      *)
(* events of the turns of one conversation, one on switching between the   *)
(* events of a call.                                                       *)
(***************************************************************************)
EXTENDS WebChat

Plain == [sends |-> 2, plans |-> {FALSE}, texts |-> 2, calls |-> 0, thinks |-> 0, fails |-> 0,
          loads |-> 0, news |-> 0, deletes |-> 0, leaves |-> 0, ticks |-> 0]

Switching == [Plain EXCEPT !.sends = 3, !.texts = 3, !.plans = BOOLEAN, !.loads = 2,
                           !.news = 1, !.ticks = 1]
Deleting == [Plain EXCEPT !.sends = 3, !.texts = 3, !.loads = 1, !.deletes = 1,
                          !.leaves = 1, !.fails = 1]
Reopening == [Plain EXCEPT !.loads = 3, !.leaves = 1, !.news = 1, !.ticks = 1, !.deletes = 1]
LongTurn == [Plain EXCEPT !.sends = 1, !.texts = 3, !.calls = 3, !.thinks = 2, !.fails = 1]
TwoTurns == [Plain EXCEPT !.calls = 2, !.thinks = 1, !.fails = 1]
SwitchedCalls == [Plain EXCEPT !.texts = 1, !.calls = 2, !.loads = 1, !.news = 1]

MCBudgets == {Switching, Deleting, Reopening, LongTurn, TwoTurns, SwitchedCalls}
MCTools == {"Read", "Edit", "Git"}
=============================================================================
