--------------------------- MODULE MCWebProjects ---------------------------
(***************************************************************************)
(* WebProjects on two projects with two files each, one of them binary,    *)
(* under seven budgets: the lists being loaded and a command, two commands *)
(* after that and a failure or a restart, the editor with a command, the   *)
(* editor saving twice, saving once with a restart, and beside tools that  *)
(* write files.                                                            *)
(***************************************************************************)
EXTENDS WebProjects

Idle == [mounting |-> 0, commands |-> 0, restarts |-> 0, fails |-> 0, opens |-> 0, types |-> 0,
         closes |-> 0, saves |-> 0, tools |-> 0]
Mounting == [Idle EXCEPT !.mounting = 1, !.commands = 1, !.fails = 1]
Commands == [Idle EXCEPT !.commands = 2, !.fails = 1]
Restarting == [Idle EXCEPT !.commands = 2, !.restarts = 1]
Editing == [Idle EXCEPT !.commands = 1, !.opens = 2, !.types = 1, !.saves = 1]
SavingTwice == [Idle EXCEPT !.fails = 1, !.opens = 2, !.types = 1, !.closes = 1, !.saves = 2]
CutOff == [Idle EXCEPT !.restarts = 1, !.fails = 1, !.opens = 1, !.types = 1, !.saves = 1]
WrittenByTools == [Idle EXCEPT !.opens = 2, !.types = 1, !.saves = 1, !.tools = 2]
MCBudgets == {Mounting, Commands, Restarting, Editing, SavingTwice, CutOff, WrittenByTools}
MCProject == {"p", "q"}
MCPath == {"f", "g"}
MCOpaque == {<<"q", "g">>}
=============================================================================
