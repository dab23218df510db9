------------------------------- MODULE MCTeam -------------------------------
(* Team on three tasks with every dependency graph, two workers at a time. *)
EXTENDS Team

MCFile == {"f", "g"}
MCOwns == [t \in Task |-> IF t = 1 THEN {"f"} ELSE {"g"}]
=============================================================================
