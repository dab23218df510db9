---------------------------- MODULE MCAgentLoop ----------------------------
(* AgentLoop with short limits: four iterations, two calls in a reply. *)
EXTENDS AgentLoop

AskEdits ==
  [tool \in Tool |-> CASE tool = "Edit" -> "ask" [] tool \in {"Bash", "ListedBash"} -> "deny" [] OTHER -> "allow"]

MCFile == {"f", "g"}
MCSnapshots == {AskEdits}
===========================================================================
