------------------------------ MODULE MCMemory ------------------------------
(* Memory with one name, an extraction and a consolidation in one process,   *)
(* a consolidation in another.                                               *)
EXTENDS Memory

CONSTANTS e1, c1, c2, p1, p2, n1, u1

MCSorted == [entries \in SUBSET Name |-> IF entries = {} THEN <<>> ELSE <<n1>>]
MCProcOf == [t \in Task |-> IF t = c2 THEN p2 ELSE p1]
MCAnswer == {{}, {n1}}
\* A MEMORY.md older than the markers, with room for a block of one entry.
MCOlder == <<u1>>
=============================================================================
