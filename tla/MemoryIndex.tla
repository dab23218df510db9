---------------------------- MODULE MemoryIndex ----------------------------
(***************************************************************************)
(* MEMORY.md as a sequence of lines (internal/memory/index.go and          *)
(* entrypoint.go): the managed block between the two markers is replaced,  *)
(* and the whole document is cut at a number of lines.  A bullet is the    *)
(* name of its entry; all entries are of one type, so there is one         *)
(* heading.  The cap on bytes cuts the same way and is left out.           *)
(***************************************************************************)
EXTENDS Integers, Sequences, SequencesExt, FiniteSetsExt

CONSTANTS
  Name,        \* the names entries may have
  Sorted,      \* sort.SliceStable: the names of a set in their order
  Authored,    \* lines written by hand
  MaxLines     \* 200

Written == {"start", "end", "heading", "nothing", "blank", "warning"}
Line == Name \cup Authored \cup Written

ASSUME MemoryIndexAssumption ==
  /\ MaxLines \in Nat \ {0}
  /\ (Name \cup Authored) \cap Written = {}
  /\ Sorted \in [SUBSET Name -> Seq(Name)]
  /\ \A entries \in SUBSET Name : Range(Sorted[entries]) = entries

\* The default scaffold of a workspace without MEMORY.md.
Scaffold == <<"start", "end">>

\* renderManagedBlock: the lines between the markers.
Block(entries) ==
  IF entries = {} THEN <<"nothing">>
  ELSE <<"heading">> \o Sorted[entries] \o <<"blank">>

\* Position of the first such line, 0 if there is none.
Find(doc, line) == SelectInSeq(doc, LAMBDA x : x = line)

NonBlank(doc) == {i \in DOMAIN doc : doc[i] # "blank"}

TrimRight(doc) == IF NonBlank(doc) = {} THEN <<>> ELSE SubSeq(doc, 1, Max(NonBlank(doc)))
TrimSpace(doc) ==
  IF NonBlank(doc) = {} THEN <<>> ELSE SubSeq(doc, Min(NonBlank(doc)), Max(NonBlank(doc)))

Appended(doc, block) ==
  TrimRight(doc) \o (IF TrimRight(doc) = <<>> THEN <<>> ELSE <<"blank">>)
    \o <<"start">> \o block \o <<"end">>

\* The managed block has a beginning and, after it, an end.
Marked(doc) == 0 < Find(doc, "start") /\ Find(doc, "start") < Find(doc, "end")

\* What precedes the start marker forgotten.
SubstituteNoHead(doc, block) ==
  IF Marked(doc)
    THEN <<"start">> \o block \o SubSeq(doc, Find(doc, "end"), Len(doc))
    ELSE Appended(doc, block)

\* substituteManagedBlock: missing or malformed markers get a fresh block at the end.
Substitute(doc, block) ==
  IF Marked(doc)
    THEN SubSeq(doc, 1, Find(doc, "start")) \o block \o SubSeq(doc, Find(doc, "end"), Len(doc))
    ELSE Appended(doc, block)

\* The document with its block replaced (<<>> if there is none yet).
Merged(doc, entries) ==
  TrimSpace(Substitute(IF doc = <<>> THEN Scaffold ELSE doc, Block(entries)))

Fits(doc, entries) == Len(Merged(doc, entries)) <= MaxLines

\* UpdateIndex, with TruncateEntrypoint.
Updated(doc, entries) ==
  IF Fits(doc, entries) THEN Merged(doc, entries)
  ELSE SubSeq(Merged(doc, entries), 1, MaxLines) \o <<"blank", "warning">>

---------------------------------------------------------------------------
\* The entries the managed block lists.
Listed(doc) == {doc[i] : i \in Find(doc, "start")..Find(doc, "end")} \cap Name

\* The text before and after the managed block: a block that is never closed reaches
\* to the end, and where the end comes first there is no block yet.
Before(doc) ==
  IF Marked(doc) \/ (Find(doc, "start") # 0 /\ Find(doc, "end") = 0)
    THEN SubSeq(doc, Min(NonBlank(doc)), Find(doc, "start"))
    ELSE TrimSpace(doc)
After(doc) ==
  IF Marked(doc) THEN SubSeq(doc, Find(doc, "end"), Max(NonBlank(doc))) ELSE <<>>

\* What was outside the block of one version is outside that of another.
Keeps(old, new) == IsPrefix(Before(old), Before(new)) /\ IsSuffix(After(old), After(new))
=============================================================================
