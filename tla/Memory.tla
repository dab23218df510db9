------------------------------- MODULE Memory -------------------------------
(***************************************************************************)
(* The long-term memory of one workspace: ExtractMemoriesAsync and         *)
(* MaybeConsolidateAsync (internal/agent/memory_hook.go) over the files of *)
(* internal/memory.  Every session that ends starts one of each; they run  *)
(* beside each other and beside those of another process, which may die.   *)
(* An entry is its name: the same name is the same file.  A file that was  *)
(* edited by hand so that it has no frontmatter any more is damaged: Scan  *)
(* skips it.  Calls of the model only fail or answer, and a day may pass   *)
(* at any moment, so that the time gate is always open.  The directory is  *)
(* emptied in one step.                                                    *)
(*                                                                         *)
(* MEMORY.md is replaced by way of MEMORY.md.tmp, one file for all         *)
(* writers: opened (and truncated), filled, renamed.  An open file is what *)
(* the writer opened, whatever has become of its name since.               *)
(***************************************************************************)
EXTENDS MemoryIndex

CONSTANTS
  Extractor, Consolidator,   \* goroutines
  Proc, ProcOf,              \* the process of each
  MinNewEntries,             \* 5
  Answer,                    \* the sets of entries a model may answer with
  InitialIndex,              \* MEMORY.md before the first session
  CutAt,                     \* bound: the lengths at which a failing write stops
  MaxCollisions,             \* bound: openings while another replaces MEMORY.md
  NoTask

Task == Extractor \cup Consolidator

ASSUME MemoryAssumption ==
  /\ Extractor \cap Consolidator = {} /\ NoTask \notin Task
  /\ ProcOf \in [Task -> Proc] /\ MinNewEntries \in Nat
  /\ Answer \subseteq SUBSET Name /\ InitialIndex \in Seq(Line) /\ CutAt \subseteq Nat
  /\ MaxCollisions \in Nat

VARIABLES
  files,      \* the entries on disk that Scan can read
  damaged,    \* those it cannot
  index,      \* MEMORY.md; <<>> if there is none
  tmp,        \* MEMORY.md.tmp
  lock,       \* .dream-lock: its owner and whether StaleLockAge has passed
  counted,    \* .dream-state.json: the entry count
  pc,
  batch,      \* entries a task has still to write
  draft,      \* the document a task is about to write
  target,     \* which file a task has open: MEMORY.md.tmp, MEMORY.md or none of them
  robbed,     \* history: since all were idle, a fresh lock was removed as a stale one
  overflowed, \* history: a version of MEMORY.md was cut
  collisions, \* history: how often two tasks were replacing MEMORY.md at once
  disturbed   \* history: since all were idle, a second task started, or one failed

entryVars == <<files, damaged>>
indexVars == <<index, tmp>>
fileVars == <<entryVars, indexVars>>
taskVars == <<batch, draft, target>>
histVars == <<robbed, overflowed, collisions, disturbed>>
vars == <<fileVars, lock, counted, pc, taskVars, histVars>>

Unlocked == [owner |-> NoTask, stale |-> FALSE]

NoTmp == [there |-> FALSE, text |-> <<>>]

Init ==
  /\ files = {} /\ damaged = {} /\ index = InitialIndex /\ tmp = NoTmp
  /\ lock = Unlocked
  /\ counted = 0
  /\ pc = [t \in Task |-> "idle"]
  /\ batch = [t \in Task |-> {}]
  /\ draft = [t \in Task |-> <<>>] /\ target = [t \in Task |-> "none"]
  /\ robbed = FALSE /\ overflowed = FALSE /\ collisions = 0 /\ disturbed = FALSE

Quiet == \A t \in Task : pc[t] = "idle"

Goto(t, from, to) == pc[t] = from /\ pc' = [pc EXCEPT ![t] = to]

\* A goroutine starts, alone or beside others.
Begins ==
  /\ disturbed' = ~Quiet /\ robbed' = (robbed /\ ~Quiet)
  /\ UNCHANGED <<overflowed, collisions>>

Fails == disturbed' = TRUE /\ UNCHANGED <<robbed, overflowed, collisions>>

---------------------------------------------------------------------------
(* ExtractMemoriesAsync *)

\* The model has answered with entries; an empty or bad answer ends it unseen.
Extract(e, answer) ==
  /\ Goto(e, "idle", "write") /\ answer # {}
  /\ batch' = [batch EXCEPT ![e] = answer]
  /\ Begins
  /\ UNCHANGED <<fileVars, lock, counted, draft, target>>

---------------------------------------------------------------------------
(* MaybeConsolidateAsync *)

NewCount == LET n == Cardinality(files) - counted
            IN  IF n < 0 THEN Cardinality(files) ELSE n

\* CheckDreamGate: count and lock; a stale lock counts as none.
LockOpen == lock.owner = NoTask \/ lock.stale
GateOpen == NewCount >= MinNewEntries /\ LockOpen

CheckDreamGate(c) ==
  /\ GateOpen /\ Goto(c, "idle", "stat")
  /\ Begins
  /\ UNCHANGED <<fileVars, lock, counted, taskVars>>

\* TryAcquireDreamLock: the age of the lock is looked at, a stale one removed,
\* then the file is created exclusively.
StatLock(c) ==
  /\ Goto(c, "stat", IF lock.stale THEN "evict" ELSE "create")
  /\ UNCHANGED <<fileVars, lock, counted, taskVars, histVars>>

EvictLock(c) ==
  /\ Goto(c, "evict", "create")
  /\ lock' = Unlocked
  /\ robbed' = (robbed \/ (lock.owner # NoTask /\ ~lock.stale))
  /\ UNCHANGED <<fileVars, counted, taskVars, overflowed, collisions, disturbed>>

\* Not exclusively.
CreateLockAnyway(c) ==
  /\ Goto(c, "create", "call")
  /\ lock' = [owner |-> c, stale |-> FALSE]
  /\ UNCHANGED <<fileVars, counted, taskVars, histVars>>
CreateLock(c) ==
  /\ IF lock.owner = NoTask
       THEN Goto(c, "create", "call") /\ lock' = [owner |-> c, stale |-> FALSE]
       ELSE Goto(c, "create", "idle") /\ UNCHANGED lock
  /\ UNCHANGED <<fileVars, counted, taskVars, histVars>>

CallFails(c) ==
  /\ Goto(c, "call", "release")
  /\ UNCHANGED <<fileVars, lock, counted, taskVars, histVars>>

\* ApplyConsolidation with the consolidated set: every entry is removed first, those
\* the prompt did not show because Scan skips them too.
RemoveEntries(c, answer) ==
  /\ Goto(c, "call", "write")
  /\ files' = {} /\ damaged' = {}
  /\ batch' = [batch EXCEPT ![c] = answer]
  /\ UNCHANGED <<indexVars, lock, counted, draft, target, histVars>>

\* One of them cannot be removed; those before it are gone.
RemoveFails(c, left) ==
  /\ left # {} /\ left \subseteq files \cup damaged /\ Goto(c, "call", "release")
  /\ files' = files \cap left /\ damaged' = damaged \cap left
  /\ Fails
  /\ UNCHANGED <<indexVars, lock, counted, taskVars>>

\* MarkConsolidated: the count is of a scan of its own.
MarkConsolidated(c) ==
  /\ Goto(c, "mark", "release")
  /\ counted' = Cardinality(files)
  /\ UNCHANGED <<fileVars, lock, taskVars, histVars>>

\* The deferred release removes the lock file, whoever made it.
Release(c) ==
  /\ Goto(c, "release", "idle")
  /\ lock' = Unlocked
  /\ UNCHANGED <<fileVars, counted, taskVars, histVars>>

---------------------------------------------------------------------------
(* SaveExtracted and UpdateIndex *)

WriteEntry(t, n) ==
  /\ pc[t] = "write" /\ n \in batch[t] /\ UNCHANGED pc
  /\ files' = files \cup {n} /\ damaged' = damaged \ {n}
  /\ batch' = [batch EXCEPT ![t] = @ \ {n}]
  /\ UNCHANGED <<indexVars, lock, counted, draft, target, histVars>>

AfterFailure(t) == IF t \in Consolidator THEN "release" ELSE "idle"

\* An entry cannot be written, or the directory or MEMORY.md not be read.
SaveFails(t) ==
  /\ Goto(t, "write", AfterFailure(t))
  /\ batch' = [batch EXCEPT ![t] = {}]
  /\ Fails
  /\ UNCHANGED <<fileVars, lock, counted, draft, target>>

\* The scan taken before the entries are written.
UpdateIndexEarly(t) ==
  /\ Goto(t, "write", "open") /\ batch[t] = {}
  /\ draft' = [draft EXCEPT ![t] = Updated(index, {})]
  /\ UNCHANGED <<fileVars, lock, counted, batch, target, histVars>>
\* The directory is scanned, MEMORY.md read and the document rebuilt (of what is read
\* only the lines outside the block are used); nothing is written yet.
UpdateIndex(t) ==
  /\ Goto(t, "write", "open") /\ batch[t] = {}
  /\ draft' = [draft EXCEPT ![t] = Updated(index, files)]
  /\ overflowed' = (overflowed \/ ~Fits(index, files))
  /\ UNCHANGED <<fileVars, lock, counted, batch, target, robbed, collisions, disturbed>>

\* writeEntrypoint, os.WriteFile: the file is created or, if it is there, truncated.
Replacing(t) == pc[t] \in {"fill", "rename", "discard"}

\* MEMORY.md itself is opened instead.
OpenInPlace(t) ==
  /\ Goto(t, "open", "fill")
  /\ index' = <<>>
  /\ target' = [target EXCEPT ![t] = "index"]
  /\ UNCHANGED <<entryVars, tmp, lock, counted, batch, draft, histVars>>
OpenTmp(t) ==
  /\ Goto(t, "open", "fill")
  /\ tmp' = [there |-> TRUE, text |-> <<>>]
  /\ target' = [target EXCEPT ![t] = "tmp"]
  /\ IF \E u \in Task : Replacing(u)
       THEN collisions < MaxCollisions /\ collisions' = collisions + 1
       ELSE UNCHANGED collisions
  /\ UNCHANGED <<entryVars, index, lock, counted, batch, draft, robbed, overflowed, disturbed>>

\* Text is written from the beginning of a file; what is longer stays.
Over(old, text) == text \o SubSeq(old, Len(text) + 1, Len(old))

\* The open file is written and closed.
Fill(t, text) ==
  /\ tmp' = IF target[t] = "tmp" THEN [there |-> TRUE, text |-> Over(tmp.text, text)] ELSE tmp
  /\ index' = IF target[t] = "index" THEN Over(index, text) ELSE index
  /\ target' = [target EXCEPT ![t] = "none"] /\ draft' = [draft EXCEPT ![t] = <<>>]
  /\ UNCHANGED <<entryVars, lock, counted, batch>>

WriteTmp(t) == Goto(t, "fill", "rename") /\ Fill(t, draft[t]) /\ UNCHANGED histVars

\* The write ends early (the disk is full), and what it has written stays.
WriteFails(t) ==
  /\ Goto(t, "fill", AfterFailure(t))
  /\ \E n \in CutAt : n < Len(draft[t]) /\ Fill(t, SubSeq(draft[t], 1, n))
  /\ Fails

\* The name MEMORY.md.tmp is gone: where is who has it open?
Renamed == [u \in Task |-> CASE target[u] = "tmp" -> "index"
                             [] target[u] = "index" -> "none"
                             [] OTHER -> target[u]]

Rename(t) ==
  /\ tmp.there
  /\ Goto(t, "rename", IF t \in Consolidator THEN "mark" ELSE "idle")
  /\ index' = tmp.text /\ tmp' = NoTmp /\ target' = Renamed
  /\ UNCHANGED <<entryVars, lock, counted, batch, draft, histVars>>

\* Another writer has renamed it away, or has it open where that forbids it.
RenameFails(t) ==
  /\ ~tmp.there \/ \E u \in Task : target[u] = "tmp"
  /\ Goto(t, "rename", "discard")
  /\ Fails
  /\ UNCHANGED <<fileVars, lock, counted, taskVars>>

\* The temporary file is removed, whoever wrote it.
Discard(t) ==
  /\ Goto(t, "discard", AfterFailure(t))
  /\ tmp' = NoTmp
  /\ target' = [u \in Task |-> IF target[u] = "tmp" THEN "none" ELSE target[u]]
  /\ UNCHANGED <<entryVars, index, lock, counted, batch, draft, histVars>>

---------------------------------------------------------------------------
(* Environment *)

\* The goroutines of a process end with it.
Crash(p) ==
  /\ \E t \in Task : ProcOf[t] = p /\ pc[t] # "idle"
  /\ LET Dead(f, v) == [t \in Task |-> IF ProcOf[t] = p THEN v ELSE f[t]]
     IN  /\ pc' = Dead(pc, "idle") /\ batch' = Dead(batch, {})
         /\ draft' = Dead(draft, <<>>) /\ target' = Dead(target, "none")
  /\ Fails
  /\ UNCHANGED <<fileVars, lock, counted>>

\* A consolidation has five minutes for its call, a lock is stale after ten: only
\* one whose owner is gone gets there.
Working(c) == pc[c] \in {"call", "write", "open", "fill", "rename", "discard",
                          "mark", "release"}
LockAges ==
  /\ lock.owner # NoTask /\ ~Working(lock.owner) /\ ~lock.stale
  /\ lock' = [lock EXCEPT !.stale = TRUE]
  /\ UNCHANGED <<fileVars, counted, pc, taskVars, histVars>>

\* A hand edit takes the frontmatter off an entry.
Damage(n) ==
  /\ n \in files
  /\ files' = files \ {n} /\ damaged' = damaged \cup {n}
  /\ disturbed' = (disturbed \/ ~Quiet)
  /\ UNCHANGED <<indexVars, lock, counted, pc, taskVars, robbed, overflowed, collisions>>

SaveExtracted(t) ==
  \/ (\E n \in Name : WriteEntry(t, n)) \/ SaveFails(t)
  \/ UpdateIndex(t) \/ OpenTmp(t) \/ WriteTmp(t) \/ WriteFails(t)
  \/ Rename(t) \/ RenameFails(t) \/ Discard(t)

Consolidate(c) ==
  \/ StatLock(c) \/ EvictLock(c) \/ CreateLock(c) \/ CallFails(c)
  \/ \E answer \in Answer : RemoveEntries(c, answer)
  \/ \E left \in SUBSET Name : RemoveFails(c, left)
  \/ SaveExtracted(c) \/ MarkConsolidated(c) \/ Release(c)

Next ==
  \/ \E e \in Extractor, answer \in Answer : Extract(e, answer)
  \/ \E c \in Consolidator : CheckDreamGate(c)
  \/ \E c \in Consolidator : Consolidate(c)
  \/ \E e \in Extractor : SaveExtracted(e)
  \/ \E p \in Proc : Crash(p)
  \/ LockAges
  \/ \E n \in Name : Damage(n)

Spec == Init /\ [][Next]_vars

---------------------------------------------------------------------------
(* Properties *)

\* dream.go:128, "at most one process consolidates at a time", through crashes,
\* locks left behind and their eviction: true until a task removes a fresh lock that
\* took the place of the stale one it looked at.
OneConsolidator ==
  robbed \/ \A c, d \in Consolidator : Working(c) /\ Working(d) => c = d

\* index.go:30, UpdateIndex rewrites the managed block "reflecting the entries
\* currently on disk": whatever crashes and overlaps left behind, a task that runs
\* alone leaves a block that lists exactly the entries Scan finds, if there was room
\* and the block it replaced had both its markers.
IndexReflectsEntries ==
  [][\A t \in Task :
       /\ pc[t] = "rename" /\ tmp.there /\ pc'[t] \in {"idle", "mark"} /\ ~disturbed
       /\ Marked(index) /\ Fits(index, files)
       => disturbed' \/ Listed(index') = files]_vars

\* index.go:31, "Hand-authored content outside the markers is preserved", verbatim,
\* and index.go:189, "a crash in the middle of a write must never leave a half-
\* flushed index": whatever was read before it was out of date, whoever crashes,
\* fails or finds a temporary file left by the dead, until a version does not fit
\* (the cut takes the end of the document, hand-authored or not) or two tasks are
\* between the opening of the shared temporary file and its renaming at once.
HandAuthoredKept == overflowed \/ collisions > 0 \/ Keeps(InitialIndex, index)
=============================================================================
