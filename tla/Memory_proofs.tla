---------------------------- MODULE Memory_proofs ----------------------------
(***************************************************************************)
(* Two invariants, for any number of goroutines and processes, with        *)
(* crashes.  The lock: while no fresh one has been removed as stale, who   *)
(* consolidates is the owner of the lock, and the lock is fresh.  The      *)
(* index: until a version of MEMORY.md is cut or two tasks replace it at   *)
(* once, no version has lost a line that was outside the block, and a task *)
(* that runs alone leaves a block that lists what is on disk.              *)
(***************************************************************************)
EXTENDS Memory, SequenceTheorems, FiniteSetTheorems, TLAPS

Places == {"idle", "stat", "evict", "create", "call", "write", "open", "fill", "rename",
           "discard", "mark", "release"}

\* Only the fields the lock depends on have a type here.
TypeOK ==
  /\ lock \in [owner : Consolidator \cup {NoTask}, stale : BOOLEAN]
  /\ pc \in [Task -> Places]
  /\ robbed \in BOOLEAN

OwnerWorks ==
  robbed \/ \A c \in Consolidator : Working(c) => lock.owner = c /\ ~lock.stale

MemoryInv == TypeOK /\ OwnerWorks

-----------------------------------------------------------------------------
\* Steps that leave the lock and its history alone and in which no consolidation
\* comes to work that did not.
LEMMA WorkGoesOn ==
  ASSUME MemoryInv, pc' \in [Task -> Places], lock' = lock, robbed' = robbed,
         \A c \in Consolidator : Working(c)' => Working(c)
  PROVE  MemoryInv'
BY DEF MemoryInv, TypeOK, OwnerWorks

\* Most steps move one goroutine that works already, or one that is no consolidation.
LEMMA MoveKeeps ==
  ASSUME MemoryInv, NEW t \in Task, NEW from \in Places, NEW to \in Places,
         Goto(t, from, to), lock' = lock, robbed' = robbed,
         t \in Consolidator =>
           \/ from \notin {"idle", "stat", "evict", "create"}
           \/ to \in {"idle", "stat", "evict", "create"}
  PROVE  MemoryInv'
<1>1. pc' \in [Task -> Places]
  BY DEF MemoryInv, TypeOK, Goto
<1>2. ASSUME NEW c \in Consolidator, Working(c)'
      PROVE  Working(c)
  <2>1. CASE c = t
    BY <1>2, <2>1 DEF MemoryInv, TypeOK, Goto, Working, Places
  <2>2. CASE c # t
    <3>1. pc'[c] = pc[c]
      BY <2>2 DEF Goto, MemoryInv, TypeOK, Task
    <3> QED  BY <1>2, <3>1 DEF Working
  <2> QED  BY <2>1, <2>2
<1> QED  BY <1>1, <1>2, WorkGoesOn

\* With nobody at work, a new history starts.
LEMMA BeginKeeps ==
  ASSUME MemoryInv, NEW t \in Task, NEW to \in Places, Goto(t, "idle", to), Begins,
         lock' = lock, t \in Consolidator => to = "stat"
  PROVE  MemoryInv'
<1> USE DEF MemoryInv
<1>1. pc' \in [Task -> Places] /\ robbed' \in BOOLEAN
  BY DEF TypeOK, Goto, Begins
<1>2. ASSUME NEW c \in Consolidator, Working(c)'
      PROVE  Working(c)
  <2>1. CASE c = t
    BY <1>2, <2>1 DEF TypeOK, Goto, Working
  <2>2. CASE c # t
    BY <1>2, <2>2 DEF TypeOK, Goto, Working, Task
  <2> QED  BY <2>1, <2>2
<1>3. CASE Quiet
  <2>1. \A c \in Consolidator : ~Working(c)
    BY <1>3 DEF Quiet, Working, Task
  <2> QED  BY <1>1, <1>2, <2>1 DEF TypeOK, OwnerWorks
<1>4. CASE ~Quiet
  BY <1>1, <1>2, <1>4 DEF TypeOK, OwnerWorks, Begins
<1> QED  BY <1>3, <1>4

\* A lock is created only where there is none, so where nobody works.
LEMMA CreateKeeps ==
  ASSUME MemoryInv, NEW c \in Consolidator, CreateLock(c)
  PROVE  MemoryInv'
<1> USE DEF MemoryInv
<1>1. c \in Task /\ robbed' = robbed
  BY DEF Task, CreateLock, histVars
<1>2. CASE lock.owner # NoTask
  BY <1>1, <1>2, MoveKeeps DEF CreateLock, histVars, Places
<1>3. CASE lock.owner = NoTask
  <2>1. /\ pc' = [pc EXCEPT ![c] = "call"]
        /\ lock' = [owner |-> c, stale |-> FALSE]
    BY <1>3 DEF CreateLock, Goto
  <2>2. TypeOK'
    BY <1>1, <2>1 DEF TypeOK, Places
  <2>3. ASSUME ~robbed, NEW d \in Consolidator, d # c
        PROVE  ~Working(d)'
    <3>1. NoTask \notin Consolidator /\ d \in Task
      BY MemoryAssumption DEF Task
    <3>2. ~Working(d)
      BY <1>3, <2>3, <3>1 DEF OwnerWorks
    <3>3. pc'[d] = pc[d]
      BY <2>1, <2>3, <3>1 DEF TypeOK
    <3> QED  BY <3>2, <3>3 DEF Working
  <2>4. OwnerWorks'
    BY <1>1, <2>1, <2>3 DEF OwnerWorks
  <2> QED  BY <2>2, <2>4
<1> QED  BY <1>2, <1>3

\* Who works has a fresh lock: where there is none, or a stale one, nobody does.
LEMMA EvictKeeps ==
  ASSUME MemoryInv, NEW c \in Consolidator, EvictLock(c)
  PROVE  MemoryInv'
<1> USE DEF MemoryInv
<1>1. /\ c \in Task /\ pc[c] = "evict" /\ pc' = [pc EXCEPT ![c] = "create"] /\ lock' = Unlocked
      /\ robbed' = (robbed \/ (lock.owner # NoTask /\ ~lock.stale))
  BY DEF Task, EvictLock, Goto
<1>2. TypeOK'
  BY <1>1 DEF TypeOK, Unlocked, Places
<1>3. ASSUME ~robbed', NEW d \in Consolidator
      PROVE  ~Working(d)'
  <2>1. NoTask \notin Consolidator /\ d \in Task
    BY MemoryAssumption DEF Task
  <2>2. ~Working(d)
    BY <1>1, <1>3, <2>1 DEF OwnerWorks
  <2>3. pc'[d] = pc[d] \/ pc'[d] = "create"
    BY <1>1, <2>1 DEF TypeOK
  <2> QED  BY <2>2, <2>3 DEF Working
<1> QED  BY <1>2, <1>3 DEF OwnerWorks

\* The lock is released by its owner, the only one at work.
LEMMA ReleaseKeeps ==
  ASSUME MemoryInv, NEW c \in Consolidator, Release(c)
  PROVE  MemoryInv'
<1> USE DEF MemoryInv
<1>1. c \in Task /\ robbed' = robbed /\ lock' = Unlocked
      /\ pc[c] = "release" /\ pc' = [pc EXCEPT ![c] = "idle"]
  BY DEF Task, Release, Goto, histVars
<1>2. TypeOK'
  BY <1>1 DEF TypeOK, Unlocked, Places
<1>3. ASSUME ~robbed, NEW d \in Consolidator
      PROVE  ~Working(d)'
  <2>1. lock.owner = c
    BY <1>1, <1>3 DEF OwnerWorks, Working
  <2>2. CASE d = c
    BY <1>1, <2>2 DEF TypeOK, Working
  <2>3. CASE d # c
    <3>1. ~Working(d)
      BY <1>3, <2>1, <2>3 DEF OwnerWorks
    <3>2. pc'[d] = pc[d]
      BY <1>1, <2>3 DEF TypeOK, Task
    <3> QED  BY <3>1, <3>2 DEF Working
  <2> QED  BY <2>2, <2>3
<1> QED  BY <1>1, <1>2, <1>3 DEF OwnerWorks

\* A crash leaves the lock of the dead, and nobody new at work.
LEMMA CrashKeeps ==
  ASSUME MemoryInv, NEW p \in Proc, Crash(p)
  PROVE  MemoryInv'
<1>1. pc' = [t \in Task |-> IF ProcOf[t] = p THEN "idle" ELSE pc[t]]
      /\ lock' = lock /\ robbed' = robbed
  BY DEF Crash, Fails
<1>2. pc' \in [Task -> Places]
  BY <1>1 DEF MemoryInv, TypeOK, Places
<1>3. \A c \in Consolidator : Working(c)' => Working(c)
  BY <1>1 DEF Working, Task
<1> QED  BY <1>1, <1>2, <1>3, WorkGoesOn

\* A lock ages only where its owner does not work any more.
LEMMA TimeKeeps ==
  ASSUME MemoryInv, LockAges \/ \E n \in Name : Damage(n)
  PROVE  MemoryInv'
<1>1. CASE LockAges
  <2>1. pc' = pc /\ robbed' = robbed /\ lock' = [lock EXCEPT !.stale = TRUE] /\ ~Working(lock.owner)
    BY <1>1 DEF LockAges, histVars
  <2>2. \A c \in Consolidator : Working(c) => robbed
    BY <2>1 DEF MemoryInv, OwnerWorks
  <2>3. \A c \in Consolidator : Working(c)' => robbed'
    BY <2>1, <2>2 DEF Working
  <2> QED  BY <2>1, <2>3 DEF MemoryInv, TypeOK, OwnerWorks
<1>2. CASE \E n \in Name : Damage(n)
  BY <1>2 DEF MemoryInv, TypeOK, OwnerWorks, Working, Damage
<1> QED  BY <1>1, <1>2

\* Saving goes on from one working step to another.
LEMMA SaveKeeps ==
  ASSUME MemoryInv, NEW t \in Task, SaveExtracted(t)
  PROVE  MemoryInv'
<1>1. lock' = lock /\ robbed' = robbed
  BY DEF SaveExtracted, WriteEntry, SaveFails, UpdateIndex, OpenTmp, WriteTmp, WriteFails,
     Fill, Fails, Rename, RenameFails, Discard, histVars
<1>2. CASE \E n \in Name : WriteEntry(t, n)
  BY <1>1, <1>2, WorkGoesOn DEF WriteEntry, Working, MemoryInv, TypeOK
<1>3. CASE ~\E n \in Name : WriteEntry(t, n)
  <2>1. PICK from \in {"write", "open", "fill", "rename", "discard"},
             to \in {"open", "fill", "rename", "discard", "mark", "release", "idle"} :
          Goto(t, from, to)
    BY <1>3 DEF SaveExtracted, SaveFails, UpdateIndex, OpenTmp, WriteTmp, WriteFails,
       AfterFailure, Rename, RenameFails, Discard
  <2> QED  BY <1>1, <2>1, MoveKeeps DEF Places
<1> QED  BY <1>2, <1>3

\* And so does a consolidation, but for the steps about the lock.
LEMMA ConsolidateKeeps ==
  ASSUME MemoryInv, NEW c \in Consolidator, Consolidate(c)
  PROVE  MemoryInv'
<1>1. c \in Task
  BY DEF Task
<1>2. CASE StatLock(c)
  <2>1. PICK to \in {"evict", "create"} : Goto(c, "stat", to)
    BY <1>2 DEF StatLock
  <2> QED  BY <1>1, <1>2, <2>1, MoveKeeps DEF StatLock, histVars, Places
<1>4. CASE CallFails(c) \/ \E left \in SUBSET Name : RemoveFails(c, left)
  BY <1>1, <1>4, MoveKeeps DEF CallFails, RemoveFails, Fails, histVars, Places
<1>5. CASE \E answer \in Answer : RemoveEntries(c, answer)
  BY <1>1, <1>5, MoveKeeps DEF RemoveEntries, histVars, Places
<1>6. CASE MarkConsolidated(c)
  BY <1>1, <1>6, MoveKeeps DEF MarkConsolidated, histVars, Places
<1> QED  BY <1>1, <1>2, <1>4, <1>5, <1>6, CreateKeeps, EvictKeeps, ReleaseKeeps, SaveKeeps
         DEF Consolidate

-----------------------------------------------------------------------------
LEMMA InitHolds == Init => MemoryInv
<1> SUFFICES ASSUME Init PROVE MemoryInv
  OBVIOUS
<1>1. pc = [t \in Task |-> "idle"] /\ lock = Unlocked /\ robbed = FALSE
  BY DEF Init
<1>2. TypeOK
  BY <1>1 DEF TypeOK, Unlocked, Places
<1>3. OwnerWorks
  BY <1>1 DEF OwnerWorks, Working, Task
<1> QED  BY <1>2, <1>3 DEF MemoryInv

LEMMA NextKeeps == MemoryInv /\ [Next]_vars => MemoryInv'
<1> SUFFICES ASSUME MemoryInv, [Next]_vars PROVE MemoryInv'
  OBVIOUS
<1>1. CASE \E e \in Extractor, answer \in Answer : Extract(e, answer)
  <2>1. PICK e \in Extractor, answer \in Answer : Extract(e, answer)
    BY <1>1
  <2>2. e \in Task /\ e \notin Consolidator
    BY MemoryAssumption DEF Task
  <2> QED  BY <2>1, <2>2, BeginKeeps DEF Extract, Places
<1>2. CASE \E c \in Consolidator : CheckDreamGate(c)
  BY <1>2, BeginKeeps DEF CheckDreamGate, Places, Task
<1>3. CASE \E c \in Consolidator : Consolidate(c)
  BY <1>3, ConsolidateKeeps
<1>4. CASE \E e \in Extractor : SaveExtracted(e)
  BY <1>4, SaveKeeps DEF Task
<1>5. CASE (\E p \in Proc : Crash(p)) \/ LockAges \/ \E n \in Name : Damage(n)
  BY <1>5, CrashKeeps, TimeKeeps
<1>6. CASE UNCHANGED vars
  BY <1>6 DEF vars, histVars, MemoryInv, TypeOK, OwnerWorks, Working
<1> QED  BY <1>1, <1>2, <1>3, <1>4, <1>5, <1>6 DEF Next

\* MemoryInv is inductive, for any number of goroutines and processes (memory_hook.go,
\* dream.go).
THEOREM Invariance == Spec => []MemoryInv
BY InitHolds, NextKeeps, PTL DEF Spec

\* At most one consolidation is at work, whatever crashes, whatever lock it leaves and
\* whoever evicts it, until a fresh lock is removed as the stale one it took the place
\* of (dream.go's TryAcquireDreamLock).
THEOREM ConsolidatorTheorem == Spec => []OneConsolidator
<1>1. MemoryInv => OneConsolidator
  BY DEF MemoryInv, OwnerWorks, OneConsolidator
<1> QED  BY <1>1, Invariance, PTL

-----------------------------------------------------------------------------
(* MEMORY.md *)

\* A set of numbers has a least one: the inclusion of finite sets is well-founded.
LEMMA LeastNumber ==
  ASSUME NEW n \in Nat, NEW S \in SUBSET (0..n), S # {}
  PROVE  \E m \in S : \A i \in S : m <= i
<1> DEFINE Upto == {0..m : m \in S}
<1>1. IsFiniteSet(0..n)
  BY FS_Interval
<1>2. IsWellFoundedOn(StrictSubsetOrdering(0..n), FiniteSubsetsOf(0..n))
  BY <1>1, FS_StrictSubsetOrderingWellFounded
<1>3. Upto \subseteq FiniteSubsetsOf(0..n) /\ Upto # {}
  <2>1. \A m \in S : 0..m \subseteq 0..n /\ IsFiniteSet(0..m)
    BY FS_Interval
  <2> QED  BY <2>1 DEF FiniteSubsetsOf
<1>4. PICK U \in Upto : \A V \in Upto : ~(<<V, U>> \in StrictSubsetOrdering(0..n))
  BY <1>2, <1>3, WFMin
<1>5. PICK m \in S : U = 0..m
  BY <1>4
<1>6. ASSUME NEW i \in S, i < m PROVE FALSE
  <2>1. 0..i \in Upto /\ 0..i \subseteq 0..m /\ m \notin 0..i /\ m \in 0..m
    BY <1>6
  <2>2. <<0..i, 0..m>> \in StrictSubsetOrdering(0..n)
    BY <2>1, <1>5 DEF StrictSubsetOrdering
  <2> QED  BY <2>1, <2>2, <1>4, <1>5
<1>7. S \in SUBSET Nat
  OBVIOUS
<1> QED  BY <1>6, <1>7

\* Min and Max are in the set and bound it.
LEMMA MinOf ==
  ASSUME NEW n \in Nat, NEW S \in SUBSET (1..n), S # {}
  PROVE  Min(S) \in S /\ \A i \in S : Min(S) <= i
<1>1. \E m \in S : \A i \in S : m <= i
  <2>1. S \in SUBSET (0..n)
    OBVIOUS
  <2> QED  BY <2>1, LeastNumber
<1> QED  BY <1>1 DEF Min

LEMMA MaxOf ==
  ASSUME NEW n \in Nat, NEW S \in SUBSET (1..n), S # {}
  PROVE  Max(S) \in S /\ \A i \in S : i <= Max(S)
<1> DEFINE T == {n - i : i \in S}
<1>1. \E m \in T : \A i \in T : m <= i
  <2>1. T \in SUBSET (0..n) /\ T # {}
    <3>1. \A i \in S : n - i \in 0..n
      OBVIOUS
    <3> QED  BY <3>1
  <2> HIDE DEF T
  <2> QED  BY <2>1, LeastNumber
<1>2. \E m \in S : \A i \in S : i <= m
  <2>1. PICK m \in T : \A i \in T : m <= i
    BY <1>1
  <2>2. PICK k \in S : m = n - k
    BY <2>1
  <2>3. ASSUME NEW i \in S
        PROVE  i <= k
    <3>1. m <= n - i
      BY <2>1
    <3> QED  BY <2>2, <3>1
  <2> QED  BY <2>3
<1>3. \E m \in S : \A i \in S : m >= i
  BY <1>2
<1> QED  BY <1>3 DEF Max

\* Find is the first line that is equal, or 0.
LEMMA FindFacts ==
  ASSUME NEW doc \in Seq(Line), NEW line
  PROVE  /\ Find(doc, line) \in 0..Len(doc)
         /\ Find(doc, line) = 0 => \A i \in 1..Len(doc) : doc[i] # line
         /\ Find(doc, line) # 0 =>
              /\ doc[Find(doc, line)] = line
              /\ \A i \in 1..(Find(doc, line) - 1) : doc[i] # line
<1> DEFINE I == {i \in 1..Len(doc) : doc[i] = line}
<1>1. Find(doc, line) = IF I # {} THEN Min(I) ELSE 0
  BY DEF Find, SelectInSeq
<1>2. Len(doc) \in Nat /\ I \in SUBSET (1..Len(doc))
  OBVIOUS
<1>3. I # {} => Min(I) \in I /\ \A i \in I : Min(I) <= i
  BY <1>2, MinOf
<1>4. CASE I # {}
  <2>1. PICK m : m = Find(doc, line)
    OBVIOUS
  <2>2. m \in I /\ \A i \in I : m <= i
    BY <1>1, <1>3, <1>4, <2>1
  <2>3. \A i \in 1..(m - 1) : doc[i] # line
    BY <1>2, <2>2
  <2> QED  BY <2>1, <2>2, <2>3
<1>5. CASE I = {}
  <2>1. Find(doc, line) = 0
    BY <1>1, <1>5
  <2> QED  BY <1>2, <1>5, <2>1
<1> QED  BY <1>4, <1>5

LEMMA FindIs ==
  ASSUME NEW doc \in Seq(Line), NEW n \in 1..Len(doc),
         \A i \in 1..(n - 1) : doc[i] # doc[n]
  PROVE  Find(doc, doc[n]) = n
<1> DEFINE f == Find(doc, doc[n])
<1>1. /\ f \in 0..Len(doc)
      /\ f = 0 => \A i \in 1..Len(doc) : doc[i] # doc[n]
      /\ f # 0 => doc[f] = doc[n] /\ \A i \in 1..(f - 1) : doc[i] # doc[n]
  BY FindFacts
<1> HIDE DEF f
<1>2. Len(doc) \in Nat
  OBVIOUS
<1>3. f = n
  BY <1>1, <1>2
<1> QED  BY <1>3 DEF f

\* The first and the last line that is not blank.
LEMMA BlankFacts ==
  ASSUME NEW doc \in Seq(Line), NonBlank(doc) # {},
         NEW a, a = Min(NonBlank(doc)), NEW z, z = Max(NonBlank(doc))
  PROVE  /\ a \in 1..Len(doc) /\ z \in a..Len(doc)
         /\ doc[a] # "blank" /\ doc[z] # "blank"
         /\ \A i \in 1..Len(doc) : doc[i] # "blank" => a <= i /\ i <= z
<1>1. Len(doc) \in Nat /\ NonBlank(doc) \in SUBSET (1..Len(doc))
  BY DEF NonBlank
<1>2. a \in NonBlank(doc) /\ \A i \in NonBlank(doc) : a <= i
  BY <1>1, MinOf
<1>3. z \in NonBlank(doc) /\ \A i \in NonBlank(doc) : i <= z
  BY <1>1, MaxOf
<1>4. \A i \in 1..Len(doc) : doc[i] # "blank" => i \in NonBlank(doc)
  BY DEF NonBlank
<1>5. a \in 1..Len(doc) /\ z \in 1..Len(doc) /\ doc[a] # "blank" /\ doc[z] # "blank"
  BY <1>2, <1>3 DEF NonBlank
<1> QED  BY <1>1, <1>2, <1>3, <1>4, <1>5

LEMMA BlankIs ==
  ASSUME NEW doc \in Seq(Line), NEW a \in 1..Len(doc), NEW z \in a..Len(doc),
         doc[a] # "blank", doc[z] # "blank",
         \A i \in 1..Len(doc) : doc[i] # "blank" => a <= i /\ i <= z
  PROVE  NonBlank(doc) # {} /\ Min(NonBlank(doc)) = a /\ Max(NonBlank(doc)) = z
<1>1. a \in NonBlank(doc) /\ z \in 1..Len(doc)
  BY DEF NonBlank
<1>2. PICK m : m = Min(NonBlank(doc))
  OBVIOUS
<1>3. PICK k : k = Max(NonBlank(doc))
  OBVIOUS
<1>4. /\ m \in 1..Len(doc) /\ k \in m..Len(doc)
      /\ doc[m] # "blank" /\ doc[k] # "blank"
      /\ \A i \in 1..Len(doc) : doc[i] # "blank" => m <= i /\ i <= k
  BY <1>1, <1>2, <1>3, BlankFacts
<1>5. m = a /\ k = z
  BY <1>1, <1>4
<1> QED  BY <1>1, <1>2, <1>3, <1>5

-----------------------------------------------------------------------------
\* Line by line: a part of a document, and three documents in a row.
LEMMA Slice ==
  ASSUME NEW S, NEW doc \in Seq(S), NEW m \in 1..Len(doc), NEW n \in 0..Len(doc), m <= n + 1
  PROVE  /\ SubSeq(doc, m, n) \in Seq(S)
         /\ Len(SubSeq(doc, m, n)) = n - m + 1
         /\ \A i \in 1..(n - m + 1) : SubSeq(doc, m, n)[i] = doc[m + i - 1]
<1>1. Len(doc) \in Nat /\ m \in Int /\ n \in Int
  OBVIOUS
<1>2. \A i \in m..n : doc[i] \in S
  BY <1>1
<1>3. /\ SubSeq(doc, m, n) \in Seq(S)
      /\ Len(SubSeq(doc, m, n)) = IF m <= n THEN n - m + 1 ELSE 0
      /\ \A i \in 1..(n - m + 1) : SubSeq(doc, m, n)[i] = doc[m + i - 1]
  BY <1>1, <1>2, SubSeqProperties
<1> QED  BY <1>1, <1>3

LEMMA FirstLines ==
  ASSUME NEW S, NEW doc \in Seq(S), NEW n \in Int, 1 <= n, n <= Len(doc)
  PROVE  /\ SubSeq(doc, 1, n) \in Seq(S) /\ Len(SubSeq(doc, 1, n)) = n
         /\ \A i \in 1..n : SubSeq(doc, 1, n)[i] = doc[i]
<1>1. PICK L : L = Len(doc)
  OBVIOUS
<1>2. L \in Nat /\ n <= L
  BY <1>1
<1>3. 1 \in 1..L /\ n \in 0..L /\ 1 <= n + 1 /\ n - 1 + 1 = n
  BY <1>2
<1>4. PICK x : x = SubSeq(doc, 1, n)
  OBVIOUS
<1>5. x \in Seq(S) /\ Len(x) = n - 1 + 1 /\ \A i \in 1..(n - 1 + 1) : x[i] = doc[1 + i - 1]
  BY <1>1, <1>3, <1>4, Slice
<1>6. ASSUME NEW i \in 1..n
      PROVE  x[i] = doc[i]
  <2>1. i \in 1..(n - 1 + 1) /\ 1 + i - 1 = i
    BY <1>3
  <2> QED  BY <1>5, <2>1
<1> QED  BY ONLY <1>3, <1>4, <1>5, <1>6

InRow(S, p, q, r, t) ==
  /\ t \in Seq(S)
  /\ Len(t) = Len(p) + Len(q) + Len(r)
  /\ \A i \in 1..Len(p) : t[i] = p[i]
  /\ \A i \in 1..Len(q) : t[Len(p) + i] = q[i]
  /\ \A i \in 1..Len(r) : t[Len(p) + Len(q) + i] = r[i]

LEMMA Three ==
  ASSUME NEW S, NEW p \in Seq(S), NEW q \in Seq(S), NEW r \in Seq(S)
  PROVE  InRow(S, p, q, r, p \o q \o r)
<1>1. Len(p) \in Nat /\ Len(q) \in Nat /\ Len(r) \in Nat
  OBVIOUS
<1>2. /\ p \o q \in Seq(S)
      /\ Len(p \o q) = Len(p) + Len(q)
      /\ \A i \in 1..(Len(p) + Len(q)) :
           (p \o q)[i] = IF i <= Len(p) THEN p[i] ELSE q[i - Len(p)]
  BY ConcatProperties
<1> DEFINE t == p \o q
<1> HIDE DEF t
<1>3. /\ t \o r \in Seq(S)
      /\ Len(t \o r) = Len(t) + Len(r)
      /\ \A i \in 1..(Len(t) + Len(r)) :
           (t \o r)[i] = IF i <= Len(t) THEN t[i] ELSE r[i - Len(t)]
  BY <1>2, ConcatProperties DEF t
<1>4. /\ t \in Seq(S) /\ Len(t) = Len(p) + Len(q)
      /\ \A i \in 1..(Len(p) + Len(q)) : t[i] = IF i <= Len(p) THEN p[i] ELSE q[i - Len(p)]
  BY <1>2 DEF t
<1>5. /\ \A i \in 1..Len(p) : (t \o r)[i] = p[i]
      /\ \A i \in 1..Len(q) : (t \o r)[Len(p) + i] = q[i]
      /\ \A i \in 1..Len(r) : (t \o r)[Len(p) + Len(q) + i] = r[i]
  <2>1. PICK P, Q, R : P = Len(p) /\ Q = Len(q) /\ R = Len(r)
    OBVIOUS
  <2>2. P \in Nat /\ Q \in Nat /\ R \in Nat /\ Len(t) = P + Q
    BY <1>1, <1>4, <2>1
  <2>3. \A i \in 1..(P + Q) : t[i] = IF i <= P THEN p[i] ELSE q[i - P]
    BY <1>4, <2>1
  <2>4. \A i \in 1..((P + Q) + R) : (t \o r)[i] = IF i <= P + Q THEN t[i] ELSE r[i - (P + Q)]
    BY ONLY <1>3, <2>1, <2>2
  <2>5. ASSUME NEW i \in 1..P
        PROVE  (t \o r)[i] = p[i]
    <3>1. i \in 1..(P + Q) /\ i \in 1..((P + Q) + R) /\ i <= P /\ i <= P + Q
      BY <2>2
    <3> QED  BY ONLY <2>3, <2>4, <3>1
  <2>6. ASSUME NEW i \in 1..Q
        PROVE  (t \o r)[P + i] = q[i]
    <3>1. /\ P + i \in 1..(P + Q) /\ P + i \in 1..((P + Q) + R)
          /\ ~(P + i <= P) /\ P + i <= P + Q /\ (P + i) - P = i
      BY <2>2
    <3> QED  BY ONLY <2>3, <2>4, <3>1
  <2>7. ASSUME NEW i \in 1..R
        PROVE  (t \o r)[P + Q + i] = r[i]
    <3>1. /\ P + Q + i \in 1..((P + Q) + R) /\ ~(P + Q + i <= P + Q)
          /\ (P + Q + i) - (P + Q) = i
      BY <2>2
    <3> QED  BY ONLY <2>4, <3>1
  <2> QED  BY ONLY <2>1, <2>5, <2>6, <2>7
<1>6. Len(t \o r) = Len(p) + Len(q) + Len(r)
  BY <1>3, <1>4
<1>7. InRow(S, p, q, r, t \o r)
  BY ONLY <1>3, <1>5, <1>6 DEF InRow
<1> QED  BY <1>7 DEF t

\* A prefix, line by line.
LEMMA PrefixIs ==
  ASSUME NEW S, NEW p \in Seq(S), NEW q \in Seq(S)
  PROVE  IsPrefix(p, q) <=> Len(p) <= Len(q) /\ \A i \in 1..Len(p) : p[i] = q[i]
<1>1. Len(p) \in Nat /\ Len(q) \in Nat
  OBVIOUS
<1>2. CASE Len(p) = 0
  <2>1. SubSeq(p, 1, Len(p)) = <<>> /\ SubSeq(q, 1, Len(p)) = <<>>
    BY <1>1, <1>2, SubSeqEmpty
  <2> QED  BY <1>1, <1>2, <2>1 DEF IsPrefix
<1>3. CASE Len(p) > Len(q)
  BY <1>1, <1>3 DEF IsPrefix
<1>4. CASE 0 < Len(p) /\ Len(p) <= Len(q)
  <2>1. SubSeq(p, 1, Len(p)) = p
    BY SubSeqFull
  <2>2. /\ SubSeq(q, 1, Len(p)) \in Seq(S)
        /\ Len(SubSeq(q, 1, Len(p))) = Len(p) - 1 + 1
        /\ \A i \in 1..(Len(p) - 1 + 1) : SubSeq(q, 1, Len(p))[i] = q[1 + i - 1]
    <3>1. 1 \in 1..Len(q) /\ Len(p) \in 0..Len(q) /\ 1 <= Len(p) + 1
      BY <1>1, <1>4
    <3> QED  BY <3>1, Slice
  <2>3. PICK t : t = SubSeq(q, 1, Len(p))
    OBVIOUS
  <2>4. t \in Seq(S) /\ Len(t) = Len(p) /\ \A i \in 1..Len(p) : t[i] = q[i]
    BY <1>1, <2>2, <2>3
  <2>5. p = t <=> \A i \in 1..Len(p) : p[i] = t[i]
    BY <2>4, SeqEqual
  <2> QED  BY <1>4, <2>1, <2>3, <2>4, <2>5 DEF IsPrefix
<1> QED  BY <1>1, <1>2, <1>3, <1>4

\* Prefixes and suffixes.
LEMMA PrefixOfEmpty ==
  ASSUME NEW S, NEW p \in Seq(S)
  PROVE  IsPrefix(<<>>, p)
<1>1. PICK e : e = <<>>
  OBVIOUS
<1>2. e \in Seq(S) /\ Len(e) = 0 /\ Len(p) \in Nat
  BY <1>1
<1>3. Len(e) <= Len(p) /\ \A i \in 1..Len(e) : e[i] = p[i]
  BY <1>2
<1>4. IsPrefix(e, p)
  BY <1>2, <1>3, PrefixIs
<1> QED  BY <1>1, <1>4

LEMMA PrefixOrder ==
  ASSUME NEW S, NEW p \in Seq(S), NEW q \in Seq(S), NEW r \in Seq(S),
         IsPrefix(p, q), IsPrefix(q, r)
  PROVE  IsPrefix(p, r)
<1>1. Len(p) \in Nat /\ Len(q) \in Nat /\ Len(r) \in Nat
  OBVIOUS
<1>2. Len(p) <= Len(q) /\ \A i \in 1..Len(p) : p[i] = q[i]
  BY PrefixIs
<1>3. Len(q) <= Len(r) /\ \A i \in 1..Len(q) : q[i] = r[i]
  BY PrefixIs
<1>4. Len(p) <= Len(r) /\ \A i \in 1..Len(p) : p[i] = r[i]
  BY <1>1, <1>2, <1>3
<1> QED  BY <1>4, PrefixIs

LEMMA ReverseType ==
  ASSUME NEW S, NEW p \in Seq(S)
  PROVE  Reverse(p) \in Seq(S) /\ Len(Reverse(p)) = Len(p)
<1>1. Len(p) \in Nat
  OBVIOUS
<1>2. \A j \in 1..Len(p) : p[(Len(p) - j) + 1] \in S
  BY <1>1
<1>3. [j \in 1..Len(p) |-> p[(Len(p) - j) + 1]] \in Seq(S)
  BY <1>1, <1>2
<1> QED  BY <1>1, <1>3 DEF Reverse

LEMMA SelfPrefix ==
  ASSUME NEW S, NEW p \in Seq(S)
  PROVE  IsPrefix(p, p) /\ IsSuffix(p, p)
<1>1. Reverse(p) \in Seq(S)
  BY ReverseType
<1>2. \A q \in Seq(S) : IsPrefix(q, q)
  <2> TAKE q \in Seq(S)
  <2>1. Len(q) \in Nat
    OBVIOUS
  <2> QED  BY <2>1, PrefixIs
<1> QED  BY <1>1, <1>2 DEF IsSuffix

LEMMA SuffixOfEmpty ==
  ASSUME NEW S, NEW p \in Seq(S)
  PROVE  IsSuffix(<<>>, p) /\ (IsSuffix(p, <<>>) => p = <<>>)
<1>1. Reverse(p) \in Seq(S) /\ Len(Reverse(p)) = Len(p) /\ Len(p) \in Nat
  BY ReverseType
<1>2. <<>> \in Seq(S) /\ Len(<<>>) = 0
  OBVIOUS
<1>3. Reverse(<<>>) \in Seq(S) /\ Len(Reverse(<<>>)) = 0
  BY <1>2, ReverseType
<1>4. IsPrefix(Reverse(<<>>), Reverse(p))
  BY <1>1, <1>3, PrefixIs
<1>5. IsPrefix(Reverse(p), Reverse(<<>>)) => Len(p) = 0
  BY <1>1, <1>3, PrefixIs
<1> QED  BY <1>1, <1>4, <1>5, EmptySeq DEF IsSuffix

-----------------------------------------------------------------------------
\* What the lines between the markers are.
LEMMA BlockFacts ==
  ASSUME NEW entries \in SUBSET Name
  PROVE  /\ Block(entries) \in Seq(Line) /\ Len(Block(entries)) >= 1
         /\ \A i \in 1..Len(Block(entries)) : Block(entries)[i] \notin {"start", "end"}
         /\ {Block(entries)[i] : i \in 1..Len(Block(entries))} \cap Name = entries
<1>1. "nothing" \in Line \ Name /\ "heading" \in Line \ Name /\ "blank" \in Line \ Name
  BY MemoryIndexAssumption DEF Line, Written
<1>2. Name \subseteq Line /\ "start" \notin Name /\ "end" \notin Name
  BY MemoryIndexAssumption DEF Line, Written
<1>3. CASE entries = {}
  <2>1. PICK b : b = <<"nothing">>
    OBVIOUS
  <2>2. b \in Seq(Line) /\ Len(b) = 1 /\ b[1] = "nothing"
    BY <1>1, <2>1
  <2>3. \A i \in 1..Len(b) : b[i] = "nothing"
    BY <2>2
  <2>4. {b[i] : i \in 1..Len(b)} \cap Name = {}
    BY <1>1, <2>3
  <2>5. \A i \in 1..Len(b) : b[i] \notin {"start", "end"}
    BY <2>3
  <2>6. Block(entries) = b
    BY <1>3, <2>1 DEF Block
  <2> QED  BY <1>3, <2>2, <2>4, <2>5, <2>6
<1>4. CASE entries # {}
  <2>1. PICK names : names = Sorted[entries]
    OBVIOUS
  <2>2. names \in Seq(Name) /\ Range(names) = entries
    BY <2>1, MemoryIndexAssumption
  <2>3. names \in Seq(Line) /\ <<"heading">> \in Seq(Line) /\ <<"blank">> \in Seq(Line)
    BY <1>1, <1>2, <2>2, SeqMonotonic
  <2>4. PICK b : b = <<"heading">> \o names \o <<"blank">>
    OBVIOUS
  <2>5. /\ b \in Seq(Line)
        /\ Len(b) = Len(<<"heading">>) + Len(names) + Len(<<"blank">>)
        /\ \A i \in 1..Len(<<"heading">>) : b[i] = <<"heading">>[i]
        /\ \A i \in 1..Len(names) : b[Len(<<"heading">>) + i] = names[i]
        /\ \A i \in 1..Len(<<"blank">>) : b[Len(<<"heading">>) + Len(names) + i] = <<"blank">>[i]
    <3>1. InRow(Line, <<"heading">>, names, <<"blank">>, b)
      BY ONLY <2>3, <2>4, Three
    <3> QED  BY <3>1 DEF InRow
  <2>6. Len(names) \in Nat
    BY <2>2
  <2>7. /\ Len(b) = Len(names) + 2 /\ b[1] = "heading" /\ b[Len(names) + 2] = "blank"
        /\ \A i \in 1..Len(names) : b[i + 1] = names[i]
    BY <2>5, <2>6
  <2>8. \A i \in 1..Len(names) : names[i] \in Name
    BY <2>2
  <2>9. \A i \in 1..Len(b) :
          i = 1 \/ i = Len(names) + 2 \/ (i - 1 \in 1..Len(names) /\ b[i] = names[i - 1])
    BY <2>6, <2>7
  <2>10. \A i \in 1..Len(b) : b[i] \notin {"start", "end"}
    BY <1>1, <1>2, <2>7, <2>8, <2>9
  <2>11. Range(names) = {names[i] : i \in 1..Len(names)}
    BY <2>2, RangeEquality
  <2>12. {b[i] : i \in 1..Len(b)} \cap Name = entries
    <3>1. ASSUME NEW x \in entries
          PROVE  x \in {b[i] : i \in 1..Len(b)} \cap Name
      <4>1. PICK i \in 1..Len(names) : x = names[i]
        BY <2>2, <2>11
      <4>2. i + 1 \in 1..Len(b) /\ b[i + 1] = x
        BY <2>6, <2>7, <4>1
      <4> QED  BY <4>2
    <3>2. ASSUME NEW i \in 1..Len(b), b[i] \in Name
          PROVE  b[i] \in entries
      <4>1. i # 1 /\ i # Len(names) + 2
        BY <1>1, <2>7, <3>2
      <4>2. i - 1 \in 1..Len(names) /\ b[i] = names[i - 1]
        BY <2>9, <4>1
      <4> QED  BY <2>2, <2>11, <4>2
    <3> QED  BY <3>1, <3>2
  <2>13. Block(entries) = b
    BY <1>4, <2>1, <2>4 DEF Block
  <2> QED  BY <2>5, <2>6, <2>7, <2>10, <2>12, <2>13
<1> QED  BY <1>3, <1>4

-----------------------------------------------------------------------------
\* The lines a..z of a document are what is left without the blank lines around it.
Extent(doc, a, z) ==
  /\ a \in Int /\ z \in Int /\ 1 <= a /\ a <= z /\ z <= Len(doc)
  /\ doc[a] # "blank" /\ doc[z] # "blank"
  /\ \A i \in 1..Len(doc) : doc[i] # "blank" => a <= i /\ i <= z

\* A document without the blank lines around it: its lines a..z.
LEMMA Trimmed ==
  ASSUME NEW raw \in Seq(Line), NEW a, NEW z, Extent(raw, a, z),
         NEW new, new = TrimSpace(raw)
  PROVE  /\ new \in Seq(Line) /\ Len(new) = (z - a) + 1
         /\ \A i \in 1..((z - a) + 1) : new[i] = raw[a + i - 1]
         /\ NonBlank(new) # {} /\ Min(NonBlank(new)) = 1 /\ Max(NonBlank(new)) = Len(new)
<1>1. PICK R : R = Len(raw)
  OBVIOUS
<1>2. R \in Int /\ a \in Int /\ z \in Int /\ 1 <= a /\ a <= z /\ z <= R
  BY <1>1 DEF Extent
<1>3. a \in 1..R /\ z \in a..R /\ z \in 0..R /\ a <= z + 1
  BY <1>2
<1>4. /\ raw[a] # "blank" /\ raw[z] # "blank"
      /\ \A i \in 1..R : raw[i] # "blank" => a <= i /\ i <= z
  BY <1>1 DEF Extent
<1>5. NonBlank(raw) # {} /\ Min(NonBlank(raw)) = a /\ Max(NonBlank(raw)) = z
  BY <1>1, <1>3, <1>4, BlankIs
<1>6. new = SubSeq(raw, a, z)
  BY <1>5 DEF TrimSpace
<1>7. /\ new \in Seq(Line) /\ Len(new) = z - a + 1
      /\ \A i \in 1..(z - a + 1) : new[i] = raw[a + i - 1]
  BY <1>1, <1>3, <1>6, Slice
<1>8. PICK n : n = Len(new)
  OBVIOUS
<1>9. n \in Int /\ n = (z - a) + 1 /\ 1 <= n
  BY <1>2, <1>7, <1>8
<1>10. /\ 1 \in 1..n /\ n \in 1..n /\ 1 \in 1..(z - a + 1) /\ n \in 1..(z - a + 1)
       /\ a + 1 - 1 = a /\ a + n - 1 = z
  BY <1>2, <1>9
<1>11. new[1] # "blank" /\ new[n] # "blank"
  BY <1>7, <1>10, <1>4
<1>12. \A i \in 1..n : 1 <= i /\ i <= n
  BY <1>9
<1>13. NonBlank(new) # {} /\ Min(NonBlank(new)) = 1 /\ Max(NonBlank(new)) = n
  BY <1>7, <1>8, <1>10, <1>11, <1>12, BlankIs
<1> QED  BY <1>7, <1>8, <1>13

\* new is the lines a..s of doc, a block, and the lines e..z of doc.
JoinedAt(doc, a, s, block, e, z, new, s1, e1, n) ==
  /\ s1 \in Int /\ e1 \in Int /\ n \in Int
  /\ n = Len(new) /\ 1 <= s1 /\ e1 = s1 + Len(block) + 1 /\ e1 <= n
  /\ s1 - 1 = s - a /\ n - e1 = z - e
  /\ \A i \in 1..s1 : new[i] = doc[a + (i - 1)]
  /\ \A i \in 1..Len(block) : new[s1 + i] = block[i]
  /\ \A i \in e1..n : new[i] = doc[e + (i - e1)]
Joined(doc, a, s, block, e, z, new) ==
  /\ NonBlank(new) # {} /\ Min(NonBlank(new)) = 1 /\ Max(NonBlank(new)) = Len(new)
  /\ \E s1, e1, n : JoinedAt(doc, a, s, block, e, z, new, s1, e1, n)

\* The lines a..s of a document, other lines, and its lines e..z, where a and z are
\* its first and last that are not blank.
LEMMA Splice ==
  ASSUME NEW doc \in Seq(Line), NEW block \in Seq(Line),
         NEW a, NEW s \in Int, NEW e \in Int, NEW z,
         Extent(doc, a, z), a <= s, s < e, e <= z,
         NEW new, new = TrimSpace(SubSeq(doc, 1, s) \o block \o SubSeq(doc, e, Len(doc)))
  PROVE  new \in Seq(Line) /\ Joined(doc, a, s, block, e, z, new)
<1>1. PICK L : L = Len(doc)
  OBVIOUS
<1>2. PICK B : B = Len(block)
  OBVIOUS
<1>3. L \in Nat /\ B \in Nat
  BY <1>1, <1>2
<1>4. doc[a] # "blank" /\ doc[z] # "blank"
      /\ \A i \in 1..L : doc[i] # "blank" => a <= i /\ i <= z
  BY <1>1 DEF Extent
<1>5. /\ a \in Int /\ s \in Int /\ e \in Int /\ z \in Int /\ L \in Int /\ B \in Int
      /\ 1 <= a /\ a <= s /\ s < e /\ e <= z /\ z <= L /\ 0 <= B
  BY <1>1, <1>3 DEF Extent
<1>6. PICK head : head = SubSeq(doc, 1, s)
  OBVIOUS
<1>7. PICK tail : tail = SubSeq(doc, e, L)
  OBVIOUS
<1>8. PICK raw : raw = head \o block \o tail
  OBVIOUS
<1>9. head \in Seq(Line) /\ Len(head) = s /\ \A i \in 1..s : head[i] = doc[i]
  <2>1. doc \in Seq(Line) /\ s \in Int /\ 1 <= s /\ s <= Len(doc)
    BY <1>1, <1>5
  <2> QED  BY ONLY <1>6, <2>1, FirstLines
<1>10. /\ tail \in Seq(Line) /\ Len(tail) = (L - e) + 1
       /\ \A i \in 1..((L - e) + 1) : tail[i] = doc[e + i - 1]
  <2>1. e \in 1..L /\ L \in 0..L /\ e <= L + 1
    BY <1>5
  <2> QED  BY <1>1, <1>6, <1>7, <2>1, Slice
<1>11. /\ raw \in Seq(Line)
       /\ Len(raw) = Len(head) + Len(block) + Len(tail)
       /\ \A i \in 1..Len(head) : raw[i] = head[i]
       /\ \A i \in 1..Len(block) : raw[Len(head) + i] = block[i]
       /\ \A i \in 1..Len(tail) : raw[Len(head) + Len(block) + i] = tail[i]
  <2>1. head \in Seq(Line) /\ tail \in Seq(Line)
    BY <1>9, <1>10
  <2>2. block \in Seq(Line)
    OBVIOUS
  <2>3. InRow(Line, head, block, tail, raw)
    BY ONLY <1>8, <2>1, <2>2, Three
  <2> QED  BY ONLY <2>3 DEF InRow
<1>12. raw \in Seq(Line)
  BY <1>11
<1>13. PICK R : R = Len(raw)
  OBVIOUS
<1>14. R = s + B + ((L - e) + 1)
  BY <1>2, <1>9, <1>10, <1>11, <1>13
<1>15. \A i \in 1..s : raw[i] = doc[i]
  BY <1>9, <1>11
<1>16. \A i \in 1..B : raw[s + i] = block[i]
  BY <1>2, <1>9, <1>11
<1>17. \A i \in 1..((L - e) + 1) : raw[s + B + i] = doc[e + i - 1]
  BY <1>2, <1>9, <1>10, <1>11
<1>18. PICK zz : zz = s + B + ((z - e) + 1)
  OBVIOUS
<1>19. zz \in Int /\ R \in Int /\ a <= zz /\ zz <= R
  BY <1>5, <1>14, <1>18
<1>20. /\ raw[a] # "blank" /\ raw[zz] # "blank"
       /\ \A i \in 1..R : raw[i] # "blank" => a <= i /\ i <= zz
  <2>1. raw[a] # "blank"
    <3>1. a \in 1..s
      BY <1>5
    <3> QED  BY <1>4, <1>15, <3>1
  <2>2. raw[zz] # "blank"
    <3>1. PICK j : j = (z - e) + 1
      OBVIOUS
    <3>2. j \in 1..((L - e) + 1) /\ e + j - 1 = z /\ s + B + j = zz
      BY <1>5, <1>18, <3>1
    <3>3. raw[s + B + j] = doc[e + j - 1]
      BY <1>17, <3>2
    <3> QED  BY <1>4, <3>2, <3>3
  <2>3. ASSUME NEW i \in 1..R, raw[i] # "blank"
        PROVE  a <= i /\ i <= zz
    <3>1. i \in Int /\ 1 <= i /\ i <= R
      BY <1>19
    <3>2. CASE i <= s
      <4>1. i \in 1..s /\ i \in 1..L
        BY <1>5, <3>1, <3>2
      <4>2. doc[i] # "blank"
        BY <1>15, <2>3, <4>1
      <4>3. a <= i
        BY <1>4, <4>1, <4>2
      <4> QED  BY <1>5, <1>18, <3>1, <3>2, <4>3
    <3>3. CASE i > s /\ i <= s + B
      BY <1>5, <1>18, <3>1, <3>3
    <3>4. CASE i > s + B
      <4>1. PICK j : j = i - (s + B)
        OBVIOUS
      <4>2. j \in 1..((L - e) + 1) /\ i = s + B + j /\ e + j - 1 \in 1..L
        BY <1>5, <1>14, <3>1, <3>4, <4>1
      <4>3. doc[e + j - 1] # "blank"
        BY <1>17, <2>3, <4>2
      <4>4. e + j - 1 <= z
        BY <1>4, <4>2, <4>3
      <4> QED  BY <1>5, <1>18, <3>1, <3>4, <4>1, <4>4
    <3> QED  BY <1>5, <3>1, <3>2, <3>3, <3>4
  <2> QED  BY <2>1, <2>2, <2>3
<1>21. /\ new \in Seq(Line) /\ Len(new) = (zz - a) + 1
       /\ \A i \in 1..((zz - a) + 1) : new[i] = raw[a + i - 1]
       /\ NonBlank(new) # {} /\ Min(NonBlank(new)) = 1 /\ Max(NonBlank(new)) = Len(new)
  <2>1. new = TrimSpace(raw)
    BY <1>1, <1>8, <1>6, <1>7
  <2>2. Extent(raw, a, zz)
    BY <1>5, <1>13, <1>19, <1>20 DEF Extent
  <2> QED  BY ONLY <1>12, <2>1, <2>2, Trimmed
<1>22. \A i \in 1..((zz - a) + 1) : new[i] = raw[a + i - 1]
  BY <1>21
<1>23. ASSUME NEW i \in 1..((s - a) + 1)
       PROVE  new[i] = doc[a + i - 1]
  <2>1. i \in 1..((zz - a) + 1) /\ a + i - 1 \in 1..s
    BY <1>5, <1>18
  <2> QED  BY <1>15, <1>22, <2>1
<1>24. ASSUME NEW i \in 1..B
       PROVE  new[(s - a) + 1 + i] = block[i]
  <2>1. PICK k : k = (s - a) + 1 + i
    OBVIOUS
  <2>2. k \in 1..((zz - a) + 1) /\ a + k - 1 = s + i
    BY <1>5, <1>18, <2>1
  <2>3. new[k] = raw[a + k - 1]
    BY <1>22, <2>2
  <2> QED  BY <1>16, <2>1, <2>2, <2>3
<1>25. ASSUME NEW i \in 1..((z - e) + 1)
       PROVE  new[(s - a) + 1 + B + i] = doc[e + i - 1]
  <2>1. PICK k : k = (s - a) + 1 + B + i
    OBVIOUS
  <2>2. k \in 1..((zz - a) + 1) /\ a + k - 1 = s + B + i /\ i \in 1..((L - e) + 1)
    BY <1>5, <1>18, <2>1
  <2>3. new[k] = raw[a + k - 1]
    BY <1>22, <2>2
  <2> QED  BY <1>17, <2>1, <2>2, <2>3
<1>26. Len(new) = (s - a) + 1 + B + (z - e) + 1
  BY <1>5, <1>21, <1>18
<1>27. PICK s1, e1, n : s1 = (s - a) + 1 /\ e1 = s1 + B + 1 /\ n = Len(new)
  OBVIOUS
<1>28. /\ s1 \in Int /\ e1 \in Int /\ n \in Int /\ 1 <= s1 /\ e1 <= n
       /\ s1 - 1 = s - a /\ n - e1 = z - e
  BY <1>5, <1>26, <1>27
<1>29. ASSUME NEW i \in 1..s1
       PROVE  new[i] = doc[a + (i - 1)]
  <2>1. i \in 1..((s - a) + 1) /\ a + i - 1 = a + (i - 1)
    BY <1>5, <1>27
  <2> QED  BY <1>23, <2>1
<1>30. \A i \in 1..B : new[s1 + i] = block[i]
  BY <1>24, <1>27
<1>31. ASSUME NEW i \in e1..n
       PROVE  new[i] = doc[e + (i - e1)]
  <2>1. PICK j : j = (i - e1) + 1
    OBVIOUS
  <2>2. j \in 1..((z - e) + 1) /\ (s - a) + 1 + B + j = i /\ e + j - 1 = e + (i - e1)
    BY <1>5, <1>27, <1>28, <2>1
  <2> QED  BY <1>25, <2>2
<1>32. JoinedAt(doc, a, s, block, e, z, new, s1, e1, n)
  BY ONLY <1>2, <1>27, <1>28, <1>29, <1>30, <1>31 DEF JoinedAt
<1> QED  BY ONLY <1>21, <1>32 DEF Joined

\* A fresh block after a document, line by line.
Fenced(head, block) == head \o <<"start">> \o block \o <<"end">>

AllLines(head, block, raw) ==
  /\ raw \in Seq(Line) /\ Len(raw) = Len(head) + Len(block) + 2
  /\ \A i \in 1..Len(head) : raw[i] = head[i]
  /\ raw[Len(head) + 1] = "start"
  /\ \A i \in 1..Len(block) : raw[Len(head) + 1 + i] = block[i]
  /\ raw[Len(head) + Len(block) + 2] = "end"

LEMMA FreshBlock ==
  ASSUME NEW head \in Seq(Line), NEW block \in Seq(Line)
  PROVE  AllLines(head, block, Fenced(head, block))
<1>1. PICK raw : raw = Fenced(head, block)
  OBVIOUS
<1>2. PICK h : h = head \o <<"start">>
  OBVIOUS
<1>3. <<"start">> \in Seq(Line) /\ <<"end">> \in Seq(Line)
  BY DEF Line, Written
<1>4. PICK one : one = <<"start">>
  OBVIOUS
<1>5. one \in Seq(Line) /\ Len(one) = 1 /\ one[1] = "start"
  BY <1>3, <1>4
<1>6. PICK last : last = <<"end">>
  OBVIOUS
<1>7. last \in Seq(Line) /\ Len(last) = 1 /\ last[1] = "end"
  BY <1>3, <1>6
<1>8. head \in Seq(Line) /\ h = head \o one
  BY <1>2, <1>4
<1>9. raw = h \o block \o last
  BY <1>1, <1>2, <1>6 DEF Fenced
<1>10. block \in Seq(Line)
  OBVIOUS
<1>11. /\ h \in Seq(Line) /\ Len(h) = Len(head) + Len(one)
       /\ \A i \in 1..(Len(head) + Len(one)) :
            h[i] = IF i <= Len(head) THEN head[i] ELSE one[i - Len(head)]
  BY ONLY <1>5, <1>8, ConcatProperties
<1>12. /\ raw \in Seq(Line)
       /\ Len(raw) = Len(h) + Len(block) + Len(last)
       /\ \A i \in 1..Len(h) : raw[i] = h[i]
       /\ \A i \in 1..Len(block) : raw[Len(h) + i] = block[i]
       /\ \A i \in 1..Len(last) : raw[Len(h) + Len(block) + i] = last[i]
  <2>1. h \in Seq(Line) /\ last \in Seq(Line)
    BY <1>7, <1>11
  <2>2. InRow(Line, h, block, last, raw)
    BY ONLY <1>9, <1>10, <2>1, Three
  <2> QED  BY ONLY <2>2 DEF InRow
<1>13. PICK n, m : n = Len(head) /\ m = Len(block)
  OBVIOUS
<1>14. n \in Nat /\ m \in Nat /\ Len(h) = n + 1
  BY <1>5, <1>11, <1>13
<1>15. ASSUME NEW i \in 1..n
       PROVE  raw[i] = head[i]
  <2>1. i \in 1..(n + 1) /\ i <= n /\ Len(head) = n /\ Len(one) = 1
    BY <1>5, <1>13, <1>14
  <2>2. h[i] = head[i]
    BY <1>11, <2>1
  <2> QED  BY <1>12, <1>14, <2>1, <2>2
<1>16. raw[n + 1] = "start"
  BY <1>5, <1>11, <1>12, <1>13, <1>14
<1>17. raw[n + m + 2] = "end"
  BY <1>7, <1>12, <1>13, <1>14
<1>18. Len(raw) = n + m + 2
  BY <1>7, <1>12, <1>13, <1>14
<1>19. AllLines(head, block, raw)
  <2>1. raw \in Seq(Line)
    BY <1>12
  <2>2. \A i \in 1..m : raw[n + 1 + i] = block[i]
    BY <1>12, <1>13, <1>14
  <2> QED  BY ONLY <1>13, <1>15, <1>16, <1>17, <1>18, <2>1, <2>2 DEF AllLines
<1> QED  BY <1>1, <1>19

LEMMA SameSlice ==
  ASSUME NEW S, NEW p \in Seq(S), NEW q \in Seq(S),
         NEW m \in Int, NEW n \in Int, NEW k \in Int, NEW l \in Int,
         1 <= m, m <= n, n <= Len(p), 1 <= k, l <= Len(q), n - m = l - k,
         \A i \in m..n : p[i] = q[k + (i - m)]
  PROVE  SubSeq(p, m, n) = SubSeq(q, k, l) /\ SubSeq(p, m, n) \in Seq(S)
<1>1. PICK P, Q : P = Len(p) /\ Q = Len(q)
  OBVIOUS
<1>2. P \in Nat /\ Q \in Nat /\ n <= P /\ l <= Q
  BY <1>1
<1>3. /\ m \in 1..P /\ n \in 0..P /\ m <= n + 1 /\ k \in 1..Q /\ l \in 0..Q /\ k <= l + 1
      /\ n - m + 1 = l - k + 1
  BY <1>2
<1>4. PICK x : x = SubSeq(p, m, n)
  OBVIOUS
<1>5. PICK y : y = SubSeq(q, k, l)
  OBVIOUS
<1>6. x \in Seq(S) /\ Len(x) = n - m + 1 /\ \A i \in 1..(n - m + 1) : x[i] = p[m + i - 1]
  BY <1>1, <1>3, <1>4, Slice
<1>7. y \in Seq(S) /\ Len(y) = l - k + 1 /\ \A i \in 1..(l - k + 1) : y[i] = q[k + i - 1]
  BY <1>1, <1>3, <1>5, Slice
<1>8. ASSUME NEW i \in 1..Len(x)
      PROVE  x[i] = y[i]
  <2>1. PICK j : j = m + i - 1
    OBVIOUS
  <2>2. j \in m..n /\ k + (j - m) = k + i - 1 /\ i \in 1..(n - m + 1) /\ i \in 1..(l - k + 1)
    BY <1>3, <1>6, <2>1
  <2>3. p[j] = q[k + (j - m)]
    BY <2>2
  <2> QED  BY <1>6, <1>7, <2>1, <2>2, <2>3
<1>9. x = y
  BY <1>3, <1>6, <1>7, <1>8, SeqEqual
<1> QED  BY <1>4, <1>5, <1>6, <1>9

\* Where a document with both markers has them, and its first and last line.
LEMMA MarkedFacts ==
  ASSUME NEW doc \in Seq(Line), Marked(doc)
  PROVE  \E a, s, e, z \in Int :
           /\ s = Find(doc, "start") /\ e = Find(doc, "end")
           /\ a = Min(NonBlank(doc)) /\ z = Max(NonBlank(doc))
           /\ 1 <= a /\ a <= s /\ s < e /\ e <= z /\ z <= Len(doc)
           /\ doc[a] # "blank" /\ doc[z] # "blank" /\ doc[s] = "start" /\ doc[e] = "end"
           /\ \A i \in 1..Len(doc) : doc[i] # "blank" => a <= i /\ i <= z
           /\ \A i \in 1..(s - 1) : doc[i] # "start"
           /\ \A i \in 1..(e - 1) : doc[i] # "end"
<1>1. PICK L : L = Len(doc)
  OBVIOUS
<1>2. L \in Nat
  BY <1>1
<1>3. PICK s, e : s = Find(doc, "start") /\ e = Find(doc, "end")
  OBVIOUS
<1>4. s \in 0..L /\ (s # 0 => doc[s] = "start" /\ \A i \in 1..(s - 1) : doc[i] # "start")
  BY <1>1, <1>3, FindFacts
<1>5. e \in 0..L /\ (e # 0 => doc[e] = "end" /\ \A i \in 1..(e - 1) : doc[i] # "end")
  BY <1>1, <1>3, FindFacts
<1>6. 0 < s /\ s < e
  BY <1>3 DEF Marked
<1>7. s \in 1..L /\ e \in 1..L
  BY <1>2, <1>4, <1>5, <1>6
<1>8. NonBlank(doc) # {}
  BY <1>1, <1>4, <1>6, <1>7 DEF NonBlank
<1>9. PICK a, z : a = Min(NonBlank(doc)) /\ z = Max(NonBlank(doc))
  OBVIOUS
<1>10. /\ a \in 1..L /\ z \in a..L /\ doc[a] # "blank" /\ doc[z] # "blank"
       /\ \A i \in 1..L : doc[i] # "blank" => a <= i /\ i <= z
  BY <1>1, <1>8, <1>9, BlankFacts
<1>11. a <= s /\ e <= z
  BY <1>4, <1>5, <1>6, <1>7, <1>10
<1>12. a \in Int /\ s \in Int /\ e \in Int /\ z \in Int /\ 1 <= a /\ z <= L
  BY <1>2, <1>7, <1>10
<1>13. doc[s] = "start" /\ doc[e] = "end"
  BY <1>4, <1>5, <1>6
<1>14. /\ \A i \in 1..Len(doc) : doc[i] # "blank" => a <= i /\ i <= z
       /\ \A i \in 1..(s - 1) : doc[i] # "start"
       /\ \A i \in 1..(e - 1) : doc[i] # "end"
  BY <1>1, <1>4, <1>5, <1>6, <1>10
<1>15. 1 <= a /\ a <= s /\ s < e /\ e <= z /\ z <= Len(doc) /\ doc[a] # "blank" /\ doc[z] # "blank"
  BY <1>1, <1>6, <1>10, <1>11, <1>12
<1> QED  BY ONLY <1>3, <1>9, <1>12, <1>13, <1>14, <1>15

\* The text outside the block stays, line by line, and the block is the new one.
Replaced(doc, block, new) ==
  /\ new \in Seq(Line) /\ Len(new) >= 1
  /\ Before(new) = Before(doc) /\ Before(doc) \in Seq(Line)
  /\ After(new) = After(doc) /\ After(doc) \in Seq(Line)
  /\ {new[i] : i \in Find(new, "start")..Find(new, "end")}
       = {block[i] : i \in 1..Len(block)} \cup {"start", "end"}

LEMMA MarkedKeeps ==
  ASSUME NEW doc \in Seq(Line), Marked(doc), NEW block \in Seq(Line),
         \A i \in 1..Len(block) : block[i] \notin {"start", "end"},
         NEW new, new = TrimSpace(Substitute(doc, block))
  PROVE  Replaced(doc, block, new)
<1>1. PICK a, s, e, z \in Int :
        /\ s = Find(doc, "start") /\ e = Find(doc, "end")
        /\ a = Min(NonBlank(doc)) /\ z = Max(NonBlank(doc))
        /\ 1 <= a /\ a <= s /\ s < e /\ e <= z /\ z <= Len(doc)
        /\ doc[a] # "blank" /\ doc[z] # "blank" /\ doc[s] = "start" /\ doc[e] = "end"
        /\ \A i \in 1..Len(doc) : doc[i] # "blank" => a <= i /\ i <= z
        /\ \A i \in 1..(s - 1) : doc[i] # "start"
        /\ \A i \in 1..(e - 1) : doc[i] # "end"
  BY MarkedFacts
<1>2. PICK B : B = Len(block)
  OBVIOUS
<1>3. B \in Nat
  BY <1>2
<1>4. 1 <= a /\ a <= s /\ s < e /\ e <= z /\ z <= Len(doc)
  BY <1>1
<1>5. doc \in Seq(Line) /\ block \in Seq(Line) /\ a \in Int /\ s \in Int /\ e \in Int /\ z \in Int
  OBVIOUS
<1>6. new \in Seq(Line) /\ Joined(doc, a, s, block, e, z, new)
  <2>1. new = TrimSpace(SubSeq(doc, 1, s) \o block \o SubSeq(doc, e, Len(doc)))
    BY <1>1 DEF Substitute
  <2>2. Extent(doc, a, z)
    BY <1>1 DEF Extent
  <2> QED  BY ONLY <1>4, <1>5, <2>1, <2>2, Splice
<1>7. PICK s1, e1, n : JoinedAt(doc, a, s, block, e, z, new, s1, e1, n)
  BY ONLY <1>6 DEF Joined
<1>8. n = Len(new) /\ e1 = s1 + B + 1
  BY <1>2, <1>7 DEF JoinedAt
<1>9. /\ s1 \in Int /\ e1 \in Int /\ n \in Int /\ 1 <= s1 /\ s1 < e1 /\ e1 <= n
      /\ n - e1 = z - e /\ s1 - 1 = s - a
  BY <1>3, <1>7, <1>8 DEF JoinedAt
<1>10. \A i \in 1..s1 : new[i] = doc[a + (i - 1)]
  BY ONLY <1>7 DEF JoinedAt
<1>11. \A i \in 1..B : new[s1 + i] = block[i]
  BY ONLY <1>2, <1>7 DEF JoinedAt
<1>12. \A i \in e1..n : new[i] = doc[e + (i - e1)]
  BY ONLY <1>7 DEF JoinedAt
<1>13. new[s1] = "start" /\ new[e1] = "end"
  <2>1. s1 \in 1..s1 /\ a + (s1 - 1) = s /\ e1 \in e1..n /\ e + (e1 - e1) = e
    BY <1>4, <1>9
  <2>2. new[s1] = doc[a + (s1 - 1)]
    BY <1>10, <2>1
  <2>3. new[e1] = doc[e + (e1 - e1)]
    BY <1>12, <2>1
  <2> QED  BY <1>1, <2>1, <2>2, <2>3
<1>14. ASSUME NEW i \in 1..(s1 - 1)
       PROVE  new[i] # "start" /\ new[i] # "end"
  <2>1. i \in 1..s1 /\ a + (i - 1) \in 1..(s - 1) /\ a + (i - 1) \in 1..(e - 1)
    BY <1>4, <1>9
  <2>2. new[i] = doc[a + (i - 1)]
    BY <1>10, <2>1
  <2> QED  BY <1>1, <2>1, <2>2
<1>15. Find(new, "start") = s1
  <2>1. s1 \in 1..Len(new)
    BY <1>8, <1>9
  <2> QED  BY <1>6, <1>13, <1>14, <2>1, FindIs
<1>16. Find(new, "end") = e1
  <2>1. e1 \in 1..Len(new)
    BY <1>8, <1>9
  <2>2. ASSUME NEW i \in 1..(e1 - 1)
        PROVE  new[i] # "end"
    <3>1. CASE i < s1
      BY <1>9, <1>14, <3>1
    <3>2. CASE i = s1
      BY <1>13, <3>2
    <3>3. CASE i > s1
      <4>1. i - s1 \in 1..B /\ s1 + (i - s1) = i
        BY <1>3, <1>8, <1>9, <3>3
      <4>2. PICK j \in 1..B : i = s1 + j
        BY <4>1
      <4> QED  BY <1>2, <1>11, <4>2
    <3> QED  BY <1>9, <3>1, <3>2, <3>3
  <2> QED  BY <1>6, <1>13, <2>1, <2>2, FindIs
<1>17. Marked(new)
  BY <1>9, <1>15, <1>16 DEF Marked
<1>18. Before(new) = SubSeq(new, 1, s1) /\ After(new) = SubSeq(new, e1, n)
  BY <1>6, <1>8, <1>15, <1>16, <1>17 DEF Before, After, Joined
<1>19. Before(doc) = SubSeq(doc, a, s) /\ After(doc) = SubSeq(doc, e, z)
  BY <1>1 DEF Before, After
<1>20. SubSeq(new, 1, s1) = SubSeq(doc, a, s) /\ SubSeq(new, 1, s1) \in Seq(Line)
  <2>1. /\ 1 \in Int /\ s1 \in Int /\ 1 <= 1 /\ 1 <= s1 /\ s1 <= Len(new)
        /\ 1 <= a /\ s <= Len(doc) /\ s1 - 1 = s - a
    BY <1>4, <1>8, <1>9
  <2>2. new \in Seq(Line)
    BY <1>6
  <2> QED  BY ONLY <1>10, <1>5, <2>1, <2>2, SameSlice
<1>21. SubSeq(new, e1, n) = SubSeq(doc, e, z) /\ SubSeq(new, e1, n) \in Seq(Line)
  <2>1. /\ e1 \in Int /\ n \in Int /\ 1 <= e1 /\ e1 <= n /\ n <= Len(new)
        /\ 1 <= e /\ z <= Len(doc) /\ n - e1 = z - e
    BY <1>4, <1>8, <1>9
  <2>2. new \in Seq(Line)
    BY <1>6
  <2> QED  BY ONLY <1>12, <1>5, <2>1, <2>2, SameSlice
<1>22. {new[i] : i \in s1..e1} = {block[i] : i \in 1..B} \cup {"start", "end"}
  <2>1. ASSUME NEW i \in s1..e1
        PROVE  new[i] \in {block[j] : j \in 1..B} \cup {"start", "end"}
    <3>1. CASE i = s1 \/ i = e1
      BY <1>13, <3>1
    <3>2. CASE i # s1 /\ i # e1
      <4>1. i - s1 \in 1..B /\ s1 + (i - s1) = i
        BY <1>3, <1>8, <1>9, <3>2
      <4> QED  BY <1>11, <4>1
    <3> QED  BY <3>1, <3>2
  <2>2. ASSUME NEW j \in 1..B
        PROVE  block[j] \in {new[i] : i \in s1..e1}
    <3>1. s1 + j \in s1..e1
      BY <1>3, <1>8, <1>9
    <3> QED  BY <1>11, <3>1
  <2>3. s1 \in s1..e1 /\ e1 \in s1..e1
    BY <1>9
  <2> QED  BY <1>13, <2>1, <2>2, <2>3
<1>23. Before(new) = Before(doc) /\ Before(doc) \in Seq(Line)
  BY ONLY <1>18, <1>19, <1>20
<1>24. After(new) = After(doc) /\ After(doc) \in Seq(Line)
  BY ONLY <1>18, <1>19, <1>21
<1>25. {new[i] : i \in Find(new, "start")..Find(new, "end")}
         = {block[i] : i \in 1..Len(block)} \cup {"start", "end"}
  BY ONLY <1>2, <1>15, <1>16, <1>22
<1>26. new \in Seq(Line) /\ Len(new) >= 1
  BY ONLY <1>6, <1>8, <1>9
<1> QED  BY ONLY <1>23, <1>24, <1>25, <1>26 DEF Replaced

-----------------------------------------------------------------------------
\* The lines a..m of one document are a prefix of the first k lines of another.
LEMMA SlicePrefix ==
  ASSUME NEW S, NEW p \in Seq(S), NEW q \in Seq(S), NEW a \in Int, NEW m \in Int, NEW k \in Int,
         1 <= a, a <= m, m <= Len(p), m - a < k, k <= Len(q),
         \A i \in 1..((m - a) + 1) : q[i] = p[a + (i - 1)]
  PROVE  IsPrefix(SubSeq(p, a, m), SubSeq(q, 1, k))
<1>1. PICK P, Q : P = Len(p) /\ Q = Len(q)
  OBVIOUS
<1>2. P \in Nat /\ Q \in Nat /\ m <= P /\ k <= Q
  BY <1>1
<1>3. a \in 1..P /\ m \in 0..P /\ a <= m + 1 /\ 1 \in 1..Q /\ k \in 0..Q /\ 1 <= k + 1
  BY <1>2
<1>4. PICK x : x = SubSeq(p, a, m)
  OBVIOUS
<1>5. PICK y : y = SubSeq(q, 1, k)
  OBVIOUS
<1>6. x \in Seq(S) /\ Len(x) = m - a + 1 /\ \A i \in 1..(m - a + 1) : x[i] = p[a + i - 1]
  BY <1>1, <1>3, <1>4, Slice
<1>7. y \in Seq(S) /\ Len(y) = k - 1 + 1 /\ \A i \in 1..(k - 1 + 1) : y[i] = q[1 + i - 1]
  BY <1>1, <1>3, <1>5, Slice
<1>8. ASSUME NEW i \in 1..Len(x)
      PROVE  x[i] = y[i]
  <2>1. i \in 1..((m - a) + 1) /\ i \in 1..(k - 1 + 1) /\ a + i - 1 = a + (i - 1) /\ 1 + i - 1 = i
    BY <1>2, <1>6
  <2> QED  BY <1>6, <1>7, <2>1
<1>9. Len(x) <= Len(y)
  BY <1>2, <1>6, <1>7
<1>10. IsPrefix(x, y)
  BY <1>6, <1>7, <1>8, <1>9, PrefixIs
<1> QED  BY <1>4, <1>5, <1>10

\* Both parts of a document are documents.
LEMMA PartsType ==
  ASSUME NEW doc \in Seq(Line)
  PROVE  Before(doc) \in Seq(Line) /\ After(doc) \in Seq(Line) /\ TrimSpace(doc) \in Seq(Line)
<1>1. PICK s, e, a, z, L : /\ s = Find(doc, "start") /\ e = Find(doc, "end")
                           /\ a = Min(NonBlank(doc)) /\ z = Max(NonBlank(doc)) /\ L = Len(doc)
  OBVIOUS
<1>2. L \in Nat /\ s \in 0..L /\ e \in 0..L
  BY <1>1, FindFacts
<1>3. s # 0 => doc[s] = "start"
  BY <1>1, FindFacts
<1>4. NonBlank(doc) # {} =>
        /\ a \in 1..L /\ z \in a..L
        /\ \A i \in 1..L : doc[i] # "blank" => a <= i /\ i <= z
  BY <1>1, BlankFacts
<1>5. NonBlank(doc) = {} => \A i \in 1..L : doc[i] = "blank"
  BY <1>1 DEF NonBlank
<1>6. TrimSpace(doc) \in Seq(Line)
  <2>1. CASE NonBlank(doc) = {}
    BY <2>1 DEF TrimSpace
  <2>2. CASE NonBlank(doc) # {}
    <3>1. a \in 1..L /\ z \in 0..L /\ a <= z + 1
      BY <1>2, <1>4, <2>2
    <3>2. SubSeq(doc, a, z) \in Seq(Line)
      BY <1>1, <3>1, Slice
    <3> QED  BY <1>1, <2>2, <3>2 DEF TrimSpace
  <2> QED  BY <2>1, <2>2
<1>7. s # 0 => SubSeq(doc, a, s) \in Seq(Line)
  <2> HAVE s # 0
  <2>1. s \in 1..L /\ doc[s] # "blank"
    BY <1>2, <1>3
  <2>2. NonBlank(doc) # {} /\ a <= s
    BY <1>4, <1>5, <2>1
  <2>3. a \in 1..L /\ s \in 0..L /\ a <= s + 1
    BY <1>2, <1>4, <2>1, <2>2
  <2> QED  BY <1>1, <2>3, Slice
<1>8. Before(doc) \in Seq(Line)
  <2>1. (Before(doc) = SubSeq(doc, a, s) /\ s # 0) \/ Before(doc) = TrimSpace(doc)
    <3>1. Marked(doc) => s # 0
      BY <1>1, <1>2 DEF Marked
    <3> QED  BY ONLY <1>1, <3>1 DEF Before
  <2> QED  BY <1>6, <1>7, <2>1
<1>9. After(doc) \in Seq(Line)
  <2>1. CASE Marked(doc)
    <3>1. PICK aa, ss, ee, zz \in Int :
            /\ ss = Find(doc, "start") /\ ee = Find(doc, "end")
            /\ aa = Min(NonBlank(doc)) /\ zz = Max(NonBlank(doc))
            /\ 1 <= aa /\ aa <= ss /\ ss < ee /\ ee <= zz /\ zz <= Len(doc)
      BY <2>1, MarkedFacts
    <3>2. e \in 1..L /\ z \in 0..L /\ e <= z + 1
      BY <1>1, <1>2, <3>1
    <3>3. SubSeq(doc, e, z) \in Seq(Line)
      BY <1>1, <3>2, Slice
    <3> QED  BY <1>1, <2>1, <3>3 DEF After
  <2>2. CASE ~Marked(doc)
    BY <2>2 DEF After
  <2> QED  BY <2>1, <2>2
<1> QED  BY <1>6, <1>8, <1>9

\* new is the text of doc (its lines a..z), a blank line and a fresh block.
Grown(doc, a, z, d, n, new) ==
  /\ a \in Int /\ z \in Int /\ d \in Int /\ n \in Int
  /\ a = Min(NonBlank(doc)) /\ z = Max(NonBlank(doc)) /\ n = Len(new)
  /\ d = (z - a) + 1 /\ d + 2 < n /\ Extent(doc, a, z)
  /\ \A i \in 1..d : new[i] = doc[a + (i - 1)]
  /\ new[d + 2] = "start" /\ new[n] = "end"
  /\ \A i \in (d + 1)..(n - 1) : new[i] # "end"

\* What a fresh block at the end makes of a document that has text.
LEMMA AppendedFacts ==
  ASSUME NEW doc \in Seq(Line), NonBlank(doc) # {}, NEW block \in Seq(Line),
         \A i \in 1..Len(block) : block[i] \notin {"start", "end"},
         NEW new, new = TrimSpace(Appended(doc, block))
  PROVE  /\ new \in Seq(Line)
         /\ NonBlank(new) # {} /\ Min(NonBlank(new)) = 1 /\ Max(NonBlank(new)) = Len(new)
         /\ \E a, z, d, n : Grown(doc, a, z, d, n, new)
<1>1. PICK a, z, L, B : /\ a = Min(NonBlank(doc)) /\ z = Max(NonBlank(doc))
                        /\ L = Len(doc) /\ B = Len(block)
  OBVIOUS
<1>2. L \in Nat /\ B \in Nat
  BY <1>1
<1>3. /\ a \in 1..L /\ z \in a..L
      /\ doc[a] # "blank" /\ doc[z] # "blank"
      /\ \A i \in 1..L : doc[i] # "blank" => a <= i /\ i <= z
  BY <1>1, BlankFacts
<1>4. a \in Int /\ z \in Int /\ 1 <= a /\ a <= z /\ z <= L
  BY <1>2, <1>3
<1>5. PICK text : text = SubSeq(doc, 1, z)
  OBVIOUS
<1>6. text \in Seq(Line) /\ Len(text) = z /\ \A i \in 1..z : text[i] = doc[i]
  <2>1. doc \in Seq(Line) /\ z \in Int /\ 1 <= z /\ z <= Len(doc)
    BY <1>1, <1>4
  <2> QED  BY ONLY <1>5, <2>1, FirstLines
<1>7. TrimRight(doc) = text /\ text # <<>>
  BY <1>1, <1>4, <1>5, <1>6 DEF TrimRight
<1>8. PICK pad : pad = <<"blank">>
  OBVIOUS
<1>9. pad \in Seq(Line) /\ Len(pad) = 1 /\ pad[1] = "blank"
  BY <1>8 DEF Line, Written
<1>10. PICK head : head = text \o pad
  OBVIOUS
<1>11. /\ head \in Seq(Line) /\ Len(head) = Len(text) + Len(pad)
       /\ \A i \in 1..(Len(text) + Len(pad)) :
            head[i] = IF i <= Len(text) THEN text[i] ELSE pad[i - Len(text)]
  BY ONLY <1>6, <1>9, <1>10, ConcatProperties
<1>12. /\ head \in Seq(Line) /\ Len(head) = z + 1 /\ head[z + 1] = "blank"
       /\ \A i \in 1..z : head[i] = doc[i]
  BY <1>4, <1>6, <1>9, <1>11
<1>13. PICK raw : raw = Fenced(head, block)
  OBVIOUS
<1>14. Appended(doc, block) = raw
  BY <1>7, <1>8, <1>10, <1>13 DEF Appended, Fenced
<1>15. /\ raw \in Seq(Line) /\ Len(raw) = Len(head) + Len(block) + 2
       /\ \A i \in 1..Len(head) : raw[i] = head[i]
       /\ raw[Len(head) + 1] = "start"
       /\ \A i \in 1..Len(block) : raw[Len(head) + 1 + i] = block[i]
       /\ raw[Len(head) + Len(block) + 2] = "end"
  <2>1. head \in Seq(Line) /\ block \in Seq(Line)
    BY <1>12
  <2>2. AllLines(head, block, Fenced(head, block))
    BY ONLY <2>1, FreshBlock
  <2> QED  BY ONLY <1>13, <2>2 DEF AllLines
<1>16. PICK R : R = Len(raw)
  OBVIOUS
<1>17. /\ raw \in Seq(Line) /\ R = z + B + 3
       /\ raw[z + 2] = "start" /\ raw[R] = "end" /\ raw[z + 1] = "blank"
       /\ \A i \in 1..z : raw[i] = doc[i]
       /\ \A i \in 1..B : raw[z + 2 + i] = block[i]
  <2>1. R = z + B + 3 /\ Len(head) + Len(block) + 2 = R /\ Len(head) + 1 = z + 2
    <3>1. Len(head) = z + 1 /\ Len(block) = B /\ R = Len(head) + Len(block) + 2
      BY <1>1, <1>12, <1>15, <1>16
    <3> QED  BY ONLY <1>2, <1>4, <3>1
  <2>2. \A i \in 1..z : raw[i] = doc[i]
    BY <1>4, <1>12, <1>15
  <2>3. raw[z + 1] = "blank"
    BY <1>4, <1>12, <1>15
  <2>4. raw \in Seq(Line) /\ raw[z + 2] = "start" /\ raw[R] = "end"
    BY <1>15, <2>1
  <2>5. \A i \in 1..B : raw[z + 2 + i] = block[i]
    BY <1>1, <1>15, <2>1
  <2> QED  BY <2>1, <2>2, <2>3, <2>4, <2>5
<1>18. Extent(raw, a, R)
  <2>1. raw[a] # "blank" /\ raw[R] # "blank"
    BY <1>3, <1>4, <1>17
  <2>2. ASSUME NEW i \in 1..R, raw[i] # "blank"
        PROVE  a <= i /\ i <= R
    <3>1. i \in Int /\ 1 <= i /\ i <= R
      BY <1>2, <1>4, <1>17
    <3>2. CASE i <= z
      <4>1. i \in 1..z /\ i \in 1..L
        BY <1>2, <1>4, <3>1, <3>2
      <4> QED  BY <1>3, <1>17, <2>2, <3>1, <4>1
    <3>3. CASE i > z
      BY <1>4, <3>1, <3>3
    <3> QED  BY <1>4, <3>1, <3>2, <3>3
  <2>3. a \in Int /\ R \in Int /\ 1 <= a /\ a <= R
    BY <1>2, <1>4, <1>17
  <2> QED  BY <1>16, <2>1, <2>2, <2>3 DEF Extent
<1>19. /\ new \in Seq(Line) /\ Len(new) = (R - a) + 1
       /\ \A i \in 1..((R - a) + 1) : new[i] = raw[a + i - 1]
       /\ NonBlank(new) # {} /\ Min(NonBlank(new)) = 1 /\ Max(NonBlank(new)) = Len(new)
  <2>1. raw \in Seq(Line) /\ new = TrimSpace(raw)
    BY <1>14, <1>17
  <2> QED  BY ONLY <1>18, <2>1, Trimmed
<1>20. PICK d, n : d = (z - a) + 1 /\ n = (R - a) + 1
  OBVIOUS
<1>21. d \in Int /\ n \in Int /\ n = Len(new) /\ 1 <= d /\ d + 2 < n /\ n = d + B + 3
  BY <1>2, <1>4, <1>17, <1>19, <1>20
<1>22. \A i \in 1..n : new[i] = raw[a + i - 1]
  BY <1>19, <1>20
<1>23. ASSUME NEW i \in 1..d
       PROVE  new[i] = doc[a + (i - 1)]
  <2>1. i \in 1..n /\ a + i - 1 \in 1..z /\ a + i - 1 = a + (i - 1)
    BY <1>4, <1>20, <1>21
  <2> QED  BY <1>17, <1>22, <2>1
<1>24. new[d + 2] = "start" /\ new[n] = "end"
  <2>1. d + 2 \in 1..n /\ n \in 1..n /\ a + (d + 2) - 1 = z + 2 /\ a + n - 1 = R
    BY <1>2, <1>4, <1>17, <1>20, <1>21
  <2>2. new[d + 2] = raw[a + (d + 2) - 1] /\ new[n] = raw[a + n - 1]
    BY <1>22, <2>1
  <2> QED  BY <1>17, <2>1, <2>2
<1>25. ASSUME NEW i \in (d + 1)..(n - 1)
       PROVE  new[i] # "end"
  <2>1. PICK k : k = a + i - 1
    OBVIOUS
  <2>2. i \in 1..n /\ k \in Int /\ z + 1 <= k /\ k < R
    BY <1>2, <1>4, <1>17, <1>20, <1>21, <2>1
  <2>3. new[i] = raw[k]
    BY <1>22, <2>1, <2>2
  <2>4. CASE k = z + 1
    BY <1>17, <2>3, <2>4
  <2>5. CASE k = z + 2
    BY <1>17, <2>3, <2>5
  <2>6. CASE k > z + 2
    <3>1. PICK j : j = k - (z + 2)
      OBVIOUS
    <3>2. j \in 1..B /\ k = z + 2 + j
      BY <1>2, <1>4, <1>17, <2>2, <2>6, <3>1
    <3> QED  BY <1>1, <1>17, <2>3, <3>2
  <2> QED  BY <1>4, <2>2, <2>4, <2>5, <2>6
<1>26. Extent(doc, a, z)
  BY <1>1, <1>3, <1>4 DEF Extent
<1>27. Grown(doc, a, z, d, n, new)
  BY ONLY <1>1, <1>4, <1>20, <1>21, <1>23, <1>24, <1>25, <1>26 DEF Grown
<1>28. /\ new \in Seq(Line)
       /\ NonBlank(new) # {} /\ Min(NonBlank(new)) = 1 /\ Max(NonBlank(new)) = Len(new)
  BY ONLY <1>19
<1> QED  BY ONLY <1>27, <1>28

\* No line is lost where a block is added: one that has no end, an end that has no
\* beginning, or none at all.
LEMMA AppendedKeeps ==
  ASSUME NEW doc \in Seq(Line), ~Marked(doc), NEW block \in Seq(Line),
         \A i \in 1..Len(block) : block[i] \notin {"start", "end"},
         NEW new, new = TrimSpace(Appended(doc, block))
  PROVE  new \in Seq(Line) /\ Len(new) >= 1 /\ Keeps(doc, new)
<1>1. CASE NonBlank(doc) = {}
  <2>1. PICK empty, raw : empty = <<>> /\ raw = Fenced(empty, block)
    OBVIOUS
  <2>2. empty \in Seq(Line) /\ Len(empty) = 0 /\ block \in Seq(Line) /\ empty \o empty = empty
    BY <2>1
  <2>3. AllLines(empty, block, raw)
    BY ONLY <2>1, <2>2, FreshBlock
  <2>4. Appended(doc, block) = raw
    BY <1>1, <2>1, <2>2 DEF Appended, Fenced, TrimRight
  <2>5. PICK R : R = Len(raw)
    OBVIOUS
  <2>6. raw \in Seq(Line) /\ R \in Int /\ R >= 2 /\ raw[1] = "start" /\ raw[R] = "end"
    BY <2>2, <2>3, <2>5 DEF AllLines
  <2>7. Extent(raw, 1, R)
    BY <2>5, <2>6 DEF Extent
  <2>8. new \in Seq(Line) /\ Len(new) = (R - 1) + 1
    <3>1. new = TrimSpace(raw)
      BY <2>4
    <3> QED  BY ONLY <2>6, <2>7, <3>1, Trimmed
  <2>9. Before(doc) = <<>> /\ After(doc) = <<>>
    <3>1. PICK s : s = Find(doc, "start")
      OBVIOUS
    <3>2. s \in 0..Len(doc) /\ (s # 0 => doc[s] = "start")
      BY <3>1, FindFacts
    <3>3. s = 0
      BY <1>1, <3>2 DEF NonBlank
    <3> QED  BY <1>1, <3>1, <3>3 DEF Before, After, TrimSpace
  <2>10. Before(new) \in Seq(Line) /\ After(new) \in Seq(Line)
    BY <2>8, PartsType
  <2>11. IsPrefix(<<>>, Before(new))
    BY <2>10, PrefixOfEmpty
  <2>12. IsSuffix(<<>>, After(new))
    BY <2>10, SuffixOfEmpty
  <2> QED  BY <2>6, <2>8, <2>9, <2>11, <2>12 DEF Keeps
<1>2. CASE NonBlank(doc) # {}
  <2>1. /\ new \in Seq(Line)
        /\ NonBlank(new) # {} /\ Min(NonBlank(new)) = 1 /\ Max(NonBlank(new)) = Len(new)
        /\ \E a, z, d, n : Grown(doc, a, z, d, n, new)
    BY <1>2, AppendedFacts
  <2>2. PICK a, z, d, n : Grown(doc, a, z, d, n, new)
    BY <2>1
  <2>3. PICK L : L = Len(doc)
    OBVIOUS
  <2>4. /\ a \in Int /\ z \in Int /\ d \in Int /\ n \in Int /\ L \in Nat /\ n = Len(new)
        /\ 1 <= a /\ a <= z /\ z <= L /\ d = (z - a) + 1 /\ d + 2 < n
    BY <2>2, <2>3 DEF Grown, Extent
  <2>5. /\ a = Min(NonBlank(doc)) /\ z = Max(NonBlank(doc))
        /\ \A i \in 1..L : doc[i] # "blank" => a <= i /\ i <= z
    BY <2>2, <2>3 DEF Grown, Extent
  <2>6. \A i \in 1..d : new[i] = doc[a + (i - 1)]
    BY <2>2 DEF Grown
  <2>7. new[d + 2] = "start" /\ new[n] = "end" /\ \A i \in (d + 1)..(n - 1) : new[i] # "end"
    BY <2>2 DEF Grown
  <2>8. PICK s, e : s = Find(doc, "start") /\ e = Find(doc, "end")
    OBVIOUS
  <2>9. /\ s \in 0..L /\ (s = 0 => \A i \in 1..L : doc[i] # "start")
        /\ (s # 0 => doc[s] = "start" /\ \A i \in 1..(s - 1) : doc[i] # "start")
    BY <2>3, <2>8, FindFacts
  <2>10. /\ e \in 0..L /\ (e = 0 => \A i \in 1..L : doc[i] # "end")
         /\ (e # 0 => doc[e] = "end" /\ \A i \in 1..(e - 1) : doc[i] # "end")
    BY <2>3, <2>8, FindFacts
  <2>11. PICK f, g : f = Find(new, "start") /\ g = Find(new, "end")
    OBVIOUS
  <2>12. /\ f \in 0..n /\ (f = 0 => \A i \in 1..n : new[i] # "start")
         /\ (f # 0 => new[f] = "start" /\ \A i \in 1..(f - 1) : new[i] # "start")
    BY <2>1, <2>4, <2>11, FindFacts
  <2>13. /\ g \in 0..n /\ (g = 0 => \A i \in 1..n : new[i] # "end")
         /\ (g # 0 => new[g] = "end" /\ \A i \in 1..(g - 1) : new[i] # "end")
    BY <2>1, <2>4, <2>11, FindFacts
  <2>14. f # 0 /\ f <= d + 2
    BY <2>4, <2>7, <2>12
  <2>15. g # 0 /\ g <= n
    BY <2>4, <2>7, <2>13
  <2>16. f <= d => s # 0 /\ s <= a + (f - 1)
    <3> HAVE f <= d
    <3>1. f \in 1..d /\ a + (f - 1) \in 1..L
      BY <2>4, <2>12, <2>14
    <3>2. doc[a + (f - 1)] = "start"
      BY <2>6, <2>12, <2>14, <3>1
    <3> QED  BY <2>4, <2>9, <3>1, <3>2
  <2>17. s # 0 => a <= s /\ s <= z
    BY <2>5, <2>9
  <2>18. ~(0 < s /\ s < e)
    BY <2>8 DEF Marked
  <2>19. After(doc) = <<>>
    BY DEF After
  <2>20. Before(new) \in Seq(Line) /\ After(new) \in Seq(Line)
    BY <2>1, PartsType
  <2>21. IsSuffix(After(doc), After(new))
    BY <2>19, <2>20, SuffixOfEmpty
  <2>22. ASSUME NEW m \in Int, NEW k \in Int, a <= m, m <= z, m - a < k, k <= n
         PROVE  IsPrefix(SubSeq(doc, a, m), SubSeq(new, 1, k))
    <3>1. ASSUME NEW i \in 1..((m - a) + 1)
          PROVE  new[i] = doc[a + (i - 1)]
      <4>1. i \in 1..d
        BY <2>4, <2>22
      <4> QED  BY <2>6, <4>1
    <3>2. 1 <= a /\ a <= m /\ m <= Len(doc) /\ m - a < k /\ k <= Len(new)
      BY <2>3, <2>4, <2>22
    <3>3. doc \in Seq(Line) /\ new \in Seq(Line) /\ a \in Int /\ m \in Int /\ k \in Int
      BY <2>1, <2>4
    <3> QED  BY ONLY <3>1, <3>2, <3>3, SlicePrefix
  <2>23. IsPrefix(Before(doc), Before(new))
    <3>1. CASE e = 0
      <4>1. g = n
        <5>1. ASSUME g < n PROVE FALSE
          <6>1. g \in 1..(n - 1) /\ new[g] = "end"
            BY <2>4, <2>13, <2>15, <5>1
          <6>2. g \in 1..d
            BY <2>4, <2>7, <6>1
          <6>3. a + (g - 1) \in 1..L /\ doc[a + (g - 1)] = "end"
            BY <2>4, <2>6, <6>1, <6>2
          <6> QED  BY <2>10, <3>1, <6>3
        <5> QED  BY <2>4, <2>13, <2>15, <5>1
      <4>2. f \in Int /\ 0 < f /\ f < g
        BY <2>4, <2>12, <2>14, <4>1
      <4>3. Before(new) = SubSeq(new, 1, f)
        BY <2>1, <2>11, <4>2 DEF Before, Marked
      <4>4. CASE s = 0
        <5>1. Before(doc) = SubSeq(doc, a, z)
          BY <1>2, <2>5, <2>8, <4>4 DEF Before, TrimSpace
        <5>2. z - a < f
          BY <2>4, <2>16, <4>2, <4>4
        <5>3. a <= z /\ z <= z /\ f <= n
          BY <2>4, <2>12
        <5> QED  BY <2>4, <2>22, <4>2, <4>3, <5>1, <5>2, <5>3
      <4>5. CASE s # 0
        <5>1. Before(doc) = SubSeq(doc, a, s)
          BY <2>5, <2>8, <3>1, <4>5 DEF Before
        <5>2. s - a < f
          BY <2>4, <2>9, <2>16, <2>17, <4>2, <4>5
        <5>3. s \in Int /\ a <= s /\ s <= z /\ f <= n
          BY <2>4, <2>9, <2>12, <2>17, <4>5
        <5> QED  BY <2>22, <4>2, <4>3, <5>1, <5>2, <5>3
      <4> QED  BY <4>4, <4>5
    <3>2. CASE e # 0
      <4>1. Before(doc) = SubSeq(doc, a, z)
        BY <1>2, <2>5, <2>8, <3>2 DEF Before, TrimSpace
      <4>2. a <= e /\ e <= z /\ e \in Int
        <5>1. e \in 1..L /\ doc[e] # "blank"
          BY <2>4, <2>10, <3>2
        <5>2. a <= e /\ e <= z
          BY <2>5, <5>1
        <5> QED  BY <5>1, <5>2
      <4>3. PICK j : j = (e - a) + 1
        OBVIOUS
      <4>4. j \in 1..d /\ a + (j - 1) = e
        BY <2>4, <4>2, <4>3
      <4>5. new[j] = "end"
        BY <2>6, <2>10, <3>2, <4>4
      <4>6. g <= j
        BY <2>4, <2>13, <2>15, <4>4, <4>5
      <4>7. ~(f < g)
        <5>1. CASE f <= d
          <6>1. s # 0 /\ s <= a + (f - 1) /\ s >= e
            BY <2>4, <2>9, <2>10, <2>16, <2>18, <5>1
          <6> QED  BY <2>4, <2>9, <2>12, <2>13, <4>2, <4>3, <4>6, <6>1
        <5>2. CASE f > d
          BY <2>4, <2>12, <2>13, <4>4, <4>6, <5>2
        <5> QED  BY <2>4, <2>12, <5>1, <5>2
      <4>8. Before(new) = SubSeq(new, 1, n)
        BY <2>1, <2>4, <2>11, <2>15, <4>7 DEF Before, Marked, TrimSpace
      <4>9. a <= z /\ z <= z /\ z - a < n /\ n <= n
        BY <2>4
      <4> QED  BY <2>4, <2>22, <4>1, <4>8, <4>9
    <3> QED  BY <3>1, <3>2
  <2>24. Len(new) >= 1
    BY <2>4
  <2> QED  BY <2>1, <2>21, <2>23, <2>24 DEF Keeps
<1> QED  BY <1>1, <1>2

-----------------------------------------------------------------------------
\* One call of UpdateIndex.
LEMMA MergedKeeps ==
  ASSUME NEW doc \in Seq(Line), NEW entries \in SUBSET Name
  PROVE  /\ Merged(doc, entries) \in Seq(Line) /\ Len(Merged(doc, entries)) >= 1
         /\ Keeps(doc, Merged(doc, entries))
         /\ Marked(doc) => Listed(Merged(doc, entries)) = entries
<1>1. PICK block : block = Block(entries)
  OBVIOUS
<1>2. /\ block \in Seq(Line)
      /\ \A i \in 1..Len(block) : block[i] \notin {"start", "end"}
      /\ {block[i] : i \in 1..Len(block)} \cap Name = entries
  BY <1>1, BlockFacts
<1>3. PICK new : new = Merged(doc, entries)
  OBVIOUS
<1>4. "start" \notin Name /\ "end" \notin Name /\ "start" \in Line /\ "end" \in Line
  BY MemoryIndexAssumption DEF Line, Written
<1>5. CASE Marked(doc)
  <2>1. doc # <<>>
    <3>1. Find(doc, "start") \in 0..Len(doc)
      BY FindFacts
    <3>2. doc = <<>> => Len(doc) = 0
      OBVIOUS
    <3> QED  BY <1>5, <3>1, <3>2 DEF Marked
  <2>2. new = TrimSpace(Substitute(doc, block))
    BY <1>1, <1>3, <2>1 DEF Merged
  <2>3. Replaced(doc, block, new)
    BY <1>2, <1>5, <2>2, MarkedKeeps
  <2>4. IsPrefix(Before(doc), Before(new)) /\ IsSuffix(After(doc), After(new))
    BY <2>3, SelfPrefix DEF Replaced
  <2>5. Listed(new) = entries
    BY <1>2, <1>4, <2>3 DEF Listed, Replaced
  <2> QED  BY <1>3, <2>3, <2>4, <2>5 DEF Keeps, Replaced
<1>6. CASE doc = <<>>
  <2>1. PICK s : s = Scaffold
    OBVIOUS
  <2>2. s \in Seq(Line) /\ Len(s) = 2 /\ s[1] = "start" /\ s[2] = "end"
    BY <1>4, <2>1 DEF Scaffold
  <2>3. Marked(s)
    <3>1. /\ Find(s, "start") \in 0..2 /\ Find(s, "end") \in 0..2
          /\ (Find(s, "start") = 0 => \A i \in 1..2 : s[i] # "start")
          /\ (Find(s, "end") = 0 => \A i \in 1..2 : s[i] # "end")
          /\ (Find(s, "start") # 0 => s[Find(s, "start")] = "start")
          /\ (Find(s, "end") # 0 => s[Find(s, "end")] = "end")
      BY <2>2, FindFacts
    <3> QED  BY <2>2, <3>1 DEF Marked
  <2>4. new = TrimSpace(Substitute(s, block))
    BY <1>1, <1>3, <1>6, <2>1 DEF Merged
  <2>5. new \in Seq(Line) /\ Len(new) >= 1
    BY <1>2, <2>2, <2>3, <2>4, MarkedKeeps DEF Replaced
  <2>6. Before(doc) = <<>> /\ After(doc) = <<>> /\ ~Marked(doc)
    <3>1. doc \in Seq(Line) /\ Len(doc) = 0 /\ DOMAIN doc = {}
      BY <1>6
    <3>2. Find(doc, "start") \in 0..0
      BY <3>1, FindFacts
    <3>3. Find(doc, "start") = 0 /\ NonBlank(doc) = {}
      BY <3>1, <3>2 DEF NonBlank
    <3> QED  BY <3>3 DEF Before, After, Marked, TrimSpace
  <2>7. Before(new) \in Seq(Line) /\ After(new) \in Seq(Line)
    BY <2>5, PartsType
  <2>8. IsPrefix(<<>>, Before(new)) /\ IsSuffix(<<>>, After(new))
    BY <2>7, PrefixOfEmpty, SuffixOfEmpty
  <2> QED  BY <1>3, <2>5, <2>6, <2>8 DEF Keeps
<1>7. CASE ~Marked(doc) /\ doc # <<>>
  <2>1. new = TrimSpace(Appended(doc, block))
    BY <1>1, <1>3, <1>7 DEF Merged, Substitute
  <2>2. new \in Seq(Line) /\ Len(new) >= 1 /\ Keeps(doc, new)
    BY <1>2, <1>7, <2>1, AppendedKeeps
  <2> QED  BY <1>3, <1>7, <2>2
<1> QED  BY <1>5, <1>6, <1>7

\* What UpdateIndex writes (entrypoint.go).
LEMMA UpdateKeeps ==
  ASSUME NEW doc \in Seq(Line), NEW entries \in SUBSET Name
  PROVE  /\ Updated(doc, entries) \in Seq(Line) /\ Updated(doc, entries) # <<>>
         /\ Fits(doc, entries) => Keeps(doc, Updated(doc, entries))
         /\ Fits(doc, entries) /\ Marked(doc) => Listed(Updated(doc, entries)) = entries
<1>1. PICK new : new = Merged(doc, entries)
  OBVIOUS
<1>2. /\ new \in Seq(Line) /\ Len(new) >= 1 /\ Keeps(doc, new)
      /\ Marked(doc) => Listed(new) = entries
  BY <1>1, MergedKeeps
<1>3. CASE Fits(doc, entries)
  <2>1. Updated(doc, entries) = new
    BY <1>1, <1>3 DEF Updated
  <2>2. new # <<>>
    BY <1>2
  <2> QED  BY <1>2, <2>1, <2>2
<1>4. CASE ~Fits(doc, entries)
  <2>1. PICK cut : cut = SubSeq(new, 1, MaxLines)
    OBVIOUS
  <2>2. cut \in Seq(Line)
    <3>1. PICK n : n = Len(new)
      OBVIOUS
    <3>2. n \in Nat /\ ~(n <= MaxLines) /\ MaxLines \in Nat
      BY <1>1, <1>2, <1>4, <3>1, MemoryIndexAssumption DEF Fits
    <3>3. 1 \in 1..n /\ MaxLines \in 0..n /\ 1 <= MaxLines + 1
      BY <3>2
    <3> QED  BY <1>2, <2>1, <3>1, <3>3, Slice
  <2>3. PICK tail : tail = <<"blank", "warning">>
    OBVIOUS
  <2>4. tail \in Seq(Line) /\ Len(tail) = 2
    BY <2>3 DEF Line, Written
  <2>5. cut \o tail \in Seq(Line) /\ Len(cut \o tail) = Len(cut) + Len(tail)
    BY <2>2, <2>4, ConcatProperties
  <2>6. Len(cut) \in Nat /\ cut \o tail # <<>>
    BY <2>2, <2>4, <2>5
  <2>7. Updated(doc, entries) = cut \o tail
    BY <1>1, <1>4, <2>1, <2>3 DEF Updated
  <2> QED  BY <1>4, <2>5, <2>6, <2>7
<1> QED  BY <1>3, <1>4

\* What is kept is kept for good.
LEMMA KeepsOrder ==
  ASSUME NEW p \in Seq(Line), NEW q \in Seq(Line), NEW r \in Seq(Line), Keeps(p, q), Keeps(q, r)
  PROVE  Keeps(p, r)
<1>1. /\ Before(p) \in Seq(Line) /\ Before(q) \in Seq(Line) /\ Before(r) \in Seq(Line)
      /\ After(p) \in Seq(Line) /\ After(q) \in Seq(Line) /\ After(r) \in Seq(Line)
  BY PartsType
<1>2. IsPrefix(Before(p), Before(r))
  BY <1>1, PrefixOrder DEF Keeps
<1>3. PICK x, y, z : x = Reverse(After(p)) /\ y = Reverse(After(q)) /\ z = Reverse(After(r))
  OBVIOUS
<1>4. x \in Seq(Line) /\ y \in Seq(Line) /\ z \in Seq(Line)
  BY <1>1, <1>3, ReverseType
<1>5. IsPrefix(x, y) /\ IsPrefix(y, z)
  BY <1>3 DEF Keeps, IsSuffix
<1>6. IsPrefix(x, z)
  BY <1>4, <1>5, PrefixOrder
<1> QED  BY <1>2, <1>3, <1>6 DEF Keeps, IsSuffix

-----------------------------------------------------------------------------
(* The index under every interleaving *)

DataOK ==
  /\ files \subseteq Name /\ damaged \subseteq Name /\ index \in Seq(Line)
  /\ tmp \in [there : BOOLEAN, text : Seq(Line)]
  /\ batch \in [Task -> SUBSET Name] /\ draft \in [Task -> Seq(Line)]
  /\ target \in [Task -> {"none", "tmp", "index"}] /\ pc \in [Task -> Places]
  /\ collisions \in Nat

Opened == [there |-> TRUE, text |-> <<>>]

\* One task at a time replaces MEMORY.md, and the temporary file is its own.
OneReplaces ==
  collisions = 0 =>
    /\ \A t, u \in Task : Replacing(t) /\ Replacing(u) => t = u
    /\ \A t \in Task : target[t] # "none" => pc[t] = "fill"
    /\ \A t \in Task : pc[t] = "fill" => target[t] = "tmp" /\ tmp = Opened
    /\ \A t \in Task : pc[t] = "rename" => tmp.there
    /\ \A t \in Task : pc[t] # "discard"

\* No version of MEMORY.md has lost a line, those not yet installed included.
IndexKept ==
  overflowed \/ collisions > 0 \/
    /\ Keeps(InitialIndex, index)
    /\ \A t \in Task : pc[t] \in {"open", "fill"} => Keeps(InitialIndex, draft[t])
    /\ \A t \in Task : pc[t] = "rename" => Keeps(InitialIndex, tmp.text)

\* What a task that runs alone has rebuilt is what it would rebuild now.
Alone ==
  ~disturbed =>
    /\ \A t, u \in Task : pc[t] # "idle" /\ pc[u] # "idle" => t = u
    /\ \A t \in Task : pc[t] \in {"open", "fill"} => draft[t] = Updated(index, files)
    /\ \A t \in Task : pc[t] = "fill" => target[t] = "tmp" /\ tmp = Opened
    /\ \A t \in Task : pc[t] = "rename" => tmp = [there |-> TRUE, text |-> Updated(index, files)]

IndexInv == DataOK /\ OneReplaces /\ IndexKept /\ Alone

-----------------------------------------------------------------------------
\* What Goto does to pc.
LEMMA MoveData ==
  ASSUME DataOK, NEW t \in Task, NEW from, NEW to \in Places, Goto(t, from, to)
  PROVE  /\ pc[t] = from /\ pc'[t] = to /\ pc' \in [Task -> Places]
         /\ \A u \in Task : u # t => pc'[u] = pc[u]
BY DEF DataOK, Goto

\* A file that was just opened holds what is written to it.
LEMMA OverType ==
  ASSUME NEW old \in Seq(Line), NEW text \in Seq(Line)
  PROVE  Over(old, text) \in Seq(Line) /\ (old = <<>> => Over(old, text) = text)
<1>1. PICK m : m = Len(text) + 1
  OBVIOUS
<1>2. PICK n : n = Len(old)
  OBVIOUS
<1>3. m \in Nat /\ n \in Nat /\ m >= 1
  BY <1>1, <1>2
<1>4. \A i \in m..n : old[i] \in Line
  BY <1>2, <1>3
<1>5. /\ SubSeq(old, m, n) \in Seq(Line)
      /\ Len(SubSeq(old, m, n)) = IF m <= n THEN n - m + 1 ELSE 0
  BY <1>3, <1>4, SubSeqProperties
<1>6. PICK rest : rest = SubSeq(old, m, n)
  OBVIOUS
<1>7. rest \in Seq(Line) /\ Over(old, text) = text \o rest
  BY <1>1, <1>2, <1>5, <1>6 DEF Over
<1>8. Over(old, text) \in Seq(Line)
  BY <1>7, ConcatProperties
<1>9. ASSUME old = <<>>
      PROVE  Over(old, text) = text
  <2>1. n = 0 /\ ~(m <= n)
    BY <1>2, <1>3, <1>9
  <2>2. Len(rest) = 0
    BY <1>5, <1>6, <2>1
  <2>3. rest = <<>>
    BY <1>7, <2>2, EmptySeq
  <2> QED  BY <1>7, <2>3, ConcatEmptySeq
<1> QED  BY <1>8, <1>9

\* A step of a task that runs alone.
LEMMA StepAlone ==
  ASSUME DataOK, Alone, NEW t \in Task, pc[t] # "idle", ~disturbed' => ~disturbed,
         \A u \in Task : u # t => pc'[u] = pc[u],
         pc'[t] \in {"open", "fill"} => disturbed' \/ draft'[t] = Updated(index', files'),
         pc'[t] = "fill" => target'[t] = "tmp" /\ tmp' = Opened,
         pc'[t] = "rename" =>
           disturbed' \/ tmp' = [there |-> TRUE, text |-> Updated(index', files')]
  PROVE  Alone'
<1> SUFFICES ASSUME ~disturbed'
             PROVE  /\ \A u, v \in Task : pc'[u] # "idle" /\ pc'[v] # "idle" => u = v
                    /\ \A u \in Task : pc'[u] \in {"open", "fill"} => draft'[u] = Updated(index', files')
                    /\ \A u \in Task : pc'[u] = "fill" => target'[u] = "tmp" /\ tmp' = Opened
                    /\ \A u \in Task : pc'[u] = "rename" =>
                         tmp' = [there |-> TRUE, text |-> Updated(index', files')]
  BY DEF Alone, Opened
<1>1. \A u \in Task : pc[u] # "idle" => u = t
  BY DEF Alone
<1>2. \A u \in Task : pc'[u] # "idle" => u = t
  BY <1>1
<1> QED  BY <1>2

\* The first task after a pause starts alone; another one makes disturbed true.
LEMMA BeginAlone ==
  ASSUME DataOK, NEW t \in Task, NEW to \in {"write", "stat"}, Goto(t, "idle", to), Begins
  PROVE  Alone'
<1>1. to \in Places
  BY DEF Places
<1>2. pc'[t] = to /\ \A u \in Task : u # t => pc'[u] = pc[u]
  BY <1>1, MoveData
<1>3. disturbed' \/ \A u \in Task : u # t => pc'[u] = "idle"
  BY <1>2 DEF Begins, Quiet
<1> QED  BY <1>2, <1>3 DEF Alone

\* Steps away from MEMORY.md and its temporary file.
LEMMA Elsewhere ==
  ASSUME DataOK, OneReplaces, IndexKept,
         index' = index, tmp' = tmp, draft' = draft, target' = target,
         overflowed' = overflowed, collisions' = collisions,
         \A t \in Task : \/ pc'[t] = pc[t]
                         \/ /\ pc[t] \notin {"open", "fill", "rename", "discard"}
                            /\ pc'[t] \notin {"open", "fill", "rename", "discard"}
  PROVE  OneReplaces' /\ IndexKept'
<1>1. \A t \in Task : Replacing(t)' <=> Replacing(t)
  BY DEF Replacing
<1>2. OneReplaces'
  BY <1>1 DEF OneReplaces, Opened
<1>3. IndexKept'
  BY DEF IndexKept
<1> QED  BY <1>2, <1>3

-----------------------------------------------------------------------------
\* A goroutine starts.
LEMMA BeginIndex ==
  ASSUME IndexInv, (\E e \in Extractor, answer \in Answer : Extract(e, answer))
                     \/ \E c \in Consolidator : CheckDreamGate(c)
  PROVE  IndexInv'
<1> USE DEF IndexInv
<1>1. PICK t \in Task, to \in {"write", "stat"} :
        Goto(t, "idle", to) /\ batch' \in [Task -> SUBSET Name]
  <2>1. CASE \E e \in Extractor, answer \in Answer : Extract(e, answer)
    <3>1. PICK e \in Extractor, answer \in Answer : Extract(e, answer)
      BY <2>1
    <3>2. e \in Task /\ answer \in SUBSET Name
      BY MemoryAssumption DEF Task
    <3> QED  BY <3>1, <3>2 DEF Extract, DataOK
  <2>2. CASE \E c \in Consolidator : CheckDreamGate(c)
    BY <2>2 DEF CheckDreamGate, DataOK, Task, taskVars
  <2> QED  BY <2>1, <2>2
<1>2. /\ Begins /\ UNCHANGED <<fileVars, draft, target>>
      /\ overflowed' = overflowed /\ collisions' = collisions
  BY DEF Extract, CheckDreamGate, Begins, taskVars
<1>3. /\ pc[t] = "idle" /\ pc'[t] = to /\ pc' \in [Task -> Places]
      /\ \A u \in Task : u # t => pc'[u] = pc[u]
  BY <1>1, MoveData DEF Places
<1>4. DataOK'
  BY <1>1, <1>2, <1>3 DEF DataOK, fileVars, entryVars, indexVars
<1>5. OneReplaces' /\ IndexKept'
  <2>1. \A u \in Task : \/ pc'[u] = pc[u]
                        \/ /\ pc[u] \notin {"open", "fill", "rename", "discard"}
                           /\ pc'[u] \notin {"open", "fill", "rename", "discard"}
    BY <1>3
  <2> QED  BY <1>2, <2>1, Elsewhere DEF fileVars, indexVars
<1>6. Alone'
  BY <1>1, <1>2, BeginAlone
<1> QED  BY <1>4, <1>5, <1>6

\* The lock, the call and the entries: a consolidation but for its SaveExtracted, and
\* the writing of an entry, which may fail.
LEMMA OtherIndex ==
  ASSUME IndexInv, NEW t \in Task,
         \/ /\ t \in Consolidator
            /\ \/ StatLock(t) \/ EvictLock(t) \/ CreateLock(t) \/ CallFails(t)
               \/ \E answer \in Answer : RemoveEntries(t, answer)
               \/ \E left \in SUBSET Name : RemoveFails(t, left)
               \/ MarkConsolidated(t) \/ Release(t)
         \/ (\E n \in Name : WriteEntry(t, n)) \/ SaveFails(t)
  PROVE  IndexInv'
<1> USE DEF IndexInv
<1>1. /\ UNCHANGED <<indexVars, draft, target, overflowed, collisions>>
      /\ ~disturbed' => ~disturbed
  BY DEF StatLock, EvictLock, CreateLock, CallFails, RemoveEntries, RemoveFails, Fails,
     MarkConsolidated, Release, WriteEntry, SaveFails, fileVars, taskVars, histVars
<1>2. /\ files' \subseteq Name /\ damaged' \subseteq Name /\ batch' \in [Task -> SUBSET Name]
  <2>1. CASE StatLock(t) \/ EvictLock(t) \/ CreateLock(t) \/ CallFails(t)
               \/ MarkConsolidated(t) \/ Release(t)
    BY <2>1 DEF StatLock, EvictLock, CreateLock, CallFails, MarkConsolidated, Release,
       fileVars, entryVars, taskVars, DataOK
  <2>2. CASE \E answer \in Answer : RemoveEntries(t, answer)
    <3>1. PICK answer \in SUBSET Name : RemoveEntries(t, answer)
      BY <2>2, MemoryAssumption
    <3> QED  BY <3>1 DEF RemoveEntries, DataOK
  <2>3. CASE \E left \in SUBSET Name : RemoveFails(t, left)
    BY <2>3 DEF RemoveFails, DataOK, taskVars
  <2>4. CASE \E n \in Name : WriteEntry(t, n)
    BY <2>4 DEF WriteEntry, DataOK
  <2>5. CASE SaveFails(t)
    BY <2>5 DEF SaveFails, DataOK, fileVars, entryVars
  <2> QED  BY <2>1, <2>2, <2>3, <2>4, <2>5
<1>3. /\ pc[t] \notin {"idle", "open", "fill", "rename", "discard"}
      /\ pc'[t] \notin {"open", "fill", "rename", "discard"}
      /\ pc' \in [Task -> Places]
      /\ \A u \in Task : u # t => pc'[u] = pc[u]
  <2>1. CASE \E n \in Name : WriteEntry(t, n)
    BY <2>1 DEF WriteEntry, DataOK
  <2>2. CASE ~\E n \in Name : WriteEntry(t, n)
    <3>1. PICK from \in {"stat", "evict", "create", "call", "write", "mark", "release"},
               to \in {"evict", "create", "call", "write", "release", "idle"} : Goto(t, from, to)
      <4>1. CASE StatLock(t)
        BY <4>1 DEF StatLock
      <4>2. CASE CreateLock(t)
        BY <4>2 DEF CreateLock
      <4>3. CASE EvictLock(t) \/ CallFails(t) \/ MarkConsolidated(t) \/ Release(t)
        BY <4>3 DEF EvictLock, CallFails, MarkConsolidated, Release
      <4>4. CASE (\E answer \in Answer : RemoveEntries(t, answer))
                   \/ \E left \in SUBSET Name : RemoveFails(t, left)
        BY <4>4 DEF RemoveEntries, RemoveFails
      <4>5. CASE SaveFails(t)
        BY <4>5 DEF SaveFails, AfterFailure
      <4> QED  BY <2>2, <4>1, <4>2, <4>3, <4>4, <4>5
    <3> QED  BY <3>1, MoveData DEF Places
  <2> QED  BY <2>1, <2>2
<1>4. DataOK'
  BY <1>1, <1>2, <1>3 DEF DataOK, indexVars
<1>5. OneReplaces' /\ IndexKept'
  <2>1. \A u \in Task : \/ pc'[u] = pc[u]
                        \/ /\ pc[u] \notin {"open", "fill", "rename", "discard"}
                           /\ pc'[u] \notin {"open", "fill", "rename", "discard"}
    BY <1>3
  <2> QED  BY <1>1, <2>1, Elsewhere DEF indexVars
<1>6. Alone'
  BY <1>1, <1>3, StepAlone
<1> QED  BY <1>4, <1>5, <1>6

\* The document is rebuilt.
LEMMA UpdateIndexIndex ==
  ASSUME IndexInv, NEW t \in Task, UpdateIndex(t)
  PROVE  IndexInv'
<1> USE DEF IndexInv
<1>1. /\ draft' = [draft EXCEPT ![t] = Updated(index, files)]
      /\ overflowed' = (overflowed \/ ~Fits(index, files))
      /\ UNCHANGED <<files, damaged, index, tmp, batch, target, collisions, disturbed>>
  BY DEF UpdateIndex, fileVars, entryVars, indexVars
<1>2. /\ pc[t] = "write" /\ pc'[t] = "open" /\ pc' \in [Task -> Places]
      /\ \A u \in Task : u # t => pc'[u] = pc[u]
  BY MoveData DEF UpdateIndex, Places
<1>3. index \in Seq(Line) /\ files \in SUBSET Name /\ InitialIndex \in Seq(Line)
  BY MemoryAssumption DEF DataOK
<1>4. /\ Updated(index, files) \in Seq(Line)
      /\ Fits(index, files) => Keeps(index, Updated(index, files))
  BY <1>3, UpdateKeeps
<1>5. /\ draft' \in [Task -> Seq(Line)] /\ draft'[t] = Updated(index, files)
      /\ \A u \in Task : u # t => draft'[u] = draft[u]
  BY <1>1, <1>4 DEF DataOK
<1>6. DataOK'
  BY <1>1, <1>2, <1>5 DEF DataOK
<1>7. OneReplaces'
  BY <1>1, <1>2 DEF OneReplaces, Replacing, Opened
<1>8. IndexKept'
  <2>1. CASE overflowed' \/ collisions > 0
    BY <1>1, <2>1 DEF IndexKept
  <2>2. CASE ~overflowed' /\ ~(collisions > 0)
    <3>1. Keeps(InitialIndex, index) /\ Keeps(index, Updated(index, files))
      BY <1>1, <1>4, <2>2 DEF IndexKept
    <3>2. Keeps(InitialIndex, Updated(index, files))
      BY <1>3, <1>4, <3>1, KeepsOrder
    <3> QED  BY <1>1, <1>2, <1>5, <2>2, <3>2 DEF IndexKept
  <2> QED  BY <2>1, <2>2
<1>9. Alone'
  BY <1>1, <1>2, <1>5, StepAlone
<1> QED  BY <1>6, <1>7, <1>8, <1>9

\* The temporary file is opened.
LEMMA OpenIndex ==
  ASSUME IndexInv, NEW t \in Task, OpenTmp(t)
  PROVE  IndexInv'
<1> USE DEF IndexInv
<1>1. /\ tmp' = Opened /\ target' = [target EXCEPT ![t] = "tmp"]
      /\ UNCHANGED <<files, damaged, index, batch, draft, overflowed, disturbed>>
  BY DEF OpenTmp, Opened, entryVars
<1>2. /\ pc[t] = "open" /\ pc'[t] = "fill" /\ pc' \in [Task -> Places]
      /\ \A u \in Task : u # t => pc'[u] = pc[u]
  BY MoveData DEF OpenTmp, Places
<1>3. /\ collisions' \in Nat
      /\ collisions' = 0 => collisions = 0 /\ \A u \in Task : ~Replacing(u)
  BY DEF OpenTmp, DataOK
<1>4. DataOK'
  <2>1. tmp' \in [there : BOOLEAN, text : Seq(Line)]
    BY <1>1 DEF Opened
  <2> QED  BY <1>1, <1>2, <1>3, <2>1 DEF DataOK
<1>5. OneReplaces'
  BY <1>1, <1>2, <1>3 DEF OneReplaces, Replacing, Opened, DataOK
<1>6. IndexKept'
  <2>1. CASE overflowed' \/ collisions' > 0
    BY <2>1 DEF IndexKept
  <2>2. CASE ~overflowed' /\ ~(collisions' > 0)
    <3>1. collisions = 0 /\ collisions' = 0 /\ \A u \in Task : pc[u] \notin {"fill", "rename"}
      BY <1>3, <2>2 DEF Replacing
    <3> QED  BY <1>1, <1>2, <2>2, <3>1 DEF IndexKept
  <2> QED  BY <2>1, <2>2
<1>7. Alone'
  <2>1. ~disturbed => draft[t] = Updated(index, files)
    BY <1>2 DEF Alone
  <2>2. target'[t] = "tmp" /\ tmp' = Opened
    BY <1>1 DEF DataOK
  <2> QED  BY <1>1, <1>2, <2>1, <2>2, StepAlone
<1> QED  BY <1>4, <1>5, <1>6, <1>7

\* The types of what is written, to whatever file.
LEMMA FillData ==
  ASSUME DataOK, NEW t \in Task, NEW text \in Seq(Line), Fill(t, text)
  PROVE  /\ files' = files /\ damaged' = damaged /\ batch' = batch
         /\ index' \in Seq(Line) /\ tmp' \in [there : BOOLEAN, text : Seq(Line)]
         /\ draft' = [draft EXCEPT ![t] = <<>>] /\ draft' \in [Task -> Seq(Line)]
         /\ target' = [target EXCEPT ![t] = "none"]
         /\ target' \in [Task -> {"none", "tmp", "index"}]
         /\ target[t] = "tmp" /\ tmp = Opened =>
              index' = index /\ tmp' = [there |-> TRUE, text |-> text]
<1>1. tmp.text \in Seq(Line) /\ index \in Seq(Line)
  BY DEF DataOK
<1>2. /\ Over(tmp.text, text) \in Seq(Line) /\ Over(index, text) \in Seq(Line)
      /\ tmp.text = <<>> => Over(tmp.text, text) = text
  BY <1>1, OverType
<1>3. index' \in Seq(Line)
  BY <1>2 DEF Fill, DataOK
<1>4. tmp' \in [there : BOOLEAN, text : Seq(Line)]
  BY <1>2 DEF Fill, DataOK
<1>5. ASSUME target[t] = "tmp", tmp = Opened
      PROVE  index' = index /\ tmp' = [there |-> TRUE, text |-> text]
  <2>1. tmp.text = <<>>
    BY <1>5 DEF Opened
  <2> QED  BY <1>2, <1>5, <2>1 DEF Fill
<1>6. draft' = [draft EXCEPT ![t] = <<>>] /\ target' = [target EXCEPT ![t] = "none"]
  BY DEF Fill
<1>7. draft' \in [Task -> Seq(Line)] /\ target' \in [Task -> {"none", "tmp", "index"}]
  BY <1>6 DEF DataOK
<1>8. files' = files /\ damaged' = damaged /\ batch' = batch
  BY DEF Fill, entryVars
<1> QED  BY <1>3, <1>4, <1>5, <1>6, <1>7, <1>8

\* The document is written, whole or in part.
LEMMA FillIndex ==
  ASSUME IndexInv, NEW t \in Task, WriteTmp(t) \/ WriteFails(t)
  PROVE  IndexInv'
<1> USE DEF IndexInv
<1>1. /\ pc[t] = "fill" /\ overflowed' = overflowed /\ collisions' = collisions
      /\ ~disturbed' => ~disturbed
  BY DEF WriteTmp, WriteFails, Fails, Goto, histVars
<1>2. PICK text \in Seq(Line), to \in {"rename", "release", "idle"} :
        /\ Fill(t, text) /\ Goto(t, "fill", to)
        /\ to = "rename" => text = draft[t]
        /\ to # "rename" => disturbed'
  <2>1. CASE WriteTmp(t)
    BY <2>1 DEF WriteTmp, DataOK
  <2>2. CASE WriteFails(t)
    <3>1. PICK n \in CutAt : n < Len(draft[t]) /\ Fill(t, SubSeq(draft[t], 1, n))
      BY <2>2 DEF WriteFails
    <3>2. PICK d \in Seq(Line) : d = draft[t]
      BY DEF DataOK
    <3>3. n \in Nat /\ Len(d) \in Nat /\ n < Len(d)
      BY <3>1, <3>2, MemoryAssumption
    <3>4. 1 \in 1..Len(d) /\ n \in 0..Len(d) /\ 1 <= n + 1
      BY <3>3
    <3>5. SubSeq(d, 1, n) \in Seq(Line)
      BY <3>4, Slice
    <3>6. \E to \in {"release", "idle"} : Goto(t, "fill", to)
      BY <2>2 DEF WriteFails, AfterFailure
    <3> QED  BY <2>2, <3>1, <3>2, <3>5, <3>6 DEF WriteFails, Fails
  <2> QED  BY <2>1, <2>2
<1>3. /\ pc'[t] = to /\ pc' \in [Task -> Places]
      /\ \A u \in Task : u # t => pc'[u] = pc[u]
  BY <1>2, MoveData DEF Places
<1>4. /\ files' = files /\ damaged' = damaged /\ batch' = batch
      /\ index' \in Seq(Line) /\ tmp' \in [there : BOOLEAN, text : Seq(Line)]
      /\ draft' = [draft EXCEPT ![t] = <<>>] /\ draft' \in [Task -> Seq(Line)]
      /\ target' = [target EXCEPT ![t] = "none"]
      /\ target' \in [Task -> {"none", "tmp", "index"}]
      /\ target[t] = "tmp" /\ tmp = Opened =>
           index' = index /\ tmp' = [there |-> TRUE, text |-> text]
  BY <1>2, FillData
<1>5. DataOK'
  BY <1>1, <1>3, <1>4 DEF DataOK
<1>6. OneReplaces'
  <2> SUFFICES ASSUME collisions = 0 PROVE OneReplaces'
    BY <1>1 DEF OneReplaces
  <2>1. target[t] = "tmp" /\ tmp = Opened /\ \A u \in Task : Replacing(u) => u = t
    BY <1>1 DEF OneReplaces, Replacing
  <2>2. tmp' = [there |-> TRUE, text |-> text]
    BY <1>4, <2>1
  <2>3. \A u \in Task : Replacing(u)' => u = t
    BY <1>3, <2>1 DEF Replacing
  <2>4. pc'[t] \notin {"fill", "discard"} /\ \A u \in Task : u # t => ~Replacing(u)'
    BY <1>3, <2>3
  <2>5. \A u \in Task : target'[u] = "none"
    BY <1>4, <2>1 DEF OneReplaces, Replacing, DataOK
  <2> QED  BY <2>2, <2>3, <2>4, <2>5 DEF OneReplaces, Replacing
<1>7. IndexKept'
  <2> SUFFICES ASSUME ~overflowed, collisions = 0 PROVE IndexKept'
    BY <1>1 DEF IndexKept, DataOK
  <2>1. target[t] = "tmp" /\ tmp = Opened /\ \A u \in Task : Replacing(u) => u = t
    BY <1>1 DEF OneReplaces, Replacing
  <2>2. index' = index /\ tmp' = [there |-> TRUE, text |-> text]
    BY <1>4, <2>1
  <2>3. /\ Keeps(InitialIndex, index) /\ Keeps(InitialIndex, draft[t])
        /\ \A u \in Task : pc[u] \in {"open", "fill"} => Keeps(InitialIndex, draft[u])
    BY <1>1 DEF IndexKept
  <2>4. \A u \in Task : pc'[u] = "rename" => u = t /\ Keeps(InitialIndex, tmp'.text)
    BY <1>2, <1>3, <2>1, <2>2, <2>3 DEF Replacing
  <2>5. \A u \in Task : pc'[u] \in {"open", "fill"} => Keeps(InitialIndex, draft'[u])
    BY <1>3, <1>4, <2>3 DEF DataOK
  <2> QED  BY <2>2, <2>3, <2>4, <2>5 DEF IndexKept
<1>8. Alone'
  <2>1. CASE to # "rename"
    BY <1>2, <2>1 DEF Alone
  <2>2. CASE to = "rename"
    <3>1. ~disturbed => /\ draft[t] = Updated(index, files)
                        /\ target[t] = "tmp" /\ tmp = Opened
      BY <1>1 DEF Alone
    <3>2. ~disturbed => tmp' = [there |-> TRUE, text |-> Updated(index', files')]
      BY <1>2, <1>4, <2>2, <3>1
    <3> QED  BY <1>1, <1>3, <2>2, <3>2, StepAlone
  <2> QED  BY <2>1, <2>2
<1> QED  BY <1>5, <1>6, <1>7, <1>8

\* The temporary file is renamed, or cannot be, or is removed.
LEMMA RenameIndex ==
  ASSUME IndexInv, NEW t \in Task, Rename(t) \/ RenameFails(t) \/ Discard(t)
  PROVE  IndexInv'
<1> USE DEF IndexInv
<1>1. /\ pc[t] \in {"rename", "discard"}
      /\ overflowed' = overflowed /\ collisions' = collisions /\ (~disturbed' => ~disturbed)
      /\ files' = files /\ damaged' = damaged /\ batch' = batch /\ draft' = draft
  BY DEF Rename, RenameFails, Discard, Fails, Goto, histVars, fileVars, entryVars, taskVars
<1>2. PICK to \in {"mark", "discard", "release", "idle"} :
        Goto(t, pc[t], to) /\ (to = "discard" => RenameFails(t))
  BY DEF Rename, RenameFails, Discard, AfterFailure, Goto
<1>3. /\ pc'[t] = to /\ pc' \in [Task -> Places]
      /\ \A u \in Task : u # t => pc'[u] = pc[u]
  BY <1>2, MoveData DEF Places
<1>4. DataOK'
  <2>1. CASE Rename(t)
    <3>1. index' = tmp.text /\ tmp' = NoTmp /\ target' = Renamed
      BY <2>1 DEF Rename
    <3>2. target' \in [Task -> {"none", "tmp", "index"}]
      BY <3>1 DEF Renamed, DataOK
    <3>3. index' \in Seq(Line) /\ tmp' \in [there : BOOLEAN, text : Seq(Line)]
      BY <3>1 DEF NoTmp, DataOK
    <3> QED  BY <1>1, <1>3, <3>2, <3>3 DEF DataOK
  <2>2. CASE RenameFails(t)
    BY <1>1, <1>3, <2>2 DEF RenameFails, DataOK, fileVars, indexVars, taskVars
  <2>3. CASE Discard(t)
    <3>1. /\ index' = index /\ tmp' = NoTmp
          /\ target' = [u \in Task |-> IF target[u] = "tmp" THEN "none" ELSE target[u]]
      BY <2>3 DEF Discard
    <3>2. target' \in [Task -> {"none", "tmp", "index"}]
      BY <3>1 DEF DataOK
    <3>3. tmp' \in [there : BOOLEAN, text : Seq(Line)]
      BY <3>1 DEF NoTmp
    <3> QED  BY <1>1, <1>3, <3>1, <3>2, <3>3 DEF DataOK
  <2> QED  BY <2>1, <2>2, <2>3
<1>5. ASSUME collisions = 0
      PROVE  /\ Rename(t) /\ pc[t] = "rename" /\ pc'[t] \notin {"open", "fill", "rename", "discard"}
             /\ \A u \in Task : u # t => ~Replacing(u) /\ target[u] = "none"
             /\ target[t] = "none" /\ index' = tmp.text
  <2>1. /\ tmp.there /\ pc[t] = "rename"
        /\ \A u \in Task : Replacing(u) => u = t
        /\ \A u \in Task : target[u] # "none" => pc[u] = "fill"
    BY <1>1, <1>5 DEF OneReplaces, Replacing
  <2>2. \A u \in Task : target[u] = "none"
    BY <2>1 DEF Replacing
  <2>3. Rename(t)
    BY <2>1, <2>2 DEF RenameFails, Discard, Goto
  <2> QED  BY <1>2, <1>3, <2>1, <2>2, <2>3 DEF Rename, RenameFails
<1>6. OneReplaces'
  <2> SUFFICES ASSUME collisions = 0 PROVE OneReplaces'
    BY <1>1 DEF OneReplaces
  <2>1. \A u \in Task : ~Replacing(u)'
    BY <1>3, <1>5 DEF Replacing
  <2>2. \A u \in Task : target'[u] = "none"
    BY <1>5 DEF Rename, Renamed
  <2> QED  BY <2>1, <2>2 DEF OneReplaces, Replacing
<1>7. IndexKept'
  <2> SUFFICES ASSUME ~overflowed, collisions = 0 PROVE IndexKept'
    BY <1>1 DEF IndexKept, DataOK
  <2>1. /\ Keeps(InitialIndex, index')
        /\ \A u \in Task : pc[u] \in {"open", "fill"} => Keeps(InitialIndex, draft[u])
    BY <1>5 DEF IndexKept
  <2>2. \A u \in Task : pc'[u] # "rename"
    BY <1>3, <1>5 DEF Replacing
  <2>3. \A u \in Task : pc'[u] \in {"open", "fill"} => pc'[u] = pc[u]
    BY <1>3, <1>5
  <2> QED  BY <1>1, <2>1, <2>2, <2>3 DEF IndexKept
<1>8. Alone'
  BY <1>1, <1>3, StepAlone
<1> QED  BY <1>4, <1>6, <1>7, <1>8

\* The goroutines of a process end in the middle of whatever they do.
LEMMA CrashIndex ==
  ASSUME IndexInv, NEW p \in Proc, Crash(p)
  PROVE  IndexInv'
<1> USE DEF IndexInv
<1>1. /\ pc' = [t \in Task |-> IF ProcOf[t] = p THEN "idle" ELSE pc[t]]
      /\ batch' = [t \in Task |-> IF ProcOf[t] = p THEN {} ELSE batch[t]]
      /\ draft' = [t \in Task |-> IF ProcOf[t] = p THEN <<>> ELSE draft[t]]
      /\ target' = [t \in Task |-> IF ProcOf[t] = p THEN "none" ELSE target[t]]
      /\ disturbed' = TRUE
      /\ UNCHANGED <<files, damaged, index, tmp, overflowed, collisions>>
  BY DEF Crash, Fails, fileVars, entryVars, indexVars
<1>2. DataOK'
  <2>1. pc' \in [Task -> Places]
    BY <1>1 DEF DataOK, Places
  <2>2. batch' \in [Task -> SUBSET Name]
    BY <1>1 DEF DataOK
  <2>3. draft' \in [Task -> Seq(Line)]
    BY <1>1 DEF DataOK
  <2>4. target' \in [Task -> {"none", "tmp", "index"}]
    BY <1>1 DEF DataOK
  <2> QED  BY <1>1, <2>1, <2>2, <2>3, <2>4 DEF DataOK
<1>3. \A t \in Task : /\ pc'[t] # "idle" =>
                           pc'[t] = pc[t] /\ draft'[t] = draft[t] /\ target'[t] = target[t]
                      /\ target'[t] # "none" => pc'[t] = pc[t] /\ target'[t] = target[t]
  BY <1>1
<1>4. OneReplaces'
  <2>1. \A t \in Task : Replacing(t)' => Replacing(t)
    BY <1>3 DEF Replacing
  <2> QED  BY <1>1, <1>3, <2>1 DEF OneReplaces, Opened
<1>5. IndexKept'
  BY <1>1, <1>3 DEF IndexKept
<1> QED  BY <1>1, <1>2, <1>4, <1>5 DEF Alone

LEMMA TimeIndex ==
  ASSUME IndexInv, LockAges \/ \E n \in Name : Damage(n)
  PROVE  IndexInv'
<1> USE DEF IndexInv
<1>1. /\ UNCHANGED <<index, tmp, pc, batch, draft, target, overflowed, collisions>>
      /\ files' \subseteq Name /\ damaged' \subseteq Name
      /\ disturbed' \/ \/ files' = files /\ ~disturbed
                       \/ \A t \in Task : pc[t] = "idle"
  <2>1. CASE LockAges
    BY <2>1 DEF LockAges, fileVars, entryVars, indexVars, taskVars, histVars, DataOK
  <2>2. CASE \E n \in Name : Damage(n)
    BY <2>2 DEF Damage, indexVars, taskVars, DataOK, Quiet
  <2> QED  BY <2>1, <2>2
<1>2. DataOK'
  BY <1>1 DEF DataOK
<1>3. OneReplaces' /\ IndexKept'
  BY <1>1, Elsewhere
<1>4. Alone'
  BY <1>1 DEF Alone, Opened
<1> QED  BY <1>2, <1>3, <1>4

-----------------------------------------------------------------------------
\* The invariant.
LEMMA InitIndex == Init => IndexInv
<1> SUFFICES ASSUME Init PROVE IndexInv
  OBVIOUS
<1>1. /\ index = InitialIndex /\ tmp = NoTmp /\ collisions = 0
      /\ pc = [t \in Task |-> "idle"] /\ target = [t \in Task |-> "none"]
      /\ draft = [t \in Task |-> <<>>] /\ batch = [t \in Task |-> {}]
      /\ files = {} /\ damaged = {}
  BY DEF Init
<1>2. InitialIndex \in Seq(Line)
  BY MemoryAssumption
<1>3. DataOK
  BY <1>1, <1>2 DEF DataOK, NoTmp, Places
<1>4. OneReplaces /\ Alone
  BY <1>1 DEF OneReplaces, Replacing, Alone
<1>5. Keeps(InitialIndex, InitialIndex)
  BY <1>2, PartsType, SelfPrefix DEF Keeps
<1> QED  BY <1>1, <1>3, <1>4, <1>5 DEF IndexInv, IndexKept

LEMMA SaveIndex ==
  ASSUME IndexInv, NEW t \in Task, SaveExtracted(t)
  PROVE  IndexInv'
BY OtherIndex, UpdateIndexIndex, OpenIndex, FillIndex, RenameIndex DEF SaveExtracted

LEMMA NextIndex == IndexInv /\ [Next]_vars => IndexInv'
<1> SUFFICES ASSUME IndexInv, [Next]_vars PROVE IndexInv'
  OBVIOUS
<1>1. CASE (\E e \in Extractor, answer \in Answer : Extract(e, answer))
             \/ \E c \in Consolidator : CheckDreamGate(c)
  BY <1>1, BeginIndex
<1>2. CASE \E c \in Consolidator : Consolidate(c)
  <2>1. PICK c \in Consolidator : Consolidate(c)
    BY <1>2
  <2>2. c \in Task
    BY DEF Task
  <2> QED  BY <2>1, <2>2, OtherIndex, SaveIndex DEF Consolidate
<1>3. CASE \E e \in Extractor : SaveExtracted(e)
  BY <1>3, SaveIndex DEF Task
<1>4. CASE (\E p \in Proc : Crash(p)) \/ LockAges \/ \E n \in Name : Damage(n)
  BY <1>4, CrashIndex, TimeIndex
<1>5. CASE UNCHANGED vars
  BY <1>5, Elsewhere DEF vars, IndexInv, DataOK, Alone, Opened, fileVars, entryVars, indexVars,
     taskVars, histVars
<1> QED  BY <1>1, <1>2, <1>3, <1>4, <1>5 DEF Next

\* IndexInv is inductive, for any hand-authored document, any set of names, any
\* MaxLines and any number of collisions (entrypoint.go, index.go).
THEOREM IndexInvariance == Spec => []IndexInv
BY InitIndex, NextIndex, PTL DEF Spec

\* MEMORY.md keeps, verbatim, what was written outside the block, whatever document a
\* writer has read and whatever crashes or fails between the opening of the temporary
\* file and its rename (index.go:31, 189), until a version is cut or two tasks use the
\* temporary file at once.
THEOREM HandAuthoredTheorem == Spec => []HandAuthoredKept
<1>1. IndexInv => HandAuthoredKept
  BY DEF IndexInv, IndexKept, HandAuthoredKept
<1> QED  BY <1>1, IndexInvariance, PTL

\* A task that runs alone renames what it has written.
LEMMA RenameLists ==
  ASSUME IndexInv, [Next]_vars, NEW t \in Task,
         pc[t] = "rename", tmp.there, pc'[t] \in {"idle", "mark"}, ~disturbed,
         Marked(index), Fits(index, files), ~disturbed'
  PROVE  Listed(index') = files
<1> USE DEF IndexInv
<1>1. /\ tmp.text = Updated(index, files) /\ index \in Seq(Line) /\ files \in SUBSET Name
      /\ pc \in [Task -> Places]
  BY DEF Alone, DataOK
<1>2. Listed(tmp.text) = files
  BY <1>1, UpdateKeeps
<1>3. \A u \in Task : pc[u] # "idle" => u = t
  BY DEF Alone
<1>4. \A u \in Task : SaveExtracted(u) => index' = tmp.text
  <2> SUFFICES ASSUME NEW u \in Task, SaveExtracted(u) PROVE index' = tmp.text
    OBVIOUS
  <2>1. CASE Rename(u)
    BY <2>1 DEF Rename
  <2>2. CASE ~Rename(u)
    <3>1. pc[u] # "idle" /\ u = t
      BY <1>3, <2>2 DEF SaveExtracted, WriteEntry, SaveFails, UpdateIndex, OpenTmp, WriteTmp,
         WriteFails, RenameFails, Discard, Goto
    <3>2. RenameFails(t)
      BY <2>2, <3>1 DEF SaveExtracted, WriteEntry, SaveFails, UpdateIndex, OpenTmp, WriteTmp,
         WriteFails, Discard, Goto
    <3> QED  BY <3>2 DEF RenameFails, Fails
  <2> QED  BY <2>1, <2>2
<1>5. CASE \E e \in Extractor, answer \in Answer : Extract(e, answer)
  BY <1>5 DEF Extract, Begins, Quiet
<1>6. CASE \E c \in Consolidator : CheckDreamGate(c)
  BY <1>6 DEF CheckDreamGate, Begins, Quiet
<1>7. CASE \E c \in Consolidator : Consolidate(c)
  <2>1. PICK c \in Consolidator : Consolidate(c)
    BY <1>7
  <2>2. c \in Task
    BY DEF Task
  <2>3. CASE SaveExtracted(c)
    BY <1>2, <1>4, <2>2, <2>3
  <2>4. CASE ~SaveExtracted(c)
    <3>1. pc[c] # "idle" /\ pc[c] # "rename"
      BY <2>1, <2>4 DEF Consolidate, StatLock, EvictLock, CreateLock, CallFails,
           RemoveEntries, RemoveFails, MarkConsolidated, Release, Goto
    <3> QED  BY <1>3, <2>2, <3>1
  <2> QED  BY <2>3, <2>4
<1>8. CASE \E e \in Extractor : SaveExtracted(e)
  BY <1>2, <1>4, <1>8 DEF Task
<1>9. CASE \E p \in Proc : Crash(p)
  BY <1>9 DEF Crash, Fails
<1>10. CASE LockAges \/ (\E n \in Name : Damage(n)) \/ UNCHANGED vars
  <2>1. pc' = pc
    BY <1>10 DEF LockAges, Damage, vars
  <2> QED  BY <2>1
<1> QED  BY <1>5, <1>6, <1>7, <1>8, <1>9, <1>10 DEF Next

\* A task that runs alone leaves a block that lists what is on disk (index.go:30).
THEOREM IndexTheorem == Spec => IndexReflectsEntries
<1>1. IndexInv /\ [Next]_vars =>
        [\A t \in Task :
           /\ pc[t] = "rename" /\ tmp.there /\ pc'[t] \in {"idle", "mark"} /\ ~disturbed
           /\ Marked(index) /\ Fits(index, files)
           => disturbed' \/ Listed(index') = files]_vars
  BY RenameLists
<1> QED  BY <1>1, IndexInvariance, PTL DEF Spec, IndexReflectsEntries
=============================================================================
