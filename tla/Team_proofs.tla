----------------------------- MODULE Team_proofs -----------------------------
(***************************************************************************)
(* ComputeWaves and ExecuteWaves for any number of tasks and every         *)
(* dependency graph: Kahn's algorithm removes every task exactly of the    *)
(* graphs that have an execution order, and the slices of its layers are   *)
(* run in that order.                                                      *)
(***************************************************************************)
EXTENDS Team, FiniteSetTheorems, WellFoundedInduction, TLAPS

Round == 0..NTasks

-----------------------------------------------------------------------------
(* Natural numbers *)

LEMMA Least ==
  ASSUME NEW S, S \subseteq Nat, S # {}
  PROVE  \E x \in S : \A y \in S : x <= y
<1> DEFINE R == {p \in Nat \X Nat : p[1] < p[2]}
<1>1. IsWellFoundedOn(R, Nat)
  BY NatLessThanWellFounded DEF OpToRel
<1> HIDE DEF R
<1>2. PICK x \in S : \A y \in S : <<y, x>> \notin R
  BY <1>1, WFMin
<1>3. ASSUME NEW y \in S, y < x
      PROVE  FALSE
  <2>1. <<y, x>> \in Nat \X Nat /\ <<y, x>>[1] < <<y, x>>[2]
    BY <1>3
  <2>2. <<y, x>> \in R
    BY <2>1, Zenon DEF R
  <2> QED  BY <1>2, <2>2
<1> QED  BY <1>3

\* A set that has 0 and, up to n, the successor of each of its members.
LEMMA UpTo ==
  ASSUME NEW n \in Nat, NEW S, 0 \in S, \A i \in 0..(n - 1) : i \in S => i + 1 \in S
  PROVE  0..n \subseteq S
<1> DEFINE Missed == {i \in 0..n : i \notin S}
<1>1. CASE Missed # {}
  <2>1. Missed \subseteq Nat
    OBVIOUS
  <2>2. PICK m \in Missed : \A k \in Missed : m <= k
    BY <1>1, <2>1, Least
  <2>3. m # 0 /\ m - 1 \in 0..(n - 1)
    BY <2>2
  <2>4. m - 1 \in S
    BY <2>2, <2>3
  <2> QED  BY <2>2, <2>3, <2>4
<1> QED  BY <1>1

LEMMA DivStep ==
  ASSUME NEW r \in Nat, NEW m \in Nat \ {0}
  PROVE  /\ r \div m \in Nat /\ (r + 1) \div m <= (r \div m) + 1
         /\ 0 \div m = 0
OBVIOUS

LEMMA TaskFinite ==
  ASSUME NEW S \in SUBSET Task
  PROVE  IsFiniteSet(S) /\ Cardinality(S) \in Nat /\ Cardinality(Task) = NTasks
<1>1. IsFiniteSet(Task) /\ Cardinality(Task) = NTasks
  BY TeamAssumption, FS_Interval DEF Task
<1> QED  BY <1>1, FS_Subset, FS_CardinalityType

-----------------------------------------------------------------------------
(* The rounds *)

Rounds(f, n) ==
  /\ f \in [0..n -> SUBSET Task] /\ f[0] = {}
  /\ \A i \in 1..n : f[i] = f[i - 1] \cup Ready(f[i - 1])

LEMMA ReadyType == ASSUME NEW S PROVE Ready(S) \in SUBSET Task
BY DEF Ready

LEMMA RoundsExist == \E f : Rounds(f, NTasks)
<1> DEFINE Reached == {n \in Nat : \E f : Rounds(f, n)}
<1>1. 0 \in Reached
  <2> DEFINE f == [i \in 0..0 |-> {}]
  <2>1. Rounds(f, 0)
    BY DEF Rounds
  <2> QED  BY <2>1
<1>2. ASSUME NEW n \in 0..(NTasks - 1), n \in Reached
      PROVE  n + 1 \in Reached
  <2>1. n \in Nat
    BY TeamAssumption
  <2>2. PICK f : Rounds(f, n)
    BY <1>2
  <2> DEFINE g == [i \in 0..(n + 1) |-> IF i = n + 1 THEN f[n] \cup Ready(f[n]) ELSE f[i]]
  <2>3. \A i \in 0..n : f[i] \in SUBSET Task /\ g[i] = f[i]
    BY <2>1, <2>2 DEF Rounds
  <2>4. n \in 0..n /\ g[n + 1] = f[n] \cup Ready(f[n])
    BY <2>1
  <2>5. g \in [0..(n + 1) -> SUBSET Task]
    <3>1. f[n] \cup Ready(f[n]) \in SUBSET Task
      BY <2>3, <2>4, ReadyType
    <3>2. ASSUME NEW i \in 0..(n + 1)
          PROVE  g[i] \in SUBSET Task
      <4>1. CASE i = n + 1
        BY <2>4, <3>1, <4>1
      <4>2. CASE i # n + 1
        <5>1. i \in 0..n
          BY <2>1, <4>2
        <5> QED  BY <2>3, <5>1
      <4> QED  BY <4>1, <4>2
    <3>3. g = [i \in 0..(n + 1) |-> g[i]]
      OBVIOUS
    <3> HIDE DEF g
    <3> QED  BY <3>2, <3>3
  <2>6. g[0] = {}
    BY <2>1, <2>2, <2>3 DEF Rounds
  <2>7. ASSUME NEW i \in 1..(n + 1)
        PROVE  g[i] = g[i - 1] \cup Ready(g[i - 1])
    <3>1. CASE i = n + 1
      BY <2>1, <2>3, <2>4, <3>1
    <3>2. CASE i # n + 1
      <4>1. i \in 1..n /\ i \in 0..n /\ i - 1 \in 0..n
        BY <2>1, <3>2
      <4>2. f[i] = f[i - 1] \cup Ready(f[i - 1])
        BY <2>2, <4>1 DEF Rounds
      <4>3. g[i] = f[i] /\ g[i - 1] = f[i - 1]
        BY <2>3, <4>1
      <4> QED  BY <4>2, <4>3
    <3> QED  BY <3>1, <3>2
  <2> HIDE DEF g
  <2>8. Rounds(g, n + 1)
    BY <2>5, <2>6, <2>7 DEF Rounds
  <2> QED  BY <2>1, <2>8
<1> HIDE DEF Reached
<1>3. NTasks \in Reached
  BY <1>1, <1>2, UpTo, TeamAssumption
<1> QED  BY <1>3 DEF Reached

\* What the recursion computes.
LEMMA RemovedRounds == Rounds(Removed, NTasks)
<1> DEFINE Is(f) == f = [n \in Round |-> IF n = 0 THEN {} ELSE f[n - 1] \cup Ready(f[n - 1])]
<1>1. PICK f : Rounds(f, NTasks)
  BY RoundsExist
<1>2. Is(f)
  <2>1. f = [n \in Round |-> f[n]]
    BY <1>1 DEF Rounds, Round
  <2>2. \A n \in Round : f[n] = IF n = 0 THEN {} ELSE f[n - 1] \cup Ready(f[n - 1])
    BY <1>1, TeamAssumption DEF Rounds, Round
  <2> QED  BY <2>1, <2>2
<1>3. Removed = CHOOSE g : Is(g)
  BY Zenon DEF Removed, Round
<1>4. Is(Removed)
  BY <1>2, <1>3, Zenon
<1>5. /\ Removed = [n \in Round |-> Removed[n]]
      /\ \A n \in Round : Removed[n] = IF n = 0 THEN {}
                                      ELSE Removed[n - 1] \cup Ready(Removed[n - 1])
  BY <1>4
<1>6. 0 \in Round /\ \A n \in 1..NTasks : n \in Round /\ n # 0
  BY TeamAssumption DEF Round
<1>7. /\ Removed[0] = {}
      /\ \A n \in 1..NTasks : Removed[n] = Removed[n - 1] \cup Ready(Removed[n - 1])
  BY <1>5, <1>6, Zenon
<1>8. Round \subseteq {n \in Round : Removed[n] \in SUBSET Task}
  <2> DEFINE S == {n \in Round : Removed[n] \in SUBSET Task}
  <2>1. 0 \in S
    BY <1>6, <1>7
  <2>2. ASSUME NEW i \in 0..(NTasks - 1), i \in S
        PROVE  i + 1 \in S
    <3>1. i + 1 \in 1..NTasks /\ (i + 1) - 1 = i
      BY TeamAssumption
    <3>2. Removed[i + 1] = Removed[i] \cup Ready(Removed[i])
      BY <1>7, <3>1
    <3>3. Removed[i + 1] \in SUBSET Task
      BY <2>2, <3>2, ReadyType
    <3> QED  BY <1>6, <3>1, <3>3
  <2> HIDE DEF S
  <2>3. 0..NTasks \subseteq S
    BY <2>1, <2>2, UpTo, TeamAssumption
  <2> QED  BY <2>3 DEF S, Round
<1>9. Removed \in [0..NTasks -> SUBSET Task]
  BY <1>5, <1>8 DEF Round
<1> QED  BY <1>7, <1>9 DEF Rounds

LEMMA RemovedType ==
  /\ \A n \in Round : Removed[n] \in SUBSET Task
  /\ Removed[0] = {}
  /\ \A n \in 0..(NTasks - 1) : /\ n \in Round /\ n + 1 \in Round
                               /\ Removed[n + 1] = Removed[n] \cup Ready(Removed[n])
<1>1. \A n \in 0..(NTasks - 1) : n \in Round /\ n + 1 \in 1..NTasks /\ (n + 1) - 1 = n
  BY TeamAssumption DEF Round
<1>2. \A n \in 1..NTasks : n \in Round
  BY DEF Round
<1> QED  BY <1>1, <1>2, RemovedRounds DEF Rounds, Round

LEMMA Monotone ==
  ASSUME NEW n \in Round, NEW k \in 0..n
  PROVE  Removed[k] \subseteq Removed[n]
<1> DEFINE S == {j \in Nat : k + j <= NTasks => Removed[k] \subseteq Removed[k + j]}
<1>1. 0 \in S /\ n - k \in Nat /\ k + (n - k) = n /\ n <= NTasks /\ k \in Nat /\ n \in Nat
  BY TeamAssumption DEF Round
<1>2. ASSUME NEW j \in 0..((n - k) - 1), j \in S
      PROVE  j + 1 \in S
  <2>1. k + j \in 0..(NTasks - 1) /\ (k + j) + 1 = k + (j + 1) /\ k + j <= NTasks
    BY <1>1, TeamAssumption DEF Round
  <2>2. Removed[k + (j + 1)] = Removed[k + j] \cup Ready(Removed[k + j])
    BY <2>1, RemovedType
  <2> QED  BY <1>2, <2>1, <2>2
<1> HIDE DEF S
<1>3. n - k \in S
  BY <1>1, <1>2, UpTo
<1> QED  BY <1>1, <1>3 DEF S

Stable(n) == Ready(Removed[n]) \subseteq Removed[n]

\* Once a round removes nothing, no later one does.
LEMMA StaysStable ==
  ASSUME NEW k \in Round, Stable(k)
  PROVE  Removed[NTasks] = Removed[k]
<1> DEFINE S == {j \in Nat : k + j <= NTasks => Removed[k + j] = Removed[k]}
           n == NTasks - k
<1>1. 0 \in S /\ n \in Nat /\ k + n = NTasks /\ k \in Nat
  BY TeamAssumption DEF Round
<1>2. ASSUME NEW j \in 0..(n - 1), j \in S
      PROVE  j + 1 \in S
  <2>1. k + j \in 0..(NTasks - 1) /\ (k + j) + 1 = k + (j + 1) /\ k + j <= NTasks
    BY <1>1, TeamAssumption DEF Round
  <2>2. Removed[k + (j + 1)] = Removed[k + j] \cup Ready(Removed[k + j])
    BY <2>1, RemovedType
  <2>3. Removed[k + j] = Removed[k]
    BY <1>2, <2>1
  <2>4. Removed[k + (j + 1)] = Removed[k]
    BY <2>2, <2>3 DEF Stable
  <2> QED  BY <2>4
<1> HIDE DEF S, n
<1>3. n \in S
  BY <1>1, <1>2, UpTo
<1> QED  BY <1>1, <1>3, TeamAssumption DEF S

\* NTasks rounds are enough: each removes a task or is the last that could.
LEMMA LastIsStable == Stable(NTasks)
<1> DEFINE S == {n \in Nat : n \in Round => Stable(n) \/ Cardinality(Removed[n]) >= n}
<1>1. \A n \in Round : /\ Removed[n] \in SUBSET Task /\ IsFiniteSet(Removed[n])
                       /\ Cardinality(Removed[n]) \in Nat
  BY RemovedType, TaskFinite
<1>2. 0 \in S
  BY <1>1 DEF Round
<1>3. ASSUME NEW n \in 0..(NTasks - 1), n \in S
      PROVE  n + 1 \in S
  <2>1. /\ n \in Round /\ n + 1 \in Round /\ n \in Nat
        /\ Removed[n + 1] = Removed[n] \cup Ready(Removed[n])
    BY RemovedType DEF Round
  <2>2. CASE Stable(n)
    <3>1. Removed[n + 1] = Removed[n]
      BY <2>1, <2>2 DEF Stable
    <3>2. Stable(n + 1)
      BY <2>2, <3>1 DEF Stable
    <3> QED  BY <2>1, <3>2
  <2>3. CASE ~Stable(n)
    <3>1. Removed[n] \subseteq Removed[n + 1] /\ Removed[n] # Removed[n + 1]
      BY <2>1, <2>3 DEF Stable
    <3>2. /\ Cardinality(Removed[n]) <= Cardinality(Removed[n + 1])
          /\ Cardinality(Removed[n + 1]) # Cardinality(Removed[n])
      BY <1>1, <2>1, <3>1, FS_Subset
    <3>3. Cardinality(Removed[n]) >= n
      BY <1>3, <2>1, <2>3
    <3>4. Cardinality(Removed[n]) \in Nat /\ Cardinality(Removed[n + 1]) \in Nat
      BY <1>1, <2>1
    <3> DEFINE a == Cardinality(Removed[n])
               b == Cardinality(Removed[n + 1])
    <3>5. a \in Nat /\ b \in Nat /\ a <= b /\ b # a /\ a >= n
      BY <3>2, <3>3, <3>4
    <3> HIDE DEF a, b
    <3>6. b >= n + 1
      BY <2>1, <3>5
    <3>7. Cardinality(Removed[n + 1]) >= n + 1 /\ n + 1 \in Nat
      BY <2>1, <3>6 DEF b
    <3> QED  BY <3>7
  <2> QED  BY <2>2, <2>3
<1> HIDE DEF S
<1>4. NTasks \in S /\ NTasks \in Round
  BY <1>2, <1>3, UpTo, TeamAssumption DEF Round
<1>5. CASE Cardinality(Removed[NTasks]) >= NTasks
  <2>1. Cardinality(Task) = NTasks /\ IsFiniteSet(Task)
    BY TaskFinite
  <2>2. Cardinality(Removed[NTasks]) <= Cardinality(Task)
        /\ (Cardinality(Task) = Cardinality(Removed[NTasks]) => Task = Removed[NTasks])
    BY <1>1, <1>4, <2>1, FS_Subset
  <2>3. Removed[NTasks] = Task
    BY <1>1, <1>4, <1>5, <2>1, <2>2, TeamAssumption
  <2> QED  BY <2>3, ReadyType DEF Stable
<1> QED  BY <1>4, <1>5 DEF S

\* Kahn's algorithm: all tasks are removed exactly if there is an execution order.
LEMMA KahnCorrect ==
  ASSUME dependsOn \in [Task -> SUBSET (Task \cup {MissingTask})]
  PROVE  Removed[NTasks] = Task <=> Executable
<1>1. NTasks \in Round /\ Removed[NTasks] \in SUBSET Task
  BY RemovedType, TeamAssumption DEF Round
<1>2. ASSUME Executable, Removed[NTasks] # Task
      PROVE  FALSE
  <2> DEFINE S == Task \ Removed[NTasks]
  <2>1. S \in (SUBSET Task) \ {{}}
    BY <1>1, <1>2
  <2>2. PICK t \in S : dependsOn[t] \cap (S \cup {MissingTask}) = {}
    BY <1>2, <2>1 DEF Executable
  <2>3. dependsOn[t] \subseteq Removed[NTasks]
    BY <2>2
  <2>4. t \in Ready(Removed[NTasks])
    BY <2>2, <2>3 DEF Ready
  <2> QED  BY <2>2, <2>4, LastIsStable DEF Stable
<1>3. ASSUME Removed[NTasks] = Task, NEW S \in (SUBSET Task) \ {{}}
      PROVE  \E t \in S : dependsOn[t] \cap (S \cup {MissingTask}) = {}
  <2> DEFINE Meets == {n \in Round : Removed[n] \cap S # {}}
  <2>1. Meets # {} /\ Meets \subseteq Nat
    BY <1>1, <1>3 DEF Round
  <2>2. PICK n \in Meets : \A k \in Meets : n <= k
    BY <2>1, Least
  <2>3. n # 0
    BY <2>2, RemovedType
  <2>4. n - 1 \in 0..(NTasks - 1) /\ (n - 1) + 1 = n /\ n - 1 \notin Meets /\ n - 1 \in Round
    BY <2>2, <2>3, TeamAssumption DEF Round
  <2>5. Removed[n] = Removed[n - 1] \cup Ready(Removed[n - 1]) /\ Removed[n - 1] \cap S = {}
    BY <2>4, RemovedType
  <2>6. PICK t \in S : t \in Ready(Removed[n - 1])
    BY <2>2, <2>5
  <2>7. dependsOn[t] \subseteq Removed[n - 1] /\ MissingTask \notin Removed[n - 1]
    BY <2>4, <2>6, RemovedType, TeamAssumption DEF Ready
  <2> QED  BY <2>5, <2>7
<1> QED  BY <1>2, <1>3 DEF Executable

-----------------------------------------------------------------------------
(* Slices *)

LEMMA RankType ==
  ASSUME NEW L \in SUBSET Task, NEW t \in L
  PROVE  Rank(t, L) \in Nat /\ Rank(t, L) \div MaxWaveSize \in Nat
<1>1. {u \in L : u < t} \in SUBSET Task
  OBVIOUS
<1>2. Rank(t, L) \in Nat
  BY <1>1, TaskFinite DEF Rank
<1> QED  BY <1>2, DivStep, TeamAssumption

\* The slices of a layer have no gap: where one is empty, no later one has a task.
LEMMA NoGap ==
  ASSUME NEW L \in SUBSET Task, NEW c \in Nat,
         \A t \in L : Rank(t, L) \div MaxWaveSize # c + 1
  PROVE  \A t \in L : Rank(t, L) \div MaxWaveSize <= c
<1> DEFINE Slice(t) == Rank(t, L) \div MaxWaveSize
           Later == {t \in L : Slice(t) > c}
<1>1. CASE Later # {}
  <2>1. L \subseteq Nat /\ Later \subseteq Nat
    <3>1. L \subseteq Nat
      BY TeamAssumption DEF Task
    <3> HIDE DEF Slice
    <3> QED  BY <3>1
  <2>2. PICK t \in Later : \A k \in Later : t <= k
    BY <1>1, <2>1, Least
  <2>3. t \in L /\ t \in Nat /\ Slice(t) > c /\ Slice(t) \in Nat /\ Rank(t, L) \in Nat
    BY <2>1, <2>2, RankType
  <2> DEFINE Gaps == {d \in Nat : d > 0 /\ t - d \in L}
  <2>4. CASE Gaps = {}
    <3>1. {u \in L : u < t} = {}
      <4>1. ASSUME NEW u \in L, u < t
            PROVE  FALSE
        <5>1. u \in Nat /\ t - u \in Nat /\ t - u > 0 /\ t - (t - u) = u
          BY <2>1, <2>3, <4>1
        <5>2. t - u \in Gaps
          BY <5>1, <4>1
        <5> QED  BY <2>4, <5>2
      <4> QED  BY <4>1
    <3>2. Rank(t, L) = 0
      BY <3>1, FS_EmptySet DEF Rank
    <3>3. Slice(t) = 0
      BY <3>2, DivStep, TeamAssumption
    <3> QED  BY <2>3, <3>3
  <2>5. CASE Gaps # {}
    <3>1. Gaps \subseteq Nat
      OBVIOUS
    <3>2. PICK d \in Gaps : \A e \in Gaps : d <= e
      BY <2>5, <3>1, Least
    <3> DEFINE u == t - d
               Below == {v \in L : v < u}
    <3>3. u \in L /\ u \in Nat /\ u < t
      BY <2>1, <2>3, <3>2
    <3>4. ASSUME NEW v \in L
          PROVE  v < t <=> v < u \/ v = u
      <4>1. v \in Nat
        BY <2>1
      <4>2. CASE v < t /\ v > u
        <5>1. t - v \in Nat /\ t - v > 0 /\ t - (t - v) = v /\ t - v < d
          BY <2>3, <3>2, <3>3, <4>1, <4>2
        <5>2. t - v \in Gaps
          BY <5>1
        <5> QED  BY <3>1, <3>2, <5>1, <5>2
      <4> QED  BY <2>3, <3>3, <4>1, <4>2
    <3>5. {v \in L : v < t} = Below \cup {u} /\ u \notin Below /\ Below \in SUBSET Task
      BY <3>3, <3>4
    <3>6. Rank(t, L) = Rank(u, L) + 1
      <4>1. IsFiniteSet(Below)
        BY <3>5, TaskFinite
      <4>2. Cardinality(Below \cup {u}) = Cardinality(Below) + 1
        BY <3>5, <4>1, FS_AddElement
      <4> QED  BY <3>5, <4>2 DEF Rank
    <3>7. Rank(u, L) \in Nat /\ Slice(u) \in Nat
      BY <3>3, RankType
    <3>8. Slice(u) <= c
      <4>1. u \notin Later
        BY <2>1, <2>2, <2>3, <3>3
      <4> QED  BY <3>3, <3>7, <4>1
    <3>9. Slice(t) <= Slice(u) + 1
      BY <3>6, <3>7, DivStep, TeamAssumption
    <3>10. Slice(t) # c + 1
      BY <2>3
    <3> HIDE DEF Slice
    <3> QED  BY <2>3, <3>7, <3>8, <3>9, <3>10
  <2> QED  BY <2>4, <2>5
<1>2. CASE Later = {}
  <2>1. \A t \in L : Slice(t) \in Nat /\ ~(Slice(t) > c)
    BY <1>2, RankType
  <2> HIDE DEF Slice
  <2>2. \A t \in L : Slice(t) <= c
    BY <2>1
  <2> QED  BY <2>2 DEF Slice
<1> QED  BY <1>1, <1>2

-----------------------------------------------------------------------------
(* The invariant *)

TypeOK ==
  /\ dependsOn \in [Task -> SUBSET (Task \cup {MissingTask})]
  /\ phase \in {"compute", "wave", "verify", "done"}
  /\ status \in [Task -> {"pending", "running", "completed", "failed"}]
  /\ wpc \in [Task -> {"none", "started", "checkerSet", "looping", "finished", "done"}]

CompletedIsOver ==
  \A t \in Task : status[t] = "completed" => wpc[t] \in {"finished", "done"}

Completed(S) == \A t \in S : status[t] = "completed"

\* Before anything is run.
Fresh == phase = "compute" => failure = "" /\ layer = 1 /\ chunk = 0

\* While waves are run, what the layers before, and the slices before of this one,
\* have is completed.
Earlier(L, c) == {t \in L : Rank(t, L) \div MaxWaveSize < c}
InOrder ==
  phase = "wave" =>
    /\ failure = "" /\ Removed[NTasks] = Task
    /\ layer \in 1..NTasks /\ chunk \in Nat
    /\ Completed(Removed[layer - 1])
    /\ Completed(Earlier(Layer(layer), chunk))

\* A task that was started waits for no missing one.
Known == \A t \in Task : wpc[t] # "none" => dependsOn[t] \subseteq Task

TeamInv ==
  /\ TypeOK /\ CompletedIsOver /\ Fresh /\ InOrder /\ Known
  /\ DependenciesFirst /\ ExecutesAllOrFails

LEMMA RemovedSame ==
  ASSUME dependsOn' = dependsOn
  PROVE  /\ Removed' = Removed
         /\ \A n \in Round : Layer(n)' = Layer(n)
         /\ Executable' = Executable
BY DEF Removed, Ready, Layer, Executable

LEMMA LayerType ==
  ASSUME NEW n \in 1..NTasks
  PROVE  /\ n \in Round /\ n - 1 \in Round /\ Layer(n) \in SUBSET Task
         /\ Layer(n) = Removed[n] \ Removed[n - 1]
         /\ Removed[n] = Removed[n - 1] \cup Layer(n)
         /\ \A t \in Layer(n) : dependsOn[t] \subseteq Removed[n - 1]
<1>1. n \in Round /\ n - 1 \in 0..(NTasks - 1) /\ n - 1 \in Round /\ (n - 1) + 1 = n
  BY TeamAssumption DEF Round
<1>2. Removed[n] = Removed[n - 1] \cup Ready(Removed[n - 1]) /\ Removed[n] \in SUBSET Task
  BY <1>1, RemovedType
<1> QED  BY <1>1, <1>2 DEF Layer, Ready

\* Steps that leave the order of the waves alone and complete, never undo, tasks.
LEMMA SameWave ==
  ASSUME TeamInv, UNCHANGED teamVars, TypeOK', CompletedIsOver',
         \A t \in Task : status[t] = "completed" => status'[t] = "completed",
         \A t \in Task : wpc'[t] # "none" =>
           wpc[t] # "none" \/ (dependsOn[t] \subseteq Task /\ Completed(dependsOn[t]))
  PROVE  TeamInv'
<1> USE DEF TeamInv, teamVars
<1>1. /\ Removed' = Removed /\ Executable' = Executable
      /\ \A n \in Round : Layer(n)' = Layer(n)
  BY RemovedSame
<1>2. \A S \in SUBSET Task : Completed(S) => Completed(S)'
  BY DEF Completed
<1>3. Fresh'
  BY DEF Fresh
<1>4. InOrder'
  <2> SUFFICES ASSUME phase = "wave"
               PROVE  /\ Removed'[NTasks] = Task
                      /\ Completed(Removed[layer - 1])' /\ Completed(Earlier(Layer(layer), chunk))'
    BY DEF InOrder
  <2>1. layer \in 1..NTasks /\ Removed[NTasks] = Task
        /\ Completed(Removed[layer - 1]) /\ Completed(Earlier(Layer(layer), chunk))
    BY DEF InOrder
  <2>2. Layer(layer) \in SUBSET Task /\ Removed[layer - 1] \in SUBSET Task
    BY <2>1, LayerType, RemovedType
  <2>3. Layer(layer)' = Layer(layer)
    BY <1>1, RemovedSame DEF Layer
  <2>4. \A t \in Removed[layer - 1] : status'[t] = "completed"
    BY <2>1, <2>2 DEF Completed
  <2>5. \A t \in Earlier(Layer(layer), chunk) : status'[t] = "completed"
    BY <2>1, <2>2 DEF Completed, Earlier
  <2>6. Earlier(Layer(layer), chunk)' = Earlier(Layer(layer), chunk)
    BY <2>3 DEF Earlier, Rank
  <2> QED  BY <1>1, <2>1, <2>4, <2>5, <2>6 DEF Completed
<1>5. DependenciesFirst'
  <2>1. ASSUME NEW t \in Task, wpc'[t] # "none", NEW u \in dependsOn[t]
        PROVE  status'[u] = "completed"
    <3>1. status[u] = "completed" /\ u \in Task
      BY <2>1 DEF DependenciesFirst, Known, Completed
    <3> QED  BY <3>1
  <2> QED  BY <2>1 DEF DependenciesFirst
<1>6. ExecutesAllOrFails'
  BY <1>1 DEF ExecutesAllOrFails
<1>7. Known'
  BY DEF Known
<1> QED  BY <1>3, <1>4, <1>5, <1>6, <1>7

\* A worker of the wave is started: what it waits for is in the layers before.
LEMMA StartKeeps ==
  ASSUME TeamInv, NEW t \in Task, StartTask(t)
  PROVE  TeamInv'
<1>1. phase = "wave" /\ t \in Wave /\ wpc[t] = "none" /\ UNCHANGED teamVars
      /\ status' = [status EXCEPT ![t] = "running"] /\ wpc' = [wpc EXCEPT ![t] = "started"]
  BY DEF StartTask
<1>2. layer \in 1..NTasks /\ Completed(Removed[layer - 1])
  BY <1>1 DEF TeamInv, InOrder
<1>3. t \in Layer(layer)
  BY <1>1 DEF Wave, WaveOf
<1>4. dependsOn[t] \subseteq Task /\ Completed(dependsOn[t])
  BY <1>2, <1>3, LayerType, RemovedType DEF Completed
<1>5. TypeOK'
  BY <1>1 DEF TeamInv, TypeOK, teamVars
<1>6. \A u \in Task : u # t => status'[u] = status[u] /\ wpc'[u] = wpc[u]
  BY <1>1 DEF TeamInv, TypeOK
<1>7. status[t] # "completed" /\ status'[t] # "completed"
  BY <1>1 DEF TeamInv, TypeOK, CompletedIsOver
<1>8. CompletedIsOver'
  BY <1>6, <1>7 DEF TeamInv, CompletedIsOver
<1> QED  BY <1>1, <1>4, <1>5, <1>6, <1>7, <1>8, SameWave

LEMMA WorkerKeeps ==
  ASSUME TeamInv, NEW t \in Task,
         \/ SetChecker(t) \/ SetActiveWorker(t) \/ \E file \in File : AskToWrite(t, file)
         \/ WriteFile(t) \/ FinishTask(t) \/ NotifyIdle(t)
  PROVE  TeamInv'
<1>1. UNCHANGED teamVars
  BY DEF SetChecker, SetActiveWorker, AskToWrite, WriteFile, FinishTask, NotifyIdle
<1>2. PICK s \in {"pending", "running", "completed", "failed"},
           w \in {"started", "checkerSet", "looping", "finished", "done", "none"} :
        /\ status' = [status EXCEPT ![t] = s] /\ wpc' = [wpc EXCEPT ![t] = w]
        /\ status[t] = "completed" => s = "completed"
        /\ s = "completed" => w \in {"finished", "done"}
        /\ w # "none" => wpc[t] # "none"
  <2> USE DEF TeamInv, TypeOK, CompletedIsOver
  <2>1. status = [status EXCEPT ![t] = status[t]] /\ wpc = [wpc EXCEPT ![t] = wpc[t]]
    OBVIOUS
  <2>2. CASE SetChecker(t)
    BY <2>1, <2>2 DEF SetChecker
  <2>3. CASE SetActiveWorker(t)
    BY <2>1, <2>3 DEF SetActiveWorker
  <2>4. CASE (\E file \in File : AskToWrite(t, file)) \/ WriteFile(t)
    <3>1. UNCHANGED <<status, wpc>>
      BY <2>4 DEF AskToWrite, WriteFile
    <3> QED  BY <2>1, <3>1
  <2>5. CASE FinishTask(t)
    <3>1. PICK s \in {"failed", "completed"} : status' = [status EXCEPT ![t] = s]
      BY <2>5 DEF FinishTask
    <3>2. wpc[t] = "looping" /\ wpc' = [wpc EXCEPT ![t] = "finished"]
      BY <2>5 DEF FinishTask
    <3> QED  BY <3>1, <3>2
  <2>6. CASE NotifyIdle(t)
    BY <2>1, <2>6 DEF NotifyIdle
  <2> QED  BY <2>2, <2>3, <2>4, <2>5, <2>6
<1>3. TypeOK'
  BY <1>1, <1>2 DEF TeamInv, TypeOK, teamVars
<1>4. /\ \A u \in Task : u # t => status'[u] = status[u] /\ wpc'[u] = wpc[u]
      /\ status'[t] = s /\ wpc'[t] = w
  BY <1>2 DEF TeamInv, TypeOK
<1>5. CompletedIsOver'
  BY <1>2, <1>4 DEF TeamInv, CompletedIsOver
<1> QED  BY <1>1, <1>2, <1>3, <1>4, <1>5, SameWave

-----------------------------------------------------------------------------
(* The team's goroutine *)

\* Steps of the team that change no task and do not go on with waves.
LEMMA NotWaving ==
  ASSUME TeamInv, UNCHANGED <<dependsOn, workerVars>>, phase' \in {"verify", "done"},
         ExecutesAllOrFails'
  PROVE  TeamInv'
<1> USE DEF TeamInv, workerVars
<1>1. TypeOK'
  BY DEF TypeOK
<1>2. CompletedIsOver' /\ Known'
  BY DEF CompletedIsOver, Known
<1>3. Fresh' /\ InOrder'
  BY DEF Fresh, InOrder
<1>4. DependenciesFirst'
  BY DEF DependenciesFirst
<1> QED  BY <1>1, <1>2, <1>3, <1>4

LEMMA ComputeKeeps ==
  ASSUME TeamInv, ComputeWaves
  PROVE  TeamInv'
<1> USE DEF TeamInv
<1>1. /\ phase = "compute" /\ failure = "" /\ layer = 1 /\ chunk = 0
      /\ UNCHANGED <<dependsOn, workerVars, layer, chunk>>
  BY DEF ComputeWaves, Fresh
<1>2. Removed' = Removed /\ Executable' = Executable
  BY <1>1, RemovedSame
<1>3. Removed[NTasks] = Task <=> Executable
  BY KahnCorrect DEF TypeOK
<1>4. CASE Removed[NTasks] = Task
  <2>1. phase' = "wave" /\ failure' = ""
    BY <1>1, <1>4 DEF ComputeWaves
  <2>2. 1 \in 1..NTasks /\ Removed[1 - 1] = {}
    BY RemovedType, TeamAssumption
  <2>3. Completed(Removed[layer - 1])'
    BY <1>1, <1>2, <2>2 DEF Completed
  <2>4. Layer(1) \in SUBSET Task /\ \A t \in Layer(1) : ~(Rank(t, Layer(1)) \div MaxWaveSize < 0)
    BY <2>2, LayerType, RankType
  <2>5. Earlier(Layer(1), 0) = {} /\ Layer(layer)' = Layer(1)
    BY <1>1, <1>2, <2>4 DEF Earlier, Layer
  <2>6. Completed(Earlier(Layer(layer), chunk))'
    BY <1>1, <2>5 DEF Completed, Earlier, Rank
  <2>7. InOrder'
    BY <1>1, <1>2, <1>4, <2>1, <2>2, <2>3, <2>6 DEF InOrder
  <2>8. TypeOK' /\ CompletedIsOver' /\ Known'
    BY <1>1, <2>1 DEF TypeOK, CompletedIsOver, Known, workerVars
  <2>9. Fresh' /\ ExecutesAllOrFails' /\ DependenciesFirst'
    BY <1>1, <2>1 DEF Fresh, ExecutesAllOrFails, DependenciesFirst, workerVars
  <2> QED  BY <2>7, <2>8, <2>9
<1>5. CASE Removed[NTasks] # Task
  <2>1. phase' = "verify" /\ failure' = "circular dependency"
    BY <1>5 DEF ComputeWaves
  <2>2. ExecutesAllOrFails'
    BY <1>2, <1>3, <1>5, <2>1 DEF ExecutesAllOrFails
  <2> QED  BY <1>1, <2>1, <2>2, NotWaving
<1> QED  BY <1>4, <1>5

LEMMA FirstSlice ==
  ASSUME NEW n \in 1..NTasks
  PROVE  Earlier(Layer(n), 0) = {}
<1>1. Layer(n) \in SUBSET Task /\ \A t \in Layer(n) : ~(Rank(t, Layer(n)) \div MaxWaveSize < 0)
  BY LayerType, RankType
<1> QED  BY <1>1 DEF Earlier

\* A wave that has completed completes its slice, and the last slice its layer.
LEMMA WaveCompletes ==
  ASSUME TeamInv, phase = "wave", \A t \in Wave : status[t] = "completed"
  PROVE  /\ Completed(Earlier(Layer(layer), chunk + 1))
         /\ WaveOf(layer, chunk + 1) = {} => Completed(Removed[layer])
<1> USE DEF TeamInv
<1>1. /\ layer \in 1..NTasks /\ chunk \in Nat
      /\ Completed(Removed[layer - 1]) /\ Completed(Earlier(Layer(layer), chunk))
  BY DEF InOrder
<1> DEFINE L == Layer(layer)
           Slice(t) == Rank(t, L) \div MaxWaveSize
<1>2. L \in SUBSET Task /\ \A t \in L : Slice(t) \in Nat
  BY <1>1, LayerType, RankType
<1>3. \A t \in L : Slice(t) < chunk \/ Slice(t) = chunk => status[t] = "completed"
  BY <1>1 DEF Completed, Earlier, Wave, WaveOf
<1>4. ASSUME NEW t \in Earlier(L, chunk + 1)
      PROVE  status[t] = "completed"
  <2>1. t \in L /\ Slice(t) < chunk + 1 /\ Slice(t) \in Nat
    BY <1>2 DEF Earlier
  <2> HIDE DEF Slice
  <2>2. Slice(t) < chunk \/ Slice(t) = chunk
    BY <1>1, <2>1
  <2> QED  BY <1>3, <2>1, <2>2
<1>5. ASSUME WaveOf(layer, chunk + 1) = {}
      PROVE  Completed(Removed[layer])
  <2>1. \A t \in L : Slice(t) # chunk + 1
    BY <1>5 DEF WaveOf
  <2>2. \A t \in L : Slice(t) <= chunk
    BY <1>1, <1>2, <2>1, NoGap
  <2> HIDE DEF Slice
  <2>3. \A t \in L : Slice(t) < chunk \/ Slice(t) = chunk
    BY <1>1, <1>2, <2>2
  <2>4. Completed(L)
    BY <1>3, <2>3 DEF Completed
  <2> QED  BY <1>1, <2>4, LayerType DEF Completed
<1> QED  BY <1>4, <1>5 DEF Completed

LEMMA NextNumbers ==
  ASSUME NEW l \in 1..NTasks, NEW c \in Nat
  PROVE  /\ c + 1 \in Nat /\ (l + 1) - 1 = l /\ l \in Round
         /\ l + 1 \in 1..NTasks \/ l = NTasks
         /\ l + 1 \in 1..NTasks => l \in 0..(NTasks - 1)
BY TeamAssumption DEF Round

LEMMA NextWaveKeeps ==
  ASSUME TeamInv, NextWave
  PROVE  TeamInv'
<1> USE DEF TeamInv
<1>1. /\ phase = "wave" /\ UNCHANGED <<dependsOn, failure, workerVars>>
      /\ \A t \in Wave : status[t] = "completed"
  BY DEF NextWave, WaveReturned
<1>2. /\ layer \in 1..NTasks /\ chunk \in Nat /\ failure = "" /\ Removed[NTasks] = Task
      /\ Completed(Removed[layer - 1])
  BY <1>1 DEF InOrder
<1>3. /\ Removed' = Removed /\ Executable' = Executable
      /\ \A n \in Round : Layer(n)' = Layer(n)
  BY <1>1, RemovedSame
<1>4. ASSUME NEW l \in 1..NTasks, NEW c \in Nat, AdvanceTo(l, c),
             Completed(Removed[l - 1]), Completed(Earlier(Layer(l), c))
      PROVE  TeamInv'
  <2>1. phase' = "wave" /\ layer' = l /\ chunk' = c /\ failure' = ""
    BY <1>1, <1>2, <1>4 DEF AdvanceTo
  <2>2. Completed(Removed[layer - 1])'
    BY <1>1, <1>3, <1>4, <2>1 DEF Completed, workerVars
  <2>3. Layer(layer)' = Layer(l)
    BY <1>3, <2>1 DEF Layer
  <2>4. Completed(Earlier(Layer(layer), chunk))'
    BY <1>1, <1>4, <2>1, <2>3 DEF Completed, Earlier, Rank, workerVars
  <2>5. InOrder'
    BY <1>2, <1>3, <1>4, <2>1, <2>2, <2>4 DEF InOrder
  <2>6. TypeOK' /\ CompletedIsOver' /\ Known'
    BY <1>1, <2>1 DEF TypeOK, CompletedIsOver, Known, workerVars
  <2>7. Fresh' /\ ExecutesAllOrFails' /\ DependenciesFirst'
    BY <1>1, <2>1 DEF Fresh, ExecutesAllOrFails, DependenciesFirst, workerVars
  <2> QED  BY <2>5, <2>6, <2>7
<1> HIDE DEF TeamInv
<1>5. CASE WaveOf(layer, chunk + 1) # {}
  <2>1. AdvanceTo(layer, chunk + 1) /\ Completed(Earlier(Layer(layer), chunk + 1))
    BY <1>1, <1>5, WaveCompletes DEF NextWave
  <2>2. chunk + 1 \in Nat
    BY <1>2, NextNumbers
  <2> QED  BY <1>2, <1>4, <2>1, <2>2
<1>6. CASE WaveOf(layer, chunk + 1) = {} /\ Layer(layer + 1) # {}
  <2>1. AdvanceTo(layer + 1, 0) /\ Completed(Removed[layer])
    BY <1>1, <1>6, WaveCompletes DEF NextWave
  <2>2. layer + 1 \in 1..NTasks /\ (layer + 1) - 1 = layer
    BY <1>2, <1>6, NextNumbers DEF Layer
  <2>3. Earlier(Layer(layer + 1), 0) = {}
    BY <2>2, FirstSlice
  <2>4. Completed(Earlier(Layer(layer + 1), 0))
    BY <2>3 DEF Completed
  <2> QED  BY <1>4, <2>1, <2>2, <2>4
<1>7. CASE WaveOf(layer, chunk + 1) = {} /\ Layer(layer + 1) = {}
  <2>1. phase' = "verify" /\ Completed(Removed[layer])
    BY <1>1, <1>7, WaveCompletes DEF NextWave
  <2>2. Removed[layer] = Task
    <3>1. CASE layer = NTasks
      BY <1>2, <3>1
    <3>2. CASE layer # NTasks
      <4>1. layer + 1 \in 1..NTasks /\ (layer + 1) - 1 = layer /\ layer \in 0..(NTasks - 1)
            /\ layer \in Round
        BY <1>2, <3>2, NextNumbers
      <4>2. Removed[layer + 1] = Removed[layer]
        <5>1. Removed[layer + 1] = Removed[(layer + 1) - 1] \cup Layer(layer + 1)
          BY <4>1, LayerType
        <5> QED  BY <1>7, <4>1, <5>1
      <4>3. Stable(layer)
        BY <4>1, <4>2, RemovedType DEF Stable
      <4> QED  BY <1>2, <4>1, <4>3, StaysStable
    <3> QED  BY <3>1, <3>2
  <2>3. Executable
    BY <1>2, KahnCorrect DEF TeamInv, TypeOK
  <2>4. ExecutesAllOrFails'
    BY <1>1, <1>2, <1>3, <2>1, <2>2, <2>3 DEF ExecutesAllOrFails, Completed, workerVars
  <2> QED  BY <1>1, <2>1, <2>4, NotWaving
<1> QED  BY <1>5, <1>6, <1>7

LEMMA WaveFailedKeeps ==
  ASSUME TeamInv, WaveFailed
  PROVE  TeamInv'
<1>1. /\ phase = "wave" /\ phase' = "verify" /\ failure' = "wave failed"
      /\ UNCHANGED <<dependsOn, workerVars>>
  BY DEF WaveFailed, WaveReturned
<1>2. Executable
  BY <1>1, KahnCorrect DEF TeamInv, TypeOK, InOrder
<1>3. Executable'
  BY <1>1, <1>2, RemovedSame
<1>4. ExecutesAllOrFails'
  BY <1>1, <1>3 DEF ExecutesAllOrFails
<1> QED  BY <1>1, <1>4, NotWaving

LEMMA EndKeeps ==
  ASSUME TeamInv, (\E passes \in BOOLEAN : Verify(passes)) \/ NoVerifyCommand \/ Shutdown
  PROVE  TeamInv'
<1>1. /\ phase = "verify" /\ phase' \in {"verify", "done"}
      /\ UNCHANGED <<dependsOn, failure, workerVars>>
  BY DEF Verify, NoVerifyCommand, Shutdown, teamVars
<1>2. Executable' = Executable
  BY <1>1, RemovedSame
<1>3. ExecutesAllOrFails'
  BY <1>1, <1>2 DEF TeamInv, ExecutesAllOrFails, workerVars
<1> QED  BY <1>1, <1>3, NotWaving

\* A cancel, a deadline, or nothing.
LEMMA OutsideKeeps ==
  ASSUME TeamInv, Cancel \/ WaveDeadline \/ UNCHANGED vars
  PROVE  TeamInv'
<1>1. UNCHANGED <<teamVars, workerVars>>
  BY DEF Cancel, WaveDeadline, vars
<1>2. TypeOK' /\ CompletedIsOver'
  BY <1>1 DEF TeamInv, TypeOK, CompletedIsOver, teamVars, workerVars
<1>3. UNCHANGED teamVars /\ \A t \in Task : status'[t] = status[t] /\ wpc'[t] = wpc[t]
  BY <1>1 DEF workerVars
<1> QED  BY <1>2, <1>3, SameWave

-----------------------------------------------------------------------------
(* The theorems *)

LEMMA InitHolds == Init => TeamInv
BY DEF Init, TeamInv, TypeOK, CompletedIsOver, Fresh, InOrder, Known, DependenciesFirst,
       ExecutesAllOrFails

LEMMA NextKeeps == TeamInv /\ [Next]_vars => TeamInv'
<1> SUFFICES ASSUME TeamInv, [Next]_vars PROVE TeamInv'
  OBVIOUS
<1>1. CASE Lead
  BY <1>1, ComputeKeeps, NextWaveKeeps, WaveFailedKeeps, EndKeeps DEF Lead
<1>2. CASE \E t \in Task : Worker(t)
  BY <1>2, StartKeeps, WorkerKeeps DEF Worker
<1>3. CASE Cancel \/ WaveDeadline \/ UNCHANGED vars
  BY <1>3, OutsideKeeps
<1> QED  BY <1>1, <1>2, <1>3 DEF Next

\* TeamInv is inductive, for any number of tasks, wave size and dependency graph
\* (team.go's ComputeWaves, ExecuteWaves and executeTask).
THEOREM Invariance == Spec => []TeamInv
BY InitHolds, NextKeeps, PTL DEF Spec

\* No worker starts on a task before all its dependencies are completed, however
\* the layers are cut into waves and whichever wave fails.
THEOREM OrderTheorem == Spec => []DependenciesFirst
BY Invariance, PTL DEF TeamInv

\* ComputeWaves refuses exactly the graphs without an execution order, and a run
\* that ends without an error has completed a task for every ID (the first one
\* that has it, where several have).
THEOREM AllOrFailsTheorem == Spec => []ExecutesAllOrFails
BY Invariance, PTL DEF TeamInv
=============================================================================
