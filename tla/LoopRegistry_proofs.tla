------------------------ MODULE LoopRegistry_proofs ------------------------
(***************************************************************************)
(* Proofs about LoopRegistry, for any finite set of requests, any number   *)
(* of Shutdown calls and any positive capacity.                            *)
(***************************************************************************)
EXTENDS LoopRegistry, FiniteSetTheorems, TLAPS

USE DEF RegistryAssumption, SessionPC, StopperPC, regVars, stopVars, Move, MoveStop

\* A set of sessions is finite, and one session more or less counts for one.
LEMMA SessionCounting ==
  ASSUME NEW S \in SUBSET Session, NEW s \in Session
  PROVE  /\ IsFiniteSet(S)
         /\ Cardinality(S) \in Nat
         /\ s \notin S => Cardinality(S \cup {s}) = Cardinality(S) + 1
         /\ s \in S => Cardinality(S \ {s}) = Cardinality(S) - 1
<1>1. IsFiniteSet(S)
  BY RegistryAssumption, FS_Subset
<1>2. QED
  BY <1>1, FS_CardinalityType, FS_AddElement, FS_RemoveElement

\* The holders of slots and of WaitGroup counts start empty.
LEMMA InitEstablishes == Init => IInv
<1> SUFFICES ASSUME Init PROVE IInv
  OBVIOUS
<1>1. TypeOK
  <2>1. pc \in [Session -> SessionPC] /\ spc \in [Stopper -> StopperPC]
    BY DEF Init
  <2>2. sem \in 0..MaxConcurrent
    BY RegistryAssumption DEF Init
  <2>3. live \in [Stopper -> SUBSET Session]
    BY DEF Init
  <2> QED
    BY <2>1, <2>2, <2>3 DEF Init, TypeOK
<1>2. HoldingSlot = {} /\ HoldingWg = {}
  BY DEF Init, HoldingSlot, HoldingWg
<1>3. sem = Cardinality(HoldingSlot) /\ wg = Cardinality(HoldingWg)
  BY <1>2, FS_EmptySet DEF Init
<1> QED
  BY <1>1, <1>2, <1>3 DEF Init, IInv, Books, StopperInv

\* Each of Register's critical sections preserves the invariant.
LEMMA RegisterPreserves ==
  ASSUME IInv, NEW s \in Session, Register(s)
  PROVE  IInv'
<1> USE DEF IInv, TypeOK, Books, StopperInv
<1>0. /\ IsFiniteSet(HoldingSlot) /\ IsFiniteSet(HoldingWg)
      /\ HoldingSlot \in SUBSET Session /\ HoldingWg \in SUBSET Session
  BY RegistryAssumption, FS_Subset DEF HoldingSlot, HoldingWg
<1>1. CASE CheckOpen(s)
  <2>1. HoldingSlot' = HoldingSlot /\ HoldingWg' = HoldingWg
    BY <1>1 DEF CheckOpen, HoldingSlot, HoldingWg
  <2>2. loops' = {t \in Session : pc'[t] = "running"}
    BY <1>1 DEF CheckOpen
  <2> QED
    BY <1>1, <2>1, <2>2 DEF CheckOpen
<1>2. CASE TakeSlot(s)
  <2>1. HoldingWg' = HoldingWg
    BY <1>2 DEF TakeSlot, HoldingWg
  <2>2. loops' = {t \in Session : pc'[t] = "running"}
    BY <1>2 DEF TakeSlot
  <2>3. sem' = Cardinality(HoldingSlot')
    <3>1. CASE sem < MaxConcurrent
      <4>1. HoldingSlot' = HoldingSlot \cup {s} /\ s \notin HoldingSlot
        BY <1>2, <3>1 DEF TakeSlot, HoldingSlot
      <4> QED
        BY <1>0, <1>2, <3>1, <4>1, SessionCounting DEF TakeSlot
    <3>2. CASE ~(sem < MaxConcurrent)
      BY <1>2, <3>2 DEF TakeSlot, HoldingSlot
    <3> QED
      BY <3>1, <3>2
  <2>4. sem' \in 0..MaxConcurrent
    BY <1>2, RegistryAssumption DEF TakeSlot
  <2> QED
    BY <1>2, <2>1, <2>2, <2>3, <2>4 DEF TakeSlot
<1>3. CASE Insert(s)
  <2>1. HoldingSlot' = HoldingSlot
    BY <1>3 DEF Insert, HoldingSlot
  <2>2. CASE shuttingDown
    BY <1>3, <2>1, <2>2 DEF Insert, HoldingWg
  <2>3. CASE ~shuttingDown
    <3>1. HoldingWg' = HoldingWg \cup {s} /\ s \notin HoldingWg
      BY <1>3, <2>3 DEF Insert, HoldingWg
    <3>2. wg' = Cardinality(HoldingWg') /\ wg' \in Nat
      BY <1>0, <1>3, <2>3, <3>1, SessionCounting DEF Insert
    <3>3. loops' = {t \in Session : pc'[t] = "running"}
      BY <1>3, <2>3 DEF Insert
    <3>4. \A k \in Stopper : spc'[k] = "idle"
      BY <1>3, <2>3 DEF Insert
    <3> QED
      BY <1>3, <2>1, <2>3, <3>2, <3>3, <3>4 DEF Insert
  <2> QED
    BY <2>2, <2>3
<1>4. CASE ReturnSlot(s)
  <2>1. HoldingWg' = HoldingWg
    BY <1>4 DEF ReturnSlot, HoldingWg
  <2>2. HoldingSlot' = HoldingSlot \ {s} /\ s \in HoldingSlot
    BY <1>4 DEF ReturnSlot, HoldingSlot
  <2>3. sem' = Cardinality(HoldingSlot') /\ sem' \in 0..MaxConcurrent
    BY <1>0, <1>4, <2>2, SessionCounting, RegistryAssumption DEF ReturnSlot
  <2>4. loops' = {t \in Session : pc'[t] = "running"}
    BY <1>4 DEF ReturnSlot
  <2> QED
    BY <1>4, <2>1, <2>3, <2>4 DEF ReturnSlot
<1> QED
  BY <1>1, <1>2, <1>3, <1>4 DEF Register

\* The loop's end, release, disconnects and Cancel preserve the invariant.
LEMMA LoopPreserves ==
  ASSUME IInv, NEW s \in Session,
         Disconnect(s) \/ Unlink(s) \/ Release(s) \/ Cancel(s)
  PROVE  IInv'
<1> USE DEF IInv, TypeOK, Books, StopperInv
<1>0. HoldingSlot \in SUBSET Session /\ HoldingWg \in SUBSET Session
  BY DEF HoldingSlot, HoldingWg
<1>1. CASE Disconnect(s) \/ LookUp(s) \/ CancelFound(s)
  <2>1. HoldingSlot' = HoldingSlot /\ HoldingWg' = HoldingWg
    BY <1>1 DEF Disconnect, LookUp, CancelFound, HoldingSlot, HoldingWg
  <2> QED
    BY <1>1, <2>1 DEF Disconnect, LookUp, CancelFound
<1>2. CASE Unlink(s)
  <2>1. HoldingSlot' = HoldingSlot /\ HoldingWg' = HoldingWg
    BY <1>2 DEF Unlink, HoldingSlot, HoldingWg
  <2>2. loops' = {t \in Session : pc'[t] = "running"}
    BY <1>2 DEF Unlink
  <2> QED
    BY <1>2, <2>1, <2>2 DEF Unlink
<1>3. CASE CancelOwn(s)
  <2>1. HoldingSlot' = HoldingSlot /\ HoldingWg' = HoldingWg
    BY <1>3 DEF CancelOwn, HoldingSlot, HoldingWg
  <2>2. loops' = {t \in Session : pc'[t] = "running"}
    BY <1>3 DEF CancelOwn
  <2> QED
    BY <1>3, <2>1, <2>2 DEF CancelOwn
<1>4. CASE FreeSlot(s)
  <2>1. HoldingWg' = HoldingWg
    BY <1>4 DEF FreeSlot, HoldingWg
  <2>2. HoldingSlot' = HoldingSlot \ {s} /\ s \in HoldingSlot
    BY <1>4 DEF FreeSlot, HoldingSlot
  <2>3. sem' = Cardinality(HoldingSlot') /\ sem' \in 0..MaxConcurrent
    BY <1>0, <1>4, <2>2, SessionCounting, RegistryAssumption DEF FreeSlot
  <2>4. loops' = {t \in Session : pc'[t] = "running"}
    BY <1>4 DEF FreeSlot
  <2> QED
    BY <1>4, <2>1, <2>3, <2>4 DEF FreeSlot
<1>5. CASE Done(s)
  <2>1. HoldingSlot' = HoldingSlot
    BY <1>5 DEF Done, HoldingSlot
  <2>2. HoldingWg' = HoldingWg \ {s} /\ s \in HoldingWg
    BY <1>5 DEF Done, HoldingWg
  <2>3. wg' = Cardinality(HoldingWg') /\ wg' \in Nat
    BY <1>0, <1>5, <2>2, SessionCounting DEF Done
  <2>4. loops' = {t \in Session : pc'[t] = "running"}
    BY <1>5 DEF Done
  <2> QED
    BY <1>5, <2>1, <2>2, <2>3, <2>4 DEF Done
<1> QED
  BY <1>1, <1>2, <1>3, <1>4, <1>5 DEF Release, Cancel

\* Shutdown preserves the invariant; this is where the snapshot matters.
LEMMA ShutdownPreserves ==
  ASSUME IInv, NEW k \in Stopper, Shutdown(k)
  PROVE  IInv'
<1> USE DEF IInv, TypeOK, Books, StopperInv
<1>0. HoldingSlot' = HoldingSlot /\ HoldingWg' = HoldingWg
  BY DEF Shutdown, RaiseFlag, CancelLive, StartWaiting, Drained, TimedOut,
         HoldingSlot, HoldingWg
<1>1. CASE RaiseFlag(k)
  BY <1>0, <1>1 DEF RaiseFlag
<1>2. CASE CancelLive(k)
  BY <1>0, <1>2 DEF CancelLive
<1>3. CASE StartWaiting(k)
  BY <1>0, <1>3 DEF StartWaiting
<1>4. CASE Drained(k)
  <2>1. HoldingWg = {}
    <3>1. HoldingWg \in SUBSET Session
      BY DEF HoldingWg
    <3>2. IsFiniteSet(HoldingWg)
      BY <3>1, RegistryAssumption, FS_Subset
    <3> QED
      BY <1>4, <3>2, FS_EmptySet DEF Drained
  <2> QED
    BY <1>0, <1>4, <2>1 DEF Drained
<1>5. CASE TimedOut(k)
  BY <1>0, <1>5 DEF TimedOut
<1> QED
  BY <1>1, <1>2, <1>3, <1>4, <1>5 DEF Shutdown

\* IInv is inductive.
LEMMA StepPreserves == IInv /\ [Next]_vars => IInv'
<1> SUFFICES ASSUME IInv, [Next]_vars PROVE IInv'
  OBVIOUS
<1>1. CASE Next
  BY <1>1, RegisterPreserves, LoopPreserves, ShutdownPreserves DEF Next
<1>2. CASE UNCHANGED vars
  BY <1>2 DEF vars, IInv, TypeOK, Books, StopperInv, HoldingSlot, HoldingWg
<1> QED
  BY <1>1, <1>2

\* The inductive invariant holds throughout every behaviour of the registry.
THEOREM Invariance == Spec => []IInv
<1> QED
  BY InitEstablishes, StepPreserves, PTL DEF Spec

\* Every variable keeps its type; in particular the semaphore channel never
\* holds more than MaxConcurrent tokens and the WaitGroup never goes negative.
THEOREM TypeCorrect == Spec => []TypeOK
<1>1. IInv => TypeOK
  BY DEF IInv
<1> QED
  BY <1>1, Invariance, PTL

\* No slot is lost or returned twice: tokens and their holders agree.
THEOREM SlotsTheorem == Spec => []SlotsAccounted
<1>1. IInv => SlotsAccounted
  <2> SUFFICES ASSUME IInv PROVE SlotsAccounted
    OBVIOUS
  <2>1. loops \subseteq HoldingSlot /\ HoldingSlot \subseteq Session
    BY DEF IInv, Books, HoldingSlot
  <2>2. IsFiniteSet(HoldingSlot)
    BY <2>1, RegistryAssumption, FS_Subset
  <2> QED
    BY <2>1, <2>2, FS_Subset DEF IInv, Books, SlotsAccounted
<1> QED
  BY <1>1, Invariance, PTL

\* A Shutdown that reports a clean drain is right about it, for good.
THEOREM CleanDrainTheorem == Spec => []CleanDrain
<1>1. IInv => CleanDrain
  BY DEF IInv, Books, StopperInv, CleanDrain, HoldingWg
<1> QED
  BY <1>1, Invariance, PTL

\* Every loop that outlives the cancelling phase of a Shutdown is cancelled.
THEOREM NoSurvivorTheorem == Spec => []NoLoopSurvivesShutdown
<1>1. IInv => NoLoopSurvivesShutdown
  BY DEF IInv, StopperInv, NoLoopSurvivesShutdown
<1> QED
  BY <1>1, Invariance, PTL

\* A slot is free for whoever has reserved one: admitting a reserved session
\* keeps within the cap.
LEMMA RoomForReserved ==
  ASSUME IInv, NEW s \in Session, pc[s] = "reserved"
  PROVE  Cardinality(Admitted) < MaxConcurrent
<1>1. Admitted \subseteq HoldingSlot \ {s} /\ HoldingSlot \subseteq Session /\ s \in HoldingSlot
  BY DEF Admitted, HoldingSlot
<1>2. IsFiniteSet(HoldingSlot)
  BY <1>1, RegistryAssumption, FS_Subset
<1>3. IsFiniteSet(HoldingSlot \ {s}) /\ Cardinality(HoldingSlot \ {s}) = Cardinality(HoldingSlot) - 1
  BY <1>1, <1>2, FS_RemoveElement
<1>4. Cardinality(Admitted) <= Cardinality(HoldingSlot) - 1
  BY <1>1, <1>3, FS_Subset
<1>5. Cardinality(HoldingSlot) \in 0..MaxConcurrent
  BY DEF IInv, TypeOK, Books
<1>6. Cardinality(Admitted) \in Nat
  BY <1>1, <1>3, FS_Subset, FS_CardinalityType
<1> QED
  BY <1>4, <1>5, <1>6, RegistryAssumption

\* The instance counts with the same operator as the registry.
LEMMA SameCardinality == \A S : Admission!Cardinality(S) = Cardinality(S)
  BY DEF Admission!Cardinality, Cardinality, Admission!IsFiniteSet, IsFiniteSet

\* Every step of the registry is a step of admission control, or a stutter.
LEMMA StepRefines == IInv /\ [Next]_vars => [Admission!AbsNext]_(Admission!absVars)
<1> SUFFICES ASSUME IInv, [Next]_vars PROVE [Admission!AbsNext]_(Admission!absVars)
  OBVIOUS
<1> DEFINE drained == \E k \in Stopper : spc[k] = "drained"
<1> USE DEF IInv, TypeOK
<1>1. ASSUME NEW s \in Session, Insert(s), ~shuttingDown
      PROVE  Admission!Admit(s)
  <2>1. Admitted' = Admitted \cup {s} /\ s \notin Admitted /\ pc[s] = "reserved"
    BY <1>1 DEF Insert, Admitted
  <2> QED
    BY <1>1, <2>1, RoomForReserved, SameCardinality DEF Insert, Admission!Admit
<1>2. ASSUME NEW s \in Session, FreeSlot(s)
      PROVE  Admission!Leave(s)
  <2>1. Admitted' = Admitted \ {s} /\ s \in Admitted
    BY <1>2 DEF FreeSlot, Admitted
  <2> QED
    BY <1>2, <2>1 DEF FreeSlot, Admission!Leave
<1>3. ASSUME NEW k \in Stopper, Drained(k)
      PROVE  Admission!AnnounceDrained
  <2>1. IInv'
    BY <1>3, ShutdownPreserves DEF Shutdown
  <2>2. spc'[k] = "drained" /\ HoldingWg' = {} /\ shuttingDown
    BY <1>3, <2>1 DEF Drained, StopperInv
  <2>3. Admitted = {} /\ Admitted' = {}
    BY <1>3, <2>2 DEF Admitted, HoldingWg, Drained
  <2> QED
    BY <1>3, <2>2, <2>3 DEF Drained, Admission!AnnounceDrained
<1>4. ASSUME NEW k \in Stopper, RaiseFlag(k)
      PROVE  Admission!Close \/ UNCHANGED Admission!absVars
  <2>1. Admitted' = Admitted /\ drained' = drained /\ shuttingDown' = TRUE
    BY <1>4 DEF RaiseFlag, Admitted
  <2> QED
    BY <2>1 DEF Admission!Close, Admission!absVars
<1>5. ASSUME NEW s \in Session,
             \/ CheckOpen(s) \/ TakeSlot(s) \/ (Insert(s) /\ shuttingDown) \/ ReturnSlot(s)
             \/ Disconnect(s) \/ Unlink(s) \/ CancelOwn(s) \/ Done(s) \/ Cancel(s)
      PROVE  UNCHANGED Admission!absVars
  BY <1>5 DEF Admission!absVars, CheckOpen, TakeSlot, Insert, ReturnSlot, Disconnect, Unlink,
              CancelOwn, Done, Cancel, LookUp, CancelFound, Admitted
<1>6. ASSUME NEW k \in Stopper, CancelLive(k) \/ StartWaiting(k) \/ TimedOut(k)
      PROVE  UNCHANGED Admission!absVars
  BY <1>6 DEF Admission!absVars, CancelLive, StartWaiting, TimedOut, Admitted
<1>7. CASE UNCHANGED vars
  BY <1>7 DEF vars, Admission!absVars, Admitted
<1>8. CASE Next
  <2>1. ASSUME NEW s \in Session, Register(s) \/ Disconnect(s) \/ Unlink(s)
                                     \/ Release(s) \/ Cancel(s)
        PROVE  Admission!Admit(s) \/ Admission!Leave(s) \/ UNCHANGED Admission!absVars
    <3>1. CASE Insert(s)
      BY <3>1, <1>1, <1>5
    <3>2. CASE FreeSlot(s)
      BY <3>2, <1>2
    <3>3. CASE ~Insert(s) /\ ~FreeSlot(s)
      <4>1. \/ CheckOpen(s) \/ TakeSlot(s) \/ ReturnSlot(s) \/ Disconnect(s)
            \/ Unlink(s) \/ CancelOwn(s) \/ Done(s) \/ Cancel(s)
        BY <2>1, <3>3, Zenon DEF Register, Release
      <4> QED
        BY <4>1, <1>5, Zenon
    <3> QED
      BY <3>1, <3>2, <3>3
  <2>2. ASSUME NEW k \in Stopper, Shutdown(k)
        PROVE  Admission!AnnounceDrained \/ Admission!Close \/ UNCHANGED Admission!absVars
    BY <2>2, <1>3, <1>4, <1>6 DEF Shutdown
  <2> QED
    BY <1>8, <2>1, <2>2 DEF Next, Admission!AbsNext
<1> QED
  BY <1>7, <1>8

\* LoopRegistry implements AdmissionControl.
THEOREM RefinementTheorem == Spec => ImplementsAdmission
<1>1. Init => Admission!AbsInit
  BY DEF Init, Admission!AbsInit, Admitted
<1> QED
  BY <1>1, Invariance, StepRefines, PTL DEF Spec, Admission!AbsSpec, ImplementsAdmission
=============================================================================
