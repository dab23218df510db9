--------------------------- MODULE LoopRegistry ---------------------------
(***************************************************************************)
(* agent.LoopRegistry: the table of running agent loops, the counting      *)
(* semaphore that caps them, external cancellation, and graceful shutdown. *)
(*                                                                         *)
(* A session is one POST /api/agent request: it calls Register, runs its   *)
(* loop and calls release.  Register, release, Cancel and Shutdown each    *)
(* take the registry's mutex for part of their work only, so every         *)
(* critical section and every channel, context or WaitGroup operation      *)
(* outside it is an action of its own.                                     *)
(***************************************************************************)
EXTENDS Integers, FiniteSets

CONSTANTS Session,        \* agent-loop requests
          Stopper,        \* goroutines that call Shutdown
          MaxConcurrent   \* capacity of the semaphore channel

ASSUME RegistryAssumption ==
  /\ IsFiniteSet(Session)
  /\ MaxConcurrent \in Nat \ {0}

VARIABLES
  pc,            \* where each session's request handler is
  loops,         \* keys of the registry's map
  sem,           \* tokens in the semaphore channel
  wg,            \* the WaitGroup's counter
  shuttingDown,  \* the flag behind the mutex
  cancelled,     \* sessions whose loop context is cancelled
  cancelling,    \* sessions a Cancel call has looked up and not yet cancelled
  spc,           \* where each Shutdown call is
  live           \* what each Shutdown call still has to cancel

regVars == <<loops, sem, wg, shuttingDown>>
stopVars == <<spc, live>>
vars == <<pc, loops, sem, wg, shuttingDown, cancelled, cancelling, spc, live>>

SessionPC == {"new", "checked", "reserved", "lateRefused", "running",
              "unlinked", "stopped", "slotFreed", "finished",
              "refused429", "refused503"}
StopperPC == {"idle", "cancelling", "waiting", "drained", "timedOut"}

Move(s, from, to) ==
  /\ pc[s] = from
  /\ pc' = [pc EXCEPT ![s] = to]

MoveStop(k, from, to) ==
  /\ spc[k] = from
  /\ spc' = [spc EXCEPT ![k] = to]

Init ==
  /\ pc = [s \in Session |-> "new"]
  /\ loops = {}
  /\ sem = 0
  /\ wg = 0
  /\ shuttingDown = FALSE
  /\ cancelled = {}
  /\ cancelling = {}
  /\ spc = [k \in Stopper |-> "idle"]
  /\ live = [k \in Stopper |-> {}]

---------------------------------------------------------------------------
(* Register *)

\* The first look at the flag, under the read lock.
CheckOpen(s) ==
  /\ IF shuttingDown THEN Move(s, "new", "refused503") ELSE Move(s, "new", "checked")
  /\ UNCHANGED <<regVars, cancelled, cancelling, stopVars>>

\* The non-blocking send into the semaphore channel; a full channel is a 429.
TakeSlot(s) ==
  /\ IF sem < MaxConcurrent
       THEN Move(s, "checked", "reserved") /\ sem' = sem + 1
       ELSE Move(s, "checked", "refused429") /\ UNCHANGED sem
  /\ UNCHANGED <<loops, wg, shuttingDown, cancelled, cancelling, stopVars>>

\* Insert as a build without the re-check under the lock would do it.
InsertWithoutRecheck(s) ==
  /\ Move(s, "reserved", "running")
  /\ loops' = loops \cup {s}
  /\ wg' = wg + 1
  /\ UNCHANGED <<sem, shuttingDown, cancelled, cancelling, stopVars>>

\* Second look at the flag and the map insert, in one write-locked section.
Insert(s) ==
  /\ IF shuttingDown
       THEN Move(s, "reserved", "lateRefused") /\ UNCHANGED <<loops, wg>>
       ELSE /\ Move(s, "reserved", "running")
            /\ loops' = loops \cup {s}
            /\ wg' = wg + 1
  /\ UNCHANGED <<sem, shuttingDown, cancelled, cancelling, stopVars>>

\* ReturnSlot forgetting the slot.
ReturnWithoutSlot(s) ==
  /\ Move(s, "lateRefused", "refused503")
  /\ UNCHANGED <<regVars, cancelled, cancelling, stopVars>>

\* Shutdown won the race: the slot goes back before the 503.
ReturnSlot(s) ==
  /\ Move(s, "lateRefused", "refused503")
  /\ sem > 0
  /\ sem' = sem - 1
  /\ UNCHANGED <<loops, wg, shuttingDown, cancelled, cancelling, stopVars>>

---------------------------------------------------------------------------
(* The loop itself, and release *)

\* The client goes away: net/http cancels the request context, the parent.  A
\* parent that died before the insert is a Disconnect right after it.
Disconnect(s) ==
  /\ pc[s] = "running"
  /\ cancelled' = cancelled \cup {s}
  /\ UNCHANGED <<pc, regVars, cancelling, stopVars>>

\* The loop's event channel closes; the deferred release unlinks the session.
Unlink(s) ==
  /\ Move(s, "running", "unlinked")
  /\ loops' = loops \ {s}
  /\ UNCHANGED <<sem, wg, shuttingDown, cancelled, cancelling, stopVars>>

CancelOwn(s) ==
  /\ Move(s, "unlinked", "stopped")
  /\ cancelled' = cancelled \cup {s}
  /\ UNCHANGED <<regVars, cancelling, stopVars>>

FreeSlot(s) ==
  /\ Move(s, "stopped", "slotFreed")
  /\ sem > 0
  /\ sem' = sem - 1
  /\ UNCHANGED <<loops, wg, shuttingDown, cancelled, cancelling, stopVars>>

Done(s) ==
  /\ Move(s, "slotFreed", "finished")
  /\ wg' = wg - 1
  /\ UNCHANGED <<loops, sem, shuttingDown, cancelled, cancelling, stopVars>>

---------------------------------------------------------------------------
(* Cancel: looked up under the read lock, cancelled outside it *)

LookUp(s) ==
  /\ s \in loops
  /\ cancelling' = cancelling \cup {s}
  /\ UNCHANGED <<pc, regVars, cancelled, stopVars>>

CancelFound(s) ==
  /\ s \in cancelling
  /\ cancelling' = cancelling \ {s}
  /\ cancelled' = cancelled \cup {s}
  /\ UNCHANGED <<pc, regVars, stopVars>>

---------------------------------------------------------------------------
(* Shutdown *)

\* Raise the flag and snapshot the map in one write-locked section.
RaiseFlag(k) ==
  /\ MoveStop(k, "idle", "cancelling")
  /\ shuttingDown' = TRUE
  /\ live' = [live EXCEPT ![k] = loops]
  /\ UNCHANGED <<pc, loops, sem, wg, cancelled, cancelling>>

CancelLive(k) ==
  /\ spc[k] = "cancelling"
  /\ \E s \in live[k] :
       /\ live' = [live EXCEPT ![k] = @ \ {s}]
       /\ cancelled' = cancelled \cup {s}
  /\ UNCHANGED <<pc, regVars, cancelling, spc>>

\* Waiting without having cancelled what the snapshot holds.
StartWaitingEarly(k) ==
  /\ MoveStop(k, "cancelling", "waiting")
  /\ UNCHANGED <<pc, regVars, cancelled, cancelling, live>>

StartWaiting(k) ==
  /\ live[k] = {}
  /\ MoveStop(k, "cancelling", "waiting")
  /\ UNCHANGED <<pc, regVars, cancelled, cancelling, live>>

\* Waiting for the map to empty instead of for the WaitGroup.
DrainedOnEmptyMap(k) ==
  /\ loops = {}
  /\ MoveStop(k, "waiting", "drained")
  /\ UNCHANGED <<pc, regVars, cancelled, cancelling, live>>

\* wg.Wait returned and the select took the done channel.
Drained(k) ==
  /\ wg = 0
  /\ MoveStop(k, "waiting", "drained")
  /\ UNCHANGED <<pc, regVars, cancelled, cancelling, live>>

\* The caller's 30 s context expired first.
TimedOut(k) ==
  /\ MoveStop(k, "waiting", "timedOut")
  /\ UNCHANGED <<pc, regVars, cancelled, cancelling, live>>

---------------------------------------------------------------------------
Register(s) == CheckOpen(s) \/ TakeSlot(s) \/ Insert(s) \/ ReturnSlot(s)
Release(s) == CancelOwn(s) \/ FreeSlot(s) \/ Done(s)
Cancel(s) == LookUp(s) \/ CancelFound(s)
Shutdown(k) == RaiseFlag(k) \/ CancelLive(k) \/ StartWaiting(k)
                 \/ Drained(k) \/ TimedOut(k)

Next ==
  \/ \E s \in Session : Register(s) \/ Disconnect(s) \/ Unlink(s)
                          \/ Release(s) \/ Cancel(s)
  \/ \E k \in Stopper : Shutdown(k)

Spec == Init /\ [][Next]_vars

\* A goroutine inside Register, release or Shutdown keeps running, and a loop
\* whose context is cancelled returns.  A loop nobody cancels may run on for
\* as long as it likes; the 30 s of Shutdown may or may not be enough, but a
\* Shutdown that could return does not wait for ever.
Fairness ==
  /\ \A s \in Session : /\ WF_vars(TakeSlot(s) \/ Insert(s) \/ ReturnSlot(s))
                        /\ WF_vars(s \in cancelled /\ Unlink(s))
                        /\ WF_vars(Release(s))
  /\ \A k \in Stopper : WF_vars(CancelLive(k) \/ StartWaiting(k) \/ Drained(k))

FairSpec == Spec /\ Fairness

---------------------------------------------------------------------------
(* Properties *)

\* Sessions that took a token and have not given it back.
HoldingSlot == {s \in Session : pc[s] \in {"reserved", "lateRefused", "running",
                                           "unlinked", "stopped"}}

\* Sessions Register has admitted and whose release has not finished.
HoldingWg == {s \in Session : pc[s] \in {"running", "unlinked", "stopped", "slotFreed"}}

\* The semaphore never holds more tokens than its capacity, and every request
\* and every Shutdown call is at a step its code has.
TypeOK ==
  /\ pc \in [Session -> SessionPC]
  /\ loops \subseteq Session
  /\ sem \in 0..MaxConcurrent
  /\ wg \in Nat
  /\ shuttingDown \in BOOLEAN
  /\ cancelled \subseteq Session
  /\ cancelling \subseteq Session
  /\ spc \in [Stopper -> StopperPC]
  /\ live \in [Stopper -> SUBSET Session]

\* No slot is lost or given back twice, whatever path a request takes: the
\* channel holds exactly one token per request between its reservation and
\* its release (or late refusal), so the cap of the comment on LoopRegistry
\* holds for the loops and the next request is never turned away for nothing.
SlotsAccounted ==
  /\ sem = Cardinality(HoldingSlot)
  /\ Cardinality(loops) <= sem

\* Shutdown reporting a clean drain means that nobody is left: no session in
\* the map, none between its map removal and its last WaitGroup step, and
\* none still to come from a Register that began before the flag went up.
CleanDrain ==
  \A k \in Stopper : spc[k] = "drained" => loops = {} /\ HoldingWg = {}

\* Once a Shutdown call has gone through its snapshot, every loop that is
\* still running has had its context cancelled, although the cancelling is
\* done outside the lock and Registers were in flight when the flag went up.
NoLoopSurvivesShutdown ==
  \A k \in Stopper : spc[k] \in {"waiting", "drained", "timedOut"} =>
     \A s \in Session : pc[s] = "running" => s \in cancelled

\* Every shutdown drains: after the flag is raised every slot comes back and
\* every Shutdown call reaches its end (or its timeout).
ShutdownDrains ==
  shuttingDown ~> /\ HoldingSlot = {} /\ HoldingWg = {}
                  /\ \A k \in Stopper : spc[k] \in {"idle", "drained", "timedOut"}

\* The registry implements admission control: the sessions admitted are those
\* between the map insert and the return of their token.
Admitted == {s \in Session : pc[s] \in {"running", "unlinked", "stopped"}}

Admission == INSTANCE AdmissionControl WITH
  Cap <- MaxConcurrent,
  admitted <- Admitted,
  open <- ~shuttingDown,
  drained <- \E k \in Stopper : spc[k] = "drained"

ImplementsAdmission == Admission!AbsSpec

---------------------------------------------------------------------------
\* The inductive invariant behind the properties above: the map holds the
\* running loops, the semaphore and the WaitGroup count their holders, and
\* what a Shutdown call has not cancelled yet is still in its snapshot.
Books ==
  /\ loops = {s \in Session : pc[s] = "running"}
  /\ sem = Cardinality(HoldingSlot)
  /\ wg = Cardinality(HoldingWg)

StopperInv(k) ==
  /\ spc[k] # "idle" => shuttingDown
  /\ spc[k] # "idle" => \A s \in Session : pc[s] = "running" => s \in cancelled \cup live[k]
  /\ spc[k] \notin {"idle", "cancelling"} => live[k] = {}
  /\ spc[k] = "drained" => HoldingWg = {}

IInv == TypeOK /\ Books /\ \A k \in Stopper : StopperInv(k)
===========================================================================
