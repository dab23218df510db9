------------------------- MODULE AdmissionControl -------------------------
(***************************************************************************)
(* What the loop registry promises its callers, with none of its locks: at *)
(* most Cap sessions are admitted at a time, none after the door closes,   *)
(* and "drained" is only ever announced over an empty house and stays true *)
(* from then on.  LoopRegistry implements this specification.              *)
(***************************************************************************)
EXTENDS Naturals, FiniteSets

CONSTANTS Session,      \* agent-loop requests, each admitted at most once
          Cap           \* how many may be admitted together

VARIABLES admitted,     \* sessions holding a slot
          open,         \* the registry still takes new sessions
          drained       \* some caller has been told that everything drained

absVars == <<admitted, open, drained>>

AbsInit ==
  /\ admitted = {}
  /\ open = TRUE
  /\ drained = FALSE

Admit(s) ==
  /\ open
  /\ s \notin admitted
  /\ Cardinality(admitted) < Cap
  /\ admitted' = admitted \cup {s}
  /\ UNCHANGED <<open, drained>>

Leave(s) ==
  /\ s \in admitted
  /\ admitted' = admitted \ {s}
  /\ UNCHANGED <<open, drained>>

Close ==
  /\ open
  /\ open' = FALSE
  /\ UNCHANGED <<admitted, drained>>

AnnounceDrained ==
  /\ ~open
  /\ admitted = {}
  /\ drained' = TRUE
  /\ UNCHANGED <<admitted, open>>

AbsNext ==
  \/ \E s \in Session : Admit(s) \/ Leave(s)
  \/ Close
  \/ AnnounceDrained

AbsSpec == AbsInit /\ [][AbsNext]_absVars
===========================================================================
