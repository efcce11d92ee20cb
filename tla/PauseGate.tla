------------------------------- MODULE PauseGate -------------------------------
(***************************************************************************)
(* The pause of the pipeline: PauseState in pipeline.rs.  Dispatch is held *)
(* by an operator pause or by a missing dependency (a block); a message    *)
(* that meets the closed gate is recorded with the point it stopped at.    *)
(*                                                                         *)
(* Every operator is one acquisition of the pause_state lock.              *)
(***************************************************************************)
EXTENDS EngineBase, Naturals

CONSTANTS
  NoPoint,      \* the message is not held
  NoReason      \* no dependency is missing

HoldPoint == {"Entry", "InProcess", "PostProcess"}

BlockedReason == {"user_db", "timeline_db"}

ASSUME PauseGateAssumption ==
  /\ NoPoint \notin HoldPoint
  /\ NoReason \notin BlockedReason

VARIABLES
  paused,                 \* the operator's pause
  held,                   \* held[m]: where m was stopped, or NoPoint
  blocked,                \* the missing dependency that is reported
  resume_when_unblocked   \* a resume was asked for while blocked

gateVars == <<paused, held, blocked, resume_when_unblocked>>

GateTypeOK ==
  /\ paused \in BOOLEAN
  /\ held \in [Msg -> HoldPoint \cup {NoPoint}]
  /\ blocked \in BlockedReason \cup {NoReason}
  /\ resume_when_unblocked \in BOOLEAN

is_gated == paused \/ blocked # NoReason

priority(reason) == IF reason = "timeline_db" THEN 2 ELSE 1

--------------------------------------------------------------------------------

\* The gate in front of a dispatch: the message is recorded and stops.
hold_if_gated(m, point) ==
  /\ is_gated
  /\ held' = [held EXCEPT ![m] = point]
  /\ UNCHANGED <<paused, blocked, resume_when_unblocked>>

pause ==
  /\ ~paused
  /\ paused' = TRUE
  /\ UNCHANGED <<held, blocked, resume_when_unblocked>>

\* Mutant: the held set is copied, not taken.
copy_held ==
  /\ paused' = FALSE
  /\ UNCHANGED <<held, blocked, resume_when_unblocked>>

\* First step of resume: the held set is taken and the pause released.  The
\* block, if there is one, stays.
release_held ==
  /\ held' = [m \in Msg |-> NoPoint]
  /\ paused' = FALSE
  /\ UNCHANGED <<blocked, resume_when_unblocked>>

set_block(reason) ==
  /\ blocked = NoReason \/ priority(reason) > priority(blocked)
  /\ blocked' = reason
  /\ UNCHANGED <<paused, held, resume_when_unblocked>>

\* The caller resumes when resume_when_unblocked was set.
clear_block(reason) ==
  /\ blocked = reason
  /\ blocked' = NoReason
  /\ resume_when_unblocked' = FALSE
  /\ UNCHANGED <<paused, held>>

defer_resume ==
  /\ resume_when_unblocked' = TRUE
  /\ UNCHANGED <<paused, held, blocked>>

defer_pause ==
  /\ resume_when_unblocked' = FALSE
  /\ paused' = TRUE
  /\ UNCHANGED <<held, blocked>>
===============================================================================
