------------------------------- MODULE MCAdmission -------------------------------
(***************************************************************************)
(* Two modules, one of them a control surface, and two ordering lists.     *)
(***************************************************************************)
EXTENDS Admission

CONSTANTS tui, bot, early, late

Manifests == [n \in Module |-> early]
================================================================================
