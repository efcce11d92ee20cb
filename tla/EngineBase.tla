------------------------------- MODULE EngineBase -------------------------------
(***************************************************************************)
(* The two kinds of things every component of the engine talks about: chat *)
(* messages, named by the uuid7 of their timeline row, and the modules the *)
(* configuration puts in the stages of the pipeline, named as they connect.*)
(***************************************************************************)
CONSTANTS
  Msg,        \* the messages
  NoMsg,      \* not a message
  Module,     \* the configured modules
  NoModule    \* not a module

ASSUME BaseAssumption ==
  /\ NoMsg \notin Msg
  /\ NoModule \notin Module

Stage == {"pre_process", "in_process", "post_process"}
===============================================================================
