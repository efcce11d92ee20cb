---------------------------- MODULE CommandRouting ----------------------------
(***************************************************************************)
(* Which modules of a stage receive a message.                             *)
(*                                                                         *)
(* A chat message either carries a registered command or is plain chat.    *)
(* A module either registered specific commands (it is command-scoped),    *)
(* registered the empty command set (it is a catch-all), or registered     *)
(* nothing (displays, scorers, censors).  The registry is fixed here; its  *)
(* registration and disconnect operations are a component of their own.    *)
(*                                                                         *)
(* The configured lists are Vec<String> in the code.  The order of the     *)
(* pre- and post-process lists only orders the sends of one fan-out, so    *)
(* these two lists are sets and the fan-out picks any order; the           *)
(* in-process list is a chain and stays a sequence.                        *)
(***************************************************************************)
EXTENDS EngineBase, Naturals, Sequences

CONSTANTS
  PreModules,     \* PipelineConfig.pre_process_modules
  InModules,      \* PipelineConfig.in_process_modules, in chain order
  PostModules,    \* PipelineConfig.post_process_modules
  CommandScoped,  \* modules that registered a non-empty command set
  CatchAll,       \* modules that registered the empty command set
  WantsPlain,     \* modules with alert_on_unknown_command
  CommandOwner    \* owner of the command a message carries, NoModule for chat

ASSUME RoutingAssumption ==
  /\ PreModules \subseteq Module
  /\ InModules \in Seq(Module)
  /\ PostModules \subseteq Module
  /\ CommandScoped \subseteq Module
  /\ CatchAll \subseteq Module \ CommandScoped
  /\ WantsPlain \subseteq Module
  /\ CommandOwner \in [Msg -> CommandScoped \cup {NoModule}]

\* A module that only handles the commands it owns.
SkipsPlainChat(x) == x \in CommandScoped /\ x \notin WantsPlain

\* The recipients among the modules configured for a stage of a message whose
\* command belongs to owner (NoModule: the message carries no command).
command_recipients(owner, modules) ==
  IF owner # NoModule
    THEN ({owner} \cup CatchAll) \cap modules
    ELSE {x \in modules : ~SkipsPlainChat(x)}

\* Displays see every message, commands included; only a command-scoped
\* module that does not own the command is left out.
post_process_recipients(owner) ==
  {x \in PostModules : ~SkipsPlainChat(x) \/ x = owner}

\* The position in the chain is 0-based in the code.
InModuleSet == {InModules[i] : i \in 1..Len(InModules)}
InModuleAt(i) == InModules[i + 1]
is_in_recipient(owner, x) == x \in command_recipients(owner, InModuleSet)
===============================================================================
