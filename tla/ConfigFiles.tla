------------------------------- MODULE ConfigFiles -------------------------------
(***************************************************************************)
(* The settings of the engine on disk and in memory: config.json, .env,    *)
(* modules.json, removed_modules.json and the config.json of the modules,  *)
(* from config.rs, auto_config.rs, removed_modules.rs, credentials.rs and  *)
(* the boot of main.rs.                                                    *)
(*                                                                         *)
(* A file is replaced by one rename, so a reader sees the old content or   *)
(* the new one; but every update is a read, a change in memory and a       *)
(* rename, and the operator's TUI updates the same files from another      *)
(* process.  A secret is a number, 0 for none: the PIN and the signing key *)
(* are kept, migrated and generated alike.                                 *)
(***************************************************************************)
EXTENDS Naturals, FiniteSets

CONSTANTS
  Module,        \* the module names, of the discovered manifests
  Stage,         \* the four ordering lists
  NoStage,       \* a module that is in none of them
  Manifest,      \* the stage each manifest declares
  LegacySecret,  \* the secret an old config.json still carries, or 0
  ProcessSecret, \* the secret in the engine's real environment, or 0
  MaxMoves,      \* bound: edits by the operator
  MaxFaults      \* bound: kills of the engine and writes that fail

ASSUME ConfigAssumption ==
  /\ IsFiniteSet(Module)
  /\ NoStage \notin Stage
  /\ Manifest \in [Module -> Stage]
  /\ {LegacySecret, ProcessSecret, MaxMoves, MaxFaults} \subseteq Nat

VARIABLES
  cfg,         \* config.json
  env,         \* .env
  modules,     \* modules.json: what it says of each module
  removed,     \* removed_modules.json
  module_cfg,  \* the config.json of the modules
  mem,         \* ConfigState: the ordering in memory, and last_size
  ordering,    \* the ordering lists of the orchestrator
  secret,      \* ConfigState: the resolved secret
  boot,        \* what main is about to do
  todo,        \* modules auto_config has still to visit
  draft,       \* the content that an update of config.json is based on
  promised,    \* history: the secret that modules rely on
  unsaved,     \* history: a write of .env failed
  fresh,       \* history: nobody has written config.json since the draft was read
  spentOn      \* how much of each bound is spent

fileVars == <<cfg, env, modules, removed, module_cfg>>
memVars == <<mem, ordering, secret>>
configHistory == <<promised, unsaved, fresh>>

configVars == <<fileVars, memVars, boot, todo, draft, configHistory, spentOn>>

Placing == [Module -> Stage \cup {NoStage}]
Unplaced == [n \in Module |-> NoStage]

ConfigFile == [state : {"absent", "torn", "ok"}, legacy : Nat, upgraded : BOOLEAN,
               placed : Placing]
NoConfig == [state |-> "absent", legacy |-> 0, upgraded |-> FALSE, placed |-> Unplaced]

NoDraft == NoConfig

Entry == {"none", "known", "approved"}

ModuleConfig == [connection : BOOLEAN, knobs : BOOLEAN, credentials : BOOLEAN]

Forced == 1000   \* u32::MAX: no file is that long

\* Moving a module from one list to another keeps the length of the file.
SizeOf(placed) == Cardinality({n \in Module : placed[n] # NoStage})

ConfigTypeOK ==
  /\ cfg \in ConfigFile /\ draft \in ConfigFile
  /\ env \in [secret : Nat, bind : {"none", "default", "operator"}]
  /\ modules \in [Module -> Entry]
  /\ removed \subseteq Module
  /\ module_cfg \in [Module -> ModuleConfig]
  /\ mem \in [placed : Placing, last_size : 0 .. Cardinality(Module) \cup {Forced}]
  /\ ordering \in Placing
  /\ {secret, promised} \subseteq Nat
  /\ todo \subseteq Module
  /\ {unsaved, fresh} \subseteq BOOLEAN
  /\ spentOn \in [moves : 0 .. MaxMoves, faults : 0 .. MaxFaults, secrets : Nat]

\* A fresh clone, or an installation of an older version.
ConfigInit ==
  /\ cfg = IF LegacySecret = 0 THEN NoConfig
           ELSE [NoConfig EXCEPT !.state = "ok", !.legacy = LegacySecret]
  /\ env = [secret |-> 0, bind |-> "none"]
  /\ modules = [n \in Module |-> "none"]
  /\ removed = {}
  /\ module_cfg = [n \in Module |-> [connection |-> FALSE, knobs |-> TRUE,
                                      credentials |-> FALSE]]
  /\ mem = [placed |-> Unplaced, last_size |-> 0]
  /\ ordering = Unplaced
  /\ secret = 0
  /\ boot = "verify"
  /\ todo = {}
  /\ draft = NoDraft
  /\ promised = LegacySecret
  /\ unsaved = FALSE
  /\ fresh = TRUE
  /\ spentOn = [moves |-> 0, faults |-> 0, secrets |-> LegacySecret]

Fails ==
  /\ spentOn.faults < MaxFaults
  /\ spentOn' = [spentOn EXCEPT !.faults = @ + 1]

--------------------------------------------------------------------------------
(***************************************************************************)
(* Updates of config.json.                                                 *)
(***************************************************************************)
ReadDraft ==
  /\ draft' = cfg
  /\ fresh' = TRUE

\* write_atomic of the draft's new content.
Replace(content) ==
  /\ cfg' = content
  /\ draft' = NoDraft

--------------------------------------------------------------------------------
(***************************************************************************)
(* The boot: one step after the other.                                     *)
(***************************************************************************)
\* Mutant: the old file is stripped before the secrets are saved.
StripFirst ==
  [verify |-> "resolve", resolve |-> "strip", save |-> "backfill", strip |-> "strip_to",
   strip_to |-> "save", backfill |-> "backfill_to", backfill_to |-> "auto",
   order_to |-> "auto"]

After ==
  [verify |-> "resolve", resolve |-> "save", save |-> "strip", strip |-> "strip_to",
   strip_to |-> "backfill", backfill |-> "backfill_to", backfill_to |-> "auto",
   order_to |-> "auto"]

Continue(b) ==
  /\ boot = b
  /\ boot' = After[b]

\* A config that does not parse ends the engine.  The lists go to the
\* orchestrator as they were read here.
verify_config ==
  /\ boot = "verify"
  /\ IF cfg.state = "absent"
       THEN boot' = "create" /\ UNCHANGED <<mem, ordering, removed>>
       ELSE IF cfg.state = "torn"
         THEN boot' = "failed" /\ UNCHANGED <<mem, ordering, removed>>
         ELSE /\ boot' = After["verify"]
              /\ mem' = [placed |-> cfg.placed, last_size |-> SizeOf(cfg.placed)]
              /\ ordering' = cfg.placed
              /\ removed' = {}   \* clear_all
  /\ UNCHANGED <<cfg, env, modules, module_cfg, secret, todo, draft, configHistory, spentOn>>

\* Written in place: a kill may leave half of it.
create_config ==
  /\ boot = "create"
  /\ boot' = "verify"
  /\ cfg' = [NoConfig EXCEPT !.state = "ok", !.upgraded = TRUE]
  /\ UNCHANGED <<env, modules, removed, module_cfg, memVars, todo, draft, configHistory, spentOn>>

FirstOf(a, b, c) == IF a # 0 THEN a ELSE IF b # 0 THEN b ELSE c

\* ensure_secrets: the environment, .env, the old config.json, a new one.
resolve_secrets ==
  LET new == spentOn.secrets + 1
      found == FirstOf(ProcessSecret, env.secret, cfg.legacy)
  IN /\ Continue("resolve")
     /\ secret' = FirstOf(found, new, 0)
     /\ spentOn' = IF found = 0 THEN [spentOn EXCEPT !.secrets = new] ELSE spentOn
     /\ UNCHANGED <<fileVars, mem, ordering, todo, draft, configHistory>>

\* write_env_file: a failure is not looked at.
write_env_file ==
  /\ Continue("save")
  /\ \/ /\ env' = [secret |-> secret, bind |-> "default"]
        /\ promised' = FirstOf(promised, secret, 0)
        /\ UNCHANGED <<unsaved, spentOn>>
     \/ /\ Fails
        /\ unsaved' = TRUE
        /\ UNCHANGED <<env, promised>>
  /\ UNCHANGED <<cfg, modules, removed, module_cfg, memVars, todo, draft, fresh>>

ReadForStrip ==
  /\ Continue("strip")
  /\ ReadDraft
  /\ UNCHANGED <<fileVars, memVars, todo, promised, unsaved, spentOn>>

StripLegacy ==
  /\ Continue("strip_to")
  /\ IF draft.legacy # 0
       THEN Replace([draft EXCEPT !.legacy = 0])
       ELSE draft' = NoDraft /\ UNCHANGED cfg
  /\ UNCHANGED <<env, modules, removed, module_cfg, memVars, todo, configHistory, spentOn>>

ReadForBackfill ==
  /\ Continue("backfill")
  /\ ReadDraft
  /\ UNCHANGED <<fileVars, memVars, todo, promised, unsaved, spentOn>>

\* backfill_config_defaults, with migrated_backup_path.
Backfill ==
  /\ Continue("backfill_to")
  /\ todo' = Module
  /\ IF ~draft.upgraded
       THEN Replace([draft EXCEPT !.upgraded = TRUE])
       ELSE draft' = NoDraft /\ UNCHANGED cfg
  /\ UNCHANGED <<env, modules, removed, module_cfg, memVars, configHistory, spentOn>>

\* auto_config::run for one module: register_module, then add_to_ordering.
RegisterAndRead(n) ==
  /\ boot = "auto" /\ n \in todo
  /\ boot' = "order_to"
  /\ modules' = [modules EXCEPT ![n] = IF @ = "none" THEN "known" ELSE @]
  /\ ReadDraft
  /\ UNCHANGED <<cfg, env, removed, module_cfg, memVars, todo, promised, unsaved, spentOn>>

\* A module the operator has placed stays there.
place(n, placed, stage) == [placed EXCEPT ![n] = IF @ = NoStage THEN stage ELSE @]

\* Mutant: the file is written anew.
connect_anew(old) == [connection |-> TRUE, knobs |-> FALSE, credentials |-> FALSE]

\* write_connection_config: only the keys of the connection.
connect(old) == [old EXCEPT !.connection = TRUE]

\* add_to_ordering, then write_connection_config.
OrderAndConnect(n) ==
  /\ n \in todo
  /\ Continue("order_to")
  /\ todo' = todo \ {n}
  /\ Replace([draft EXCEPT !.placed = place(n, @, Manifest[n])])
  /\ module_cfg' = [module_cfg EXCEPT ![n] = connect(@)]
  /\ UNCHANGED <<env, modules, removed, memVars, configHistory, spentOn>>

Listen ==
  /\ boot = "auto" /\ todo = {}
  /\ boot' = "up"
  /\ UNCHANGED <<fileVars, memVars, todo, draft, configHistory, spentOn>>

BootConfig ==
  \/ verify_config \/ create_config
  \/ resolve_secrets \/ write_env_file
  \/ ReadForStrip \/ StripLegacy
  \/ ReadForBackfill \/ Backfill
  \/ \E n \in Module : RegisterAndRead(n) \/ OrderAndConnect(n)
  \/ Listen

--------------------------------------------------------------------------------
(***************************************************************************)
(* The running engine.  The mutex of ConfigState is held from the read to  *)
(* the rename of an update.                                                *)
(***************************************************************************)
\* Mutant: the read is made before the mutex is taken.
AlwaysFree == TRUE

StateFree == draft = NoDraft

\* Mutant: the size gate is left as it is.
keep_gate == mem.last_size

refresh_config == Forced

\* The poll task: the gate is opened, the file read, the lists handed over.
PollOrdering ==
  LET reads == SizeOf(cfg.placed) # refresh_config
      now == IF reads THEN cfg.placed ELSE mem.placed
  IN /\ boot = "up" /\ StateFree
     /\ mem' = [placed |-> now, last_size |-> IF reads THEN SizeOf(now) ELSE refresh_config]
     /\ ordering' = now
     /\ UNCHANGED <<fileVars, secret, boot, todo, draft, configHistory, spentOn>>

\* Mutant: the update starts from the copy in memory.
from_memory == [cfg EXCEPT !.placed = mem.placed]

on_disk == cfg

\* update_config reads the file first.
ReadForUpdate ==
  /\ boot = "up" /\ StateFree
  /\ draft' = on_disk
  /\ fresh' = TRUE
  /\ mem' = [mem EXCEPT !.placed = draft'.placed]

\* The update of add_module_to_config.
add_module_to_config(n, stage) ==
  LET new == place(n, draft.placed, stage)
  IN \/ /\ Replace([draft EXCEPT !.placed = new, !.legacy = 0, !.upgraded = TRUE])
        /\ mem' = [placed |-> new, last_size |-> SizeOf(new)]
        /\ UNCHANGED spentOn
     \/ /\ Fails
        /\ draft' = NoDraft
        /\ mem' = [mem EXCEPT !.placed = new]
        /\ UNCHANGED cfg

--------------------------------------------------------------------------------
(***************************************************************************)
(* The operator, through the TUI or an editor: one rename each.            *)
(***************************************************************************)
Edits ==
  /\ spentOn.moves < MaxMoves
  /\ spentOn' = [spentOn EXCEPT !.moves = @ + 1]
  /\ UNCHANGED <<memVars, boot, todo, draft, promised, unsaved>>

MoveStage(n, stage) ==
  /\ cfg.state = "ok" /\ cfg.placed[n] \notin {NoStage, stage}
  /\ Edits
  /\ cfg' = [cfg EXCEPT !.placed[n] = stage]
  /\ fresh' = (draft = NoDraft)
  /\ UNCHANGED <<env, modules, removed, module_cfg>>

EditEnv ==
  /\ env.bind = "default"
  /\ Edits
  /\ env' = [env EXCEPT !.bind = "operator"]
  /\ UNCHANGED <<cfg, modules, removed, module_cfg, fresh>>

\* A module is registered at runtime.
TuiRegister(n) ==
  /\ modules[n] # "approved"
  /\ Edits
  /\ modules' = [modules EXCEPT ![n] = "approved"]
  /\ UNCHANGED <<cfg, env, removed, module_cfg, fresh>>

\* A module is deleted: its entry, its place and its row.
TuiDelete(n) ==
  /\ cfg.state = "ok" /\ n \notin removed
  /\ Edits
  /\ modules' = [modules EXCEPT ![n] = "none"]
  /\ cfg' = [cfg EXCEPT !.placed[n] = NoStage]
  /\ removed' = removed \cup {n}
  /\ fresh' = (draft = NoDraft)
  /\ UNCHANGED <<env, module_cfg>>

\* save_module_credentials merges them into what is there.
MergeSpecific(old) == [old EXCEPT !.credentials = TRUE]

\* By the operator, through the engine.
SetCredentials(n) ==
  /\ boot = "up"
  /\ Edits
  /\ module_cfg' = [module_cfg EXCEPT ![n] = MergeSpecific(@)]
  /\ UNCHANGED <<cfg, env, modules, removed, fresh>>

--------------------------------------------------------------------------------
\* The engine is killed; only create_config leaves a half-written file.
ConfigKill ==
  /\ Fails
  /\ cfg' = IF boot = "create" THEN [NoConfig EXCEPT !.state = "torn"] ELSE cfg
  /\ boot' = "verify"
  /\ secret' = 0
  /\ mem' = [placed |-> Unplaced, last_size |-> 0]
  /\ ordering' = Unplaced
  /\ todo' = {}
  /\ draft' = NoDraft
  /\ UNCHANGED <<env, modules, removed, module_cfg, configHistory>>

--------------------------------------------------------------------------------
(***************************************************************************)
(* Properties.                                                             *)
(***************************************************************************)
\* The modules' configs and tokens carry the secret, so it survives every kill of
\* the boot and the migration (config.rs:336-340), unless .env was not written.
SecretIsStable == boot = "up" /\ ~unsaved => secret = promised /\ env.secret = secret

\* An update by the engine leaves every placed module where
\* the file has it (config.rs:739-745), unless the operator wrote the file
\* between the read and the rename of the update.
OperatorMoveIsKept ==
  [][draft # NoDraft /\ fresh /\ cfg' # cfg /\ UNCHANGED spentOn.moves =>
       \A n \in Module : cfg.placed[n] # NoStage => cfg'.placed[n] = cfg.placed[n]]_configVars

\* A stage move reaches the running pipeline, whatever its length (config.rs:700-707).
OrderingReachesPipeline == boot = "up" ~> boot # "up" \/ ordering = cfg.placed

\* The credentials that were entered and the knobs a developer set outlive each other
\* and every later boot (credentials.rs:254-257, auto_config.rs:206-211).
ModuleConfigIsKept ==
  [][\A n \in Module : /\ module_cfg[n].credentials => module_cfg'[n].credentials
                       /\ module_cfg[n].knobs => module_cfg'[n].knobs]_configVars
================================================================================
