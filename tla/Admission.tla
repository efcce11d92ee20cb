-------------------------------- MODULE Admission --------------------------------
(***************************************************************************)
(* The admission of a module that presents the PIN: the registry of known  *)
(* modules, the approval prompt, and what an admitted                      *)
(* module leaves in modules.json, removed_modules.json and config.json     *)
(* (handle_connection in main.rs, module_registry.rs).                     *)
(*                                                                         *)
(* A connection is named by its module; what happens to several sockets of *)
(* one name is the subject of Sessions.  Connections run in parallel, and  *)
(* the registry in memory is shared: a refresh is a read of the file and   *)
(* an assignment, a registration an assignment and a write of the file.    *)
(***************************************************************************)
EXTENDS ConfigFiles

CONSTANTS
  Trusted   \* is_always_trusted: the control surfaces, of Module

ASSUME AdmissionAssumption ==
  /\ Trusted \subseteq Module

VARIABLES
  registry,  \* ModuleRegistryPersistence.modules, in memory
  at,        \* what the task of each connection is about to do
  seen,      \* what it has read of modules.json or removed_modules.json
  granted,   \* history: names approved and written to modules.json
  listed,    \* history: names cleared from removed_modules.json since a delete
  raced      \* history: the registry was replaced or written over a newer one

admissionVars == <<registry, at, seen, granted, listed, raced>>
vars == <<configVars, admissionVars>>

Steps == {"new", "set", "decide", "ask", "clear", "cleared", "register",
          "save", "place", "placed", "up"}

TypeOK ==
  /\ ConfigTypeOK
  /\ registry \in [Module -> Entry]
  /\ at \in [Module -> Steps]
  /\ seen \in [Module -> [modules : [Module -> Entry], removed : SUBSET Module]]
  /\ {granted, listed} \subseteq SUBSET Module
  /\ raced \in BOOLEAN
  /\ \A m, n \in Module : at[m] = "placed" /\ at[n] = "placed" => m = n

Unread == [modules |-> [n \in Module |-> "none"], removed |-> {}]

NoEntries == [n \in Module |-> "none"]

Init ==
  /\ ConfigInit
  /\ registry = NoEntries
  /\ at = [n \in Module |-> "new"]
  /\ seen = [n \in Module |-> Unread]
  /\ granted = {}
  /\ listed = {}
  /\ raced = FALSE

Goto(c, from, to) ==
  /\ boot = "up"
  /\ at[c] = from
  /\ at' = [at EXCEPT ![c] = to]

\* ModuleRegistryPersistence::load runs before auto_config has written the file.
LoadRegistry == registry' = IF boot = "backfill_to" THEN modules ELSE registry

--------------------------------------------------------------------------------
(***************************************************************************)
(* The registry and the verdict.                                           *)
(***************************************************************************)
\* A wrong PIN, a locked identity or a placeholder name is turned away before this and
\* leaves nothing behind.
ReadRegistry(c) ==
  /\ Goto(c, "new", "set")
  /\ seen' = [seen EXCEPT ![c].modules = modules]
  /\ UNCHANGED <<configVars, registry, granted, listed, raced>>

Registering == {n \in Module : at[n] \in {"register", "save"}}

\* Mutant: the registry is the one read at boot.
KeepRegistry(c) == UNCHANGED registry

TakeRegistry(c) == registry' = seen[c].modules

\* A registration of another connection that has not reached the file, or a file
\* that has been written since it was read.
SetRegistry(c) ==
  /\ Goto(c, "set", "decide")
  /\ TakeRegistry(c)
  /\ raced' = (raced \/ seen[c].modules # modules \/ \E n \in Module : at[n] = "save")
  /\ seen' = [seen EXCEPT ![c] = Unread]
  /\ UNCHANGED <<configVars, granted, listed>>

\* A control surface that presents the pinned uuid, or whose name is new.
AutoApproved(c, pinned) ==
  IF c \in Trusted THEN pinned \/ registry[c] = "none" ELSE registry[c] = "approved"

Decide(c) ==
  /\ \E pinned \in BOOLEAN : Goto(c, "decide", IF AutoApproved(c, pinned) THEN "clear" ELSE "ask")
  /\ UNCHANGED <<configVars, registry, seen, granted, listed, raced>>

\* prompt_user_to_allow: a first answer, a timeout, or the terminal.
Answered(c) ==
  /\ \/ Goto(c, "ask", "clear")
     \/ Goto(c, "ask", "new")
  /\ UNCHANGED <<configVars, registry, seen, granted, listed, raced>>

--------------------------------------------------------------------------------
(***************************************************************************)
(* What an admitted module leaves behind.                                  *)
(***************************************************************************)
\* Mutant: the name stays suppressed.
SkipClear(names, c) == names

WithoutName(names, c) == names \ {c}

\* clear_name reads the file, and writes it if the name is in it.
ReadRemoved(c) ==
  /\ Goto(c, "clear", IF c \in removed THEN "cleared" ELSE "register")
  /\ seen' = [seen EXCEPT ![c].removed = removed]
  /\ listed' = IF c \in removed THEN listed ELSE listed \cup {c}
  /\ UNCHANGED <<configVars, registry, granted, raced>>

WriteRemoved(c) ==
  /\ Goto(c, "cleared", "register")
  /\ removed' = WithoutName(seen[c].removed, c)
  /\ raced' = (raced \/ seen[c].removed # removed)
  /\ listed' = listed \cup {c}
  /\ seen' = [seen EXCEPT ![c] = Unread]
  /\ UNCHANGED <<cfg, env, modules, module_cfg, memVars, boot, todo, draft, configHistory, spentOn,
                 registry, granted>>

EnterApproved(c) == registry' = [registry EXCEPT ![c] = "approved"]

\* register: the list in memory first.
Register(c) ==
  /\ Goto(c, "register", "save")
  /\ EnterApproved(c)
  /\ UNCHANGED <<configVars, seen, granted, listed, raced>>

\* save: the whole list, over whatever the file has.
Save(c) ==
  /\ Goto(c, "save", "place")
  /\ modules' = registry
  /\ granted' = granted \cup {c}
  /\ UNCHANGED <<cfg, env, removed, module_cfg, memVars, boot, todo, draft, configHistory, spentOn,
                 registry, seen, listed, raced>>

\* add_module_to_config: the manifest's stage, or the one the client asked for.
ReadPlace(c) ==
  /\ Goto(c, "place", "placed")
  /\ ReadForUpdate
  /\ UNCHANGED <<fileVars, ordering, secret, boot, todo, promised, unsaved, spentOn,
                 registry, seen, granted, listed, raced>>

WritePlace(c) ==
  /\ Goto(c, "placed", "up")
  /\ add_module_to_config(c, Manifest[c])
  /\ UNCHANGED <<env, modules, removed, module_cfg, ordering, secret, boot, todo, configHistory,
                 registry, seen, granted, listed, raced>>

Disconnect(c) ==
  /\ Goto(c, "up", "new")
  /\ UNCHANGED <<configVars, registry, seen, granted, listed, raced>>

Admit(c) ==
  \/ ReadRegistry(c) \/ SetRegistry(c) \/ Decide(c) \/ Answered(c)
  \/ ReadRemoved(c) \/ WriteRemoved(c)
  \/ Register(c) \/ Save(c)
  \/ ReadPlace(c) \/ WritePlace(c)
  \/ Disconnect(c)

--------------------------------------------------------------------------------
Booting == BootConfig /\ LoadRegistry /\ UNCHANGED <<at, seen, granted, listed, raced>>

Poll == PollOrdering /\ UNCHANGED admissionVars

\* A list that is in memory, or was read, is older than the operator's.
Stale == \E n \in Module : at[n] \in {"decide", "ask", "clear", "cleared", "register", "save"}

Operator ==
  \/ /\ \/ \E n \in Module, s \in Stage : MoveStage(n, s)
        \/ EditEnv
        \/ \E n \in Module : SetCredentials(n)
     /\ UNCHANGED admissionVars
  \/ \E n \in Module :
       /\ TuiRegister(n)
       /\ granted' = granted \cup {n}
       /\ raced' = (raced \/ Stale)
       /\ UNCHANGED <<registry, at, seen, listed>>
  \/ \E n \in Module :
       /\ TuiDelete(n)
       /\ granted' = granted \ {n}
       /\ listed' = listed \ {n}
       /\ raced' = (raced \/ Stale)
       /\ UNCHANGED <<registry, at, seen>>

Kill ==
  /\ ConfigKill
  /\ registry' = NoEntries
  /\ at' = [n \in Module |-> "new"]
  /\ seen' = [n \in Module |-> Unread]
  /\ listed' = {}
  /\ UNCHANGED <<granted, raced>>

Next ==
  \/ Booting
  \/ Poll
  \/ \E c \in Module : Admit(c)
  \/ Operator
  \/ Kill

Spec == Init /\ [][Next]_vars

\* An update holds the mutex for one write: the poll gets it.
FairSpec == Spec /\ WF_vars(Booting) /\ SF_vars(Poll)
                 /\ \A c \in Module : WF_vars(WritePlace(c))

--------------------------------------------------------------------------------
\* An approval, once written, stays: the engine writes whole lists, but each is a
\* later version of the file, unless a refresh fell between another connection's
\* assignment and its write, or the operator wrote the file during an admission.
ApprovalIsKept == ~raced => \A n \in granted : modules[n] = "approved"

\* A module that has connected since its deletion has its row again
\* (removed_modules.rs:10-13), whoever else rewrites the list.
ConnectedIsListed == ~raced => listed \cap removed = {}
================================================================================
