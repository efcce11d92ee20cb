---------------------------- MODULE AdmissionProofs ----------------------------
(***************************************************************************)
(* The settings on disk, the admission of modules and the secret, for any  *)
(* modules, stages, operators and kills.                                   *)
(***************************************************************************)
EXTENDS Admission, FiniteSetTheorems, TLAPS

AllNew == \A n \in Module : at[n] = "new"

Placed == \E n \in Module : at[n] = "placed"

\* Where the boot stands says what config.json is, and who may hold a draft of it.
BootInv ==
  /\ boot # "up" => AllNew
  /\ boot = "create" => cfg.state = "absent"
  /\ boot \notin {"verify", "create", "failed"} => cfg.state = "ok"
  /\ boot \in {"verify", "create", "failed", "resolve", "save", "strip", "strip_to",
               "backfill", "backfill_to", "auto", "order_to", "up"}
  /\ draft = NoDraft \/ boot \in {"strip_to", "backfill_to", "order_to", "up"}
  /\ boot \in {"strip_to", "backfill_to", "order_to"} \/ Placed => draft.state = "ok"

\* A draft that nobody has overtaken has every module where the file has it.
DraftInv == draft # NoDraft /\ fresh => draft.placed = cfg.placed

\* The secret that the modules rely on is found again: first in the old config.json,
\* then in .env, and once it is resolved it is the one that is about to be saved.
SecretInv ==
  ~unsaved =>
    /\ cfg.state # "ok" => cfg.legacy = 0
    /\ env.secret = 0 => promised = LegacySecret /\ (LegacySecret # 0 => cfg.legacy = LegacySecret)
    /\ env.secret # 0 => env.secret = promised /\ ProcessSecret \in {0, promised}
    /\ boot = "save" =>
         /\ secret # 0
         /\ FirstOf(ProcessSecret, env.secret, cfg.legacy) \in {0, secret}
    /\ boot \in {"strip", "strip_to", "backfill", "backfill_to", "auto", "order_to", "up"} =>
         secret = promised /\ env.secret = secret /\ secret # 0

\* The list in memory has every approval that the file has from the moment a connection
\* takes it from there until it writes it back.
ApprovalInv ==
  ~raced =>
    /\ \A n \in granted : modules[n] = "approved"
    /\ Stale => \A n \in granted : registry[n] = "approved"
    /\ \A c \in Module : at[c] = "save" => registry[c] = "approved"

--------------------------------------------------------------------------------
(***************************************************************************)
(* Operators.                                                              *)
(***************************************************************************)
\* The length of the lists is bounded by the modules there are.
LEMMA SizeBound ==
  ASSUME NEW placed \in Placing
  PROVE  SizeOf(placed) \in 0 .. Cardinality(Module) \cup {Forced}
<1>1. {n \in Module : placed[n] # NoStage} \subseteq Module
  OBVIOUS
<1>2. IsFiniteSet(Module)
  BY ConfigAssumption
<1> QED
  BY <1>1, <1>2, FS_Subset, FS_CardinalityType DEF SizeOf

\* Placing a module keeps every place that is taken.
LEMMA PlaceTyped ==
  ASSUME NEW placed \in Placing, NEW n \in Module, NEW s \in Stage
  PROVE  /\ place(n, placed, s) \in Placing
         /\ \A m \in Module : placed[m] # NoStage => place(n, placed, s)[m] = placed[m]
BY DEF place, Placing

\* The constants of ConfigFiles, one by one.
LEMMA ConfigConstants ==
  /\ LegacySecret \in Nat /\ ProcessSecret \in Nat /\ MaxMoves \in Nat /\ MaxFaults \in Nat
  /\ \A n \in Module : Manifest[n] \in Stage
  /\ NoStage \notin Stage
  /\ Unplaced \in Placing /\ NoConfig \in ConfigFile
<1>1. /\ LegacySecret \in Nat /\ ProcessSecret \in Nat /\ MaxMoves \in Nat /\ MaxFaults \in Nat
      /\ \A n \in Module : Manifest[n] \in Stage
      /\ NoStage \notin Stage
  BY ConfigAssumption
<1>2. Unplaced \in Placing
  BY DEF Unplaced, Placing
<1>3. NoConfig \in ConfigFile
  BY <1>2 DEF NoConfig, ConfigFile
<1> QED
  BY <1>1, <1>2, <1>3

\* What the types say of each variable.
LEMMA ConfigTypes ==
  ASSUME ConfigTypeOK
  PROVE  /\ cfg \in ConfigFile /\ draft \in ConfigFile
         /\ cfg.placed \in Placing /\ draft.placed \in Placing
         /\ cfg.legacy \in Nat /\ env.secret \in Nat /\ secret \in Nat /\ promised \in Nat
         /\ modules \in [Module -> Entry]
         /\ mem.placed \in Placing
         /\ spentOn.moves \in 0 .. MaxMoves /\ spentOn.faults \in 0 .. MaxFaults
         /\ spentOn.secrets \in Nat
BY DEF ConfigTypeOK, ConfigFile

--------------------------------------------------------------------------------
(***************************************************************************)
(* Types.                                                                  *)
(***************************************************************************)
\* The boot keeps the types of the files and of the memory.
LEMMA BootTypes ==
  ASSUME ConfigTypeOK, BootConfig
  PROVE  ConfigTypeOK'
<1> USE ConfigConstants, ConfigTypes
<1>1. CASE verify_config
  BY <1>1, SizeBound DEF verify_config, configHistory, ConfigTypeOK
<1>2. CASE create_config
  <2>1. [NoConfig EXCEPT !.state = "ok", !.upgraded = TRUE] \in ConfigFile
    BY DEF NoConfig, ConfigFile
  <2> QED
    BY <1>2, <2>1 DEF create_config, configHistory, memVars, ConfigTypeOK
<1>3. CASE resolve_secrets
  <2>1. FirstOf(FirstOf(ProcessSecret, env.secret, cfg.legacy), spentOn.secrets + 1, 0) \in Nat
    BY DEF FirstOf
  <2>2. [spentOn EXCEPT !.secrets = spentOn.secrets + 1]
          \in [moves : 0 .. MaxMoves, faults : 0 .. MaxFaults, secrets : Nat]
    BY DEF ConfigTypeOK
  <2> QED
    BY <1>3, <2>1, <2>2 DEF resolve_secrets, configHistory, fileVars, ConfigTypeOK
<1>4. CASE write_env_file
  <2>1. env' \in [secret : Nat, bind : {"none", "default", "operator"}]
    BY <1>4 DEF write_env_file, ConfigTypeOK
  <2>2. promised' \in Nat /\ unsaved' \in BOOLEAN
    BY <1>4 DEF write_env_file, FirstOf, ConfigTypeOK
  <2>3. spentOn' \in [moves : 0 .. MaxMoves, faults : 0 .. MaxFaults, secrets : Nat]
    BY <1>4 DEF write_env_file, Fails, ConfigTypeOK
  <2> QED
    BY <1>4, <2>1, <2>2, <2>3 DEF write_env_file, memVars, ConfigTypeOK
<1>5. CASE ReadForStrip \/ ReadForBackfill
  BY <1>5 DEF ReadForStrip, ReadForBackfill, ReadDraft, fileVars, memVars, ConfigTypeOK
<1>6. CASE StripLegacy
  <2>1. [draft EXCEPT !.legacy = 0] \in ConfigFile
    BY DEF ConfigFile
  <2> QED
    BY <1>6, <2>1 DEF StripLegacy, Replace, NoDraft, memVars, configHistory, ConfigTypeOK
<1>7. CASE Backfill
  <2>1. [draft EXCEPT !.upgraded = TRUE] \in ConfigFile
    BY DEF ConfigFile
  <2> QED
    BY <1>7, <2>1 DEF Backfill, Replace, NoDraft, memVars, configHistory, ConfigTypeOK
<1>8. ASSUME NEW n \in Module, RegisterAndRead(n)
      PROVE  ConfigTypeOK'
  <2>1. modules' \in [Module -> Entry]
    BY <1>8 DEF RegisterAndRead, Entry
  <2> QED
    BY <1>8, <2>1 DEF RegisterAndRead, ReadDraft, memVars, ConfigTypeOK
<1>9. ASSUME NEW n \in Module, OrderAndConnect(n)
      PROVE  ConfigTypeOK'
  <2>1. [draft EXCEPT !.placed = place(n, @, Manifest[n])] \in ConfigFile
    BY PlaceTyped DEF ConfigFile
  <2>2. module_cfg' \in [Module -> ModuleConfig]
    BY <1>9 DEF OrderAndConnect, connect, ModuleConfig, ConfigTypeOK
  <2> QED
    BY <1>9, <2>1, <2>2
    DEF OrderAndConnect, Replace, NoDraft, memVars, configHistory, ConfigTypeOK
<1>10. CASE Listen
  BY <1>10 DEF Listen, fileVars, memVars, configHistory, ConfigTypeOK
<1> QED
  BY <1>1, <1>2, <1>3, <1>4, <1>5, <1>6, <1>7, <1>8, <1>9, <1>10 DEF BootConfig

\* So does an admission.
LEMMA AdmitTypes ==
  ASSUME ConfigTypeOK, registry \in [Module -> Entry],
         seen \in [Module -> [modules : [Module -> Entry], removed : SUBSET Module]],
         NEW c \in Module, Admit(c)
  PROVE  ConfigTypeOK'
<1> USE ConfigConstants, ConfigTypes
<1>1. CASE UNCHANGED configVars
  BY <1>1 DEF configVars, fileVars, memVars, configHistory, ConfigTypeOK
<1>2. CASE WriteRemoved(c)
  <2>1. removed' \subseteq Module
    BY <1>2 DEF WriteRemoved, WithoutName
  <2> QED
    BY <1>2, <2>1 DEF WriteRemoved, memVars, configHistory, ConfigTypeOK
<1>3. CASE Save(c)
  BY <1>3 DEF Save, memVars, configHistory, ConfigTypeOK
<1>4. CASE ReadPlace(c)
  BY <1>4 DEF ReadPlace, ReadForUpdate, on_disk, fileVars, ConfigTypeOK
<1>5. CASE WritePlace(c)
  <2> DEFINE new == place(c, draft.placed, Manifest[c])
  <2>1. new \in Placing
    BY PlaceTyped
  <2>2. [draft EXCEPT !.placed = new, !.legacy = 0, !.upgraded = TRUE] \in ConfigFile
    BY <2>1 DEF ConfigFile
  <2>3. SizeOf(new) \in 0 .. Cardinality(Module) \cup {Forced}
    BY <2>1, SizeBound
  <2> HIDE DEF new
  <2>4. \/ /\ cfg' = [draft EXCEPT !.placed = new, !.legacy = 0, !.upgraded = TRUE]
           /\ mem' = [placed |-> new, last_size |-> SizeOf(new)]
           /\ UNCHANGED spentOn
        \/ /\ Fails
           /\ mem' = [mem EXCEPT !.placed = new]
           /\ UNCHANGED cfg
    BY <1>5 DEF WritePlace, add_module_to_config, Replace, new
  <2>5. draft' \in ConfigFile
    BY <1>5 DEF WritePlace, add_module_to_config, Replace, NoDraft
  <2>6. /\ cfg' \in ConfigFile
        /\ mem' \in [placed : Placing, last_size : 0 .. Cardinality(Module) \cup {Forced}]
    BY <2>1, <2>2, <2>3, <2>4 DEF ConfigTypeOK
  <2>7. spentOn' \in [moves : 0 .. MaxMoves, faults : 0 .. MaxFaults, secrets : Nat]
    BY <2>4 DEF Fails, ConfigTypeOK
  <2> QED
    BY <1>5, <2>5, <2>6, <2>7 DEF WritePlace, configHistory, ConfigTypeOK
<1> QED
  BY <1>1, <1>2, <1>3, <1>4, <1>5
  DEF Admit, ReadRegistry, SetRegistry, Decide, Answered, ReadRemoved, Register, Disconnect

\* So do the operator, the poll and a kill.
LEMMA OtherTypes ==
  ASSUME ConfigTypeOK, Poll \/ Operator \/ Kill
  PROVE  ConfigTypeOK'
<1> USE ConfigConstants, ConfigTypes
<1>1. CASE Poll
  <2>1. mem'.placed \in Placing /\ ordering' \in Placing
    BY <1>1 DEF Poll, PollOrdering
  <2>2. mem' \in [placed : Placing, last_size : 0 .. Cardinality(Module) \cup {Forced}]
    BY <1>1, SizeBound DEF Poll, PollOrdering, refresh_config
  <2> QED
    BY <1>1, <2>1, <2>2 DEF Poll, PollOrdering, fileVars, configHistory, ConfigTypeOK
<1>2. ASSUME Edits
      PROVE  spentOn' \in [moves : 0 .. MaxMoves, faults : 0 .. MaxFaults, secrets : Nat]
  BY <1>2 DEF Edits, ConfigTypeOK
<1>3. ASSUME NEW n \in Module, NEW s \in Stage, MoveStage(n, s) PROVE ConfigTypeOK'
  <2>1. [cfg EXCEPT !.placed[n] = s] \in ConfigFile
    BY DEF ConfigFile, Placing
  <2> QED
    BY <1>2, <1>3, <2>1 DEF MoveStage, Edits, memVars, ConfigTypeOK
<1>4. CASE EditEnv
  BY <1>2, <1>4 DEF EditEnv, Edits, memVars, ConfigTypeOK
<1>5. ASSUME NEW n \in Module, SetCredentials(n) PROVE ConfigTypeOK'
  <2>1. module_cfg' \in [Module -> ModuleConfig]
    BY <1>5 DEF SetCredentials, MergeSpecific, ModuleConfig, ConfigTypeOK
  <2> QED
    BY <1>2, <1>5, <2>1 DEF SetCredentials, Edits, memVars, ConfigTypeOK
<1>6. ASSUME NEW n \in Module, TuiRegister(n) PROVE ConfigTypeOK'
  <2>1. modules' \in [Module -> Entry]
    BY <1>6 DEF TuiRegister, Entry
  <2> QED
    BY <1>2, <1>6, <2>1 DEF TuiRegister, Edits, memVars, ConfigTypeOK
<1>7. ASSUME NEW n \in Module, TuiDelete(n) PROVE ConfigTypeOK'
  <2>1. modules' \in [Module -> Entry]
    BY <1>7 DEF TuiDelete, Entry
  <2>2. [cfg EXCEPT !.placed[n] = NoStage] \in ConfigFile
    BY DEF ConfigFile, Placing
  <2>3. removed' \subseteq Module
    BY <1>7 DEF TuiDelete, ConfigTypeOK
  <2> QED
    BY <1>2, <1>7, <2>1, <2>2, <2>3 DEF TuiDelete, Edits, memVars, ConfigTypeOK
<1>8. CASE Kill
  <2>1. cfg' \in ConfigFile
    <3>1. [NoConfig EXCEPT !.state = "torn"] \in ConfigFile
      BY DEF NoConfig, ConfigFile
    <3> QED
      BY <1>8, <3>1 DEF Kill, ConfigKill
  <2>2. spentOn' \in [moves : 0 .. MaxMoves, faults : 0 .. MaxFaults, secrets : Nat]
    BY <1>8 DEF Kill, ConfigKill, Fails, ConfigTypeOK
  <2>3. draft' \in ConfigFile
    BY <1>8 DEF Kill, ConfigKill, NoDraft
  <2>4. mem' \in [placed : Placing, last_size : 0 .. Cardinality(Module) \cup {Forced}]
    BY <1>8, ConfigAssumption, FS_CardinalityType DEF Kill, ConfigKill
  <2> QED
    BY <1>8, <2>1, <2>2, <2>3, <2>4 DEF Kill, ConfigKill, configHistory, ConfigTypeOK
<1> QED
  BY <1>1, <1>3, <1>4, <1>5, <1>6, <1>7, <1>8 DEF Operator

\* What an admission keeps of its own.
AdmissionTypes ==
  /\ registry \in [Module -> Entry]
  /\ at \in [Module -> Steps]
  /\ seen \in [Module -> [modules : [Module -> Entry], removed : SUBSET Module]]
  /\ {granted, listed} \subseteq SUBSET Module
  /\ raced \in BOOLEAN

AtMostOnePlaces == \A m, n \in Module : at[m] = "placed" /\ at[n] = "placed" => m = n

TypeInv == TypeOK /\ BootInv

\* Every step keeps the types of the admission.
LEMMA AdmissionTypesStep ==
  ASSUME TypeOK, [Next]_vars
  PROVE  AdmissionTypes'
<1> USE DEF AdmissionTypes, TypeOK
<1>1. modules \in [Module -> Entry] /\ removed \subseteq Module /\ Unread \in
        [modules : [Module -> Entry], removed : SUBSET Module] /\ NoEntries \in [Module -> Entry]
  BY DEF ConfigTypeOK, Unread, NoEntries, Entry
<1>2. CASE Booting
  BY <1>1, <1>2 DEF Booting, LoadRegistry
<1>3. CASE Poll
  BY <1>3 DEF Poll, admissionVars
<1>4. ASSUME NEW c \in Module, Admit(c) PROVE AdmissionTypes'
  <2>1. at' \in [Module -> Steps]
    BY <1>4
    DEF Admit, ReadRegistry, SetRegistry, Decide, Answered, ReadRemoved, WriteRemoved,
        Register, Save, ReadPlace, WritePlace, Disconnect, Goto, Steps
  <2>2. seen' \in [Module -> [modules : [Module -> Entry], removed : SUBSET Module]]
    <3>1. /\ [seen EXCEPT ![c].modules = modules]
               \in [Module -> [modules : [Module -> Entry], removed : SUBSET Module]]
          /\ [seen EXCEPT ![c].removed = removed]
               \in [Module -> [modules : [Module -> Entry], removed : SUBSET Module]]
          /\ [seen EXCEPT ![c] = Unread]
               \in [Module -> [modules : [Module -> Entry], removed : SUBSET Module]]
      BY <1>1
    <3> QED
      BY <1>4, <3>1
      DEF Admit, ReadRegistry, SetRegistry, Decide, Answered, ReadRemoved, WriteRemoved,
          Register, Save, ReadPlace, WritePlace, Disconnect
  <2>3. registry' \in [Module -> Entry]
    <3>1. seen[c].modules \in [Module -> Entry]
          /\ [registry EXCEPT ![c] = "approved"] \in [Module -> Entry]
      BY DEF Entry
    <3> QED
      BY <1>4, <3>1
      DEF Admit, ReadRegistry, SetRegistry, Decide, Answered, ReadRemoved, WriteRemoved,
          Register, Save, ReadPlace, WritePlace, Disconnect, TakeRegistry, EnterApproved
  <2>4. granted' \subseteq Module /\ listed' \subseteq Module
    BY <1>4
    DEF Admit, ReadRegistry, SetRegistry, Decide, Answered, ReadRemoved, WriteRemoved,
        Register, Save, ReadPlace, WritePlace, Disconnect
  <2>5. raced' \in BOOLEAN
    BY <1>4
    DEF Admit, ReadRegistry, SetRegistry, Decide, Answered, ReadRemoved, WriteRemoved,
        Register, Save, ReadPlace, WritePlace, Disconnect
  <2> QED
    BY <2>1, <2>2, <2>3, <2>4, <2>5
<1>5. CASE Operator
  BY <1>5 DEF Operator, admissionVars
<1>6. CASE Kill
  BY <1>1, <1>6 DEF Kill, Steps
<1>7. CASE UNCHANGED vars
  BY <1>7 DEF vars, admissionVars
<1> QED
  BY <1>2, <1>3, <1>4, <1>5, <1>6, <1>7 DEF Next

\* The boot goes on only as the file allows.
LEMMA BootBoots ==
  ASSUME TypeInv, Booting
  PROVE  BootInv' /\ AtMostOnePlaces'
<1> USE DEF TypeInv, TypeOK, BootInv, AllNew, Placed
<1>1. AtMostOnePlaces' /\ (AllNew' <=> AllNew) /\ (Placed' <=> Placed)
  BY DEF Booting, AtMostOnePlaces
<1>2. boot # "up" /\ AllNew /\ ~Placed
  BY DEF Booting, BootConfig, verify_config, create_config, resolve_secrets, write_env_file,
         ReadForStrip, StripLegacy, ReadForBackfill, Backfill, RegisterAndRead, OrderAndConnect,
         Listen, Continue
<1>3. NoDraft.state = "absent"
  BY DEF NoDraft, NoConfig
<1>4. CASE verify_config
  BY <1>1, <1>2, <1>4 DEF verify_config, After, ConfigTypeOK, ConfigFile
<1>5. CASE create_config
  BY <1>1, <1>2, <1>5 DEF create_config, NoConfig
<1>6. CASE resolve_secrets \/ write_env_file
  BY <1>1, <1>2, <1>6 DEF resolve_secrets, write_env_file, Continue, After, fileVars
<1>7. CASE ReadForStrip \/ ReadForBackfill
  BY <1>1, <1>2, <1>7 DEF ReadForStrip, ReadForBackfill, Continue, After, fileVars, ReadDraft
<1>8. ASSUME BootConfig, boot \in {"strip_to", "backfill_to", "order_to"}
      PROVE  cfg'.state = "ok" /\ draft' = NoDraft /\ boot' \in {"backfill", "auto"}
  <2>1. CASE StripLegacy
    BY <1>8, <2>1 DEF StripLegacy, Replace, Continue, After, ConfigTypeOK, ConfigFile
  <2>2. CASE Backfill
    BY <1>8, <2>2 DEF Backfill, Replace, Continue, After, ConfigTypeOK, ConfigFile
  <2>3. ASSUME NEW n \in Module, OrderAndConnect(n)
        PROVE  cfg'.state = "ok" /\ draft' = NoDraft /\ boot' \in {"backfill", "auto"}
    BY <1>8, <2>3 DEF OrderAndConnect, Replace, Continue, After, ConfigTypeOK, ConfigFile
  <2> QED
    BY <1>8, <2>1, <2>2, <2>3
    DEF BootConfig, verify_config, create_config, resolve_secrets, write_env_file, ReadForStrip,
        ReadForBackfill, RegisterAndRead, Listen, Continue
<1>9. CASE boot \in {"strip_to", "backfill_to", "order_to"}
  BY <1>1, <1>2, <1>8, <1>9 DEF Booting
<1>10. ASSUME NEW n \in Module, RegisterAndRead(n) PROVE BootInv'
  BY <1>1, <1>2, <1>10 DEF RegisterAndRead, ReadDraft
<1>11. CASE Listen
  BY <1>1, <1>2, <1>11 DEF Listen, fileVars
<1> QED
  BY <1>1, <1>4, <1>5, <1>6, <1>7, <1>9, <1>10, <1>11
  DEF Booting, BootConfig, StripLegacy, Backfill, OrderAndConnect, Continue

\* An update of config.json by an admission holds the mutex: nobody else is at it.
LEMMA AdmitBoots ==
  ASSUME TypeInv, NEW c \in Module, Admit(c)
  PROVE  BootInv' /\ AtMostOnePlaces'
<1> USE DEF TypeInv, TypeOK, BootInv, AllNew, Placed
<1>1. boot = "up" /\ boot' = boot /\ cfg.state = "ok"
  BY DEF Admit, ReadRegistry, SetRegistry, Decide, Answered, ReadRemoved, WriteRemoved,
         Register, Save, ReadPlace, WritePlace, Disconnect, Goto, configVars
<1>2. NoDraft.state = "absent"
  BY DEF NoDraft, NoConfig
<1>3. \A n \in Module : at'[n] = IF n = c THEN at'[c] ELSE at[n]
  BY DEF Admit, ReadRegistry, SetRegistry, Decide, Answered, ReadRemoved, WriteRemoved,
         Register, Save, ReadPlace, WritePlace, Disconnect, Goto
<1>4. CASE ReadPlace(c)
  <2>1. ~Placed
    BY <1>2, <1>4 DEF ReadPlace, ReadForUpdate, StateFree
  <2>2. draft' = cfg /\ cfg' = cfg
    BY <1>4 DEF ReadPlace, ReadForUpdate, on_disk, fileVars
  <2> QED
    BY <1>1, <1>3, <2>1, <2>2 DEF AtMostOnePlaces
<1>5. CASE WritePlace(c)
  <2>1. at[c] = "placed" /\ at'[c] = "up"
    BY <1>5 DEF WritePlace, Goto
  <2>2. ~Placed'
    BY <1>3, <2>1
  <2>3. draft.state = "ok" /\ draft' = NoDraft
    BY <1>5, <2>1 DEF WritePlace, add_module_to_config, Replace
  <2>4. cfg'.state = "ok"
    <3>1. CASE cfg' = cfg
      BY <1>1, <3>1
    <3>2. ASSUME NEW p, cfg' = [draft EXCEPT !.placed = p, !.legacy = 0, !.upgraded = TRUE]
          PROVE  cfg'.state = "ok"
      BY <2>3, <3>2 DEF ConfigTypeOK, ConfigFile
    <3> QED
      BY <1>5, <3>1, <3>2 DEF WritePlace, add_module_to_config, Replace
  <2> QED
    BY <1>1, <2>2, <2>3, <2>4 DEF AtMostOnePlaces
<1>6. CASE ~ReadPlace(c) /\ ~WritePlace(c)
  <2>1. at'[c] # "placed" /\ cfg' = cfg /\ draft' = draft
    BY <1>6
    DEF Admit, ReadRegistry, SetRegistry, Decide, Answered, ReadRemoved, WriteRemoved,
        Register, Save, Disconnect, Goto, configVars, fileVars
  <2> QED
    BY <1>1, <1>3, <2>1 DEF AtMostOnePlaces
<1> QED
  BY <1>4, <1>5, <1>6

\* Nor do the operator, the poll or a kill leave the boot in a file it has not checked.
LEMMA OtherBoots ==
  ASSUME TypeInv, Poll \/ Operator \/ Kill
  PROVE  BootInv' /\ AtMostOnePlaces'
<1> USE DEF TypeInv, TypeOK, BootInv, AllNew, Placed
<1>1. CASE Poll
  BY <1>1 DEF Poll, PollOrdering, fileVars, admissionVars, AtMostOnePlaces
<1>2. CASE Operator
  <2>1. boot' = boot /\ draft' = draft /\ at' = at
    BY <1>2 DEF Operator, MoveStage, EditEnv, SetCredentials, TuiRegister, TuiDelete, Edits,
                admissionVars
  <2>2. cfg'.state = cfg.state
    BY <1>2 DEF Operator, MoveStage, EditEnv, SetCredentials, TuiRegister, TuiDelete,
                ConfigTypeOK, ConfigFile
  <2> QED
    BY <2>1, <2>2 DEF AtMostOnePlaces
<1>3. CASE Kill
  BY <1>3 DEF Kill, ConfigKill, AtMostOnePlaces
<1> QED
  BY <1>1, <1>2, <1>3

\* The types and the place of the boot are inductive.
LEMMA TypesInductive ==
  /\ Init => TypeInv
  /\ TypeInv /\ [Next]_vars => TypeInv'
<1>1. Init => TypeInv
  <2> SUFFICES ASSUME Init PROVE TypeInv
    OBVIOUS
  <2>1. cfg \in ConfigFile
    BY ConfigConstants DEF Init, ConfigInit, NoConfig, ConfigFile
  <2>2. ConfigTypeOK
    <3>1. Cardinality(Module) \in Nat
      BY ConfigAssumption, FS_CardinalityType
    <3>2. /\ mem \in [placed : Placing, last_size : 0 .. Cardinality(Module) \cup {Forced}]
          /\ spentOn \in [moves : 0 .. MaxMoves, faults : 0 .. MaxFaults, secrets : Nat]
      BY <3>1, ConfigConstants DEF Init, ConfigInit
    <3>3. /\ env \in [secret : Nat, bind : {"none", "default", "operator"}]
          /\ modules \in [Module -> Entry]
          /\ module_cfg \in [Module -> ModuleConfig]
      BY DEF Init, ConfigInit, Entry, ModuleConfig
    <3> QED
      BY <2>1, <3>2, <3>3, ConfigConstants DEF Init, ConfigInit, ConfigTypeOK, NoDraft
  <2>3. AdmissionTypes /\ AtMostOnePlaces
    BY DEF Init, AdmissionTypes, AtMostOnePlaces, NoEntries, Unread, Entry, Steps
  <2>4. BootInv
    BY DEF Init, ConfigInit, BootInv, AllNew, Placed
  <2> QED
    BY <2>2, <2>3, <2>4 DEF TypeInv, TypeOK, AdmissionTypes, AtMostOnePlaces
<1>2. TypeInv /\ [Next]_vars => TypeInv'
  <2> SUFFICES ASSUME TypeInv, [Next]_vars PROVE TypeInv'
    OBVIOUS
  <2>1. ConfigTypeOK'
    <3>1. CASE UNCHANGED vars
      BY <3>1 DEF vars, configVars, fileVars, memVars, configHistory, ConfigTypeOK, TypeInv, TypeOK
    <3> QED
      BY <3>1, BootTypes, AdmitTypes, OtherTypes DEF Next, Booting, TypeInv, TypeOK
  <2>2. BootInv' /\ AtMostOnePlaces'
    <3>1. CASE UNCHANGED vars
      BY <3>1 DEF vars, configVars, fileVars, admissionVars, BootInv, AllNew, Placed,
                  AtMostOnePlaces, TypeInv, TypeOK
    <3> QED
      BY <3>1, BootBoots, AdmitBoots, OtherBoots DEF Next
  <2>3. AdmissionTypes'
    BY AdmissionTypesStep DEF TypeInv
  <2> QED
    BY <2>1, <2>2, <2>3 DEF TypeInv, TypeOK, AdmissionTypes, AtMostOnePlaces
<1> QED
  BY <1>1, <1>2

\* The files, the memory and the admissions stay in their types, and at most one
\* admission is between the read and the rename of config.json.
THEOREM AdmissionTypeCorrect == Spec => []TypeOK
<1>1. TypeInv => TypeOK
  BY DEF TypeInv
<1> QED
  BY <1>1, TypesInductive, PTL DEF Spec

--------------------------------------------------------------------------------
(***************************************************************************)
(* config.json and the configs of the modules.                             *)
(***************************************************************************)
\* What writes config.json, and from which draft.
LEMMA WhoWrites ==
  ASSUME TypeInv, [Next]_vars
  PROVE  \/ cfg' = cfg
         \/ draft = NoDraft
         \/ spentOn'.moves # spentOn.moves /\ (draft # NoDraft => ~fresh') /\ draft' = draft
         \/ /\ draft' = NoDraft
            /\ \A n \in Module : draft.placed[n] # NoStage => cfg'.placed[n] = draft.placed[n]
<1> USE DEF TypeInv, TypeOK
<1>1. CASE Booting
  <2>1. CASE StripLegacy \/ Backfill
    BY <1>1, <2>1 DEF StripLegacy, Backfill, Replace, ConfigTypeOK, ConfigFile
  <2>2. ASSUME NEW n \in Module, OrderAndConnect(n)
        PROVE  /\ draft' = NoDraft
               /\ \A m \in Module : draft.placed[m] # NoStage => cfg'.placed[m] = draft.placed[m]
    <3>1. draft' = NoDraft /\ cfg' = [draft EXCEPT !.placed = place(n, @, Manifest[n])]
      BY <2>2 DEF OrderAndConnect, Replace
    <3>2. cfg'.placed = place(n, draft.placed, Manifest[n])
      BY <3>1 DEF ConfigTypeOK, ConfigFile
    <3> QED
      BY <3>1, <3>2, PlaceTyped, ConfigTypes, ConfigConstants
  <2>3. CASE create_config
    BY <2>3 DEF create_config, BootInv
  <2>4. cfg' = cfg \/ create_config \/ StripLegacy \/ Backfill
          \/ \E n \in Module : OrderAndConnect(n)
    BY <1>1
    DEF Booting, BootConfig, verify_config, resolve_secrets, write_env_file, ReadForStrip,
        ReadForBackfill, RegisterAndRead, Listen, fileVars
  <2> QED
    BY <2>1, <2>2, <2>3, <2>4
<1>2. ASSUME NEW c \in Module, Admit(c), cfg' # cfg
      PROVE  /\ draft' = NoDraft
             /\ \A n \in Module : draft.placed[n] # NoStage => cfg'.placed[n] = draft.placed[n]
  <2> DEFINE new == place(c, draft.placed, Manifest[c])
  <2>1. WritePlace(c)
    BY <1>2
    DEF Admit, ReadRegistry, SetRegistry, Decide, Answered, ReadRemoved, WriteRemoved,
        Register, Save, ReadPlace, Disconnect, configVars, fileVars
  <2>2. cfg' = [draft EXCEPT !.placed = new, !.legacy = 0, !.upgraded = TRUE] /\ draft' = NoDraft
    BY <1>2, <2>1 DEF WritePlace, add_module_to_config, Replace
  <2>3. cfg'.placed = new
    <3> HIDE DEF new
    <3> QED
      BY <2>2 DEF ConfigTypeOK, ConfigFile
  <2> QED
    BY <2>2, <2>3, PlaceTyped, ConfigTypes, ConfigConstants
<1>3. CASE Operator
  <2>1. spentOn'.moves # spentOn.moves
    BY <1>3 DEF Operator, MoveStage, EditEnv, SetCredentials, TuiRegister, TuiDelete, Edits,
                ConfigTypeOK
  <2>2. draft' = draft /\ (cfg' # cfg => fresh' = (draft = NoDraft))
    BY <1>3 DEF Operator, MoveStage, EditEnv, SetCredentials, TuiRegister, TuiDelete, Edits
  <2> QED
    BY <2>1, <2>2
<1>4. CASE Poll \/ UNCHANGED vars
  BY <1>4 DEF Poll, PollOrdering, vars, configVars, fileVars
<1>5. CASE Kill
  BY <1>5 DEF Kill, ConfigKill, BootInv
<1> QED
  BY <1>1, <1>2, <1>3, <1>4, <1>5 DEF Next

\* A draft is read from the file, and the mark says whether the file is still that one.
LEMMA DraftInductive ==
  /\ Init => DraftInv
  /\ TypeInv /\ DraftInv /\ [Next]_vars => DraftInv'
<1>1. Init => DraftInv
  BY DEF Init, ConfigInit, DraftInv
<1>2. ASSUME TypeInv, DraftInv, [Next]_vars PROVE DraftInv'
  <2>1. \/ draft' = NoDraft
        \/ draft' = cfg /\ cfg' = cfg
        \/ draft' = draft /\ (fresh' = fresh \/ fresh' = (draft = NoDraft))
    <3>1. CASE Booting
      <4>1. CASE verify_config \/ create_config \/ resolve_secrets \/ write_env_file \/ Listen
        BY <4>1 DEF verify_config, create_config, resolve_secrets, write_env_file, Listen,
                    configHistory
      <4>2. CASE StripLegacy \/ Backfill \/ \E n \in Module : OrderAndConnect(n)
        BY <4>2 DEF StripLegacy, Backfill, OrderAndConnect, Replace
      <4>3. CASE ReadForStrip \/ ReadForBackfill \/ \E n \in Module : RegisterAndRead(n)
        BY <4>3 DEF ReadForStrip, ReadForBackfill, RegisterAndRead, ReadDraft, fileVars
      <4> QED
        BY <3>1, <4>1, <4>2, <4>3 DEF Booting, BootConfig
    <3>2. ASSUME NEW c \in Module, Admit(c)
          PROVE  \/ draft' = NoDraft
                 \/ draft' = cfg /\ cfg' = cfg
                 \/ draft' = draft /\ fresh' = fresh
      <4>1. CASE ReadPlace(c)
        BY <4>1 DEF ReadPlace, ReadForUpdate, on_disk, fileVars
      <4>2. CASE WritePlace(c)
        BY <4>2 DEF WritePlace, add_module_to_config, Replace
      <4> QED
        BY <3>2, <4>1, <4>2
        DEF Admit, ReadRegistry, SetRegistry, Decide, Answered, ReadRemoved, WriteRemoved,
            Register, Save, Disconnect, configVars, configHistory
    <3>3. CASE Poll \/ Kill \/ UNCHANGED vars
      BY <3>3 DEF Poll, PollOrdering, Kill, ConfigKill, vars, configVars, configHistory
    <3>4. CASE Operator
      BY <3>4 DEF Operator, MoveStage, EditEnv, SetCredentials, TuiRegister, TuiDelete, Edits
    <3> QED
      BY <1>2, <3>1, <3>2, <3>3, <3>4 DEF Next
  <2>2. CASE draft' = NoDraft \/ (draft' = cfg /\ cfg' = cfg)
    BY <2>2 DEF DraftInv
  <2>3. CASE draft' = draft /\ (fresh' = fresh \/ fresh' = (draft = NoDraft))
    BY <1>2, <2>3, WhoWrites DEF DraftInv
  <2> QED
    BY <2>1, <2>2, <2>3
<1> QED
  BY <1>1, <1>2

\* However boot, admissions, failing writes and kills fall, an update of config.json by the
\* engine leaves every module where the file has it, unless the operator wrote the file
\* between the read and the rename of that update.
THEOREM OperatorMoveKept == Spec => OperatorMoveIsKept
<1>1. TypeInv /\ DraftInv /\ [Next]_vars =>
        [draft # NoDraft /\ fresh /\ cfg' # cfg /\ UNCHANGED spentOn.moves =>
           \A n \in Module : cfg.placed[n] # NoStage => cfg'.placed[n] = cfg.placed[n]]_configVars
  <2> SUFFICES ASSUME TypeInv, DraftInv, [Next]_vars,
                      draft # NoDraft, fresh, cfg' # cfg, UNCHANGED spentOn.moves
               PROVE  \A n \in Module : cfg.placed[n] # NoStage => cfg'.placed[n] = cfg.placed[n]
    OBVIOUS
  <2>1. draft.placed = cfg.placed
    BY DEF DraftInv
  <2>2. \A n \in Module : draft.placed[n] # NoStage => cfg'.placed[n] = draft.placed[n]
    BY WhoWrites
  <2> QED
    BY <2>1, <2>2
<1> QED
  BY <1>1, TypesInductive, DraftInductive, PTL DEF Spec, OperatorMoveIsKept

\* The engine's config of a module and the credentials that are entered for it are
\* merged into each other's file: neither is ever lost.
THEOREM ModuleConfigKept == Spec => ModuleConfigIsKept
<1>1. TypeInv /\ [Next]_vars =>
        [\A n \in Module : /\ module_cfg[n].credentials => module_cfg'[n].credentials
                           /\ module_cfg[n].knobs => module_cfg'[n].knobs]_configVars
  <2> SUFFICES ASSUME TypeInv, [Next]_vars, NEW n \in Module
               PROVE  /\ module_cfg[n].credentials => module_cfg'[n].credentials
                      /\ module_cfg[n].knobs => module_cfg'[n].knobs
    OBVIOUS
  <2>1. module_cfg \in [Module -> ModuleConfig]
    BY DEF TypeInv, TypeOK, ConfigTypeOK
  <2>2. \/ module_cfg' = module_cfg
        \/ \E m \in Module : module_cfg' = [module_cfg EXCEPT ![m] = connect(@)]
        \/ \E m \in Module : module_cfg' = [module_cfg EXCEPT ![m] = MergeSpecific(@)]
    <3>1. CASE Booting
      BY <3>1
      DEF Booting, BootConfig, verify_config, create_config, resolve_secrets, write_env_file,
          ReadForStrip, StripLegacy, ReadForBackfill, Backfill, RegisterAndRead,
          OrderAndConnect, Listen, fileVars
    <3>2. ASSUME NEW c \in Module, Admit(c) PROVE module_cfg' = module_cfg
      BY <3>2
      DEF Admit, ReadRegistry, SetRegistry, Decide, Answered, ReadRemoved, WriteRemoved,
          Register, Save, ReadPlace, WritePlace, Disconnect, configVars, fileVars
    <3>3. CASE Operator
      BY <3>3 DEF Operator, MoveStage, EditEnv, SetCredentials, TuiRegister, TuiDelete
    <3>4. CASE Poll \/ Kill \/ UNCHANGED vars
      BY <3>4 DEF Poll, PollOrdering, Kill, ConfigKill, vars, configVars, fileVars
    <3> QED
      BY <3>1, <3>2, <3>3, <3>4 DEF Next
  <2> QED
    BY <2>1, <2>2 DEF connect, MergeSpecific, ModuleConfig
<1> QED
  BY <1>1, TypesInductive, PTL DEF Spec, ModuleConfigIsKept

--------------------------------------------------------------------------------
(***************************************************************************)
(* The approvals and the suppressed names.                                 *)
(***************************************************************************)
\* The lists of approvals, in the file and in memory, follow each other.
LEMMA ApprovalInductive ==
  /\ Init => ApprovalInv
  /\ TypeInv /\ ApprovalInv /\ [Next]_vars => ApprovalInv'
<1>1. Init => ApprovalInv
  BY DEF Init, ApprovalInv, Stale
<1>2. ASSUME TypeInv, ApprovalInv, [Next]_vars PROVE ApprovalInv'
  <2> USE <1>2 DEF TypeInv, TypeOK, ApprovalInv
  <2>1. CASE Booting
    <3>1. AllNew /\ AllNew' /\ granted' = granted /\ raced' = raced
      BY <2>1, AdmitBoots
      DEF Booting, BootConfig, verify_config, create_config, resolve_secrets, write_env_file,
          ReadForStrip, StripLegacy, ReadForBackfill, Backfill, RegisterAndRead,
          OrderAndConnect, Listen, Continue, BootInv, AllNew
    <3>2. \A n \in Module : modules[n] = "approved" => modules'[n] = "approved"
      <4>1. \/ modules' = modules
            \/ \E m \in Module :
                 modules' = [modules EXCEPT ![m] = IF @ = "none" THEN "known" ELSE @]
        BY <2>1
        DEF Booting, BootConfig, verify_config, create_config, resolve_secrets, write_env_file,
            ReadForStrip, StripLegacy, ReadForBackfill, Backfill, RegisterAndRead,
            OrderAndConnect, Listen, fileVars
      <4> QED
        BY <4>1 DEF ConfigTypeOK
    <3> QED
      BY <3>1, <3>2 DEF AllNew, Stale
  <2>2. ASSUME NEW c \in Module, Admit(c) PROVE ApprovalInv'
    <3>1. \A n \in Module : at'[n] = IF n = c THEN at'[c] ELSE at[n]
      BY <2>2
      DEF Admit, ReadRegistry, SetRegistry, Decide, Answered, ReadRemoved, WriteRemoved,
          Register, Save, ReadPlace, WritePlace, Disconnect, Goto
    <3>2. CASE SetRegistry(c)
      <4>1. registry' = seen[c].modules /\ modules' = modules /\ granted' = granted
        BY <3>2 DEF SetRegistry, TakeRegistry, configVars, fileVars
      <4>2. ~raced' => ~raced /\ registry' = modules /\ \A n \in Module : at[n] # "save"
        BY <3>2, <4>1 DEF SetRegistry
      <4>3. at'[c] = "decide"
        BY <3>2 DEF SetRegistry, Goto
      <4> QED
        BY <3>1, <4>1, <4>2, <4>3
    <3>3. CASE Register(c)
      <4>1. registry' = [registry EXCEPT ![c] = "approved"]
            /\ UNCHANGED <<modules, granted, raced>> /\ at[c] = "register"
        BY <3>3 DEF Register, EnterApproved, Goto, configVars, fileVars
      <4>2. \A n \in Module : registry[n] = "approved" => registry'[n] = "approved"
        BY <4>1
      <4>3. registry'[c] = "approved"
        BY <4>1
      <4>4. Stale
        BY <4>1 DEF Stale
      <4> QED
        BY <3>1, <4>1, <4>2, <4>3, <4>4
    <3>4. CASE Save(c)
      <4>1. modules' = registry /\ granted' = granted \cup {c} /\ UNCHANGED <<registry, raced>>
            /\ at[c] = "save" /\ at'[c] = "place"
        BY <3>4 DEF Save, Goto
      <4>2. Stale
        BY <4>1 DEF Stale
      <4> QED
        BY <3>1, <4>1, <4>2
    <3>5. CASE ~SetRegistry(c) /\ ~Register(c) /\ ~Save(c)
      <4>1. UNCHANGED <<modules, registry, granted>> /\ (raced => raced') /\ at'[c] # "save"
            /\ (at'[c] \in {"decide", "ask", "clear", "cleared", "register"} => Stale)
        BY <2>2, <3>5
        DEF Admit, ReadRegistry, Decide, Answered, ReadRemoved, WriteRemoved, ReadPlace,
            WritePlace, Disconnect, Goto, configVars, fileVars, Stale
      <4>2. Stale' => Stale
        BY <3>1, <4>1 DEF Stale
      <4> QED
        BY <3>1, <4>1, <4>2
    <3> QED
      BY <3>2, <3>3, <3>4, <3>5
  <2>3. CASE Operator
    <3>1. ASSUME NEW n \in Module, TuiRegister(n), granted' = granted \cup {n},
                 raced' = (raced \/ Stale), UNCHANGED <<registry, at, seen, listed>>
          PROVE  ApprovalInv'
      <4>1. modules' = [modules EXCEPT ![n] = "approved"]
        BY <3>1 DEF TuiRegister
      <4>2. \A m \in granted' : m # n => m \in granted
        BY <3>1
      <4>3. ~raced' => ~raced /\ ~Stale /\ ~Stale'
        BY <3>1 DEF Stale
      <4>4. \A m \in granted' : ~raced' => modules'[m] = "approved"
        BY <4>1, <4>2, <4>3 DEF ConfigTypeOK
      <4> QED
        BY <4>3, <4>4 DEF Stale
    <3>2. ASSUME NEW n \in Module, TuiDelete(n), granted' = granted \ {n},
                 raced' = (raced \/ Stale), UNCHANGED <<registry, at, seen>>
          PROVE  ApprovalInv'
      <4>1. modules' = [modules EXCEPT ![n] = "none"]
        BY <3>2 DEF TuiDelete
      <4>2. ~raced' => ~raced /\ ~Stale /\ ~Stale'
        BY <3>2 DEF Stale
      <4>3. \A m \in granted' : ~raced' => modules'[m] = "approved"
        BY <3>2, <4>1, <4>2 DEF ConfigTypeOK
      <4> QED
        BY <4>2, <4>3 DEF Stale
    <3>3. CASE UNCHANGED admissionVars /\ UNCHANGED modules
      BY <3>3 DEF admissionVars, Stale
    <3> QED
      BY <2>3, <3>1, <3>2, <3>3 DEF Operator, MoveStage, EditEnv, SetCredentials
  <2>4. CASE Poll \/ UNCHANGED vars
    BY <2>4 DEF Poll, PollOrdering, vars, configVars, fileVars, admissionVars, Stale
  <2>5. CASE Kill
    BY <2>5 DEF Kill, ConfigKill, Stale
  <2> QED
    BY <1>2, <2>1, <2>2, <2>3, <2>4, <2>5 DEF Next
<1> QED
  BY <1>1, <1>2

\* An approval that was written to modules.json is still there, however admissions,
\* registrations, kills and boots interleave, unless a refresh fell between another
\* connection's assignment and its write, or the operator wrote the file meanwhile.
THEOREM ApprovalKept == Spec => []ApprovalIsKept
<1>1. ApprovalInv => ApprovalIsKept
  BY DEF ApprovalInv, ApprovalIsKept
<1> QED
  BY <1>1, TypesInductive, ApprovalInductive, PTL DEF Spec

\* A module that has connected since it was deleted is in the list again: its name is
\* not in removed_modules.json, whoever else rewrites that file, unless two rewrites
\* started from the same content.
THEOREM ConnectedListed == Spec => []ConnectedIsListed
<1>1. Init => ConnectedIsListed
  BY DEF Init, ConnectedIsListed
<1>2. ASSUME ConnectedIsListed, [Next]_vars PROVE ConnectedIsListed'
  <2> USE <1>2 DEF ConnectedIsListed
  <2>1. CASE Booting
    <3>1. UNCHANGED <<listed, raced>> /\ removed' \in {removed, {}}
      BY <2>1
      DEF Booting, BootConfig, verify_config, create_config, resolve_secrets, write_env_file,
          ReadForStrip, StripLegacy, ReadForBackfill, Backfill, RegisterAndRead,
          OrderAndConnect, Listen, fileVars
    <3> QED
      BY <3>1
  <2>2. ASSUME NEW c \in Module, Admit(c) PROVE ConnectedIsListed'
    <3>1. CASE ReadRemoved(c)
      BY <3>1 DEF ReadRemoved, configVars, fileVars
    <3>2. CASE WriteRemoved(c)
      BY <3>2 DEF WriteRemoved, WithoutName
    <3>3. CASE ~ReadRemoved(c) /\ ~WriteRemoved(c)
      BY <2>2, <3>3
      DEF Admit, ReadRegistry, SetRegistry, Decide, Answered, Register, Save, ReadPlace,
          WritePlace, Disconnect, configVars, fileVars
    <3> QED
      BY <3>1, <3>2, <3>3
  <2>3. CASE Operator
    BY <2>3 DEF Operator, MoveStage, EditEnv, SetCredentials, TuiRegister, TuiDelete,
                admissionVars
  <2>4. CASE Poll \/ UNCHANGED vars
    BY <2>4 DEF Poll, PollOrdering, vars, configVars, fileVars, admissionVars
  <2>5. CASE Kill
    BY <2>5 DEF Kill
  <2> QED
    BY <1>2, <2>1, <2>2, <2>3, <2>4, <2>5 DEF Next
<1> QED
  BY <1>1, <1>2, PTL DEF Spec

--------------------------------------------------------------------------------
(***************************************************************************)
(* The secret.                                                             *)
(***************************************************************************)
\* The engine's environment, when it has the secret, has the one the modules know.
SecretsAgree == ProcessSecret = 0 \/ LegacySecret \in {0, ProcessSecret}

\* The secret is saved, or its loss noted, before these.
Late == {"strip", "strip_to", "backfill", "backfill_to", "auto", "order_to", "up"}

\* Once it is saved, nothing but a kill touches it.
LEMMA SecretStays ==
  ASSUME TypeInv, [Next]_vars, boot \in Late, ~Kill
  PROVE  boot' \in Late /\ env'.secret = env.secret /\ UNCHANGED <<secret, promised, unsaved>>
<1> USE DEF TypeInv, TypeOK
<1>1. CASE Booting
  BY <1>1
  DEF Booting, BootConfig, verify_config, create_config, resolve_secrets, write_env_file,
      ReadForStrip, StripLegacy, ReadForBackfill, Backfill, RegisterAndRead,
      OrderAndConnect, Listen, ReadDraft, Replace, fileVars, memVars, configHistory, Continue,
      After, Late
<1>2. ASSUME NEW c \in Module, Admit(c)
      PROVE  boot' = boot /\ env' = env /\ UNCHANGED <<secret, promised, unsaved>>
  BY <1>2
  DEF Admit, ReadRegistry, SetRegistry, Decide, Answered, ReadRemoved, WriteRemoved,
      Register, Save, ReadPlace, WritePlace, Disconnect, configVars, fileVars, memVars,
      configHistory
<1>3. CASE Operator
  <2>1. UNCHANGED <<boot, secret, promised, unsaved>>
    BY <1>3 DEF Operator, MoveStage, EditEnv, SetCredentials, TuiRegister, TuiDelete, Edits, memVars
  <2>2. env'.secret = env.secret
    BY <1>3 DEF Operator, MoveStage, EditEnv, SetCredentials, TuiRegister, TuiDelete, ConfigTypeOK
  <2> QED
    BY <2>1, <2>2
<1>4. CASE Poll \/ UNCHANGED vars
  BY <1>4 DEF Poll, PollOrdering, vars, configVars, fileVars, memVars, configHistory
<1> QED
  BY <1>1, <1>2, <1>3, <1>4 DEF Next

\* Every step of the boot, and every kill, leaves the secret where the next boot finds it.
LEMMA SecretInductive ==
  ASSUME SecretsAgree
  PROVE  /\ Init => SecretInv
         /\ TypeInv /\ SecretInv /\ [Next]_vars => SecretInv'
<1>1. Init => SecretInv
  BY ConfigConstants DEF Init, ConfigInit, SecretInv, NoConfig
<1>2. ASSUME TypeInv, SecretInv, [Next]_vars, ~unsaved' PROVE SecretInv'
  <2> USE DEF SecretInv
  <2>1. TypeInv' /\ ConfigTypeOK /\ BootInv /\ BootInv'
    BY <1>2, TypesInductive DEF TypeInv, TypeOK
  <2>2. CASE boot \in Late /\ ~Kill
    <3>1. boot' \in Late /\ env'.secret = env.secret /\ UNCHANGED <<secret, promised, unsaved>>
      BY <1>2, <2>2, SecretStays
    <3>2. cfg'.state = "ok"
      BY <2>1, <3>1 DEF BootInv, Late
    <3>3. /\ boot' # "save"
          /\ secret = promised /\ env.secret = secret /\ secret # 0
          /\ ProcessSecret \in {0, promised}
      BY <1>2, <2>2, <3>1 DEF Late
    <3> QED
      BY <3>1, <3>2, <3>3
  <2>3. CASE Kill
    <3>1. /\ UNCHANGED <<env, promised, unsaved>> /\ boot' = "verify"
          /\ cfg' = cfg \/ (cfg'.state = "torn" /\ cfg'.legacy = 0 /\ boot = "create")
      BY <2>3 DEF Kill, ConfigKill, configHistory, NoConfig
    <3>2. boot = "create" => cfg.state = "absent"
      BY <2>1 DEF BootInv
    <3> QED
      BY <1>2, <3>1, <3>2
  <2>4. CASE Operator
    <3>1. UNCHANGED <<boot, secret, promised, unsaved>>
      BY <2>4
      DEF Operator, MoveStage, EditEnv, SetCredentials, TuiRegister, TuiDelete, Edits, memVars
    <3>2. env'.secret = env.secret
      BY <2>1, <2>4
      DEF Operator, MoveStage, EditEnv, SetCredentials, TuiRegister, TuiDelete, ConfigTypeOK
    <3>3. cfg'.state = cfg.state /\ cfg'.legacy = cfg.legacy
      BY <2>1, <2>4
      DEF Operator, MoveStage, EditEnv, SetCredentials, TuiRegister, TuiDelete, ConfigTypeOK,
          ConfigFile
    <3> QED
      BY <1>2, <3>1, <3>2, <3>3
  <2>5. CASE UNCHANGED vars
    BY <1>2, <2>5 DEF vars, configVars, fileVars, memVars, configHistory
  <2>6. CASE Booting /\ boot \notin Late
    <3>1. CASE verify_config
      BY <1>2, <3>1 DEF verify_config, configHistory, After
    <3>2. CASE create_config
      <4>1. /\ boot' = "verify" /\ UNCHANGED <<env, promised, unsaved>>
            /\ cfg'.legacy = 0 /\ cfg'.state = "ok" /\ cfg.state = "absent"
        BY <2>1, <3>2 DEF create_config, memVars, configHistory, NoConfig, BootInv
      <4> QED
        BY <1>2, <4>1
    <3>3. CASE resolve_secrets
      <4>1. /\ boot' = "save" /\ UNCHANGED <<env, promised, unsaved, cfg>>
            /\ secret' = FirstOf(FirstOf(ProcessSecret, env.secret, cfg.legacy),
                                 spentOn.secrets + 1, 0)
        BY <3>3 DEF resolve_secrets, Continue, After, fileVars, configHistory
      <4>2. spentOn.secrets + 1 # 0
        BY <2>1, ConfigTypes
      <4>3. secret' # 0 /\ FirstOf(ProcessSecret, env.secret, cfg.legacy) \in {0, secret'}
        BY <4>1, <4>2 DEF FirstOf
      <4> QED
        BY <1>2, <4>1, <4>3
    <3>4. CASE write_env_file
      <4>1. /\ boot = "save" /\ boot' = "strip" /\ UNCHANGED <<cfg, secret, unsaved>>
            /\ env'.secret = secret /\ promised' = FirstOf(promised, secret, 0)
        BY <1>2, <3>4 DEF write_env_file, Continue, After, memVars
      <4>2. secret # 0 /\ FirstOf(ProcessSecret, env.secret, cfg.legacy) \in {0, secret}
        BY <1>2, <4>1
      <4>3. promised' = secret
        <5>1. CASE env.secret # 0
          BY <1>2, <4>1, <4>2, <5>1 DEF FirstOf
        <5>2. CASE env.secret = 0
          BY <1>2, <4>1, <4>2, <5>2 DEF FirstOf, SecretsAgree
        <5> QED
          BY <5>1, <5>2
      <4>4. ProcessSecret \in {0, secret}
        BY <4>2 DEF FirstOf
      <4>5. cfg'.state = "ok"
        BY <2>1, <4>1 DEF BootInv
      <4> QED
        BY <4>1, <4>2, <4>3, <4>4, <4>5
    <3> QED
      BY <2>6, <3>1, <3>2, <3>3, <3>4
      DEF Booting, BootConfig, ReadForStrip, StripLegacy, ReadForBackfill, Backfill,
          RegisterAndRead, OrderAndConnect, Listen, Continue, Late
  <2>7. CASE boot \notin Late /\ (Poll \/ \E c \in Module : Admit(c))
    BY <2>7
    DEF Poll, PollOrdering, Admit, ReadRegistry, SetRegistry, Decide, Answered, ReadRemoved,
        WriteRemoved, Register, Save, ReadPlace, WritePlace, Disconnect, Goto, Late
  <2> QED
    BY <1>2, <2>2, <2>3, <2>4, <2>5, <2>6, <2>7 DEF Next
<1>3. ASSUME unsaved' PROVE SecretInv'
  BY <1>3 DEF SecretInv
<1> QED
  BY <1>1, <1>2, <1>3

\* The secret that the configs and the tokens of the modules carry is the engine's, and
\* .env has it, after every migration, kill and boot, unless a write of .env failed; for
\* an environment that does not set another one over the one the modules know.
THEOREM SecretStable ==
  ASSUME SecretsAgree
  PROVE  Spec => []SecretIsStable
<1>1. SecretInv => SecretIsStable
  BY DEF SecretInv, SecretIsStable
<1> QED
  BY <1>1, TypesInductive, SecretInductive, PTL DEF Spec
================================================================================
