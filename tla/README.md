# A TLA+ verification of the cockatiel engine

The engine (`src/src/*.rs`, about 19,000 lines of Rust on tokio) receives chat messages
from *adapter* modules over WebSockets, writes each to a timeline database, passes it
through three stages of other modules, and records the result. Modules are separate
processes: they connect, answer, stall, answer twice, die and come back. Users, their
blocks, roles and scores live in another service; settings live in files that the operator's
TUI rewrites from a process of its own. This directory holds TLA+ models of the parts of the
engine where the order of such events matters, the TLC runs that check them, and proofs in
the TLA+ proof system (TLAPS).

Line numbers refer to `src/src/`.

## 1. Inventory

| Component | State | Operations | Hard behaviour | What makes it correct |
|---|---|---|---|---|
| **Message pipeline** `pipeline.rs` | `pipeline_states`, in-process index, row status | `insert_and_start`, `broadcast_pre_process`, `start_in_process`, `start_post_process`, `handle_*`, `complete_pipeline`, `fail_pipeline`, `mark_dropped` | nobody owns a message: the task that gets the last answer of a stage runs the next; every step awaits | each message ends once, visits stages in order, always has an owner |
| **Ack tracker** `pipeline.rs` | pending entries with budget, receipt, resends | `track`, `ack_module`, `confirm_receipt`, `check_timeouts`, `re_track`, `restart_clocks` | answer against timeout, answer against track | one of two concurrent answers advances; a resend is bounded |
| **Pause gate** `pipeline.rs` | `paused`, `blocked`, `held`, `resume_when_unblocked` | `pause`, `resume`, `set_block`, `clear_block`, `defer_*`, `hold_if_gated` | resume is four steps long; the operator and two pollers act at once | what is held is released, nothing runs behind a closed gate for ever |
| **Command routing** `pipeline.rs` | none | `command_recipients`, recipient filter | - | commands go to their owner and the catch-alls |
| **Timeline rows** `database.rs` | `pipeline_status`, results | insert, terminal writes, `hold_for_audit`, `release_audit`, `queued_*` | conditional statements against reads made earlier | only the operator ends a review |
| **Timeline files** `database.rs`, `main.rs` | database file, its log, backup, snapshot; the connection and its reopen flag | `locked` and its repair, `initialize`, integrity gate, restore, move aside, checkpoint, backup, cull | a kill between any two file operations; a panic of the library while several tasks repair; a copy taken without the lock | no row lost unexplained, no torn file adopted, the engine comes up |
| **Boot, pollers, recovery** `main.rs` | queued rows, dependency probes | recovery pass, sweep timer, pollers of the two databases, housekeeping | crash anywhere; recovery beside new traffic | a queued row of a dead process is picked up |
| **Audit review** `main.rs`, `queries.rs` | row status, prompts | flag, approve, reject, appeals of blocked users | the verdict arrives while the message still runs | a verdict is final; an approved appeal is carried out |
| **Connections and sessions** `main.rs`, `auth.rs` | `AuthStore.sessions`, `module_senders` + `slot_owner`, `kill_map`, three locks | handshake, eviction, token reconnect, loop, cleanup, probe | cleanups of old sockets run late, beside newcomers of the same name or instance | an old cleanup takes only what is its own |
| **Engine shutdown** `queries.rs`, `main.rs` | `ShutdownStage`, `shutdown_flush`, outbound channel | `engine_shutdown`, `send_query_response`, writer, cleanup, main loop | reader, writer and main loop race over a stage and a flag | no exit unasked, the caller is answered first, an accepted request ends the engine |
| **Config and secrets** `config.rs`, `auto_config.rs`, `credentials.rs` | `config.json`, `.env`, the modules' `config.json`, `ConfigState` | `ensure_secrets`, migration, backfill, `auto_config`, `update_config`, poll, `set_credentials` | every update is read, change, rename; the TUI updates the same files; a kill between | a secret given out stays; nobody's edit is undone |
| **Registry and admission** `main.rs`, `module_registry.rs`, `removed_modules.rs` | `modules.json` and its copy in memory, `removed_modules.json` | `refresh`, `register`, `save`, approval prompt, `clear_name`, `add_module_to_config` | connections share a list that each replaces and writes whole | an approval written stays written |
| **User database client** `user_db_client.rs`, `queries.rs`, `pipeline.rs` | one socket, the block cache, module bans; the service's accounts, channels, roles, scores | `request`, block, unblock, split, roles, scores, verify, `permit_module`, `enrich_chat_user`, load of the cache | requests without ids; a timed-out request may be carried out later; the cache is updated after the answer | answers are not swapped; cache, scores and roles are what the engine says |
| **Stream rewards** `stream_rewards.rs` | open stream, attendance, streaks, count cache, `stream_streaks` | open, close, attendance, `multiplier`, flush, load | two adapters open and close the same stream; exit and restart | a streak is the attendance it counts |
| **Query dispatcher** `queries.rs` | caller gates | 40-odd operations behind `classify`/`caller_gate` | data operations on two databases | an operation is done only for a caller that may |
| **Command registry** `command_registry.rs` | flags to owners | `register`, `unregister`, lookup | collisions between modules | one owner per flag |
| **PIN throttle** `main.rs` | failures per identity | `check`, `record_failure`, `record_success` | count and window | five failures lock one identity only |
| **Prompts** `main.rs`, `prompts.rs` | `prompt_routes` | ask, answer, time out, drop on disconnect | late and double answers | one verdict per prompt |
| **Manifests, rank chart, TLS, ids** | files and tables | read, format | - | - |

Interaction: an adapter's connection task calls `insert_and_start`; module connection tasks
call the `handle_*` functions with answers; the sweep timer calls `sweep_timed_out_acks`;
control-surface queries and the dependency pollers call `pause`, `resume`, `set_block` and
`clear_block`; the recovery pass calls `recover_one`. They share the ack tracker, the state
map, the gate and the database, each under its own lock. Queries and frames of a connection
go through its `mpsc` channel to its writer task. The connection loop, the probe task and
the handshakes share the three registration tables. Every task reaches the timeline database
through one mutex and the user database through another; ingest reads the block cache that
queries and the boot write; the handshake, the boot and the TUI write the same files.

`PROJECT.json` lists under `hazards` every place found where such an order can hurt.

## 2. Plan

Done, most important behaviour first:

1. `CommandRouting`, `AckTracker`, `PauseGate` (one module per data structure) composed in
   `Pipeline`, with the abstract `MessageLifecycle` it implements.
2. `Sessions`: registration, eviction, cleanup, probing. `Shutdown`: the request, its answer
   and the exit.
3. `ConnectionGuard` and, over it, `TimelineFiles`: panics, kills and faults around the files
   of the timeline database.
4. `ConfigFiles` and, over it, `Admission`: the files the engine and the TUI share.
5. `UserDbClient`, `UserBlocks`, `UserDirectory`: the connection to the user database, the
   block cache over it, and scores and roles next to that.
6. `Streams`: streaks through restarts.
7. Proofs, see section 5: 43 theorems in eight modules. Every property of a run is proved,
   except the four that are liveness: for all values of the constants, or for those that
   satisfy an assumption section 5 names and section 6 lists.

Left, in this order:

8. Theorems: the single-file theorems for stages with several recipients, once the properties
   are weakened by what section 7 says of them; the steps of `Sessions` and `Shutdown` as steps
   of abstract specifications of theirs.
9. An abstract `Registry` ("one live connection per name") and the conditions under which
   `Sessions` implements it; an abstract `Shutdown` ("asked, answered, exited").
10. The fan-out of prompts to the control surfaces; the command registry feeding
    `CommandRouting`. Both are small maps under one lock and promise little that an order of
    steps can break, so they come last.

The project keeps a small number of runs, one for each question; a component that is added
shares a run with the one it interacts with where their states multiply little.

## 3. The modules and the code

### Pipeline

`EngineBase` declares messages, modules and stages. `AckTracker` models the tracker: an entry
carries its stage, its module, whether the receipt was confirmed, how often it was sent, and
a clock that is `live` or `expired` (budgets are wall-clock differences; only "over or not"
matters). `PauseGate` has the four variables of the gate. `CommandRouting` computes
recipients. `Pipeline` has the row, the state map and one *task* per concurrent actor:

| Task | Code |
|---|---|
| `<<"ingest", m>>` | the adapter's connection task in `insert_and_start` |
| `<<"conn", x>>` | the read loop of module x: echoes, receipts, abandons, audit flags |
| `<<"sweep", s>>` | `sweep_timed_out_acks` by the timer, or `resume` by the control surface or a poller |
| `<<"replay", m>>` | the release of a held message after a resume |
| `Drain` | `drain_queued_once`, the recovery pass of this boot |

A task's `pc` names the next lock it takes or database call it makes, and an action is what
happens under that lock. That is the granularity at which tokio tasks on several threads can
interleave. For example, the end of a message is `Preserve` (is the row held?), `Take`
(`take_result`), `Write` (the terminal statement, with its `pipeline_status <> 'audit'`), and
`Clear`; a flag, a second ending or a crash may come between any two.

`MessageLifecycle` is the abstract specification of a row: inserted once, finished once, no
way out of a review but the operator's, stages in order, at most one send per stage and module
and boot. `Pipeline!Lifecycle` instantiates it with `status <- row` and `sent` computed from
`dispatched`, and `KeepsLifecycle` is checked as a property.

### Sessions

Each connection has a `pc` over the handshake (token path: `drop_others`, `claim`, `rebuild`;
first contact: `find`, `kill`, `free`, `drop_named`, `insert`), `reply`, `slot`, `switch`,
`open`, and the cleanup (`abort`, `unswitch`, `unbind`, `unslot`): one action per lock
acquisition of `handle_connection`. `session[i]` is the `socket_token` in the session of
instance i, `slot[n]` the connection whose sender is in `module_senders[n]` (`slot_owner` is
its instance: both maps are always written together), `kill_map[i]` the connection whose
switch is registered. `prober` is the probe task between seeing an expired window and acting
on it. `disturbed` is a history variable for the properties.

A connection enters the model with its PIN and approval behind it (that part is `Admission`).
A first contact has a fresh instance uuid, as the client SDK's has; a returning instance needs
the token an earlier connection was given. `sweep_shutdown_sessions` is left out: a session
gets `shutdown_at` (4259) and is removed (4260) without an await between, so it meets none.

### Shutdown

`reader[c]` is the connection's read loop inside a `DatabaseQuery`: the stage is read
(`Query`), the query handled (`HandleShutdown` or `HandleOther`), the stage read again
(`Check`), the answer queued (`Send`: a closed channel counts as queued, a full one may time
out), the flag armed (`Arm`). `writer[c]` is the writer task between taking a frame, writing
it, and swapping the flag. `Release` is the cleanup's. `CloseListener` and `Exit` are the main
loop. Nothing moves after `Exit`.

### Timeline files

`ConnectionGuard` is `locked` and what it calls: a task looks at `needs_reopen` once (`Call`),
drops the connection (`Take`), opens the file without the mutex (`Open`), puts the new
connection in (`Put`), clears the flag (`Clear`) and takes the mutex (`Lock`); what happens
under the mutex is left to the module that extends it, which uses `Release`, `Panics`,
`FailsOn` and `MarkForReopen`. `late` are the calls begun after the last panic, `raced` says
whether that panic fell while a repair was between `Put` and `Clear`.

`TimelineFiles` adds the files. A row is its number, in the order of commits; a file is whether
it exists, whether it is torn, and its rows.

| Actions | Code |
|---|---|
| `integrity_gate_on_open`, `restore_clean_backup`, `DropSidecars`, `SwapIn`, `move_corrupt_aside`, `move_sidecars_aside`, `OpenFile` | `initialize` at boot and by the retry task, one file operation each |
| `CommitRow`, `WriteFails` | any other task's call under the mutex |
| `Tick`, `wal_checkpoint`, `CopyOut`, `VerifySnapshot`, `Promote`, `SkipTrim`, `checkpoint_wal`, `Weigh`, `cull_timeline_noise` | the sync task of `main.rs` with the backup, the trim and the cull it calls |
| `Kill` | the process dies; inside a checkpoint the main file may be torn, inside the copy the snapshot |

`check_file_integrity` answers as `sqlite3` does, rightly or not at all; with `OracleMisses` it
is the fallback of an installation without `sqlite3`, which can take a torn file for a clean
one. Rows that the code gives up knowingly are collected in `discarded`: the log that a restore
deletes, what a restored backup lacks, a log whose file was moved away by a boot that was
killed before it moved the log too.

### Files and admission

`ConfigFiles` has `config.json`, `.env`, `modules.json`, `removed_modules.json` and the modules'
own `config.json`, the copies in memory, and the boot of `main.rs` as a sequence over them
(`BootConfig`: create or verify, resolve the secrets, write `.env`, strip the old keys, backfill,
`auto_config` module by module). A rename replaces a file in one step; `create_config` does not
rename, so a kill may leave it torn. The PIN and the signing key are handled alike and are one
`secret`. `MoveStage`, `EditEnv`, `TuiRegister`, `TuiDelete` and `SetCredentials` are what the operator's
tools write; an update of the engine is a read (`ReadForUpdate`) and a write, so the TUI's may
come between. The size of a file is the number of modules placed in it, which a move keeps: the
gate on the length would hide a move from the poll, which opens it first (`refresh_config`).

`Admission` is the handshake between the PIN and the session: refresh of the registry (read,
then assignment), the verdict, the prompt, `clear_name` (read, then write), `register` and `save`,
`add_module_to_config`. `raced` marks the orders in which one connection's refresh or the TUI's
write meets another connection's registration.

### Users

`UserDbClient` is the connection: a request and its answer are one step, because the mutex is
held from one to the other; `request_fails` is a timeout at any of its points, after which the
request may still be carried out (`CarriedOutLate`). The service is another program and is
modelled as these calls need it (`Carried`, marked external).

`UserBlocks` is the cache of blocked identities: `userdb_block`, `userdb_unblock` and
`userdb_split_channel` as `StartBlock`, `resolve_block_actor_and_target`, `WriteFlag`, `Mark`,
`Detach`, `AddSplit`; the appeal; the load (`StartLoad`, one `LoadPage` per account,
`ReplaceCache`); ingest (`Receive`, `enrich_chat_user` or `NotFetched`, `Decide`). The code lets cache
and flag part in a few orders. A user who met one of them is *astray*: two updates of the cache
under way at once, an update between the load's page and its assignment, a request without an
answer, a channel whose former owner's block is still cached, an approved appeal. The
properties speak of all other users, so any further way to part violates them.

`UserDirectory` adds `permit_module` (authority, then price, then the send), score adjustments,
role changes and `chat_verify_identity`. `ledger` is what the engine knows to have happened,
`said` what the operator and the platforms last said of the moderators, `unsure` the users whose
role was set without an answer, or written back from an older reading.

### Streams

`StreamTracker` with one action per operation under its lock, the lines that open and close a
stream, the rows of a closed stream written one by one by whoever closed it, a clean exit, a
crash, and a boot that loads the rows. A user is an identifier as the tracker sees it. `spoiled`
are users whose row the code gives up: the stream was closed by the start of the next, two
closers wrote them at once, a write failed or died with the process.

## 4. The runs

The `MC*` modules hold the values of constants.

| Run | Bounds | Properties | What it shows |
|---|---|---|---|
| `pipeline_lifecycle` | one command message, four modules, a chain of two, boot paused, two operator requests, one crash | `NoDoubleDispatch`, `NoOrphanRow`, `HeldImpliesGated`, `KeepsLifecycle` | with one pre-process module no stage is run twice; a crash anywhere leaves a row that recovery finds; pause and resume lose and duplicate nothing; every step is one of the abstract lifecycle |
| `pipeline_review` | two pre-process modules and a chain of one, one flag | `NoStuckMessage`, `HoldIsTheOperators` | however answers, expiries and a flag interleave, somebody still has to move the message, and completions never overwrite a review |
| `pipeline_control` | boot paused and blocked, an outage of the other dependency, one request, recovery at its worst moments, one failing database call | `NoStuckMessage` | deferred pauses and resumes, two pollers and the operator never lose a held message; a failing call loses at most the messages of its sweep |
| `pipeline_settles` | two messages, one critical module that need not answer and may abandon, fairness | `TypeOK`, `CompleteHasText`, `QueuedIsSettled` | timeouts and bounded resends settle every message without help from a module |
| `sessions_tables` | three connections, two processes of one name, one probe, one failing reply | `TypeOK`, `UndisturbedIsRegistered`, `NoGhostSession`, `SessionIsLostToNewcomers` | late cleanups leave a newcomer's registration alone; a session goes with its connection |
| `shutdown_exit` | two connections, two queries, one pushed frame, a channel of one, fairness | `NoExitUnasked`, `UncrowdedIsAnswered`, `RequestIsHonoured` | the listener closes only for an accepted request; a request nothing crowds is answered first; the engine does exit |
| `timeline_files` | two tasks, two rows, one panic, one failed opening, two kills, one failing file operation, fairness of the boot | `TypeOK`, `LossIsExplained`, `LateCallsAreServed`, `NoTornFileIsAdopted`, `CullIsSafe`, `EventuallyUp` | no committed row disappears unexplained; a torn file is neither backed up nor restored; a cull takes what is backed up; a panic never reaches a later call; the engine comes up |
| `stored_files` | two modules, one a control surface, an old secret to migrate, one edit by the operator, one kill or failing write, fairness | `TypeOK`, `SecretIsStable`, `ApprovalIsKept`, `ConnectedIsListed`, `OperatorMoveIsKept`, `OrderingReachesPipeline`, `ModuleConfigIsKept` | secrets, approvals, the operator's ordering and the modules' settings survive concurrent rewriting and a kill; a changed ordering reaches the pipeline |
| `user_db` | two users, two channels, two administrators, three operations, one request without an answer | `TypeOK`, `NoAnswerIsSwapped`, `CacheAgrees`, `ScoreIsAccounted`, `RolesAreAsSaid`, `BlockedIsDropped` | no answer is taken for another's; flag and cache agree; scores and roles are what the engine says of them; a blocked user gets only an appeal through |
| `stream_streaks` | two users, two adapters, four streams, two restarts, one failing database call | `TypeOK`, `StreakIsEarned`, `AttendanceIsSaved`, `PaidAsCounted` | a streak is as long as the attendance it counts, is paid as it is counted, and is on disk once its row is written |
| `appeal_unblocks` | as `user_db`, without a fault | `ApprovalIsHeard` is violated | section 7, 1 |
| `streak_restart` | three streams, one restart, no fault | `StreakGoesOn` is violated | section 7, 2 |

Why the bounds are enough. Messages meet only in a shared sweep, in a module's connection and
in the gate, so two messages show what several do. A stage with one recipient, a fan-out of
two and a chain of two are the cases the code tells apart. `MaxResends = 1` has an entry that
is sent again and one that is spent. One crash exercises a full boot on every reachable
timeline; a second boot starts from rows the first can also leave. Three connections allow an
incumbent, its evictor and a third that returns while the first is still cleaning up. A
channel of one frame is full, empty, and neither is a special case.

Two rows are one that is old enough to cull and one that is kept, one in the file and one in
the log; two kills allow a torn file, and a kill of the boot that repairs it. One edit by the
operator falls between any read and write of the engine's. Three operations on users are a
block, an unblock and a message of the user, or any two and a split. Four streams and two boots have a streak that
goes on, one that is broken and one that a restart breaks. Users, channels, connections of
alike adapters and the connections of `Sessions` are symmetric; the runs that use symmetry check
safety only. All `Max*` constants are bounds of the model and guard only what they count.

`pipeline_lifecycle` keeps the recovery pass out of the two moments named by `DrainWindows`
(a row about to be claimed, a row about to be finished), because there it would dispatch
twice, see section 7; `pipeline_control` lets it in. Deadlock is not checked where the system
may really stop: all messages settled, held behind a gate nobody opens, the process exited, the
engine down, or every bound spent.

### Fairness

`Pipeline!Fairness`: weak fairness of every task that is in the middle of its work, of the
tick, of the passage of time and of the recovery pass. This is what the tokio runtime and its timers
give. Modules, the operator and the dependencies owe nothing: no answer, flag, request or
outage is fair. `Shutdown!Fairness`: weak fairness of readers in the middle of a query, of
writers, of the two steps of the main loop (its wait has a bound of 5 s), and of a reader
whose writer is gone (`writer_done_rx`). Nobody has to ask or hang up.
`TimelineFiles!FairSpec`: weak fairness of the boot alone, which `main` runs to its end and the
retry task runs again. `Admission!FairSpec`: weak fairness of the boot and of the write that
ends an update, which holds a mutex and does not await; strong fairness of the poll, a timer
whose turn comes again and again between the updates that take the mutex.

## 5. What is proved

All proofs are checked by `tlapm` for every value of the constants that satisfies the named
assumptions of the modules (`PipelineAssumption`, `FilesAssumption`, ...): bounds are
natural numbers, the lists name modules, "no such thing" values are not things. Each proof has
an inductive invariant, one lemma per action or group of actions, and a last step in temporal
logic.

* `PipelineProofs!TypeCorrect`: `Spec => []TypeOK`. Inductive with `TasksOK`: a working task
  has a message, a task about to send or track has a module, a resend is below the cap, only
  sweeps run sweep steps.
* `PipelineOwners!NeverStuck`: `Spec => []NoStuckMessage`. A message in memory whose row is
  queued has an owner: an awaited answer, a hold, a task that drives it, or a sweep that has
  drained one of its entries and still has to decide. This is what the code's one-lock
  answers (`ack_module`, `check_timeouts` report in one critical section what remains) are
  for. `NoStuckMessage` is not inductive by itself; the invariant `OwnedInv` adds
  `PassShape` (the locals of a sweep are empty while it is outside its loop, and what a resume
  took is empty outside a resume: `SweepDrain` and `Spawn` overwrite them, and a message they
  still named would lose its owner there) and `ClearDone` (a task in `Clear` stands
  behind a written row).
* `PipelineProofs!NoRowOrphaned` (`[]NoOrphanRow`): inductive with the types. `!HeldIsGated`
  (`[]HeldImpliesGated`) assumes `NoOutage`: no dependency is missing at boot or later.
  Without that assumption it is false (section 7, *held behind an open gate*);
  `!OnlyPollersStrand` then says the most that is true: the step that opens the gate over a
  held message is a poller's `clear_block`, never a pause, a resume, a dispatch or a crash.
* `PipelineProofs!HoldKept` (`HoldIsTheOperators`) assumes that no module is critical and none
  abandons, as in the production configuration; its invariant `OutcomesJustified` says that a
  task fails or drops a message only on behalf of such a module. `!HoldOutlasts` needs no
  assumption: a completion never ends a review.
* The second half of `PipelineOwners` is about pipelines in which every stage has one recipient for
  a message (`SingleFile`, which also has nobody abandon and keeps the recovery pass out of the
  moments of `DrainWindows`); the chain may be of any length. `SingleFile` is needed: with two
  recipients the pipeline does run stages twice (section 7, *two last answers*), and an
  abandon or a recovery at those moments adds a second owner too. The argument counts *tokens*:
  everything that may still move a message on, namely a task that drives it, an awaited answer, a hold,
  the batch of a resume, an expired entry in the hands of a sweep. `SingleInv` says that a
  message has at most one token; that the token's place says how far the message has come
  (`Reached`: whom it was sent to so far, that its state is in memory); what tasks know locally
  (`LocalsOK`: a fan-out that has sent has nobody left, the next module is the one at the index);
  and that a message that was sent is in memory or finished (`SentIsKept`: recovery takes it
  for neither stranded nor new). Each action takes the one token to its next place, or loses it.
  * `!NeverTwoOwners`: at most one token, with any faults, crashes, reviews, resumes and sweeps.
    With `!NeverStuck` a message that is in memory and queued has exactly one.
  * `!OnlyFaultsRepeat`: a stage sends a message to a module a second time in one boot only if a
    failing database call dropped the message in between and recovery took it up again;
    `!SentOnce` (`[]NoDoubleDispatch`) is the case without such calls (`MaxFaults = 0`). Both
    assume `DistinctChain`: a module that is in the chain twice is meant to be sent to twice.
  * `!CompletedWithText` (`[]CompleteHasText`) assumes `MaxFlags = 0`: an approved review completes
    a row whose run may have had no result yet. Failing calls are allowed.
  * `!LifecycleKept` (`KeepsLifecycle`): under all four assumptions `Pipeline` implements
    `MessageLifecycle`. Sends map to `Send` because the modules that come before in the stages
    and in the chain are the only ones sent to (`Follows`); a terminal write maps to `Finish`
    because the row of the one token's message is still queued; every other step is a stutter.
    Under review a fan-out that has begun goes on, which the abstract specification forbids.
* `SessionsProofs`: `!SessionsTypeCorrect`, `!NoSessionIsLeft` (`[]NoGhostSession`),
  `!SessionLoss` (the action property `SessionIsLostToNewcomers`). The invariant is
  `BoundToItsOwn /\ BoundWhileHere /\ FailedIsGone`: `remove_if_socket` looks only at the
  session of the connection's own instance, so one must know that a socket is bound to no other.
  `!UndisturbedRegistered` (`[]UndisturbedIsRegistered`) follows a connection through its
  handshake (`PeaceInv`): while nobody of its name disturbs it, it is alone with its name and
  instance but for the cleanups of closed sockets, and these find in the slot, the session and
  the switch only what is their own, or nothing.
* `ShutdownProofs`: `!ShutdownTypeCorrect`, `!NoExitBeforeRequest` (`[]NoExitUnasked`), whose
  invariant follows an exit back through the armed flag and the claim to an accepted request,
  and `!UncrowdedAnswered` (`[]UncrowdedIsAnswered`): for every request that nothing crowds,
  either its answer has landed or can no more, or all others are bystanders, only its own
  connection may move the stage, and its flag is armed only when the next frame to land is the answer.
* `AdmissionProofs`: all safety properties of `stored_files`. `!AdmissionTypeCorrect`
  (`[]TypeOK`) rests on `BootInv`, which says what `config.json` is at each step of the boot and who
  may hold a draft of it; `!OperatorMoveKept` and `!ModuleConfigKept` on `DraftInv`;
  `!ApprovalKept` and `!ConnectedListed` on invariants of what a connection holds between a read
  and the write that answers it, for the orders that are not `raced`. `!SecretStable` follows the secret
  from the old config to `.env` (`SecretInv`) and assumes `SecretsAgree`: the environment
  sets none, or the old configuration had none or the same one. `ConfigAssumption` has a
  finite set of modules, because the size of a file counts them.
* `TimelineProofs`: `!TimelineTypeCorrect`, `!RowsKept` (`[]LossIsExplained`), `!PanicRepaired`
  (`[]LateCallsAreServed`), `!TornNotAdopted` (`NoTornFileIsAdopted`, assuming `~OracleMisses`),
  `!CullsSafely` (`CullIsSafe`). The invariant has `Flagged` (after a panic that did not race a
  repair the flag is up, nobody is about to clear it, and every later call is in front of the
  repair), `Numbered` (a row committed after the sync task woke up is not one it has seen), and
  `Backed`: what the task saw when it woke up is in the main file, then in the snapshot, then in
  the backup, as its round goes on, whatever writers commit meanwhile. `TornNotAdopted` adds
  `Checked`: a file about to be adopted has passed its check, and nothing touches it after. The
  newest noise rows survive because the newest row of a cull has that many above it.
* `UsersProofs`: `!UsersTypeCorrect`, `!NoSwap` (`[]NoAnswerIsSwapped`), `!ScoreAccounted`
  (`[]ScoreIsAccounted`), `!RolesSaid` (`[]RolesAreAsSaid`). For the scores the invariant counts,
  for each user, what requests that were given up may still do; for the roles it says that the directory and what
  was said differ only in users who are unsure, and that a verification in flight has read
  what is stored.
* `UsersProofs!CacheAgreed` (`[]CacheAgrees`), `!BlockedDropped` (`BlockedIsDropped`). The
  invariant speaks of every user who is not astray: a pending update of the cache is right for
  its user and the only one, holds no identity of anyone else; the pages the load has read
  agree with the flags; no identity of a user is cached under another. It is stated of values, not of
  variables, so that one lemma (`SteadyKeeps`) covers all actions that leave the user alone.
* `StreamsProofs`: `!StreamsTypeCorrect`, `!StreakEarned` (`[]StreakIsEarned`),
  `!StreakPaidAsCounted` (`PaidAsCounted`), `!AttendanceSaved` (`[]AttendanceIsSaved`): all four
  properties of the run. The two bounds of `StreakIsEarned` are inductions of their own (`AtMost`,
  `AtLeast`) over the order of the streams and their histories (`Order`, `Baseline`); what is
  paid is counted because a cached count can only be the one the open stream leads to
  (`CacheHolds`), and the saved row is the last because at most one closer has rows of a user
  who is not spoiled (`PendingIsLast`).

## 6. What is only model-checked, and what is not modelled

Only model-checked: the liveness properties `QueuedIsSettled`, `RequestIsHonoured`, `EventuallyUp`
and `OrderingReachesPipeline`. The prover has no rule for fairness and `ENABLED`, so what they
need is out of its reach, as are facts by induction over data.

Proved under an assumption that the runs also make, and not claimed without it: `NoDoubleDispatch`,
`CompleteHasText`, `KeepsLifecycle`, `HeldImpliesGated`, `HoldIsTheOperators`, `SecretIsStable` and
`NoTornFileIsAdopted`; section 5 names the assumption and section 7 most of what happens otherwise.
`CompleteHasText` is checked on the critical module of `pipeline_settles` too, whose messages may be
abandoned, which the proof leaves out.

Not modelled, within the components above:

* *Pipeline*: message text, audio, donations and user data; the price and rank gates as part of
  a message's way (a refused module is a module passed over; the gate itself is in
  `UserDirectory`); configuration changed while messages run; latency averages; SQL beyond the
  status and result columns. `AuditFlag` models `is_audited` and `mark_audit` as one step. The
  replays of a released batch may overlap in the model while the code runs them in order, so the
  model allows more. `critical_modules` is empty in the production configuration (main.rs 1767,
  2292); `Critical` covers what `pipeline.rs` and its tests support.
* *Timeline files*: the schema and its migrations, the remote sync, `timeline_db_path_problem`
  and the other path checks, statistics, and the queries that read rows.
* *Files and admission*: the settings other than secrets and ordering, the validation messages,
  manifest discovery, the PIN check, and starting the processes of modules.
* *Users*: ranks (one condition with the roles), chat ratings and the moderators' query, user
  values, listings and searches.
* *Streams*: the activity factor of a reward, which is wall-clock time, `stream_control` and the
  schedule, a file that is read and written whole.

Not modelled at all: the fan-out of a prompt to the control surfaces and its routes (its
outcomes are a step of `Admission`); the command registry, a map written under one lock, and the
parser, text processing; the PIN throttle, one counter and a window under one mutex; `classify`
and the caller gates, a total table of strings with unit tests of its own; the rank chart,
TLS files and identifiers, which nothing changes. A model of any of these would restate it.

## 7. Where the code does something else than it says

1 and 2 are runs with a counterexample.

1. *An approved appeal is not heard.* `resolve_block_appeal` (queries.rs:2069) clears the flag in
   the user database and leaves the user in the engine's cache, so ingest goes on dropping the
   messages until the engine restarts. The doc (2022-2023) says that "the engine itself performs
   the unblock on approval"; `userdb_unblock` (2405-2414) does update the cache.
2. *A streak does not survive a restart.* `load_streaks` restores the rows, but not which stream
   ended last, which `close_stream` compares them with (stream_rewards.rs:117-124): every streak
   starts over at one. The comment at main.rs:1801-1802 says it survives.

Met while modelling the message path:

* *Two last answers.* `broadcast_pre_process` (1502) tracks each recipient after its own
  send, so the answer of the first can empty the tracker while the second is being sent: the
  next stage runs, and the second answer runs it again. pipeline.rs:2036-2038 says that two
  recipients must not both advance the stage.
* *A rejected message completes.* A completion that read the row before the flag landed
  writes after the operator's rejection; the statement refuses only rows still in review.
* *Held behind an open gate.* `clear_block` (1085) opens a gate only a block was closing,
  without a resume to release what it held.
* A sweep can advance a message and then send the same stage again: the set of resent
  messages is filled while the sweep walks (pipeline.rs:2284, comment at 2218-2220).
* An abandon that read the row before a flag landed overwrites the hold, and an abandon that
  raced a timeout overwrites the finished row (1971-1975).
* `resume` opens the gate before it restarts the clocks (1184), so the timer can drain an
  entry whose budget ran out during the pause.
* Recovery can meet a row that ingest has inserted and not claimed (1330), or one whose
  terminal write is pending (1340), and dispatch it again.
* The doc of the approval says "Approve (resubmit as normal)" (queries.rs:1245); approval
  only sets the status.

Connections and shutdown:

* *A lost kill switch.* The cleanup of an old socket removes the switch of its instance
  (main.rs:4228), whichever socket it belongs to. If the instance has returned, nobody can close
  its new connection, and an unresponsive module is flagged once and then skipped for ever.
* *Answered before it was.* `shutdown_flush` is armed while an earlier frame is being written;
  when that one lands, the stage becomes `Answered` with the answer still queued.
* `still_owned` is read before the slot locks are taken (main.rs:4260, 4269): an instance that
  returns in between loses its slot to its own old cleanup.
* Two newcomers of one name that look for an incumbent before either holds the slot both stay
  connected; so does a token reconnect beside a live connection of another instance, which
  moreover loses its session while it keeps the slot (main.rs:2812, 3147).
* A handshake whose reply fails returns past the cleanup and leaves its session (3258).
* An ordinary query that straddles another connection's shutdown request claims it (3649);
  the comment at 3647-3648 says it cannot. A later query of the same connection disarms the
  flag (3663). A second request moves the stage back (queries.rs:159, doc at 127 "never back").

Timeline files:

* A panic that falls while another task is between putting its fresh connection in and clearing
  the flag loses its flag: later calls go to the poisoned connection until it panics again.
  `LateCallsAreServed` excludes it by `raced`.
* Of two tasks that repair at once, one may drop the other's fresh connection and fail to open
  the file after the other has cleared the flag. No connection is left and no later call
  repairs it, while the doc (database.rs:513-514) says that the flag stays set and the next
  call retries.
* The restore deletes the log of the corrupt file; the doc of the gate (database.rs:628) says
  that nothing is deleted.
* A fresh database that was opened after a corrupt one was moved aside is soon backed up over
  the old backup, however much more that one held.

Stored files:

* `create_config` writes the file in place (config.rs:629): a kill leaves a torn one, and the
  next boot refuses it.
* `ensure_secrets` ignores a failed write of `.env` (config.rs:381) and then strips the old
  secrets from `config.json`: the next boot generates new ones. `SecretIsStable` excludes it by `unsaved`.
* A refresh of the registry can fall between another connection's `register` and `save`, which
  then writes the list without the approval; `clear_name` reads and writes without a lock
  (`raced` in `Admission`). `update_config` can lose a write of the TUI that falls between its read and its rename.
* The boot writes the defaults of the bind address and of the user database's address over the
  operator's values in `.env`.

Users:

* Two administrators' answers and their updates of the cache may come in different orders; an
  update during the load of the cache is replaced by the older page; a split or removed channel
  stays in the cache, and the next account on it inherits the block (the *astray* users).
* A charge is not refunded when the send it paid for is dropped (pipeline.rs:1029).
* A verification without a claim writes back the roles it has read, over a change made
  meanwhile (queries.rs:3250). The doc of the function says "ELEVATE, never revoke" (3173), while
  a claim sets the roles exactly, as the comment at 3241-3247 explains.

Streams:

* `open_stream` over an open stream advances the streaks and drops the rows to be written; its
  doc (stream_rewards.rs:96-97) says that the streak is flushed.
* Any module's end line closes the stream of all adapters. The exit waits for its own rows and
  not for those a connection is writing; a row is deleted before it is inserted, so a crash
  between loses it. Attendance is noted before the block check.
