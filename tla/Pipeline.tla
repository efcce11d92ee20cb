-------------------------------- MODULE Pipeline --------------------------------
(***************************************************************************)
(* The message pipeline: PipelineOrchestrator in pipeline.rs, with the     *)
(* tasks of main.rs and the queries that drive it.                         *)
(*                                                                         *)
(* A message is written to the timeline as 'queued', claimed in memory,    *)
(* fanned out to the pre-process modules, sent down the in-process chain,  *)
(* fanned out to the post-process modules, and ended by one terminal       *)
(* write.  Nobody owns a message: whichever task receives the last answer  *)
(* of a stage runs the next stage.  The tasks are                          *)
(*   <<"ingest", m>>  the adapter connection that brought m                *)
(*   <<"conn", x>>    the read loop of module x's connection               *)
(*   <<"sweep", s>>   the ack-timeout sweep, run by the timer and by every *)
(*                    resume (of the control surface or of a dependency    *)
(*                    poller)                                              *)
(*   <<"replay", m>>  the release of m after a resume                      *)
(*   Drain            the crash-recovery pass of this boot                 *)
(* They share state under separate locks and await between them, so each   *)
(* action below is one lock acquisition or one database call of one task.  *)
(***************************************************************************)
EXTENDS CommandRouting, AckTracker, PauseGate, FiniteSets

CONSTANTS
  Critical,       \* PipelineConfig.critical_modules
  Abandoning,     \* modules that may answer with abandon_message
  DrainWindows,   \* the moments in which the recovery pass may meet a message
  StartPaused,    \* config start_paused: the pause the engine boots with
  StartBlocked,   \* the dependency missing at boot, or NoReason
  Outages,        \* dependencies that may become unreachable while running
  MaxRequests,    \* bound: requests of the control surface
  MaxFlags,       \* bound: audit flags
  MaxCrashes,     \* bound: crashes of the engine
  MaxFaults       \* bound: failing database calls

ASSUME PipelineAssumption ==
  /\ Critical \subseteq Module
  /\ Abandoning \subseteq Module
  /\ DrainWindows \subseteq {"claim", "write"}
  /\ StartPaused \in BOOLEAN
  /\ StartBlocked \in BlockedReason \cup {NoReason}
  /\ Outages \subseteq {"user_db"}
  /\ {MaxRequests, MaxFlags, MaxCrashes, MaxFaults} \subseteq Nat

VARIABLES
  row,           \* pipeline_status of the timeline row, "none" before the insert
  saved,         \* messages whose row holds the result of a run
  live,          \* keys of pipeline_states
  index,         \* PipelineState.current_in_process_index
  parsed,        \* messages whose state carries the parsed command
  task,          \* what every task is doing
  pass,          \* the locals of a sweep, and what a resume took
  stranded,      \* rows the recovery pass has still to look at
  drained,       \* this boot's recovery pass has read its snapshot
  dispatched,    \* history: <<m, stage, x>> sent by a stage in this boot
  redispatched,  \* history: sent again by a stage
  rejected,      \* history: messages whose hold the operator rejected
  faulted,       \* history: messages a failing database call abandoned
  used           \* how much of each bound is spent

rowVars     == <<row, saved>>
stateVars   == <<live, index, parsed>>
taskVars    == <<task, pass>>
drainVars   == <<stranded, drained>>
historyVars == <<dispatched, redispatched, rejected, faulted>>

vars == <<rowVars, stateVars, pending, gateVars, taskVars, drainVars,
          historyVars, used>>

Status   == {"none", "queued", "audit", "complete", "failed", "dropped"}
Outcome  == {"complete", "failed", "dropped"}
Finished == Outcome

Resumer == {"control"} \cup BlockedReason
Sweeper == {"timer"} \cup Resumer

Drain == <<"drain", "drain">>
Actor == ({"ingest", "replay"} \X Msg) \cup ({"conn"} \X Module)
           \cup ({"sweep"} \X Sweeper) \cup {Drain}

PC == {"idle", "claim", "gate", "audit", "load", "fan", "track", "send",
       "bump", "ack", "preserve", "store", "take", "write", "clear",
       "check", "drain", "sweep", "retrack",
       "pause", "defer_pause", "defer_resume", "resume", "restart", "spawn"}

Task == [ pc      : PC,
          msg     : Msg \cup {NoMsg},
          stage   : Stage,
          todo    : SUBSET Module,            \* recipients not tried yet
          sent    : BOOLEAN,                  \* sent_any
          mod     : Module \cup {NoModule},
          resends : 0..MaxResends,
          outcome : Outcome,
          result  : BOOLEAN ]                 \* take_result returned a result

Idle == [ pc |-> "idle", msg |-> NoMsg, stage |-> "pre_process", todo |-> {},
          sent |-> FALSE, mod |-> NoModule, resends |-> 0,
          outcome |-> "complete", result |-> FALSE ]

Pass == [ queue    : SUBSET Drained,  \* expired entries not handled yet
          critical : SUBSET Msg,      \* critical_uuids
          resent   : SUBSET Msg,
          failed   : SUBSET Msg,
          advanced : SUBSET Msg,
          taken    : [Msg -> HoldPoint \cup {NoPoint}] ]

NothingTaken == [m \in Msg |-> NoPoint]

NoPass == [ queue |-> {}, critical |-> {}, resent |-> {}, failed |-> {},
            advanced |-> {}, taken |-> NothingTaken ]

TypeOK ==
  /\ row \in [Msg -> Status]
  /\ saved \subseteq Msg
  /\ live \subseteq Msg
  /\ index \in [Msg -> Nat]
  /\ parsed \subseteq Msg
  /\ TrackerTypeOK
  /\ GateTypeOK
  /\ task \in [Actor -> Task]
  /\ pass \in [Sweeper -> Pass]
  /\ stranded \subseteq Msg
  /\ drained \in BOOLEAN
  /\ dispatched \subseteq Msg \X Stage \X Module
  /\ redispatched \subseteq Msg \X Stage \X Module
  /\ rejected \subseteq Msg
  /\ faulted \subseteq Msg
  /\ used \in [requests : Nat, flags : Nat, crashes : Nat, faults : Nat]

Init ==
  /\ row = [m \in Msg |-> "none"]
  /\ saved = {}
  /\ live = {}
  /\ index = [m \in Msg |-> 0]
  /\ parsed = {}
  /\ pending = [m \in Msg |-> {}]
  /\ paused = StartPaused
  /\ held = [m \in Msg |-> NoPoint]
  /\ blocked = StartBlocked
  /\ resume_when_unblocked = FALSE
  /\ task = [a \in Actor |-> Idle]
  /\ pass = [s \in Sweeper |-> NoPass]
  /\ stranded = {}
  /\ drained = FALSE
  /\ dispatched = {}
  /\ redispatched = {}
  /\ rejected = {}
  /\ faulted = {}
  /\ used = [requests |-> 0, flags |-> 0, crashes |-> 0, faults |-> 0]

--------------------------------------------------------------------------------
(***************************************************************************)
(* How a task moves.                                                       *)
(***************************************************************************)
Is(a, pc) == task[a].pc = pc

Goto(a, t) == task' = [task EXCEPT ![a] = t]

At(pc, m) == [Idle EXCEPT !.pc = pc, !.msg = m]
AtStage(pc, m, stage) == [At(pc, m) EXCEPT !.stage = stage]
Ending(m, outcome) == [At("preserve", m) EXCEPT !.outcome = outcome]

\* When a message's steps are over a sweep goes on with its next entry; any
\* other task returns to its loop.
Rest(a) == IF a[1] = "sweep" THEN [Idle EXCEPT !.pc = "sweep"] ELSE Idle
Return(a) == Goto(a, Rest(a))

Spend(what) == used' = [used EXCEPT ![what] = @ + 1]

\* A stage sends m to x.
Dispatch(m, stage, x) ==
  /\ dispatched' = dispatched \cup {<<m, stage, x>>}
  /\ redispatched' = redispatched \cup ({<<m, stage, x>>} \cap dispatched)
  /\ UNCHANGED <<rejected, faulted>>

PointOf(stage) ==
  CASE stage = "pre_process"  -> "Entry"
    [] stage = "in_process"   -> "InProcess"
    [] stage = "post_process" -> "PostProcess"

StageOf(point) ==
  CASE point = "Entry"       -> "pre_process"
    [] point = "InProcess"   -> "in_process"
    [] point = "PostProcess" -> "post_process"

\* Where the chain goes once the in-process index is i.
AfterChain(m, i) ==
  AtStage("gate", m, IF i >= Len(InModules) THEN "post_process" ELSE "in_process")

--------------------------------------------------------------------------------
(***************************************************************************)
(* Entering the pipeline.                                                  *)
(***************************************************************************)
\* insert_and_start writes the row first.  With the timeline database not
\* open the insert fails and nothing has happened.
Ingest(m) ==
  /\ row[m] = "none"
  /\ task[<<"ingest", m>>] = Idle
  /\ blocked # "timeline_db"
  /\ row' = [row EXCEPT ![m] = "queued"]
  /\ Goto(<<"ingest", m>>, At("claim", m))
  /\ UNCHANGED <<saved, stateVars, pending, gateVars, pass, drainVars,
                 historyVars, used>>

\* The row is claimed by a fresh in-memory state, by ingest and by recovery.
\* The parsed command is not in the row: a recovered message has lost it.
Claim(a) ==
  /\ Is(a, "claim")
  /\ live' = live \cup {task[a].msg}
  /\ index' = [index EXCEPT ![task[a].msg] = 0]
  /\ parsed' = IF a[1] = "ingest" THEN parsed \cup {task[a].msg}
                                  ELSE parsed \ {task[a].msg}
  /\ Goto(a, AtStage("gate", task[a].msg, "pre_process"))
  /\ UNCHANGED <<rowVars, pending, gateVars, pass, drainVars, historyVars, used>>

\* The recovery pass reads its snapshot of queued rows, once per boot.
DrainStart ==
  /\ ~drained
  /\ blocked # "timeline_db"
  /\ drained' = TRUE
  /\ stranded' = {m \in Msg : row[m] = "queued"}
  /\ UNCHANGED <<rowVars, stateVars, pending, gateVars, taskVars, historyVars,
                 used>>

\* Mutant: an in-flight row is told from a stranded one by its status alone.
IsQueuedRow(m) == row[m] = "queued"

\* Mutant: a paused engine skips recovery.
IsStrandedAndRunning(m) == m \notin live /\ row[m] = "queued" /\ ~is_gated

IsStranded(m) == m \notin live /\ row[m] = "queued"

\* recover_one leaves a claimed message and a finished row alone.  It can tell
\* neither a row that is about to be claimed nor one that is about to be
\* finished from a stranded one; the code only has recovery_grace_secs to avoid
\* these two moments, and DrainWindows says which of them it fails to avoid.
Recover(m) ==
  /\ task[Drain] = Idle
  /\ m \in stranded
  /\ \A a \in Actor :
       task[a].msg = m => task[a].pc \notin {"claim", "write"} \ DrainWindows
  /\ stranded' = stranded \ {m}
  /\ IF IsStranded(m)
       THEN Goto(Drain, At("claim", m))
       ELSE UNCHANGED task
  /\ UNCHANGED <<rowVars, stateVars, pending, gateVars, pass, drained,
                 historyVars, used>>

--------------------------------------------------------------------------------
(***************************************************************************)
(* The stages: broadcast_pre_process, start_in_process, start_post_process.*)
(***************************************************************************)
\* Every stage asks the pause gate before anything else.
Gate(a) ==
  /\ Is(a, "gate")
  /\ LET m == task[a].msg
         stage == task[a].stage
     IN \/ /\ hold_if_gated(m, PointOf(stage))
           /\ Return(a)
        \/ /\ ~is_gated
           /\ UNCHANGED gateVars
           /\ Goto(a, AtStage(IF stage = "pre_process" THEN "load" ELSE "audit",
                              m, stage))
  /\ UNCHANGED <<rowVars, stateVars, pending, pass, drainVars, historyVars, used>>

\* A message held for audit is not advanced.
Audit(a) ==
  /\ Is(a, "audit")
  /\ IF row[task[a].msg] = "audit"
       THEN Return(a)
       ELSE Goto(a, AtStage("load", task[a].msg, task[a].stage))
  /\ UNCHANGED <<rowVars, stateVars, pending, gateVars, pass, drainVars,
                 historyVars, used>>

\* Whose command the state of m carries.
owner_of(m) == IF m \in parsed THEN CommandOwner[m] ELSE NoModule

\* The state is copied out of the map and the recipients are computed.
LoadFanout(a) ==
  /\ Is(a, "load")
  /\ task[a].stage # "in_process"
  /\ LET m == task[a].msg
         stage == task[a].stage
     IN IF m \notin live
          THEN Return(a)
          ELSE Goto(a, [AtStage("fan", m, stage) EXCEPT !.todo =
                          IF stage = "pre_process"
                            THEN command_recipients(owner_of(m), PreModules)
                            ELSE post_process_recipients(owner_of(m))])
  /\ UNCHANGED <<rowVars, stateVars, pending, gateVars, pass, drainVars,
                 historyVars, used>>

\* The chain goes on with the module at the message's own index.
LoadChain(a) ==
  /\ Is(a, "load")
  /\ task[a].stage = "in_process"
  /\ LET m == task[a].msg
         x == InModuleAt(index[m])
     IN IF m \notin live THEN Return(a)
        ELSE IF index[m] >= Len(InModules)
          THEN Goto(a, AtStage("gate", m, "post_process"))
        ELSE IF is_in_recipient(owner_of(m), x)
          THEN Goto(a, [AtStage("send", m, "in_process") EXCEPT !.mod = x])
          ELSE Goto(a, At("bump", m))
  /\ UNCHANGED <<rowVars, stateVars, pending, gateVars, pass, drainVars,
                 historyVars, used>>

\* One recipient of a fan-out is sent the message ...
FanSend(a) ==
  /\ Is(a, "fan")
  /\ \E x \in task[a].todo :
       /\ Goto(a, [task[a] EXCEPT !.pc = "track", !.todo = @ \ {x},
                                  !.sent = TRUE, !.mod = x])
       /\ Dispatch(task[a].msg, task[a].stage, x)
  /\ UNCHANGED <<rowVars, stateVars, pending, gateVars, pass, drainVars, used>>

\* ... or is passed over: refused by its gate, not connected, queue full.
FanSkip(a) ==
  /\ Is(a, "fan")
  /\ \E x \in task[a].todo : Goto(a, [task[a] EXCEPT !.todo = @ \ {x}])
  /\ UNCHANGED <<rowVars, stateVars, pending, gateVars, pass, drainVars,
                 historyVars, used>>

\* After the last recipient: somebody will answer, or the next stage is due.
FanDone(a) ==
  /\ Is(a, "fan")
  /\ task[a].todo = {}
  /\ IF task[a].sent THEN Return(a)
     ELSE IF task[a].stage = "pre_process"
       THEN Goto(a, AtStage("gate", task[a].msg, "in_process"))
       ELSE Goto(a, Ending(task[a].msg, "complete"))
  /\ UNCHANGED <<rowVars, stateVars, pending, gateVars, pass, drainVars,
                 historyVars, used>>

\* The in-process module is sent the message, or is passed over.
SendInProcess(a) ==
  /\ Is(a, "send")
  /\ \/ /\ Goto(a, [task[a] EXCEPT !.pc = "track"])
        /\ Dispatch(task[a].msg, "in_process", task[a].mod)
     \/ /\ Goto(a, At("bump", task[a].msg))
        /\ UNCHANGED historyVars
  /\ UNCHANGED <<rowVars, stateVars, pending, gateVars, pass, drainVars, used>>

\* The tracker learns of the send only after the channel accepted it.
Track(a) ==
  /\ Is(a, "track")
  /\ track(task[a].msg, task[a].stage, task[a].mod)
  /\ IF task[a].stage = "in_process"
       THEN Return(a)
       ELSE Goto(a, [task[a] EXCEPT !.pc = "fan", !.mod = NoModule])
  /\ UNCHANGED <<rowVars, stateVars, gateVars, pass, drainVars, historyVars, used>>

\* The chain moves past a module that answered, timed out or was passed over.
Bump(a) ==
  /\ Is(a, "bump")
  /\ LET m == task[a].msg IN
       IF m \notin live
         THEN Return(a) /\ UNCHANGED index
         ELSE /\ index' = [index EXCEPT ![m] = @ + 1]
              /\ Goto(a, AfterChain(m, index[m] + 1))
  /\ UNCHANGED <<rowVars, live, parsed, pending, gateVars, pass, drainVars, historyVars,
                 used>>

--------------------------------------------------------------------------------
(***************************************************************************)
(* Ending a message: mark_complete, mark_failed, mark_dropped.             *)
(***************************************************************************)
\* A held row keeps its hold ...
Preserve(a) ==
  /\ Is(a, "preserve")
  /\ Goto(a, [task[a] EXCEPT !.pc =
                IF row[task[a].msg] = "audit" THEN "store" ELSE "take"])
  /\ UNCHANGED <<rowVars, stateVars, pending, gateVars, pass, drainVars,
                 historyVars, used>>

\* ... and gets the result of the run, while there still is a state.
StoreHeld(a) ==
  /\ Is(a, "store")
  /\ saved' = saved \cup ({task[a].msg} \cap live)
  /\ Return(a)
  /\ UNCHANGED <<row, stateVars, pending, gateVars, pass, drainVars, historyVars,
                 used>>

\* Mutant: the state is dropped and its result with it.
NoResultOf(m) == FALSE

\* take_result returns what the state holds, and nothing without a state.
HasResult(m) == m \in live

\* The result is moved out of memory.  Only a drop stops without one.
Take(a) ==
  /\ Is(a, "take")
  /\ LET m == task[a].msg IN
       /\ live' = live \ {m}
       /\ index' = [index EXCEPT ![m] = 0]
       /\ parsed' = parsed \ {m}
       /\ IF task[a].outcome = "dropped" /\ m \notin live
            THEN Return(a)
            ELSE Goto(a, [task[a] EXCEPT !.pc = "write", !.result = HasResult(m)])
  /\ UNCHANGED <<rowVars, pending, gateVars, pass, drainVars, historyVars, used>>

\* Mutant: the statement lacks its "AND pipeline_status <> 'audit'".
NeverRefused(m, outcome) == FALSE

RefusedByHold(m, outcome) == outcome = "complete" /\ row[m] = "audit"

\* write_terminal_outcome: only a completion is refused by a held row.
Write(a) ==
  /\ Is(a, "write")
  /\ LET m == task[a].msg
         outcome == task[a].outcome
     IN IF RefusedByHold(m, outcome)
          THEN UNCHANGED rowVars
          ELSE /\ row' = [row EXCEPT ![m] = outcome]
               /\ saved' = IF task[a].result THEN saved \cup {m} ELSE saved
  /\ Goto(a, [task[a] EXCEPT !.pc = "clear"])
  /\ UNCHANGED <<stateVars, pending, gateVars, pass, drainVars, historyVars, used>>

Clear(a) ==
  /\ Is(a, "clear")
  /\ ack(task[a].msg)
  /\ Return(a)
  /\ UNCHANGED <<rowVars, stateVars, gateVars, pass, drainVars, historyVars, used>>

--------------------------------------------------------------------------------
(***************************************************************************)
(* Frames from a module: one at a time per connection.                     *)
(***************************************************************************)
Ready(x) == task[<<"conn", x>>] = Idle

\* A stage echo passes the ownership gate ...
Echo(x, m) ==
  /\ Ready(x)
  /\ \E stage \in Stage : is_pending_for(m, x, stage)
  /\ Goto(<<"conn", x>>, At("ack", m))
  /\ UNCHANGED <<rowVars, stateVars, pending, gateVars, pass, drainVars,
                 historyVars, used>>

\* ... and is acknowledged: whoever answers last runs the next stage.
Ack(x) ==
  LET a == <<"conn", x>>
      m == task[a].msg
      still == still_pending_after_ack(m, x)
  IN /\ Is(a, "ack")
     /\ ack_module(m, x)
     /\ \/ /\ EntriesOf(m, x) = {}
           /\ Return(a)
        \/ \E e \in EntriesOf(m, x) :
             CASE e.stage = "in_process" -> Goto(a, At("bump", m))
               [] e.stage # "in_process" /\ still -> Return(a)
               [] e.stage = "pre_process" /\ ~still ->
                    Goto(a, AtStage("gate", m, "in_process"))
               [] e.stage = "post_process" /\ ~still ->
                    Goto(a, Ending(m, "complete"))
     /\ UNCHANGED <<rowVars, stateVars, gateVars, pass, drainVars, historyVars,
                    used>>

\* An in-process echo marked for abandonment ends the message.
Abandon(x, m) ==
  /\ x \in Abandoning
  /\ Ready(x)
  /\ is_pending_for(m, x, "in_process")
  /\ Goto(<<"conn", x>>, Ending(m, "dropped"))
  /\ UNCHANGED <<rowVars, stateVars, pending, gateVars, pass, drainVars,
                 historyVars, used>>

\* The receipt ping.
Receipt(x, m) ==
  /\ Ready(x)
  /\ mark_receipt(m, x)
  /\ UNCHANGED <<rowVars, stateVars, gateVars, taskVars, drainVars, historyVars,
                 used>>

\* A module that was sent m flags it for review, whatever became of it.
AuditFlag(x, m) ==
  /\ Ready(x)
  /\ used.flags < MaxFlags
  /\ \E stage \in Stage : <<m, stage, x>> \in dispatched
  /\ row[m] # "audit"
  /\ row' = [row EXCEPT ![m] = "audit"]
  /\ Spend("flags")
  /\ UNCHANGED <<saved, stateVars, pending, gateVars, taskVars, drainVars,
                 historyVars>>

\* The operator answers the hold.  Only the row changes.
release_audit(m, approve) ==
  /\ row[m] = "audit"
  /\ row' = [row EXCEPT ![m] = IF approve THEN "complete" ELSE "failed"]
  /\ rejected' = IF approve THEN rejected ELSE rejected \cup {m}
  /\ UNCHANGED <<saved, stateVars, pending, gateVars, taskVars, drainVars,
                 dispatched, redispatched, faulted, used>>

--------------------------------------------------------------------------------
(***************************************************************************)
(* The ack-timeout sweep.                                                  *)
(***************************************************************************)
SweepTask(s) == <<"sweep", s>>

\* Time passes for one entry.
Elapse(m) ==
  /\ \E e \in pending[m] : RunOut(m, e)
  /\ UNCHANGED <<rowVars, stateVars, gateVars, taskVars, drainVars, historyVars,
                 used>>

\* The timer ticks; a sweep does nothing while dispatch is held.
SweepTick ==
  /\ task[SweepTask("timer")] = Idle
  /\ ~is_gated
  /\ Goto(SweepTask("timer"), [Idle EXCEPT !.pc = "drain"])
  /\ UNCHANGED <<rowVars, stateVars, pending, gateVars, pass, drainVars,
                 historyVars, used>>

\* Expired entries leave the tracker together.
SweepDrain(s) ==
  /\ Is(SweepTask(s), "drain")
  /\ pass' = [pass EXCEPT
       ![s].queue = ExpiredEntries,
       ![s].critical = {d.msg : d \in {c \in ExpiredEntries : c.entry.mod \in Critical}}]
  /\ check_timeouts
  /\ Goto(SweepTask(s), [Idle EXCEPT !.pc = "sweep"])
  /\ UNCHANGED <<rowVars, stateVars, gateVars, drainVars, historyVars, used>>

\* Mutant: the cap is off by one.
MayResendOnceMore(d) == ~d.entry.receipt /\ d.entry.resends <= MaxResends

MayResend(d) == ~d.entry.receipt /\ d.entry.resends < MaxResends

\* No receipt yet: the stage message is sent again while its state exists.
Resend(s) ==
  /\ Is(SweepTask(s), "sweep")
  /\ \E d \in pass[s].queue :
       /\ MayResend(d)
       /\ d.msg \in live
       /\ pass' = [pass EXCEPT ![s].queue = @ \ {d}]
       /\ Goto(SweepTask(s), [AtStage("retrack", d.msg, d.entry.stage) EXCEPT
                                !.mod = d.entry.mod,
                                !.resends = d.entry.resends])
  /\ UNCHANGED <<rowVars, stateVars, pending, gateVars, drainVars, historyVars,
                 used>>

ReTrack(s) ==
  LET t == task[SweepTask(s)] IN
  /\ Is(SweepTask(s), "retrack")
  /\ re_track(t.msg, t.stage, t.mod, t.resends)
  /\ pass' = [pass EXCEPT ![s].resent = @ \cup {t.msg}]
  /\ Return(SweepTask(s))
  /\ UNCHANGED <<rowVars, stateVars, gateVars, drainVars, historyVars, used>>

\* A critical module fails its message, once per sweep.
FailsMessage(s, d) == d.entry.mod \in Critical /\ d.msg \notin pass[s].failed

\* May this expired entry move its message on?
MayAdvance(s, d) ==
  /\ ~d.still
  /\ d.msg \notin pass[s].resent \cup pass[s].critical \cup pass[s].advanced

AfterTimeout(d) ==
  CASE d.entry.stage = "pre_process"  -> AtStage("gate", d.msg, "in_process")
    [] d.entry.stage = "in_process"   -> At("bump", d.msg)
    [] d.entry.stage = "post_process" -> Ending(d.msg, "complete")

\* The entry really timed out, or its module could not be reached again.
TimeOut(s) ==
  /\ Is(SweepTask(s), "sweep")
  /\ \E d \in pass[s].queue :
       \/ /\ FailsMessage(s, d)
          /\ pass' = [pass EXCEPT ![s].queue = @ \ {d},
                                  ![s].failed = @ \cup {d.msg}]
          /\ Goto(SweepTask(s), Ending(d.msg, "failed"))
       \/ /\ MayAdvance(s, d)
          /\ pass' = [pass EXCEPT ![s].queue = @ \ {d},
                                  ![s].advanced = @ \cup {d.msg}]
          /\ Goto(SweepTask(s), AfterTimeout(d))
       \/ /\ ~FailsMessage(s, d)
          /\ ~MayAdvance(s, d)
          /\ pass' = [pass EXCEPT ![s].queue = @ \ {d}]
          /\ UNCHANGED task
  /\ UNCHANGED <<rowVars, stateVars, pending, gateVars, drainVars, historyVars,
                 used>>

\* The sweep of a resume is followed by the release of what it took.
AfterSweep(s) == IF s = "timer" THEN Idle ELSE [Idle EXCEPT !.pc = "spawn"]

SweepEnd(s) ==
  /\ Is(SweepTask(s), "sweep")
  /\ pass[s].queue = {}
  /\ pass' = [pass EXCEPT ![s] = [NoPass EXCEPT !.taken = pass[s].taken]]
  /\ Goto(SweepTask(s), AfterSweep(s))
  /\ UNCHANGED <<rowVars, stateVars, pending, gateVars, drainVars, historyVars,
                 used>>

--------------------------------------------------------------------------------
(***************************************************************************)
(* The control surface and the dependency pollers.                         *)
(***************************************************************************)
Free(r) == task[SweepTask(r)] = Idle

\* pipeline_set_paused reads the block first and acts on what it read.
PauseRequest ==
  /\ Free("control")
  /\ used.requests < MaxRequests
  /\ Spend("requests")
  /\ Goto(SweepTask("control"),
          [Idle EXCEPT !.pc = IF blocked = NoReason THEN "pause" ELSE "defer_pause"])
  /\ UNCHANGED <<rowVars, stateVars, pending, gateVars, pass, drainVars,
                 historyVars>>

ResumeRequest ==
  /\ Free("control")
  /\ used.requests < MaxRequests
  /\ Spend("requests")
  /\ Goto(SweepTask("control"),
          [Idle EXCEPT !.pc = IF blocked = NoReason THEN "resume" ELSE "defer_resume"])
  /\ UNCHANGED <<rowVars, stateVars, pending, gateVars, pass, drainVars,
                 historyVars>>

Pause ==
  /\ Is(SweepTask("control"), "pause")
  /\ IF paused THEN UNCHANGED gateVars ELSE pause
  /\ Goto(SweepTask("control"), Idle)
  /\ UNCHANGED <<rowVars, stateVars, pending, pass, drainVars, historyVars, used>>

DeferPause ==
  /\ Is(SweepTask("control"), "defer_pause")
  /\ defer_pause
  /\ Goto(SweepTask("control"), Idle)
  /\ UNCHANGED <<rowVars, stateVars, pending, pass, drainVars, historyVars, used>>

DeferResume ==
  /\ Is(SweepTask("control"), "defer_resume")
  /\ defer_resume
  /\ Goto(SweepTask("control"), Idle)
  /\ UNCHANGED <<rowVars, stateVars, pending, pass, drainVars, historyVars, used>>

\* A poll finds the dependency missing.
DependencyDown(r) ==
  /\ r \in Outages
  /\ Free(r)
  /\ set_block(r)
  /\ UNCHANGED <<rowVars, stateVars, pending, taskVars, drainVars, historyVars,
                 used>>

\* A poll finds it back; the poller resumes if a resume was deferred.
DependencyUp(r) ==
  /\ Free(r)
  /\ clear_block(r)
  /\ Goto(SweepTask(r),
          IF resume_when_unblocked THEN [Idle EXCEPT !.pc = "resume"] ELSE Idle)
  /\ UNCHANGED <<rowVars, stateVars, pending, pass, drainVars, historyVars, used>>

\* resume: take what is held and open the operator's gate ...
Resume(r) ==
  /\ Is(SweepTask(r), "resume")
  /\ release_held
  /\ pass' = [pass EXCEPT ![r].taken = held]
  /\ Goto(SweepTask(r), [Idle EXCEPT !.pc = "restart"])
  /\ UNCHANGED <<rowVars, stateVars, pending, drainVars, historyVars, used>>

\* ... restart every clock ...
RestartClocks(r) ==
  /\ Is(SweepTask(r), "restart")
  /\ restart_clocks
  /\ Goto(SweepTask(r), [Idle EXCEPT !.pc = "check"])
  /\ UNCHANGED <<rowVars, stateVars, gateVars, pass, drainVars, historyVars, used>>

\* ... sweep once, unless the gate closed again ...
ResumeSweep(r) ==
  /\ Is(SweepTask(r), "check")
  /\ Goto(SweepTask(r), [Idle EXCEPT !.pc = IF is_gated THEN "spawn" ELSE "drain"])
  /\ UNCHANGED <<rowVars, stateVars, pending, gateVars, pass, drainVars,
                 historyVars, used>>

\* Mutant: a gate that closed again swallows the batch.
ReleasedIfRunning(taken) == {m \in Msg : taken[m] # NoPoint /\ ~is_gated}

Released(taken) == {m \in Msg : taken[m] # NoPoint}

\* ... and release what was held from the point it was held at.  The code
\* replays one message after the other in uuid7 order; here the replays of
\* a batch may overlap.
Spawn(r) ==
  LET taken == pass[r].taken
      replayed == Released(taken)
  IN /\ Is(SweepTask(r), "spawn")
     /\ \A m \in replayed : task[<<"replay", m>>] = Idle
     /\ task' = [a \in Actor |->
                   IF a = SweepTask(r) THEN Idle
                   ELSE IF a[1] = "replay" /\ a[2] \in replayed
                          THEN AtStage("gate", a[2], StageOf(taken[a[2]]))
                          ELSE task[a]]
     /\ pass' = [pass EXCEPT ![r] = NoPass]
     /\ UNCHANGED <<rowVars, stateVars, pending, gateVars, drainVars, historyVars,
                    used>>

--------------------------------------------------------------------------------
(***************************************************************************)
(* Failures.                                                               *)
(***************************************************************************)
\* A database call of task a fails and the error ends the handler.  The
\* error of one message ends a whole sweep, with the entries it had drained.
DbFails(a) ==
  /\ used.faults < MaxFaults
  /\ \/ task[a].pc \in {"audit", "preserve", "store", "write"}
     \/ a[1] = "ingest" /\ Is(a, "claim")
  /\ Spend("faults")
  /\ IF a[1] = "sweep"
       THEN /\ Goto(a, AfterSweep(a[2]))
            /\ pass' = [pass EXCEPT ![a[2]] = [NoPass EXCEPT !.taken = pass[a[2]].taken]]
            /\ faulted' = faulted \cup {task[a].msg}
                            \cup {d.msg : d \in pass[a[2]].queue}
       ELSE /\ Goto(a, Idle)
            /\ faulted' = faulted \cup {task[a].msg}
            /\ UNCHANGED pass
  /\ UNCHANGED <<rowVars, stateVars, pending, gateVars, drainVars,
                 dispatched, redispatched, rejected>>

\* The recovery pass cannot read a row, and leaves it for the next boot.
RecoverFails(m) ==
  /\ used.faults < MaxFaults
  /\ task[Drain] = Idle
  /\ m \in stranded \ live
  /\ Spend("faults")
  /\ stranded' = stranded \ {m}
  /\ faulted' = faulted \cup {m}
  /\ UNCHANGED <<rowVars, stateVars, pending, gateVars, taskVars, drained,
                 dispatched, redispatched, rejected>>

\* The process dies and boots again: the timeline is what is left.
Crash ==
  /\ used.crashes < MaxCrashes
  /\ Spend("crashes")
  /\ live' = {}
  /\ index' = [m \in Msg |-> 0]
  /\ parsed' = {}
  /\ pending' = [m \in Msg |-> {}]
  /\ paused' = StartPaused
  /\ held' = [m \in Msg |-> NoPoint]
  /\ blocked' = StartBlocked
  /\ resume_when_unblocked' = FALSE
  /\ task' = [a \in Actor |-> Idle]
  /\ pass' = [s \in Sweeper |-> NoPass]
  /\ stranded' = {}
  /\ drained' = FALSE
  /\ dispatched' = {}
  /\ redispatched' = {}
  /\ faulted' = {}
  /\ UNCHANGED <<rowVars, rejected>>

--------------------------------------------------------------------------------
StageStep(a) ==
  \/ Claim(a) \/ Gate(a) \/ Audit(a) \/ LoadFanout(a) \/ LoadChain(a)
  \/ FanSend(a) \/ FanSkip(a) \/ FanDone(a) \/ SendInProcess(a) \/ Track(a)
  \/ Bump(a) \/ Preserve(a) \/ StoreHeld(a) \/ Take(a) \/ Write(a) \/ Clear(a)

SweepStep(s) == SweepDrain(s) \/ Resend(s) \/ ReTrack(s) \/ TimeOut(s) \/ SweepEnd(s)

ResumeStep(r) == Resume(r) \/ RestartClocks(r) \/ ResumeSweep(r) \/ Spawn(r)

ControlStep == Pause \/ DeferPause \/ DeferResume

Next ==
  \/ \E m \in Msg : Ingest(m) \/ Recover(m) \/ RecoverFails(m) \/ Elapse(m)
  \/ \E a \in Actor : StageStep(a) \/ DbFails(a)
  \/ \E x \in Module : Ack(x)
  \/ \E x \in Module, m \in Msg :
       Echo(x, m) \/ Abandon(x, m) \/ Receipt(x, m) \/ AuditFlag(x, m)
  \/ \E m \in Msg, approve \in BOOLEAN : release_audit(m, approve)
  \/ DrainStart \/ SweepTick
  \/ \E s \in Sweeper : SweepStep(s)
  \/ \E r \in Resumer : ResumeStep(r)
  \/ \E r \in BlockedReason : DependencyDown(r) \/ DependencyUp(r)
  \/ PauseRequest \/ ResumeRequest \/ ControlStep
  \/ Crash

Spec == Init /\ [][Next]_vars

\* The runtime schedules every task that can run, the interval timer ticks,
\* time passes and the recovery pass goes on.  Modules, the operator and the
\* dependencies owe nothing.
Fairness ==
  /\ \A a \in Actor : WF_vars(StageStep(a))
  /\ \A x \in Module : WF_vars(Ack(x))
  /\ \A s \in Sweeper : WF_vars(SweepStep(s))
  /\ \A r \in Resumer : WF_vars(ResumeStep(r))
  /\ \A m \in Msg : WF_vars(Elapse(m)) /\ WF_vars(Recover(m))
  /\ WF_vars(SweepTick)
  /\ WF_vars(ControlStep)
  /\ WF_vars(DrainStart)

FairSpec == Spec /\ Fairness

--------------------------------------------------------------------------------
(***************************************************************************)
(* Properties.                                                             *)
(***************************************************************************)
\* Task t is on its way to the next resting place of m.
Drives(t, m) ==
  /\ t.msg = m
  /\ \/ t.pc \in {"claim", "gate", "audit", "load", "track", "send", "bump",
                  "preserve", "take", "write", "retrack"}
     \/ t.pc = "fan" /\ ~t.sent

\* Sweep p has taken an entry of m and not yet decided what becomes of m.
Owes(p, m) ==
  /\ m \notin p.resent \cup p.failed \cup p.advanced
  /\ \E d \in p.queue :
       /\ d.msg = m
       /\ IF m \in p.critical THEN d.entry.mod \in Critical ELSE ~d.still

Owned(m) ==
  \/ pending[m] # {}
  \/ held[m] # NoPoint
  \/ \E a \in Actor : Drives(task[a], m)
  \/ \E s \in Sweeper : Owes(pass[s], m) \/ pass[s].taken[m] # NoPoint

\* A message in memory whose row is still queued never loses its last owner:
\* an answer is awaited, it is held, or some task is about to move it on.
\* Otherwise it would sit in pipeline_states forever, which is what the
\* one-lock answers of ack_module and check_timeouts and the "nobody to ack"
\* advances of the stages are for.
NoStuckMessage ==
  \A m \in live : row[m] = "queued" => Owned(m) \/ m \in faulted

\* A queued row without a state in memory is being claimed or finished, or the
\* recovery pass of this boot has still to reach it: drain_queued_once may be
\* single-pass because rows are inserted queued by tasks that claim them.
NoOrphanRow ==
  \A m \in Msg \ live :
    row[m] = "queued" =>
      \/ \E a \in Actor : task[a].msg = m /\ task[a].pc \in {"claim", "write"}
      \/ m \in stranded \/ ~drained
      \/ m \in faulted

\* A stage sends a message to a module at most once: the next stage is not
\* dispatched twice by two tasks that both believe they received the last
\* answer of a stage.
NoDoubleDispatch == redispatched = {}

\* A completed row carries the text the run produced: the terminal write is
\* made by the task that took the state, not by a second one that finds it
\* gone and writes an empty result.
CompleteHasText == \A m \in Msg : row[m] = "complete" => m \in saved

\* Only the operator releases a held row, whatever a terminal path that read
\* the row before the hold landed goes on to write.
HoldIsTheOperators ==
  [][\A m \in Msg : row[m] = "audit" /\ row'[m] # "audit"
       => \E approve \in BOOLEAN : release_audit(m, approve)]_vars

\* A rejected message ends rejected: approve=false marks it 'failed'.  The code does
\* not keep this (see the README), and no run checks it.
RejectedIsNotCompleted == \A m \in rejected : row[m] # "complete"

\* Nothing is held behind an open gate: what the gate stopped is released by
\* the resume that opens it.
HeldImpliesGated == (\E m \in Msg : held[m] # NoPoint) => is_gated

\* The abstract specification.
Lifecycle ==
  INSTANCE MessageLifecycle WITH
    status <- row,
    sent   <- [m \in Msg |-> {<<d[2], d[3]>> : d \in {e \in dispatched : e[1] = m}}]

KeepsLifecycle == Lifecycle!LifecycleSpec

\* Every queued message is finished or put on review, although no module ever
\* has to answer, unless dispatch is held or the database failed it.
QueuedIsSettled ==
  \A m \in Msg : row[m] = "queued"
     ~> row[m] # "queued" \/ is_gated \/ m \in faulted
===============================================================================
