----------------------------- MODULE PipelineProofs -----------------------------
(***************************************************************************)
(* What the pipeline keeps for every value of the constants: its types, an *)
(* owner of every queued row, the gate in front of what is held, and the   *)
(* operator's word on a held row.                                          *)
(***************************************************************************)
EXTENDS Pipeline, TLAPS

(***************************************************************************)
(* What every task knows: a working task has a message, a task about to    *)
(* send or to track has a module, a resend is below the cap, and only the  *)
(* sweeps run the steps of a sweep.                                        *)
(***************************************************************************)
WorkPC == {"claim", "gate", "audit", "load", "fan", "track", "send", "bump",
           "ack", "preserve", "store", "take", "write", "clear", "retrack"}

SweepPC == {"check", "drain", "sweep", "retrack", "pause", "defer_pause",
            "defer_resume", "resume", "restart", "spawn"}

TaskOK(a, t) ==
  /\ t.pc \in WorkPC => t.msg \in Msg
  /\ t.pc \in {"track", "send", "retrack"} => t.mod \in Module
  /\ t.pc = "retrack" => t.resends < MaxResends
  /\ t.pc \in SweepPC => a[1] = "sweep"
  /\ t.pc = "ack" => a[1] = "conn"

TasksOK == \A a \in Actor : TaskOK(a, task[a])

TypeInv == TypeOK /\ TasksOK

--------------------------------------------------------------------------------
(***************************************************************************)
(* The parts of the type invariant that are built from others.             *)
(***************************************************************************)
LEMMA ActorKinds ==
  /\ \A m \in Msg : <<"ingest", m>> \in Actor /\ <<"replay", m>> \in Actor
  /\ \A x \in Module : <<"conn", x>> \in Actor
  /\ \A s \in Sweeper : SweepTask(s) \in Actor
  /\ Drain \in Actor
  /\ Resumer \subseteq Sweeper
  /\ "timer" \in Sweeper
  /\ "timer" \notin Resumer
BY DEF Actor, Sweeper, SweepTask, Resumer, BlockedReason, Drain

LEMMA FreshTasks ==
  /\ Idle \in Task
  /\ \A pc \in PC, m \in Msg : At(pc, m) \in Task
  /\ \A pc \in PC, m \in Msg, stage \in Stage : AtStage(pc, m, stage) \in Task
  /\ \A m \in Msg, outcome \in Outcome : Ending(m, outcome) \in Task
<1>1. Idle \in Task
  BY MaxResendsAssumption DEF Idle, Task, PC, Stage, Outcome
<1>2. \A pc \in PC, m \in Msg : At(pc, m) \in Task
  BY <1>1 DEF At, Task
<1>3. \A pc \in PC, m \in Msg, stage \in Stage : AtStage(pc, m, stage) \in Task
  BY <1>2 DEF AtStage, Task
<1>4. \A m \in Msg, outcome \in Outcome : Ending(m, outcome) \in Task
  <2>1. "preserve" \in PC
    BY DEF PC
  <2>. QED BY <1>2, <2>1 DEF Ending, Task
<1>. QED BY <1>1, <1>2, <1>3, <1>4

LEMMA RestTask == \A a \in Actor : Rest(a) \in Task /\ TaskOK(a, Rest(a))
<1>. SUFFICES ASSUME NEW a \in Actor PROVE Rest(a) \in Task /\ TaskOK(a, Rest(a))
  OBVIOUS
<1>1. CASE a[1] = "sweep"
  <2>1. Rest(a) = [Idle EXCEPT !.pc = "sweep"]
    BY <1>1 DEF Rest
  <2>2. Rest(a) \in Task /\ Rest(a).pc = "sweep"
    BY <2>1, FreshTasks DEF Task, PC
  <2>. QED BY <1>1, <2>2 DEF TaskOK, WorkPC, SweepPC
<1>2. CASE a[1] # "sweep"
  <2>1. Rest(a) = Idle
    BY <1>2 DEF Rest
  <2>2. Rest(a) \in Task /\ Rest(a).pc = "idle"
    BY <2>1, FreshTasks DEF Idle
  <2>. QED BY <2>2 DEF TaskOK, WorkPC, SweepPC
<1>. QED BY <1>1, <1>2

\* The fields of the tasks that start a step.
LEMMA TaskFields ==
  ASSUME NEW pc \in PC, NEW m \in Msg, NEW stage \in Stage, NEW outcome \in Outcome
  PROVE  /\ At(pc, m).pc = pc /\ At(pc, m).msg = m
         /\ AtStage(pc, m, stage).pc = pc /\ AtStage(pc, m, stage).msg = m
         /\ AtStage(pc, m, stage).stage = stage
         /\ Ending(m, outcome).pc = "preserve" /\ Ending(m, outcome).msg = m
         /\ Ending(m, outcome).outcome = outcome
BY DEF At, AtStage, Ending, Idle

\* A task that only needs a message is well formed whoever runs it.
Plain == {"claim", "gate", "audit", "load", "fan", "bump", "preserve", "store",
          "take", "write", "clear"}

LEMMA PlainTask ==
  ASSUME NEW a \in Actor, NEW t \in Task, t.pc \in Plain, t.msg \in Msg
  PROVE  TaskOK(a, t)
BY DEF TaskOK, Plain, WorkPC, SweepPC

LEMMA PlainTasks ==
  ASSUME NEW a \in Actor, NEW pc \in Plain, NEW m \in Msg
  PROVE  /\ At(pc, m) \in Task /\ TaskOK(a, At(pc, m))
         /\ \A stage \in Stage :
              AtStage(pc, m, stage) \in Task /\ TaskOK(a, AtStage(pc, m, stage))
         /\ \A outcome \in Outcome :
              Ending(m, outcome) \in Task /\ TaskOK(a, Ending(m, outcome))
<1>1. pc \in PC /\ "preserve" \in Plain
  BY DEF Plain, PC
<1>2. At(pc, m) \in Task /\ TaskOK(a, At(pc, m))
  <2>1. "complete" \in Outcome /\ "pre_process" \in Stage
    BY DEF Outcome, Stage
  <2>. QED BY <1>1, <2>1, FreshTasks, TaskFields, PlainTask
<1>3. ASSUME NEW stage \in Stage
      PROVE  AtStage(pc, m, stage) \in Task /\ TaskOK(a, AtStage(pc, m, stage))
  <2>1. "complete" \in Outcome
    BY DEF Outcome
  <2>. QED BY <1>1, <2>1, FreshTasks, TaskFields, PlainTask
<1>4. ASSUME NEW outcome \in Outcome
      PROVE  Ending(m, outcome) \in Task /\ TaskOK(a, Ending(m, outcome))
  <2>1. "pre_process" \in Stage
    BY DEF Stage
  <2>. QED BY <1>1, <2>1, FreshTasks, TaskFields, PlainTask
<1>. QED BY <1>2, <1>3, <1>4

\* A change of the program counter alone.
LEMMA PlainMove ==
  ASSUME NEW a \in Actor, NEW t \in Task, t.msg \in Msg, NEW pc \in Plain
  PROVE  [t EXCEPT !.pc = pc] \in Task /\ TaskOK(a, [t EXCEPT !.pc = pc])
<1>1. [t EXCEPT !.pc = pc] \in Task
  BY DEF Task, Plain, PC
<1>2. [t EXCEPT !.pc = pc].pc \in Plain /\ [t EXCEPT !.pc = pc].msg \in Msg
  BY DEF Task
<1>. QED BY <1>1, <1>2, PlainTask

LEMMA GotoOK ==
  ASSUME TypeInv, NEW a \in Actor, NEW t \in Task, TaskOK(a, t), Goto(a, t)
  PROVE  task' \in [Actor -> Task] /\ TasksOK'
BY DEF TypeInv, TypeOK, TasksOK, Goto

LEMMA ReturnOK ==
  ASSUME TypeInv, NEW a \in Actor, Return(a)
  PROVE  task' \in [Actor -> Task] /\ TasksOK'
BY RestTask, GotoOK DEF Return

LEMMA WorkingMsg ==
  ASSUME TypeInv, NEW a \in Actor, task[a].pc \in WorkPC
  PROVE  task[a] \in Task /\ task[a].msg \in Msg
BY DEF TypeInv, TypeOK, TasksOK, TaskOK

--------------------------------------------------------------------------------
LEMMA ClaimType ==
  ASSUME TypeInv, NEW a \in Actor, Claim(a)
  PROVE  TypeInv'
<1>1. task[a].msg \in Msg
  BY WorkingMsg DEF Claim, Is, WorkPC
<1>2. task' \in [Actor -> Task] /\ TasksOK'
  <2>1. "gate" \in Plain /\ "pre_process" \in Stage
    BY DEF Plain, Stage
  <2>. QED BY <1>1, <2>1, PlainTasks, GotoOK DEF Claim
<1>. QED
  BY <1>1, <1>2 DEF TypeInv, TypeOK, TrackerTypeOK, GateTypeOK, Claim, rowVars,
     gateVars, drainVars, historyVars

LEMMA GateType ==
  ASSUME TypeInv, NEW a \in Actor, Gate(a)
  PROVE  TypeInv'
<1>1. task[a].stage \in Stage /\ task[a].msg \in Msg
  BY WorkingMsg DEF Gate, Is, WorkPC, Task
<1>2. task' \in [Actor -> Task] /\ TasksOK'
  <2>1. "load" \in Plain /\ "audit" \in Plain
    BY DEF Plain
  <2>. QED BY <1>1, <2>1, PlainTasks, GotoOK, ReturnOK DEF Gate
<1>3. PointOf(task[a].stage) \in HoldPoint
  BY <1>1 DEF PointOf, HoldPoint, Stage
<1>. QED
  BY <1>1, <1>2, <1>3 DEF TypeInv, TypeOK, TrackerTypeOK, GateTypeOK, Gate,
     hold_if_gated, rowVars, stateVars, gateVars, drainVars, historyVars

LEMMA AuditType ==
  ASSUME TypeInv, NEW a \in Actor, Audit(a)
  PROVE  TypeInv'
<1>1. task[a].stage \in Stage /\ task[a].msg \in Msg
  BY WorkingMsg DEF Audit, Is, WorkPC, Task
<1>2. task' \in [Actor -> Task] /\ TasksOK'
  <2>1. "load" \in Plain
    BY DEF Plain
  <2>. QED BY <1>1, <2>1, PlainTasks, GotoOK, ReturnOK DEF Audit
<1>. QED
  BY <1>2 DEF TypeInv, TypeOK, TrackerTypeOK, GateTypeOK, Audit, rowVars,
     stateVars, gateVars, drainVars, historyVars

LEMMA Recipients ==
  ASSUME NEW owner
  PROVE  /\ command_recipients(owner, PreModules) \subseteq Module
         /\ post_process_recipients(owner) \subseteq Module
BY RoutingAssumption DEF command_recipients, post_process_recipients

LEMMA LoadFanoutType ==
  ASSUME TypeInv, NEW a \in Actor, LoadFanout(a)
  PROVE  TypeInv'
<1>1. task[a].stage \in Stage /\ task[a].msg \in Msg
  BY WorkingMsg DEF LoadFanout, Is, WorkPC, Task
<1>2. task' \in [Actor -> Task] /\ TasksOK'
  <2>1. "fan" \in Plain
    BY DEF Plain
  <2>2. CASE task[a].msg \notin live
    BY <2>2, ReturnOK DEF LoadFanout
  <2>3. CASE task[a].msg \in live
    <3> DEFINE fan == AtStage("fan", task[a].msg, task[a].stage)
               todo == IF task[a].stage = "pre_process"
                         THEN command_recipients(owner_of(task[a].msg), PreModules)
                         ELSE post_process_recipients(owner_of(task[a].msg))
    <3>1. fan \in Task /\ fan.pc = "fan" /\ fan.msg = task[a].msg
      <4>1. "complete" \in Outcome /\ "fan" \in PC
        BY DEF Outcome, PC
      <4>. QED BY <1>1, <2>1, <4>1, PlainTasks, TaskFields
    <3>2. todo \subseteq Module
      BY Recipients
    <3>3. Goto(a, [fan EXCEPT !.todo = todo])
      BY <2>3 DEF LoadFanout
    <3>. HIDE DEF fan, todo
    <3>4. /\ [fan EXCEPT !.todo = todo] \in Task
          /\ [fan EXCEPT !.todo = todo].pc = "fan"
          /\ [fan EXCEPT !.todo = todo].msg \in Msg
      BY <1>1, <3>1, <3>2 DEF Task
    <3>. QED BY <2>1, <3>3, <3>4, PlainTask, GotoOK
  <2>. QED BY <2>2, <2>3
<1>. QED
  BY <1>2 DEF TypeInv, TypeOK, TrackerTypeOK, GateTypeOK, LoadFanout, rowVars,
     stateVars, gateVars, drainVars, historyVars

\* A task that sends to a module, or has just done so.
LEMMA SendingTask ==
  ASSUME NEW a \in Actor, NEW t \in Task, t.pc \in {"send", "track"},
         t.msg \in Msg, t.mod \in Module
  PROVE  TaskOK(a, t)
BY DEF TaskOK, WorkPC, SweepPC

LEMMA LoadChainType ==
  ASSUME TypeInv, NEW a \in Actor, LoadChain(a)
  PROVE  TypeInv'
<1> DEFINE m == task[a].msg
           x == InModuleAt(index[m])
<1>1. m \in Msg
  BY WorkingMsg DEF LoadChain, Is, WorkPC
<1>2. task' \in [Actor -> Task] /\ TasksOK'
  <2>1. "gate" \in Plain /\ "bump" \in Plain /\ "post_process" \in Stage
        /\ "in_process" \in Stage /\ "send" \in PC /\ "complete" \in Outcome
    BY DEF Plain, Stage, PC, Outcome
  <2>2. CASE m \notin live
    BY <2>2, ReturnOK DEF LoadChain
  <2>3. CASE m \in live /\ index[m] >= Len(InModules)
    <3>1. Goto(a, AtStage("gate", m, "post_process"))
      BY <2>3 DEF LoadChain
    <3>. QED BY <1>1, <2>1, <3>1, PlainTasks, GotoOK
  <2>4. CASE /\ m \in live /\ ~(index[m] >= Len(InModules))
             /\ ~is_in_recipient(owner_of(m), x)
    <3>1. Goto(a, At("bump", m))
      BY <2>4 DEF LoadChain
    <3>. QED BY <1>1, <2>1, <3>1, PlainTasks, GotoOK
  <2>5. CASE /\ m \in live /\ ~(index[m] >= Len(InModules))
             /\ is_in_recipient(owner_of(m), x)
    <3> DEFINE t == AtStage("send", m, "in_process")
    <3>1. Goto(a, [t EXCEPT !.mod = x])
      BY <2>5 DEF LoadChain
    <3>2. x \in Module
      <4>1. index[m] \in Nat
        BY <1>1 DEF TypeInv, TypeOK
      <4>. QED BY <2>5, <4>1, RoutingAssumption DEF InModuleAt
    <3>3. t \in Task /\ t.pc = "send" /\ t.msg = m
      BY <1>1, <2>1, FreshTasks, TaskFields
    <3>. HIDE DEF t, x
    <3>4. /\ [t EXCEPT !.mod = x] \in Task
          /\ [t EXCEPT !.mod = x].pc = "send"
          /\ [t EXCEPT !.mod = x].msg \in Msg
          /\ [t EXCEPT !.mod = x].mod \in Module
      BY <1>1, <3>2, <3>3 DEF Task
    <3>. QED BY <3>1, <3>4, SendingTask, GotoOK
  <2>. QED BY <2>2, <2>3, <2>4, <2>5
<1>. QED
  BY <1>2 DEF TypeInv, TypeOK, TrackerTypeOK, GateTypeOK, LoadChain, rowVars,
     stateVars, gateVars, drainVars, historyVars

LEMMA FanSendType ==
  ASSUME TypeInv, NEW a \in Actor, FanSend(a)
  PROVE  TypeInv'
<1>1. task[a] \in Task /\ task[a].msg \in Msg
  BY WorkingMsg DEF FanSend, Is, WorkPC
<1>2. PICK x \in task[a].todo :
        /\ Goto(a, [task[a] EXCEPT !.pc = "track", !.todo = @ \ {x},
                                   !.sent = TRUE, !.mod = x])
        /\ Dispatch(task[a].msg, task[a].stage, x)
  BY DEF FanSend
<1>3. x \in Module /\ task[a].stage \in Stage
  BY <1>1 DEF Task
<1>4. task' \in [Actor -> Task] /\ TasksOK'
  <2> DEFINE t == [task[a] EXCEPT !.pc = "track", !.todo = @ \ {x},
                                  !.sent = TRUE, !.mod = x]
  <2>1. "track" \in PC
    BY DEF PC
  <2>2. t \in Task /\ t.pc = "track" /\ t.msg \in Msg /\ t.mod \in Module
    BY <1>1, <1>3, <2>1 DEF Task
  <2>3. Goto(a, t)
    BY <1>2
  <2>. HIDE DEF t
  <2>. QED BY <2>2, <2>3, SendingTask, GotoOK
<1>5. /\ dispatched' \subseteq Msg \X Stage \X Module
      /\ redispatched' \subseteq Msg \X Stage \X Module
      /\ rejected' = rejected /\ faulted' = faulted
  BY <1>1, <1>2, <1>3 DEF Dispatch, TypeInv, TypeOK
<1>. QED
  BY <1>4, <1>5 DEF TypeInv, TypeOK, TrackerTypeOK, GateTypeOK, FanSend, rowVars,
     stateVars, gateVars, drainVars

LEMMA FanSkipType ==
  ASSUME TypeInv, NEW a \in Actor, FanSkip(a)
  PROVE  TypeInv'
<1>1. task[a] \in Task /\ task[a].msg \in Msg
  BY WorkingMsg DEF FanSkip, Is, WorkPC
<1>2. PICK x \in task[a].todo : Goto(a, [task[a] EXCEPT !.todo = @ \ {x}])
  BY DEF FanSkip
<1>3. task' \in [Actor -> Task] /\ TasksOK'
  <2> DEFINE t == [task[a] EXCEPT !.todo = @ \ {x}]
  <2>1. "fan" \in Plain
    BY DEF Plain
  <2>2. t \in Task /\ t.pc = "fan" /\ t.msg \in Msg
    BY <1>1 DEF Task, FanSkip, Is
  <2>3. Goto(a, t)
    BY <1>2
  <2>. HIDE DEF t
  <2>. QED BY <2>1, <2>2, <2>3, PlainTask, GotoOK
<1>. QED
  BY <1>3 DEF TypeInv, TypeOK, TrackerTypeOK, GateTypeOK, FanSkip, rowVars,
     stateVars, gateVars, drainVars, historyVars

LEMMA FanDoneType ==
  ASSUME TypeInv, NEW a \in Actor, FanDone(a)
  PROVE  TypeInv'
<1>1. task[a].msg \in Msg
  BY WorkingMsg DEF FanDone, Is, WorkPC
<1>2. task' \in [Actor -> Task] /\ TasksOK'
  <2>1. "gate" \in Plain /\ "in_process" \in Stage /\ "complete" \in Outcome
    BY DEF Plain, Stage, Outcome
  <2>. QED BY <1>1, <2>1, PlainTasks, GotoOK, ReturnOK DEF FanDone
<1>. QED
  BY <1>2 DEF TypeInv, TypeOK, TrackerTypeOK, GateTypeOK, FanDone, rowVars,
     stateVars, gateVars, drainVars, historyVars

LEMMA SendInProcessType ==
  ASSUME TypeInv, NEW a \in Actor, SendInProcess(a)
  PROVE  TypeInv'
<1>1. /\ task[a] \in Task /\ task[a].msg \in Msg /\ task[a].mod \in Module
      /\ "in_process" \in Stage
  BY WorkingMsg DEF SendInProcess, Is, WorkPC, TypeInv, TasksOK, TaskOK, Stage
<1>2. CASE /\ Goto(a, [task[a] EXCEPT !.pc = "track"])
           /\ Dispatch(task[a].msg, "in_process", task[a].mod)
  <2> DEFINE t == [task[a] EXCEPT !.pc = "track"]
  <2>1. "track" \in PC
    BY DEF PC
  <2>2. t \in Task /\ t.pc = "track" /\ t.msg \in Msg /\ t.mod \in Module
    BY <1>1, <2>1 DEF Task
  <2>. HIDE DEF t
  <2>3. task' \in [Actor -> Task] /\ TasksOK'
    BY <1>2, <2>2, SendingTask, GotoOK DEF t
  <2>4. /\ dispatched' \subseteq Msg \X Stage \X Module
        /\ redispatched' \subseteq Msg \X Stage \X Module
        /\ rejected' = rejected /\ faulted' = faulted
    BY <1>1, <1>2 DEF Dispatch, TypeInv, TypeOK
  <2>. QED
    BY <2>3, <2>4 DEF TypeInv, TypeOK, TrackerTypeOK, GateTypeOK, SendInProcess,
       rowVars, stateVars, gateVars, drainVars
<1>3. CASE Goto(a, At("bump", task[a].msg)) /\ UNCHANGED historyVars
  <2>1. "bump" \in Plain
    BY DEF Plain
  <2>2. task' \in [Actor -> Task] /\ TasksOK'
    BY <1>1, <1>3, <2>1, PlainTasks, GotoOK
  <2>. QED
    BY <1>3, <2>2 DEF TypeInv, TypeOK, TrackerTypeOK, GateTypeOK, SendInProcess,
       rowVars, stateVars, gateVars, drainVars, historyVars
<1>. QED BY <1>2, <1>3 DEF SendInProcess

LEMMA NewEntryType ==
  ASSUME NEW stage \in Stage, NEW x \in Module, NEW n \in 0..MaxResends
  PROVE  NewEntry(stage, x, n) \in Entry
BY DEF NewEntry, Entry

LEMMA TrackType ==
  ASSUME TypeInv, NEW a \in Actor, Track(a)
  PROVE  TypeInv'
<1>1. /\ task[a] \in Task /\ task[a].msg \in Msg /\ task[a].mod \in Module
      /\ task[a].stage \in Stage
  BY WorkingMsg DEF Track, Is, WorkPC, TypeInv, TasksOK, TaskOK, Task
<1>2. task' \in [Actor -> Task] /\ TasksOK'
  <2>1. CASE task[a].stage = "in_process"
    BY <2>1, ReturnOK DEF Track
  <2>2. CASE task[a].stage # "in_process"
    <3> DEFINE t == [task[a] EXCEPT !.pc = "fan", !.mod = NoModule]
    <3>1. "fan" \in Plain /\ "fan" \in PC
      BY DEF Plain, PC
    <3>2. t \in Task /\ t.pc = "fan" /\ t.msg \in Msg
      BY <1>1, <3>1 DEF Task
    <3>3. Goto(a, t)
      BY <2>2 DEF Track
    <3>. HIDE DEF t
    <3>. QED BY <3>1, <3>2, <3>3, PlainTask, GotoOK
  <2>. QED BY <2>1, <2>2
<1>3. pending' \in [Msg -> SUBSET Entry]
  BY <1>1, NewEntryType, MaxResendsAssumption DEF Track, track, TypeInv, TypeOK,
     TrackerTypeOK
<1>. QED
  BY <1>2, <1>3 DEF TypeInv, TypeOK, TrackerTypeOK, GateTypeOK, Track, rowVars,
     stateVars, gateVars, drainVars, historyVars

LEMMA BumpType ==
  ASSUME TypeInv, NEW a \in Actor, Bump(a)
  PROVE  TypeInv'
<1> DEFINE m == task[a].msg
<1>1. m \in Msg /\ index[m] \in Nat
  BY WorkingMsg DEF Bump, Is, WorkPC, TypeInv, TypeOK
<1>2. CASE m \notin live
  <2>1. Return(a) /\ UNCHANGED index
    BY <1>2 DEF Bump
  <2>2. task' \in [Actor -> Task] /\ TasksOK'
    BY <2>1, ReturnOK
  <2>. QED
    BY <2>1, <2>2 DEF TypeInv, TypeOK, TrackerTypeOK, GateTypeOK, Bump, rowVars,
       stateVars, gateVars, drainVars, historyVars
<1>3. CASE m \in live
  <2>1. /\ index' = [index EXCEPT ![m] = @ + 1]
        /\ Goto(a, AfterChain(m, index[m] + 1))
    BY <1>3 DEF Bump
  <2>2. task' \in [Actor -> Task] /\ TasksOK'
    <3>1. "gate" \in Plain /\ "in_process" \in Stage /\ "post_process" \in Stage
      BY DEF Plain, Stage
    <3>. QED BY <1>1, <2>1, <3>1, PlainTasks, GotoOK DEF AfterChain
  <2>3. index' \in [Msg -> Nat]
    BY <1>1, <2>1 DEF TypeInv, TypeOK
  <2>. QED
    BY <2>2, <2>3 DEF TypeInv, TypeOK, TrackerTypeOK, GateTypeOK, Bump, rowVars,
       stateVars, gateVars, drainVars, historyVars
<1>. QED BY <1>2, <1>3

LEMMA PreserveType ==
  ASSUME TypeInv, NEW a \in Actor, Preserve(a)
  PROVE  TypeInv'
<1>1. task[a] \in Task /\ task[a].msg \in Msg
  BY WorkingMsg DEF Preserve, Is, WorkPC
<1>2. task' \in [Actor -> Task] /\ TasksOK'
  <2>1. "store" \in Plain /\ "take" \in Plain
    BY DEF Plain
  <2>. QED BY <1>1, <2>1, PlainMove, GotoOK DEF Preserve
<1>. QED
  BY <1>2 DEF TypeInv, TypeOK, TrackerTypeOK, GateTypeOK, Preserve, rowVars,
     stateVars, gateVars, drainVars, historyVars

LEMMA StoreHeldType ==
  ASSUME TypeInv, NEW a \in Actor, StoreHeld(a)
  PROVE  TypeInv'
<1>1. task' \in [Actor -> Task] /\ TasksOK'
  BY ReturnOK DEF StoreHeld
<1>. QED
  BY <1>1 DEF TypeInv, TypeOK, TrackerTypeOK, GateTypeOK, StoreHeld, stateVars,
     gateVars, drainVars, historyVars

LEMMA TakeType ==
  ASSUME TypeInv, NEW a \in Actor, Take(a)
  PROVE  TypeInv'
<1>1. task[a] \in Task /\ task[a].msg \in Msg
  BY WorkingMsg DEF Take, Is, WorkPC
<1>2. task' \in [Actor -> Task] /\ TasksOK'
  <2>1. CASE Return(a)
    BY <2>1, ReturnOK
  <2>2. CASE Goto(a, [task[a] EXCEPT !.pc = "write", !.result = HasResult(task[a].msg)])
    <3> DEFINE t == [task[a] EXCEPT !.pc = "write", !.result = HasResult(task[a].msg)]
    <3>1. "write" \in Plain /\ "write" \in PC
      BY DEF Plain, PC
    <3>2. HasResult(task[a].msg) \in BOOLEAN
      BY DEF HasResult
    <3>3. t \in Task /\ t.pc = "write" /\ t.msg \in Msg
      BY <1>1, <3>1, <3>2 DEF Task
    <3>4. Goto(a, t)
      BY <2>2
    <3>. HIDE DEF t
    <3>. QED BY <3>1, <3>3, <3>4, PlainTask, GotoOK
  <2>. QED BY <2>1, <2>2 DEF Take
<1>3. /\ live' = live \ {task[a].msg}
      /\ index' = [index EXCEPT ![task[a].msg] = 0]
      /\ parsed' = parsed \ {task[a].msg}
      /\ UNCHANGED <<rowVars, pending, gateVars, pass, drainVars, historyVars, used>>
  BY DEF Take
<1>4. live' \subseteq Msg /\ index' \in [Msg -> Nat] /\ parsed' \subseteq Msg
  BY <1>1, <1>3 DEF TypeInv, TypeOK
<1>. QED
  BY <1>2, <1>3, <1>4 DEF TypeInv, TypeOK, TrackerTypeOK, GateTypeOK, rowVars,
     gateVars, drainVars, historyVars

LEMMA WriteType ==
  ASSUME TypeInv, NEW a \in Actor, Write(a)
  PROVE  TypeInv'
<1>1. task[a] \in Task /\ task[a].msg \in Msg /\ task[a].outcome \in Status
  BY WorkingMsg DEF Write, Is, WorkPC, Task, Outcome, Status
<1>2. task' \in [Actor -> Task] /\ TasksOK'
  <2>1. "clear" \in Plain
    BY DEF Plain
  <2>. QED BY <1>1, <2>1, PlainMove, GotoOK DEF Write
<1>3. row' \in [Msg -> Status] /\ saved' \subseteq Msg
  <2>1. CASE RefusedByHold(task[a].msg, task[a].outcome)
    BY <2>1 DEF Write, rowVars, TypeInv, TypeOK
  <2>2. CASE ~RefusedByHold(task[a].msg, task[a].outcome)
    BY <1>1, <2>2 DEF Write, TypeInv, TypeOK
  <2>. QED BY <2>1, <2>2
<1>. QED
  BY <1>2, <1>3 DEF TypeInv, TypeOK, TrackerTypeOK, GateTypeOK, Write,
     stateVars, gateVars, drainVars, historyVars

LEMMA ClearType ==
  ASSUME TypeInv, NEW a \in Actor, Clear(a)
  PROVE  TypeInv'
<1>1. task' \in [Actor -> Task] /\ TasksOK'
  BY ReturnOK DEF Clear
<1>2. pending' \in [Msg -> SUBSET Entry]
  BY DEF Clear, ack, TypeInv, TypeOK, TrackerTypeOK
<1>. QED
  BY <1>1, <1>2 DEF TypeInv, TypeOK, TrackerTypeOK, GateTypeOK, Clear, rowVars,
     stateVars, gateVars, drainVars, historyVars

LEMMA IngestType ==
  ASSUME TypeInv, NEW m \in Msg, Ingest(m)
  PROVE  TypeInv'
<1>1. task' \in [Actor -> Task] /\ TasksOK'
  <2>1. "claim" \in Plain
    BY DEF Plain
  <2>. QED BY <2>1, ActorKinds, PlainTasks, GotoOK DEF Ingest
<1>2. row' \in [Msg -> Status]
  BY DEF Ingest, TypeInv, TypeOK, Status
<1>. QED
  BY <1>1, <1>2 DEF TypeInv, TypeOK, TrackerTypeOK, GateTypeOK, Ingest,
     stateVars, gateVars, drainVars, historyVars

LEMMA DrainStartType ==
  ASSUME TypeInv, DrainStart
  PROVE  TypeInv'
BY DEF TypeInv, TypeOK, TasksOK, TrackerTypeOK, GateTypeOK, DrainStart, rowVars,
   stateVars, gateVars, taskVars, historyVars

LEMMA RecoverType ==
  ASSUME TypeInv, NEW m \in Msg, Recover(m)
  PROVE  TypeInv'
<1>1. task' \in [Actor -> Task] /\ TasksOK'
  <2>1. "claim" \in Plain
    BY DEF Plain
  <2>2. CASE IsStranded(m)
    BY <2>1, <2>2, ActorKinds, PlainTasks, GotoOK DEF Recover
  <2>3. CASE ~IsStranded(m)
    BY <2>3 DEF Recover, TypeInv, TypeOK, TasksOK
  <2>. QED BY <2>2, <2>3
<1>. QED
  BY <1>1 DEF TypeInv, TypeOK, TrackerTypeOK, GateTypeOK, Recover, rowVars,
     stateVars, gateVars, historyVars

LEMMA RecoverFailsType ==
  ASSUME TypeInv, NEW m \in Msg, RecoverFails(m)
  PROVE  TypeInv'
<1>1. used' \in [requests : Nat, flags : Nat, crashes : Nat, faults : Nat]
  BY DEF RecoverFails, Spend, TypeInv, TypeOK
<1>. QED
  BY <1>1 DEF TypeInv, TypeOK, TasksOK, TrackerTypeOK, GateTypeOK, RecoverFails,
     rowVars, stateVars, gateVars, taskVars

--------------------------------------------------------------------------------
LEMMA EchoType ==
  ASSUME TypeInv, NEW x \in Module, NEW m \in Msg, Echo(x, m)
  PROVE  TypeInv'
<1>1. task' \in [Actor -> Task] /\ TasksOK'
  <2> DEFINE a == <<"conn", x>>
             t == At("ack", m)
  <2>1. "ack" \in PC /\ "complete" \in Outcome /\ "pre_process" \in Stage
    BY DEF PC, Outcome, Stage
  <2>2. t \in Task /\ t.pc = "ack" /\ t.msg = m
    BY <2>1, FreshTasks, TaskFields
  <2>3. a \in Actor /\ a[1] = "conn" /\ Goto(a, t)
    BY ActorKinds DEF Echo
  <2>. HIDE DEF a, t
  <2>4. TaskOK(a, t)
    BY <2>2, <2>3 DEF TaskOK, SweepPC
  <2>. QED BY <2>2, <2>3, <2>4, GotoOK
<1>. QED
  BY <1>1 DEF TypeInv, TypeOK, TrackerTypeOK, GateTypeOK, Echo, rowVars,
     stateVars, gateVars, drainVars, historyVars

\* An answer ends its task's step, moves the chain on, or starts what is next,
\* as the stage of an entry of its module says.
LEMMA AckMoves ==
  ASSUME TypeInv, NEW x \in Module, Ack(x)
  PROVE  LET a == <<"conn", x>>
             m == task[a].msg
         IN \/ Return(a)
            \/ \E e \in EntriesOf(m, x) :
                 \/ e.stage = "in_process" /\ Goto(a, At("bump", m))
                 \/ e.stage = "pre_process" /\ Goto(a, AtStage("gate", m, "in_process"))
                 \/ e.stage = "post_process" /\ Goto(a, Ending(m, "complete"))
<1> DEFINE a == <<"conn", x>>
           m == task[a].msg
<1>1. \A e \in EntriesOf(m, x) : e.stage \in Stage
  <2>1. m \in Msg
    BY ActorKinds, WorkingMsg DEF Ack, Is, WorkPC
  <2>. QED BY <2>1 DEF EntriesOf, TypeInv, TypeOK, TrackerTypeOK, Entry
<1>2. CASE EntriesOf(m, x) = {} /\ Return(a)
  BY <1>2
<1>3. ASSUME NEW e \in EntriesOf(m, x),
             CASE e.stage = "in_process" -> Goto(a, At("bump", m))
               [] e.stage # "in_process" /\ still_pending_after_ack(m, x) -> Return(a)
               [] e.stage = "pre_process" /\ ~still_pending_after_ack(m, x) ->
                    Goto(a, AtStage("gate", m, "in_process"))
               [] e.stage = "post_process" /\ ~still_pending_after_ack(m, x) ->
                    Goto(a, Ending(m, "complete"))
      PROVE  \/ Return(a)
             \/ e.stage = "in_process" /\ Goto(a, At("bump", m))
             \/ e.stage = "pre_process" /\ Goto(a, AtStage("gate", m, "in_process"))
             \/ e.stage = "post_process" /\ Goto(a, Ending(m, "complete"))
  <2>1. e.stage \in {"pre_process", "in_process", "post_process"}
    BY <1>1 DEF Stage
  <2>2. CASE e.stage = "in_process"
    BY <1>3, <2>2
  <2>3. CASE e.stage # "in_process" /\ still_pending_after_ack(m, x)
    BY <1>3, <2>3
  <2>4. CASE e.stage = "pre_process" /\ ~still_pending_after_ack(m, x)
    BY <1>3, <2>4
  <2>5. CASE e.stage = "post_process" /\ ~still_pending_after_ack(m, x)
    BY <1>3, <2>5
  <2>. QED BY <2>1, <2>2, <2>3, <2>4, <2>5
<1>. QED BY <1>2, <1>3 DEF Ack

LEMMA AckType ==
  ASSUME TypeInv, NEW x \in Module, Ack(x)
  PROVE  TypeInv'
<1> DEFINE a == <<"conn", x>>
           m == task[a].msg
<1>1. a \in Actor /\ m \in Msg
  BY ActorKinds, WorkingMsg DEF Ack, Is, WorkPC
<1>2. pending' \in [Msg -> SUBSET Entry]
  BY <1>1 DEF Ack, ack_module, TypeInv, TypeOK, TrackerTypeOK
<1>3. task' \in [Actor -> Task] /\ TasksOK'
  <2>1. /\ "bump" \in Plain /\ "gate" \in Plain
        /\ "in_process" \in Stage /\ "complete" \in Outcome
    BY DEF Plain, Stage, Outcome
  <2>2. CASE Return(a)
    BY <1>1, <2>2, ReturnOK
  <2>3. CASE Goto(a, At("bump", m))
    BY <1>1, <2>1, <2>3, PlainTasks, GotoOK
  <2>4. CASE Goto(a, AtStage("gate", m, "in_process"))
    BY <1>1, <2>1, <2>4, PlainTasks, GotoOK
  <2>5. CASE Goto(a, Ending(m, "complete"))
    BY <1>1, <2>1, <2>5, PlainTasks, GotoOK
  <2>. QED BY <2>2, <2>3, <2>4, <2>5, AckMoves
<1>. QED
  BY <1>2, <1>3 DEF TypeInv, TypeOK, TrackerTypeOK, GateTypeOK, Ack, rowVars,
     stateVars, gateVars, drainVars, historyVars

LEMMA AbandonType ==
  ASSUME TypeInv, NEW x \in Module, NEW m \in Msg, Abandon(x, m)
  PROVE  TypeInv'
<1>1. task' \in [Actor -> Task] /\ TasksOK'
  <2>1. "preserve" \in Plain /\ "dropped" \in Outcome
    BY DEF Plain, Outcome
  <2>. QED BY <2>1, ActorKinds, PlainTasks, GotoOK DEF Abandon
<1>. QED
  BY <1>1 DEF TypeInv, TypeOK, TrackerTypeOK, GateTypeOK, Abandon, rowVars,
     stateVars, gateVars, drainVars, historyVars

LEMMA ReceiptType ==
  ASSUME TypeInv, NEW x \in Module, NEW m \in Msg, Receipt(x, m)
  PROVE  TypeInv'
<1>1. pending' \in [Msg -> SUBSET Entry]
  <2>1. PICK e \in EntriesOf(m, x) :
          pending' = [pending EXCEPT
                        ![m] = (@ \ {e}) \cup {[e EXCEPT !.receipt = TRUE]}]
    BY DEF Receipt, mark_receipt
  <2>2. e \in Entry
    BY DEF EntriesOf, TypeInv, TypeOK, TrackerTypeOK
  <2>3. [e EXCEPT !.receipt = TRUE] \in Entry
    BY <2>2 DEF Entry
  <2>. QED BY <2>1, <2>3 DEF TypeInv, TypeOK, TrackerTypeOK
<1>. QED
  BY <1>1 DEF TypeInv, TypeOK, TasksOK, TrackerTypeOK, GateTypeOK, Receipt,
     rowVars, stateVars, gateVars, taskVars, drainVars, historyVars

LEMMA AuditFlagType ==
  ASSUME TypeInv, NEW x \in Module, NEW m \in Msg, AuditFlag(x, m)
  PROVE  TypeInv'
<1>1. used' \in [requests : Nat, flags : Nat, crashes : Nat, faults : Nat]
  BY DEF AuditFlag, Spend, TypeInv, TypeOK
<1>2. row' \in [Msg -> Status]
  BY DEF AuditFlag, TypeInv, TypeOK, Status
<1>. QED
  BY <1>1, <1>2 DEF TypeInv, TypeOK, TasksOK, TrackerTypeOK, GateTypeOK,
     AuditFlag, stateVars, gateVars, taskVars, drainVars, historyVars

LEMMA ReleaseAuditType ==
  ASSUME TypeInv, NEW m \in Msg, NEW approve \in BOOLEAN, release_audit(m, approve)
  PROVE  TypeInv'
<1>1. row' \in [Msg -> Status] /\ rejected' \subseteq Msg
  BY DEF release_audit, TypeInv, TypeOK, Status
<1>. QED
  BY <1>1 DEF TypeInv, TypeOK, TasksOK, TrackerTypeOK, GateTypeOK,
     release_audit, stateVars, gateVars, taskVars, drainVars

LEMMA ElapseType ==
  ASSUME TypeInv, NEW m \in Msg, Elapse(m)
  PROVE  TypeInv'
<1>1. pending' \in [Msg -> SUBSET Entry]
  <2>1. PICK e \in pending[m] : RunOut(m, e)
    BY DEF Elapse
  <2>2. e \in Entry
    BY DEF TypeInv, TypeOK, TrackerTypeOK
  <2>3. [e EXCEPT !.clock = "expired"] \in Entry
    BY <2>2 DEF Entry
  <2>4. pending' = [pending EXCEPT ![m] = (@ \ {e}) \cup {[e EXCEPT !.clock = "expired"]}]
    BY <2>1 DEF RunOut
  <2>. QED BY <2>3, <2>4 DEF TypeInv, TypeOK, TrackerTypeOK
<1>. QED
  BY <1>1 DEF TypeInv, TypeOK, TasksOK, TrackerTypeOK, GateTypeOK, Elapse,
     rowVars, stateVars, gateVars, taskVars, drainVars, historyVars

--------------------------------------------------------------------------------
\* A sweeper between two steps: its task has no message.
LEMMA SweeperTask ==
  ASSUME NEW s \in Sweeper,
         NEW pc \in {"idle", "check", "drain", "sweep", "pause", "defer_pause",
                     "defer_resume", "resume", "restart", "spawn"}
  PROVE  /\ [Idle EXCEPT !.pc = pc] \in Task
         /\ TaskOK(SweepTask(s), [Idle EXCEPT !.pc = pc])
<1>1. pc \in PC /\ Idle \in Task
  BY FreshTasks DEF PC
<1>2. /\ [Idle EXCEPT !.pc = pc] \in Task
      /\ [Idle EXCEPT !.pc = pc].pc = pc
  BY <1>1 DEF Task
<1>3. SweepTask(s)[1] = "sweep"
  BY DEF SweepTask
<1>4. pc \notin WorkPC
  BY DEF WorkPC
<1>5. pc \notin {"track", "send", "retrack"} /\ pc # "ack"
  OBVIOUS
<1>. QED BY <1>2, <1>3, <1>4, <1>5 DEF TaskOK

LEMMA IdleTask ==
  ASSUME NEW a \in Actor
  PROVE  Idle \in Task /\ TaskOK(a, Idle)
BY FreshTasks DEF TaskOK, Idle, WorkPC, SweepPC

\* A sweeper that moves to another step between two messages.
LEMMA SweeperMove ==
  ASSUME TypeInv, NEW s \in Sweeper,
         NEW pc \in {"idle", "check", "drain", "sweep", "pause", "defer_pause",
                     "defer_resume", "resume", "restart", "spawn"},
         Goto(SweepTask(s), [Idle EXCEPT !.pc = pc])
  PROVE  task' \in [Actor -> Task] /\ TasksOK'
<1> DEFINE t == [Idle EXCEPT !.pc = pc]
<1>1. t \in Task /\ TaskOK(SweepTask(s), t) /\ SweepTask(s) \in Actor
  BY SweeperTask, ActorKinds
<1>2. Goto(SweepTask(s), t)
  OBVIOUS
<1>. HIDE DEF t
<1>. QED BY <1>1, <1>2, GotoOK

LEMMA DrainedEntries == ASSUME TypeInv PROVE ExpiredEntries \subseteq Drained
<1>. SUFFICES ASSUME NEW d \in ExpiredEntries PROVE d \in Drained
  OBVIOUS
<1>1. PICK m \in Msg :
        \E e \in pending[m] :
          d = [msg |-> m, entry |-> e,
               still |-> \E fresh \in pending[m] : ~Expired(fresh)]
  BY DEF ExpiredEntries
<1>2. pending[m] \subseteq Entry
  BY DEF TypeInv, TypeOK, TrackerTypeOK
<1>3. (\E fresh \in pending[m] : ~Expired(fresh)) \in BOOLEAN
  OBVIOUS
<1>. QED BY <1>1, <1>2, <1>3 DEF Drained

LEMMA PassFields ==
  ASSUME TypeInv, NEW s \in Sweeper
  PROVE  /\ pass[s] \in Pass
         /\ \A d \in pass[s].queue :
              /\ d.msg \in Msg /\ d.entry.mod \in Module /\ d.entry.stage \in Stage
              /\ d.entry.resends \in 0..MaxResends
<1>1. pass[s] \in Pass
  BY DEF TypeInv, TypeOK
<1>2. \A d \in pass[s].queue : d \in Drained
  BY <1>1 DEF Pass
<1>. QED BY <1>1, <1>2 DEF Drained, Entry

LEMMA SweepTickType ==
  ASSUME TypeInv, SweepTick
  PROVE  TypeInv'
<1>1. task' \in [Actor -> Task] /\ TasksOK'
  BY SweeperMove, ActorKinds DEF SweepTick
<1>. QED
  BY <1>1 DEF TypeInv, TypeOK, TrackerTypeOK, GateTypeOK, SweepTick, rowVars,
     stateVars, gateVars, drainVars, historyVars

LEMMA SweepDrainType ==
  ASSUME TypeInv, NEW s \in Sweeper, SweepDrain(s)
  PROVE  TypeInv'
<1>1. task' \in [Actor -> Task] /\ TasksOK'
  BY SweeperMove DEF SweepDrain
<1>2. pending' \in [Msg -> SUBSET Entry]
  BY DEF SweepDrain, check_timeouts, TypeInv, TypeOK, TrackerTypeOK
<1>3. pass' \in [Sweeper -> Pass]
  <2> DEFINE critical == {d.msg : d \in {c \in ExpiredEntries : c.entry.mod \in Critical}}
  <2>1. critical \subseteq Msg
    BY DrainedEntries DEF Drained
  <2>2. pass' = [pass EXCEPT ![s] = [@ EXCEPT !.queue = ExpiredEntries,
                                              !.critical = critical]]
    BY DEF SweepDrain, TypeInv, TypeOK, Pass
  <2>. HIDE DEF critical
  <2>3. [pass[s] EXCEPT !.queue = ExpiredEntries, !.critical = critical] \in Pass
    BY <2>1, DrainedEntries, PassFields DEF Pass
  <2>. QED BY <2>2, <2>3 DEF TypeInv, TypeOK
<1>. QED
  BY <1>1, <1>2, <1>3 DEF TypeInv, TypeOK, TrackerTypeOK, GateTypeOK, SweepDrain,
     rowVars, stateVars, gateVars, drainVars, historyVars

LEMMA ResendType ==
  ASSUME TypeInv, NEW s \in Sweeper, Resend(s)
  PROVE  TypeInv'
<1>1. PICK d \in pass[s].queue :
        /\ MayResend(d)
        /\ pass' = [pass EXCEPT ![s].queue = @ \ {d}]
        /\ Goto(SweepTask(s), [AtStage("retrack", d.msg, d.entry.stage) EXCEPT
                                 !.mod = d.entry.mod,
                                 !.resends = d.entry.resends])
  BY DEF Resend
<1>2. /\ d.msg \in Msg /\ d.entry.mod \in Module /\ d.entry.stage \in Stage
      /\ d.entry.resends \in 0..MaxResends
  BY PassFields
<1>3. task' \in [Actor -> Task] /\ TasksOK'
  <2> DEFINE b == AtStage("retrack", d.msg, d.entry.stage)
             t == [b EXCEPT !.mod = d.entry.mod, !.resends = d.entry.resends]
  <2>1. "retrack" \in PC /\ "complete" \in Outcome
    BY DEF PC, Outcome
  <2>2. b \in Task /\ b.pc = "retrack" /\ b.msg = d.msg
    BY <1>2, <2>1, FreshTasks, TaskFields
  <2>. HIDE DEF b
  <2>3. /\ t \in Task /\ t.pc = "retrack" /\ t.msg = d.msg
        /\ t.mod = d.entry.mod /\ t.resends = d.entry.resends
    BY <1>2, <2>2 DEF Task
  <2>4. SweepTask(s) \in Actor /\ SweepTask(s)[1] = "sweep"
    BY ActorKinds DEF SweepTask
  <2>5. d.entry.resends < MaxResends
    BY <1>1 DEF MayResend
  <2>6. Goto(SweepTask(s), t)
    BY <1>1 DEF b
  <2>. HIDE DEF t
  <2>7. TaskOK(SweepTask(s), t)
    BY <1>2, <2>3, <2>4, <2>5 DEF TaskOK
  <2>. QED BY <2>3, <2>4, <2>6, <2>7, GotoOK
<1>4. pass' \in [Sweeper -> Pass]
  BY <1>1, PassFields DEF TypeInv, TypeOK, Pass
<1>. QED
  BY <1>3, <1>4 DEF TypeInv, TypeOK, TrackerTypeOK, GateTypeOK, Resend, rowVars,
     stateVars, gateVars, drainVars, historyVars

LEMMA ReTrackType ==
  ASSUME TypeInv, NEW s \in Sweeper, ReTrack(s)
  PROVE  TypeInv'
<1> DEFINE t == task[SweepTask(s)]
<1>1. SweepTask(s) \in Actor
  BY ActorKinds
<1>2. /\ t \in Task /\ t.msg \in Msg /\ t.mod \in Module /\ t.stage \in Stage
      /\ t.resends + 1 \in 0..MaxResends
  BY <1>1, WorkingMsg, MaxResendsAssumption
     DEF ReTrack, Is, WorkPC, TypeInv, TasksOK, TaskOK, Task
<1>3. task' \in [Actor -> Task] /\ TasksOK'
  BY <1>1, ReturnOK DEF ReTrack
<1>4. pending' \in [Msg -> SUBSET Entry]
  BY <1>2, NewEntryType DEF ReTrack, re_track, TypeInv, TypeOK, TrackerTypeOK
<1>5. pass' \in [Sweeper -> Pass]
  <2>1. pass' = [pass EXCEPT ![s].resent = @ \cup {t.msg}]
    BY DEF ReTrack
  <2>. HIDE DEF t
  <2>. QED BY <1>2, <2>1, PassFields DEF TypeInv, TypeOK, Pass
<1>. QED
  BY <1>3, <1>4, <1>5 DEF TypeInv, TypeOK, TrackerTypeOK, GateTypeOK, ReTrack,
     rowVars, stateVars, gateVars, drainVars, historyVars

LEMMA TimeOutType ==
  ASSUME TypeInv, NEW s \in Sweeper, TimeOut(s)
  PROVE  TypeInv'
<1>1. PICK d \in pass[s].queue :
       \/ /\ pass' = [pass EXCEPT ![s].queue = @ \ {d},
                                  ![s].failed = @ \cup {d.msg}]
          /\ Goto(SweepTask(s), Ending(d.msg, "failed"))
       \/ /\ pass' = [pass EXCEPT ![s].queue = @ \ {d},
                                  ![s].advanced = @ \cup {d.msg}]
          /\ Goto(SweepTask(s), AfterTimeout(d))
       \/ /\ pass' = [pass EXCEPT ![s].queue = @ \ {d}]
          /\ UNCHANGED task
  BY DEF TimeOut
<1>2. d.msg \in Msg /\ d.entry.stage \in Stage /\ SweepTask(s) \in Actor
  BY PassFields, ActorKinds
<1>3. /\ Ending(d.msg, "failed") \in Task
      /\ TaskOK(SweepTask(s), Ending(d.msg, "failed"))
      /\ AfterTimeout(d) \in Task
      /\ TaskOK(SweepTask(s), AfterTimeout(d))
  <2>1. /\ "gate" \in Plain /\ "bump" \in Plain /\ "preserve" \in Plain
        /\ "in_process" \in Stage /\ "failed" \in Outcome /\ "complete" \in Outcome
    BY DEF Plain, Stage, Outcome
  <2>2. CASE d.entry.stage = "pre_process"
    BY <1>2, <2>1, <2>2, PlainTasks DEF AfterTimeout
  <2>3. CASE d.entry.stage = "in_process"
    BY <1>2, <2>1, <2>3, PlainTasks DEF AfterTimeout
  <2>4. CASE d.entry.stage = "post_process"
    BY <1>2, <2>1, <2>4, PlainTasks DEF AfterTimeout
  <2>. QED BY <1>2, <2>2, <2>3, <2>4 DEF Stage
<1>4. task' \in [Actor -> Task] /\ TasksOK'
  <2>1. CASE UNCHANGED task
    BY <2>1 DEF TypeInv, TypeOK, TasksOK
  <2>2. CASE Goto(SweepTask(s), Ending(d.msg, "failed"))
    BY <1>2, <1>3, <2>2, GotoOK
  <2>3. CASE Goto(SweepTask(s), AfterTimeout(d))
    BY <1>2, <1>3, <2>3, GotoOK
  <2>. QED BY <1>1, <2>1, <2>2, <2>3
<1>5. pass' \in [Sweeper -> Pass]
  <2>1. CASE pass' = [pass EXCEPT ![s].queue = @ \ {d}, ![s].failed = @ \cup {d.msg}]
    BY <1>2, <2>1, PassFields DEF TypeInv, TypeOK, Pass
  <2>2. CASE pass' = [pass EXCEPT ![s].queue = @ \ {d}, ![s].advanced = @ \cup {d.msg}]
    BY <1>2, <2>2, PassFields DEF TypeInv, TypeOK, Pass
  <2>3. CASE pass' = [pass EXCEPT ![s].queue = @ \ {d}]
    BY <2>3, PassFields DEF TypeInv, TypeOK, Pass
  <2>. QED BY <1>1, <2>1, <2>2, <2>3
<1>. QED
  BY <1>4, <1>5 DEF TypeInv, TypeOK, TrackerTypeOK, GateTypeOK, TimeOut, rowVars,
     stateVars, gateVars, drainVars, historyVars

LEMMA NoPassType ==
  /\ NoPass \in Pass /\ NothingTaken \in [Msg -> HoldPoint \cup {NoPoint}]
  /\ \A taken \in [Msg -> HoldPoint \cup {NoPoint}] :
       [NoPass EXCEPT !.taken = taken] \in Pass
BY DEF NoPass, NothingTaken, Pass

LEMMA SweepEndType ==
  ASSUME TypeInv, NEW s \in Sweeper, SweepEnd(s)
  PROVE  TypeInv'
<1>1. task' \in [Actor -> Task] /\ TasksOK'
  <2>1. CASE s = "timer"
    BY <2>1, IdleTask, ActorKinds, GotoOK DEF SweepEnd, AfterSweep
  <2>2. CASE s # "timer"
    BY <2>2, SweeperMove DEF SweepEnd, AfterSweep
  <2>. QED BY <2>1, <2>2
<1>2. pass' \in [Sweeper -> Pass]
  BY NoPassType, PassFields DEF SweepEnd, TypeInv, TypeOK, Pass
<1>. QED
  BY <1>1, <1>2 DEF TypeInv, TypeOK, TrackerTypeOK, GateTypeOK, SweepEnd, rowVars,
     stateVars, gateVars, drainVars, historyVars

--------------------------------------------------------------------------------
LEMMA RequestType ==
  ASSUME TypeInv, PauseRequest \/ ResumeRequest
  PROVE  TypeInv'
<1>1. "control" \in Sweeper
  BY DEF Sweeper, Resumer
<1>2. task' \in [Actor -> Task] /\ TasksOK'
  BY <1>1, SweeperMove DEF PauseRequest, ResumeRequest
<1>3. used' \in [requests : Nat, flags : Nat, crashes : Nat, faults : Nat]
  BY DEF PauseRequest, ResumeRequest, Spend, TypeInv, TypeOK
<1>. QED
  BY <1>2, <1>3 DEF TypeInv, TypeOK, TrackerTypeOK, GateTypeOK, PauseRequest,
     ResumeRequest, rowVars, stateVars, gateVars, drainVars, historyVars

LEMMA ControlType ==
  ASSUME TypeInv, ControlStep
  PROVE  TypeInv'
<1>1. "control" \in Sweeper /\ SweepTask("control") \in Actor
  BY ActorKinds DEF Sweeper, Resumer
<1>2. task' \in [Actor -> Task] /\ TasksOK'
  BY <1>1, IdleTask, GotoOK DEF ControlStep, Pause, DeferPause, DeferResume
<1>3. GateTypeOK'
  BY DEF ControlStep, Pause, DeferPause, DeferResume, pause, defer_pause,
     defer_resume, gateVars, TypeInv, TypeOK, GateTypeOK
<1>. QED
  BY <1>2, <1>3 DEF TypeInv, TypeOK, TrackerTypeOK, ControlStep, Pause,
     DeferPause, DeferResume, rowVars, stateVars, drainVars, historyVars

LEMMA DependencyType ==
  ASSUME TypeInv, NEW r \in BlockedReason, DependencyDown(r) \/ DependencyUp(r)
  PROVE  TypeInv'
<1>1. CASE DependencyDown(r)
  <2>1. GateTypeOK'
    BY <1>1 DEF DependencyDown, set_block, TypeInv, TypeOK, GateTypeOK
  <2>. QED
    BY <1>1, <2>1 DEF TypeInv, TypeOK, TasksOK, TrackerTypeOK, DependencyDown,
       rowVars, stateVars, taskVars, drainVars, historyVars
<1>2. CASE DependencyUp(r)
  <2>1. r \in Sweeper /\ SweepTask(r) \in Actor
    BY ActorKinds DEF Resumer
  <2>2. GateTypeOK'
    BY <1>2 DEF DependencyUp, clear_block, TypeInv, TypeOK, GateTypeOK
  <2>3. task' \in [Actor -> Task] /\ TasksOK'
    <3>1. CASE resume_when_unblocked
      BY <1>2, <2>1, <3>1, SweeperMove DEF DependencyUp
    <3>2. CASE ~resume_when_unblocked
      BY <1>2, <2>1, <3>2, IdleTask, GotoOK DEF DependencyUp
    <3>. QED BY <3>1, <3>2
  <2>. QED
    BY <1>2, <2>2, <2>3 DEF TypeInv, TypeOK, TrackerTypeOK, DependencyUp, rowVars,
       stateVars, drainVars, historyVars
<1>. QED BY <1>1, <1>2

LEMMA ResumeType ==
  ASSUME TypeInv, NEW r \in Resumer, Resume(r)
  PROVE  TypeInv'
<1>1. r \in Sweeper
  BY ActorKinds
<1>2. task' \in [Actor -> Task] /\ TasksOK'
  BY <1>1, SweeperMove DEF Resume
<1>3. GateTypeOK'
  BY DEF Resume, release_held, TypeInv, TypeOK, GateTypeOK
<1>4. pass' \in [Sweeper -> Pass]
  BY <1>1, PassFields DEF Resume, TypeInv, TypeOK, GateTypeOK, Pass
<1>. QED
  BY <1>2, <1>3, <1>4 DEF TypeInv, TypeOK, TrackerTypeOK, Resume, rowVars,
     stateVars, drainVars, historyVars

LEMMA RestartClocksType ==
  ASSUME TypeInv, NEW r \in Resumer, RestartClocks(r)
  PROVE  TypeInv'
<1>1. task' \in [Actor -> Task] /\ TasksOK'
  BY ActorKinds, SweeperMove DEF RestartClocks
<1>2. pending' \in [Msg -> SUBSET Entry]
  BY DEF RestartClocks, restart_clocks, TypeInv, TypeOK, TrackerTypeOK, Entry
<1>. QED
  BY <1>1, <1>2 DEF TypeInv, TypeOK, TrackerTypeOK, GateTypeOK, RestartClocks,
     rowVars, stateVars, gateVars, drainVars, historyVars

LEMMA ResumeSweepType ==
  ASSUME TypeInv, NEW r \in Resumer, ResumeSweep(r)
  PROVE  TypeInv'
<1>1. task' \in [Actor -> Task] /\ TasksOK'
  BY ActorKinds, SweeperMove DEF ResumeSweep
<1>. QED
  BY <1>1 DEF TypeInv, TypeOK, TrackerTypeOK, GateTypeOK, ResumeSweep, rowVars,
     stateVars, gateVars, drainVars, historyVars

LEMMA SpawnType ==
  ASSUME TypeInv, NEW r \in Resumer, Spawn(r)
  PROVE  TypeInv'
<1> DEFINE taken == pass[r].taken
<1>1. r \in Sweeper /\ taken \in [Msg -> HoldPoint \cup {NoPoint}]
  BY ActorKinds, PassFields DEF Pass
<1>2. ASSUME NEW a \in Actor
      PROVE  task'[a] \in Task /\ TaskOK(a, task'[a])
  <2>1. CASE a = SweepTask(r)
    BY <2>1, IdleTask DEF Spawn
  <2>2. CASE a # SweepTask(r) /\ a[1] = "replay" /\ a[2] \in Released(taken)
    <3>1. task'[a] = AtStage("gate", a[2], StageOf(taken[a[2]]))
      BY <2>2 DEF Spawn
    <3>2. a[2] \in Msg /\ taken[a[2]] \in HoldPoint
      BY <1>1, <2>2 DEF Released
    <3>3. StageOf(taken[a[2]]) \in Stage
      BY <3>2 DEF StageOf, HoldPoint, Stage
    <3>4. "gate" \in Plain
      BY DEF Plain
    <3>. QED BY <3>1, <3>2, <3>3, <3>4, PlainTasks
  <2>3. CASE a # SweepTask(r) /\ ~(a[1] = "replay" /\ a[2] \in Released(taken))
    BY <2>3 DEF Spawn, TypeInv, TypeOK, TasksOK
  <2>. QED BY <2>1, <2>2, <2>3
<1>3. task' \in [Actor -> Task] /\ TasksOK'
  <2>1. task' = [a \in Actor |-> task'[a]]
    BY DEF Spawn
  <2>. QED BY <1>2, <2>1 DEF TasksOK
<1>4. pass' \in [Sweeper -> Pass]
  BY <1>1, NoPassType DEF Spawn, TypeInv, TypeOK
<1>. QED
  BY <1>3, <1>4 DEF TypeInv, TypeOK, TrackerTypeOK, GateTypeOK, Spawn, rowVars,
     stateVars, gateVars, drainVars, historyVars

\* The only tasks that work on a message and belong to a sweep are the sweeper's.
LEMMA SweepActor ==
  ASSUME NEW a \in Actor, a[1] = "sweep"
  PROVE  a[2] \in Sweeper /\ a = SweepTask(a[2])
BY DEF Actor, Drain, SweepTask

LEMMA DbFailsType ==
  ASSUME TypeInv, NEW a \in Actor, DbFails(a)
  PROVE  TypeInv'
<1>1. task[a].msg \in Msg
  BY WorkingMsg DEF DbFails, Is, WorkPC
<1>2. used' \in [requests : Nat, flags : Nat, crashes : Nat, faults : Nat]
  BY DEF DbFails, Spend, TypeInv, TypeOK
<1>3. CASE a[1] = "sweep"
  <2> DEFINE s == a[2]
  <2>1. s \in Sweeper /\ a = SweepTask(s)
    BY <1>3, SweepActor
  <2>2. /\ Goto(a, AfterSweep(s))
        /\ pass' = [pass EXCEPT ![s] = [NoPass EXCEPT !.taken = pass[s].taken]]
        /\ faulted' = faulted \cup {task[a].msg} \cup {d.msg : d \in pass[s].queue}
    BY <1>3 DEF DbFails
  <2>. HIDE DEF s
  <2>3. task' \in [Actor -> Task] /\ TasksOK'
    <3>1. CASE s = "timer"
      BY <2>2, <3>1, IdleTask, GotoOK DEF AfterSweep
    <3>2. CASE s # "timer"
      BY <2>1, <2>2, <3>2, SweeperMove DEF AfterSweep
    <3>. QED BY <3>1, <3>2
  <2>4. pass' \in [Sweeper -> Pass]
    BY <2>1, <2>2, NoPassType, PassFields DEF TypeInv, TypeOK, Pass
  <2>5. faulted' \subseteq Msg
    BY <1>1, <2>1, <2>2, PassFields DEF TypeInv, TypeOK
  <2>. QED
    BY <1>2, <2>3, <2>4, <2>5 DEF TypeInv, TypeOK, TrackerTypeOK, GateTypeOK,
       DbFails, rowVars, stateVars, gateVars, drainVars
<1>4. CASE a[1] # "sweep"
  <2>1. /\ Goto(a, Idle) /\ UNCHANGED pass
        /\ faulted' = faulted \cup {task[a].msg}
    BY <1>4 DEF DbFails
  <2>2. task' \in [Actor -> Task] /\ TasksOK'
    BY <2>1, IdleTask, GotoOK
  <2>. QED
    BY <1>1, <1>2, <2>1, <2>2 DEF TypeInv, TypeOK, TrackerTypeOK, GateTypeOK,
       DbFails, rowVars, stateVars, gateVars, drainVars
<1>. QED BY <1>3, <1>4

LEMMA FreshState ==
  /\ [a \in Actor |-> Idle] \in [Actor -> Task]
  /\ \A a \in Actor : TaskOK(a, Idle)
  /\ [s \in Sweeper |-> NoPass] \in [Sweeper -> Pass]
BY IdleTask, NoPassType, FreshTasks

LEMMA CrashType ==
  ASSUME TypeInv, Crash
  PROVE  TypeInv'
<1>1. used' \in [requests : Nat, flags : Nat, crashes : Nat, faults : Nat]
  BY DEF Crash, Spend, TypeInv, TypeOK
<1>2. task' \in [Actor -> Task] /\ TasksOK' /\ pass' \in [Sweeper -> Pass]
  BY FreshState DEF Crash, TasksOK
<1>3. GateTypeOK'
  BY PipelineAssumption DEF Crash, GateTypeOK
<1>. QED
  BY <1>1, <1>2, <1>3 DEF TypeInv, TypeOK, TrackerTypeOK, Crash, rowVars

--------------------------------------------------------------------------------
LEMMA TypeInit == Init => TypeInv
<1>. SUFFICES ASSUME Init PROVE TypeInv
  OBVIOUS
<1>1. TasksOK /\ task \in [Actor -> Task] /\ pass \in [Sweeper -> Pass]
  BY FreshState DEF Init, TasksOK
<1>2. GateTypeOK
  BY PipelineAssumption DEF Init, GateTypeOK
<1>. QED
  BY <1>1, <1>2 DEF Init, TypeInv, TypeOK, TrackerTypeOK, Status

LEMMA TypeStage ==
  ASSUME TypeInv, NEW a \in Actor, StageStep(a)
  PROVE  TypeInv'
BY ClaimType, GateType, AuditType, LoadFanoutType, LoadChainType, FanSendType,
   FanSkipType, FanDoneType, SendInProcessType, TrackType, BumpType,
   PreserveType, StoreHeldType, TakeType, WriteType, ClearType DEF StageStep

LEMMA TypeStutter ==
  ASSUME TypeInv, UNCHANGED vars
  PROVE  TypeInv'
BY DEF TypeInv, TypeOK, TasksOK, TrackerTypeOK, GateTypeOK, vars, rowVars,
   stateVars, gateVars, taskVars, drainVars, historyVars

LEMMA TypeNext == TypeInv /\ [Next]_vars => TypeInv'
<1>. SUFFICES ASSUME TypeInv, [Next]_vars PROVE TypeInv'
  OBVIOUS
<1>1. ASSUME NEW m \in Msg, Ingest(m) \/ Recover(m) \/ RecoverFails(m) \/ Elapse(m)
      PROVE  TypeInv'
  BY <1>1, IngestType, RecoverType, RecoverFailsType, ElapseType
<1>2. ASSUME NEW a \in Actor, StageStep(a) \/ DbFails(a)
      PROVE  TypeInv'
  BY <1>2, TypeStage, DbFailsType
<1>3. ASSUME NEW x \in Module, Ack(x)
      PROVE  TypeInv'
  BY <1>3, AckType
<1>4. ASSUME NEW x \in Module, NEW m \in Msg,
             Echo(x, m) \/ Abandon(x, m) \/ Receipt(x, m) \/ AuditFlag(x, m)
      PROVE  TypeInv'
  BY <1>4, EchoType, AbandonType, ReceiptType, AuditFlagType
<1>5. ASSUME NEW m \in Msg, NEW approve \in BOOLEAN, release_audit(m, approve)
      PROVE  TypeInv'
  BY <1>5, ReleaseAuditType
<1>6. CASE DrainStart \/ SweepTick
  BY <1>6, DrainStartType, SweepTickType
<1>7. ASSUME NEW s \in Sweeper, SweepStep(s)
      PROVE  TypeInv'
  BY <1>7, SweepDrainType, ResendType, ReTrackType, TimeOutType, SweepEndType
     DEF SweepStep
<1>8. ASSUME NEW r \in Resumer, ResumeStep(r)
      PROVE  TypeInv'
  BY <1>8, ResumeType, RestartClocksType, ResumeSweepType, SpawnType DEF ResumeStep
<1>9. ASSUME NEW r \in BlockedReason, DependencyDown(r) \/ DependencyUp(r)
      PROVE  TypeInv'
  BY <1>9, DependencyType
<1>10. CASE PauseRequest \/ ResumeRequest \/ ControlStep
  BY <1>10, RequestType, ControlType
<1>11. CASE Crash
  BY <1>11, CrashType
<1>12. CASE UNCHANGED vars
  BY <1>12, TypeStutter
<1>. QED
  BY <1>1, <1>2, <1>3, <1>4, <1>5, <1>6, <1>7, <1>8, <1>9, <1>10, <1>11, <1>12
     DEF Next

\* Every variable of the pipeline keeps its type, and with it every bound of
\* an entry: no module is sent a stage message more often than the first send
\* and MAX_ACK_RESENDS resends, whatever sweeps, timers and resumes interleave.
THEOREM TypeCorrect == Spec => []TypeOK
<1>1. TypeInv => TypeOK
  BY DEF TypeInv
<1>. QED
  BY <1>1, TypeInit, TypeNext, PTL DEF Spec

--------------------------------------------------------------------------------
(***************************************************************************)
(* A queued row has a state, a task or the recovery pass to look after it. *)
(***************************************************************************)
\* A task that is about to claim or to finish the row of m.
HasRowTask(m) == \E a \in Actor : task[a].msg = m /\ task[a].pc \in {"claim", "write"}

OrphanInv == TypeInv /\ NoOrphanRow

\* One task moves.  If it was the one that had to claim or to finish its row,
\* the row has become live, is not queued any more, or was lost to a fault.
LEMMA RowTaskMoves ==
  ASSUME OrphanInv, NEW a \in Actor, NEW t, Goto(a, t),
         stranded \subseteq stranded', drained' => drained, faulted \subseteq faulted',
         \A m \in Msg \ live' : row'[m] = "queued" =>
           \/ t.msg = m /\ t.pc \in {"claim", "write"}
           \/ m \in faulted'
           \/ /\ m \notin live /\ row[m] = "queued"
              /\ ~(task[a].msg = m /\ task[a].pc \in {"claim", "write"})
  PROVE  NoOrphanRow'
<1>. SUFFICES ASSUME NEW m \in Msg, m \notin live', row'[m] = "queued"
              PROVE  \/ \E b \in Actor : task'[b].msg = m /\ task'[b].pc \in {"claim", "write"}
                     \/ m \in stranded' \/ ~drained'
                     \/ m \in faulted'
  BY DEF NoOrphanRow
<1>1. task' = [task EXCEPT ![a] = t] /\ task \in [Actor -> Task]
  BY DEF Goto, OrphanInv, TypeInv, TypeOK
<1>2. CASE t.msg = m /\ t.pc \in {"claim", "write"}
  BY <1>1, <1>2
<1>3. CASE /\ m \notin live /\ row[m] = "queued"
           /\ ~(task[a].msg = m /\ task[a].pc \in {"claim", "write"})
  <2>1. \/ \E b \in Actor : task[b].msg = m /\ task[b].pc \in {"claim", "write"}
        \/ m \in stranded \/ ~drained \/ m \in faulted
    BY <1>3 DEF OrphanInv, NoOrphanRow
  <2>2. ASSUME NEW b \in Actor, task[b].msg = m, task[b].pc \in {"claim", "write"}
        PROVE  \E c \in Actor : task'[c].msg = m /\ task'[c].pc \in {"claim", "write"}
    <3>1. task'[b] = task[b]
      BY <1>1, <1>3, <2>2
    <3>. QED BY <2>2, <3>1
  <2>. QED BY <2>1, <2>2
<1>. QED BY <1>2, <1>3

\* Most steps change neither the rows nor what is live, and their task was
\* not about to claim or to finish a row.
LEMMA RowTaskElsewhere ==
  ASSUME OrphanInv, NEW a \in Actor, NEW t, Goto(a, t), UNCHANGED <<drainVars, faulted>>,
         task[a].pc \notin {"claim", "write"}, live \subseteq live',
         \A m \in Msg : row'[m] = "queued" => row[m] = "queued"
  PROVE  NoOrphanRow'
<1>1. \A m \in Msg \ live' : row'[m] = "queued" =>
        \/ t.msg = m /\ t.pc \in {"claim", "write"}
        \/ m \in faulted'
        \/ /\ m \notin live /\ row[m] = "queued"
           /\ ~(task[a].msg = m /\ task[a].pc \in {"claim", "write"})
  OBVIOUS
<1>. QED BY <1>1, RowTaskMoves DEF drainVars

LEMMA OrphanStage ==
  ASSUME OrphanInv, NEW a \in Actor, StageStep(a)
  PROVE  NoOrphanRow'
<1>1. CASE Claim(a)
  <2> DEFINE t == AtStage("gate", task[a].msg, "pre_process")
  <2>1. Goto(a, t)
    BY <1>1 DEF Claim
  <2>. HIDE DEF t
  <2>2. \A m \in Msg \ live' : row'[m] = "queued" =>
          /\ m \notin live /\ row[m] = "queued"
          /\ ~(task[a].msg = m /\ task[a].pc \in {"claim", "write"})
    BY <1>1 DEF Claim, rowVars
  <2>. QED BY <1>1, <2>1, <2>2, RowTaskMoves DEF Claim, drainVars, historyVars
<1>2. CASE Take(a)
  <2> DEFINE m == task[a].msg
             t == [task[a] EXCEPT !.pc = "write", !.result = HasResult(m)]
  <2>1. task[a] \in Task /\ task[a].pc = "take"
    BY <1>2 DEF Take, Is, OrphanInv, TypeInv, TypeOK
  <2>2. CASE Return(a) /\ m \notin live
    <3>1. live' = live
      BY <1>2, <2>2 DEF Take
    <3>. QED
      BY <1>2, <2>1, <2>2, <3>1, RowTaskElsewhere DEF Return, Take, rowVars, historyVars
  <2>3. CASE Goto(a, t)
    <3>1. t.pc = "write" /\ t.msg = m
      BY <2>1 DEF Task
    <3>. HIDE DEF t
    <3>2. \A n \in Msg \ live' : row'[n] = "queued" =>
            \/ t.msg = n /\ t.pc \in {"claim", "write"}
            \/ /\ n \notin live /\ row[n] = "queued"
               /\ ~(task[a].msg = n /\ task[a].pc \in {"claim", "write"})
      BY <1>2, <2>1, <3>1 DEF Take, rowVars
    <3>. QED BY <1>2, <2>3, <3>2, RowTaskMoves DEF Take, drainVars, historyVars
  <2>. QED BY <1>2, <2>2, <2>3 DEF Take
<1>3. CASE Write(a)
  <2> DEFINE m == task[a].msg
             t == [task[a] EXCEPT !.pc = "clear"]
  <2>1. task[a] \in Task /\ m \in Msg /\ task[a].outcome \in Outcome
    BY <1>3, WorkingMsg DEF Write, Is, WorkPC, OrphanInv, Task
  <2>2. row'[m] # "queued" /\ \A n \in Msg \ {m} : row'[n] = row[n]
    <3>1. row \in [Msg -> Status]
      BY DEF OrphanInv, TypeInv, TypeOK
    <3>2. CASE RefusedByHold(m, task[a].outcome)
      BY <1>3, <3>2 DEF Write, RefusedByHold, rowVars
    <3>3. CASE ~RefusedByHold(m, task[a].outcome)
      BY <1>3, <2>1, <3>1, <3>3 DEF Write, Outcome
    <3>. QED BY <3>2, <3>3
  <2>3. Goto(a, t)
    BY <1>3 DEF Write
  <2>. HIDE DEF t
  <2>4. \A n \in Msg \ live' : row'[n] = "queued" =>
          /\ n \notin live /\ row[n] = "queued"
          /\ ~(task[a].msg = n /\ task[a].pc \in {"claim", "write"})
    BY <1>3, <2>2 DEF Write, stateVars
  <2>. QED BY <1>3, <2>3, <2>4, RowTaskMoves DEF Write, drainVars, historyVars
<1>4. CASE Gate(a)
  BY <1>4, RowTaskElsewhere DEF Gate, Is, Return, rowVars, stateVars, historyVars
<1>5. CASE Audit(a)
  BY <1>5, RowTaskElsewhere DEF Audit, Is, Return, rowVars, stateVars, historyVars
<1>6. CASE LoadFanout(a)
  BY <1>6, RowTaskElsewhere DEF LoadFanout, Is, Return, rowVars, stateVars, historyVars
<1>7. CASE LoadChain(a)
  BY <1>7, RowTaskElsewhere DEF LoadChain, Is, Return, rowVars, stateVars, historyVars
<1>8. CASE FanSend(a)
  BY <1>8, RowTaskElsewhere DEF FanSend, Is, Dispatch, rowVars, stateVars
<1>9. CASE FanSkip(a)
  BY <1>9, RowTaskElsewhere DEF FanSkip, Is, rowVars, stateVars, historyVars
<1>10. CASE FanDone(a)
  BY <1>10, RowTaskElsewhere DEF FanDone, Is, Return, rowVars, stateVars, historyVars
<1>11. CASE SendInProcess(a)
  BY <1>11, RowTaskElsewhere DEF SendInProcess, Is, Dispatch, rowVars, stateVars, historyVars
<1>12. CASE Track(a)
  BY <1>12, RowTaskElsewhere DEF Track, Is, Return, rowVars, stateVars, historyVars
<1>13. CASE Bump(a)
  BY <1>13, RowTaskElsewhere DEF Bump, Is, Return, rowVars, historyVars
<1>14. CASE Preserve(a)
  BY <1>14, RowTaskElsewhere DEF Preserve, Is, rowVars, stateVars, historyVars
<1>15. CASE StoreHeld(a)
  BY <1>15, RowTaskElsewhere DEF StoreHeld, Is, Return, stateVars, historyVars
<1>16. CASE Clear(a)
  BY <1>16, RowTaskElsewhere DEF Clear, Is, Return, rowVars, stateVars, historyVars
<1>. QED
  BY <1>1, <1>2, <1>3, <1>4, <1>5, <1>6, <1>7, <1>8, <1>9, <1>10, <1>11, <1>12,
     <1>13, <1>14, <1>15, <1>16 DEF StageStep

\* No task moves, and nothing that is not live becomes queued.
LEMMA OrphanStays ==
  ASSUME OrphanInv, UNCHANGED <<task, drainVars>>, faulted \subseteq faulted',
         live \subseteq live', \A m \in Msg : row'[m] = "queued" => row[m] = "queued"
  PROVE  NoOrphanRow'
BY DEF OrphanInv, NoOrphanRow, drainVars

LEMMA OrphanFrames ==
  ASSUME OrphanInv, NEW x \in Module, NEW m \in Msg,
         Ack(x) \/ Echo(x, m) \/ Abandon(x, m) \/ Receipt(x, m) \/ AuditFlag(x, m)
  PROVE  NoOrphanRow'
<1>1. <<"conn", x>> \in Actor /\ Idle.pc \notin {"claim", "write"}
  BY ActorKinds DEF Idle
<1>2. CASE Ack(x)
  <2> DEFINE a == <<"conn", x>>
  <2>1. PICK t : Goto(a, t)
    BY <1>2, AckMoves DEF OrphanInv, Return
  <2>. QED
    BY <1>1, <1>2, <2>1, RowTaskElsewhere DEF Ack, Is, rowVars, stateVars, historyVars
<1>3. CASE Echo(x, m)
  BY <1>1, <1>3, RowTaskElsewhere DEF Echo, Ready, rowVars, stateVars, historyVars
<1>4. CASE Abandon(x, m)
  BY <1>1, <1>4, RowTaskElsewhere DEF Abandon, Ready, rowVars, stateVars, historyVars
<1>5. CASE Receipt(x, m)
  BY <1>5, OrphanStays DEF Receipt, rowVars, stateVars, taskVars, historyVars
<1>6. CASE AuditFlag(x, m)
  <2>1. \A n \in Msg : row'[n] = "queued" => row[n] = "queued"
    BY <1>6 DEF AuditFlag, OrphanInv, TypeInv, TypeOK
  <2>. QED BY <1>6, <2>1, OrphanStays DEF AuditFlag, stateVars, taskVars, historyVars
<1>. QED BY <1>2, <1>3, <1>4, <1>5, <1>6

LEMMA OrphanRows ==
  ASSUME OrphanInv, NEW m \in Msg,
         \/ Ingest(m) \/ Recover(m) \/ RecoverFails(m) \/ Elapse(m)
         \/ \E approve \in BOOLEAN : release_audit(m, approve)
         \/ DrainStart
  PROVE  NoOrphanRow'
<1>0. /\ <<"ingest", m>> \in Actor /\ Drain \in Actor /\ Idle.pc \notin {"claim", "write"}
      /\ At("claim", m).msg = m /\ At("claim", m).pc = "claim"
      /\ row \in [Msg -> Status] /\ task \in [Actor -> Task]
  BY ActorKinds DEF At, Idle, OrphanInv, TypeInv, TypeOK
<1>1. CASE Ingest(m)
  <2>1. \A n \in Msg \ live' : row'[n] = "queued" =>
          \/ At("claim", m).msg = n /\ At("claim", m).pc \in {"claim", "write"}
          \/ /\ n \notin live /\ row[n] = "queued"
             /\ ~(task[<<"ingest", m>>].msg = n
                    /\ task[<<"ingest", m>>].pc \in {"claim", "write"})
    BY <1>0, <1>1 DEF Ingest, stateVars
  <2>. QED BY <1>0, <1>1, <2>1, RowTaskMoves DEF Ingest, drainVars, historyVars
<1>2. CASE Recover(m)
  <2>1. SUFFICES ASSUME NEW n \in Msg, n \notin live', row'[n] = "queued"
                 PROVE  \/ \E b \in Actor : task'[b].msg = n /\ task'[b].pc \in {"claim", "write"}
                        \/ n \in stranded' \/ ~drained'
                        \/ n \in faulted'
    BY DEF NoOrphanRow
  <2>2. /\ n \notin live /\ row[n] = "queued" /\ stranded' = stranded \ {m}
        /\ drained' = drained /\ faulted' = faulted
    BY <1>2, <2>1 DEF Recover, rowVars, stateVars, historyVars
  <2>3. CASE n = m
    <3>1. Goto(Drain, At("claim", m))
      BY <1>2, <2>2, <2>3 DEF Recover, IsStranded
    <3>2. task'[Drain] = At("claim", m)
      BY <1>0, <3>1 DEF Goto
    <3>. QED BY <1>0, <2>3, <3>2
  <2>4. CASE n # m
    <3>1. \/ \E b \in Actor : task[b].msg = n /\ task[b].pc \in {"claim", "write"}
          \/ n \in stranded \/ ~drained \/ n \in faulted
      BY <2>2 DEF OrphanInv, NoOrphanRow
    <3>2. \A b \in Actor : task[b].pc \in {"claim", "write"} => task'[b] = task[b]
      BY <1>0, <1>2 DEF Recover, Goto
    <3>. QED BY <2>2, <2>4, <3>1, <3>2
  <2>. QED BY <2>3, <2>4
<1>3. CASE RecoverFails(m)
  BY <1>3 DEF RecoverFails, OrphanInv, NoOrphanRow, rowVars, stateVars, taskVars
<1>4. CASE Elapse(m)
  BY <1>4, OrphanStays DEF Elapse, rowVars, stateVars, taskVars, historyVars
<1>5. ASSUME NEW approve \in BOOLEAN, release_audit(m, approve)
      PROVE  NoOrphanRow'
  <2>1. \A n \in Msg : row'[n] = "queued" => row[n] = "queued"
    BY <1>0, <1>5 DEF release_audit
  <2>. QED BY <1>5, <2>1, OrphanStays DEF release_audit, stateVars, taskVars
<1>6. CASE DrainStart
  BY <1>6 DEF DrainStart, NoOrphanRow, rowVars, stateVars
<1>. QED BY <1>1, <1>2, <1>3, <1>4, <1>5, <1>6

LEMMA OrphanSweep ==
  ASSUME OrphanInv, NEW s \in Sweeper, SweepStep(s)
  PROVE  NoOrphanRow'
<1>1. SweepTask(s) \in Actor
  BY ActorKinds
<1>2. CASE SweepDrain(s)
  BY <1>1, <1>2, RowTaskElsewhere DEF SweepDrain, Is, rowVars, stateVars, historyVars
<1>3. CASE Resend(s)
  BY <1>1, <1>3, RowTaskElsewhere DEF Resend, Is, rowVars, stateVars, historyVars
<1>4. CASE ReTrack(s)
  BY <1>1, <1>4, RowTaskElsewhere DEF ReTrack, Is, Return, rowVars, stateVars, historyVars
<1>5. CASE TimeOut(s)
  <2>1. CASE UNCHANGED task
    BY <1>5, <2>1, OrphanStays DEF TimeOut, rowVars, stateVars, historyVars
  <2>2. CASE \E t : Goto(SweepTask(s), t)
    BY <1>1, <1>5, <2>2, RowTaskElsewhere DEF TimeOut, Is, rowVars, stateVars, historyVars
  <2>. QED BY <1>5, <2>1, <2>2 DEF TimeOut
<1>6. CASE SweepEnd(s)
  BY <1>1, <1>6, RowTaskElsewhere DEF SweepEnd, Is, rowVars, stateVars, historyVars
<1>. QED BY <1>2, <1>3, <1>4, <1>5, <1>6 DEF SweepStep

LEMMA OrphanControl ==
  ASSUME OrphanInv, PauseRequest \/ ResumeRequest \/ ControlStep \/ SweepTick
  PROVE  NoOrphanRow'
<1>1. /\ SweepTask("control") \in Actor /\ SweepTask("timer") \in Actor
      /\ Idle.pc \notin {"claim", "write"}
  BY ActorKinds DEF Sweeper, Resumer, Idle
<1>2. CASE PauseRequest
  BY <1>1, <1>2, RowTaskElsewhere DEF PauseRequest, Free, rowVars, stateVars, historyVars
<1>3. CASE ResumeRequest
  BY <1>1, <1>3, RowTaskElsewhere DEF ResumeRequest, Free, rowVars, stateVars, historyVars
<1>4. CASE ControlStep
  BY <1>1, <1>4, RowTaskElsewhere DEF ControlStep, Pause, DeferPause, DeferResume, Is,
     rowVars, stateVars, historyVars
<1>5. CASE SweepTick
  BY <1>1, <1>5, RowTaskElsewhere DEF SweepTick, rowVars, stateVars, historyVars
<1>. QED BY <1>2, <1>3, <1>4, <1>5

LEMMA OrphanGate ==
  ASSUME OrphanInv, NEW r \in Resumer,
         \/ ResumeStep(r)
         \/ r \in BlockedReason /\ (DependencyDown(r) \/ DependencyUp(r))
  PROVE  NoOrphanRow'
<1>1. SweepTask(r) \in Actor /\ Idle.pc \notin {"claim", "write"}
  BY ActorKinds DEF Idle
<1>2. CASE Resume(r)
  BY <1>1, <1>2, RowTaskElsewhere DEF Resume, Is, rowVars, stateVars, historyVars
<1>3. CASE RestartClocks(r)
  BY <1>1, <1>3, RowTaskElsewhere DEF RestartClocks, Is, rowVars, stateVars, historyVars
<1>4. CASE ResumeSweep(r)
  BY <1>1, <1>4, RowTaskElsewhere DEF ResumeSweep, Is, rowVars, stateVars, historyVars
<1>5. CASE DependencyDown(r)
  BY <1>5, OrphanStays DEF DependencyDown, rowVars, stateVars, taskVars, historyVars
<1>6. CASE DependencyUp(r)
  BY <1>1, <1>6, RowTaskElsewhere DEF DependencyUp, Free, rowVars, stateVars, historyVars
<1>7. CASE Spawn(r)
  <2>1. \A b \in Actor : task[b].pc \in {"claim", "write"} => task'[b] = task[b]
    <3>. SUFFICES ASSUME NEW b \in Actor, task[b].pc \in {"claim", "write"}
                  PROVE  task'[b] = task[b]
      OBVIOUS
    <3>1. b # SweepTask(r)
      BY <1>7 DEF Spawn, Is
    <3>2. CASE b[1] = "replay" /\ b[2] \in Released(pass[r].taken)
      <4>1. b = <<"replay", b[2]>>
        BY <3>2 DEF Actor, Drain
      <4>. QED BY <1>1, <1>7, <3>2, <4>1 DEF Spawn
    <3>3. CASE ~(b[1] = "replay" /\ b[2] \in Released(pass[r].taken))
      BY <1>7, <3>1, <3>3 DEF Spawn
    <3>. QED BY <3>2, <3>3
  <2>. QED
    BY <1>7, <2>1 DEF Spawn, OrphanInv, NoOrphanRow, rowVars, stateVars, drainVars,
       historyVars
<1>. QED BY <1>2, <1>3, <1>4, <1>5, <1>6, <1>7 DEF ResumeStep

LEMMA OrphanFaults ==
  ASSUME OrphanInv, NEW a \in Actor, DbFails(a) \/ Crash
  PROVE  NoOrphanRow'
<1>1. CASE DbFails(a)
  <2>1. PICK t : Goto(a, t)
    BY <1>1 DEF DbFails
  <2>2. task[a].msg \in faulted' /\ faulted \subseteq faulted'
    BY <1>1 DEF DbFails
  <2>3. UNCHANGED <<row, live, drainVars>>
    BY <1>1 DEF DbFails, rowVars, stateVars
  <2>. QED BY <2>1, <2>2, <2>3, RowTaskMoves DEF drainVars
<1>2. CASE Crash
  BY <1>2 DEF Crash, NoOrphanRow
<1>. QED BY <1>1, <1>2

LEMMA OrphanNext == OrphanInv /\ [Next]_vars => OrphanInv'
<1>. SUFFICES ASSUME OrphanInv, [Next]_vars PROVE NoOrphanRow'
  BY TypeNext DEF OrphanInv
<1>1. ASSUME NEW m \in Msg,
             \/ Ingest(m) \/ Recover(m) \/ RecoverFails(m) \/ Elapse(m)
             \/ \E approve \in BOOLEAN : release_audit(m, approve)
      PROVE  NoOrphanRow'
  BY <1>1, OrphanRows
<1>2. ASSUME NEW a \in Actor, StageStep(a) \/ DbFails(a)
      PROVE  NoOrphanRow'
  BY <1>2, OrphanStage, OrphanFaults
<1>3. ASSUME NEW x \in Module, Ack(x)
      PROVE  NoOrphanRow'
  <2>1. task[<<"conn", x>>].msg \in Msg
    BY <1>3, ActorKinds, WorkingMsg DEF Ack, Is, WorkPC, OrphanInv
  <2>. QED BY <1>3, <2>1, OrphanFrames
<1>4. ASSUME NEW x \in Module, NEW m \in Msg,
             Echo(x, m) \/ Abandon(x, m) \/ Receipt(x, m) \/ AuditFlag(x, m)
      PROVE  NoOrphanRow'
  BY <1>4, OrphanFrames
<1>5. CASE DrainStart
  BY <1>5 DEF DrainStart, NoOrphanRow, rowVars, stateVars
<1>6. CASE PauseRequest \/ ResumeRequest \/ ControlStep \/ SweepTick
  BY <1>6, OrphanControl
<1>7. ASSUME NEW s \in Sweeper, SweepStep(s)
      PROVE  NoOrphanRow'
  BY <1>7, OrphanSweep
<1>8. ASSUME NEW r \in Resumer, ResumeStep(r)
      PROVE  NoOrphanRow'
  BY <1>8, OrphanGate
<1>9. ASSUME NEW r \in BlockedReason, DependencyDown(r) \/ DependencyUp(r)
      PROVE  NoOrphanRow'
  <2>1. r \in Resumer
    BY DEF Resumer
  <2>. QED BY <1>9, <2>1, OrphanGate
<1>10. CASE Crash
  BY <1>10, ActorKinds, OrphanFaults
<1>11. CASE UNCHANGED vars
  BY <1>11, OrphanStays DEF vars, rowVars, stateVars, taskVars, historyVars
<1>. QED
  BY <1>1, <1>2, <1>3, <1>4, <1>5, <1>6, <1>7, <1>8, <1>9, <1>10, <1>11 DEF Next

\* However crashes, faults, ingest, endings and the recovery pass interleave,
\* a queued row without a state has a task that claims or finishes it, or the
\* recovery pass of this boot has still to reach it.
THEOREM NoRowOrphaned == Spec => []NoOrphanRow
<1>1. Init => OrphanInv
  BY TypeInit DEF Init, OrphanInv, NoOrphanRow
<1>2. OrphanInv => NoOrphanRow
  BY DEF OrphanInv
<1>. QED BY <1>1, <1>2, OrphanNext, PTL DEF Spec

--------------------------------------------------------------------------------
(***************************************************************************)
(* What is held behind the gate.                                           *)
(***************************************************************************)
\* The steps that open, close or fill the gate.
GateStep ==
  \/ \E a \in Actor : Gate(a)
  \/ \E r \in Resumer : Resume(r)
  \/ \E r \in BlockedReason : DependencyDown(r) \/ DependencyUp(r)
  \/ ControlStep
  \/ Crash

LEMMA GateStays == [Next]_vars => GateStep \/ UNCHANGED gateVars
<1>. SUFFICES ASSUME [Next]_vars, ~GateStep PROVE UNCHANGED gateVars
  OBVIOUS
<1>1. ASSUME NEW m \in Msg,
             \/ Ingest(m) \/ Recover(m) \/ RecoverFails(m) \/ Elapse(m)
             \/ \E approve \in BOOLEAN : release_audit(m, approve)
      PROVE  UNCHANGED gateVars
  BY <1>1 DEF Ingest, Recover, RecoverFails, Elapse, release_audit
<1>2. ASSUME NEW a \in Actor, StageStep(a) \/ DbFails(a)
      PROVE  UNCHANGED gateVars
  <2>1. ~Gate(a)
    BY DEF GateStep
  <2>. QED
    BY <1>2, <2>1 DEF StageStep, DbFails, Claim, Audit, LoadFanout, LoadChain, FanSend,
       FanSkip, FanDone, SendInProcess, Track, Bump, Preserve, StoreHeld, Take, Write,
       Clear
<1>3. ASSUME NEW x \in Module,
             \/ Ack(x)
             \/ \E m \in Msg : Echo(x, m) \/ Abandon(x, m) \/ Receipt(x, m) \/ AuditFlag(x, m)
      PROVE  UNCHANGED gateVars
  BY <1>3 DEF Ack, Echo, Abandon, Receipt, AuditFlag
<1>4. CASE DrainStart \/ SweepTick \/ PauseRequest \/ ResumeRequest
  BY <1>4 DEF DrainStart, SweepTick, PauseRequest, ResumeRequest
<1>5. ASSUME NEW s \in Sweeper, SweepStep(s)
      PROVE  UNCHANGED gateVars
  BY <1>5 DEF SweepStep, SweepDrain, Resend, ReTrack, TimeOut, SweepEnd
<1>6. ASSUME NEW r \in Resumer, ResumeStep(r)
      PROVE  UNCHANGED gateVars
  <2>1. ~Resume(r)
    BY DEF GateStep
  <2>. QED BY <1>6, <2>1 DEF ResumeStep, RestartClocks, ResumeSweep, Spawn
<1>7. CASE UNCHANGED vars
  BY <1>7 DEF vars
<1>. QED BY <1>1, <1>2, <1>3, <1>4, <1>5, <1>6, <1>7 DEF Next, GateStep

\* Only a poller that clears its block can leave a held message behind an
\* open gate.
LEMMA GateKept ==
  ASSUME HeldImpliesGated, [Next]_vars, ~\E r \in BlockedReason : DependencyUp(r)
  PROVE  HeldImpliesGated'
<1>1. ASSUME NEW a \in Actor, Gate(a)
      PROVE  HeldImpliesGated'
  BY <1>1 DEF Gate, hold_if_gated, HeldImpliesGated, is_gated, gateVars
<1>2. ASSUME NEW r \in Resumer, Resume(r)
      PROVE  HeldImpliesGated'
  BY <1>2 DEF Resume, release_held, HeldImpliesGated
<1>3. ASSUME NEW r \in BlockedReason, DependencyDown(r)
      PROVE  HeldImpliesGated'
  BY <1>3, PauseGateAssumption DEF DependencyDown, set_block, HeldImpliesGated, is_gated
<1>4. CASE ControlStep
  BY <1>4 DEF ControlStep, Pause, DeferPause, DeferResume, pause, defer_pause,
     defer_resume, HeldImpliesGated, is_gated, gateVars
<1>5. CASE Crash
  BY <1>5 DEF Crash, HeldImpliesGated
<1>6. CASE UNCHANGED gateVars
  BY <1>6 DEF gateVars, HeldImpliesGated, is_gated
<1>. QED BY <1>1, <1>2, <1>3, <1>4, <1>5, <1>6, GateStays DEF GateStep

\* No dependency is missing at boot, and none goes missing.
NoOutage == StartBlocked = NoReason /\ Outages = {}

Unblocked == blocked = NoReason

LEMMA UnblockedNext ==
  ASSUME NoOutage, Unblocked, [Next]_vars
  PROVE  Unblocked' /\ ~\E r \in BlockedReason : DependencyUp(r)
<1>1. ~\E r \in BlockedReason : DependencyUp(r) \/ DependencyDown(r)
  BY PauseGateAssumption
     DEF NoOutage, Unblocked, DependencyUp, DependencyDown, clear_block
<1>2. ASSUME GateStep
      PROVE  Unblocked'
  BY <1>1, <1>2 DEF GateStep, Gate, hold_if_gated, Resume, release_held, ControlStep,
     Pause, DeferPause, DeferResume, pause, defer_pause, defer_resume, Crash, NoOutage,
     Unblocked, gateVars
<1>. QED BY <1>1, <1>2, GateStays DEF gateVars, Unblocked

\* What the gate stopped is never left behind it once it is open: without an
\* outage, however pauses, resumes, dispatches and crashes interleave.
THEOREM HeldIsGated == ASSUME NoOutage PROVE Spec => []HeldImpliesGated
<1>1. Init => Unblocked /\ HeldImpliesGated
  BY DEF Init, NoOutage, Unblocked, HeldImpliesGated
<1>2. Unblocked /\ HeldImpliesGated /\ [Next]_vars => Unblocked' /\ HeldImpliesGated'
  BY UnblockedNext, GateKept
<1>. QED BY <1>1, <1>2, PTL DEF Spec

\* With outages: the one step that can leave a held message behind an open
\* gate is a poller's clear_block.  Every other step keeps the gate in front
\* of what it holds.
PollersStrand ==
  [][HeldImpliesGated /\ ~HeldImpliesGated' => \E r \in BlockedReason : DependencyUp(r)]_vars

THEOREM OnlyPollersStrand == Spec => PollersStrand
<1>1. [Next]_vars =>
        [HeldImpliesGated /\ ~HeldImpliesGated' => \E r \in BlockedReason : DependencyUp(r)]_vars
  BY GateKept
<1>. QED BY <1>1, PTL DEF Spec, PollersStrand

--------------------------------------------------------------------------------
(***************************************************************************)
(* Who takes a row out of its review.                                      *)
(***************************************************************************)
\* Only a critical module fails a message, and only an abandon drops it.
Justified(t) ==
  /\ t.outcome = "failed" => Critical # {}
  /\ t.outcome = "dropped" => Abandoning # {}

OutcomesJustified == \A a \in Actor : Justified(task[a])

\* The tasks a step starts end in a completion, if in anything.
LEMMA Completes ==
  /\ Idle.outcome = "complete"
  /\ \A a : Rest(a).outcome = "complete"
  /\ \A pc, m, stage : /\ At(pc, m).outcome = "complete"
                       /\ AtStage(pc, m, stage).outcome = "complete"
  /\ \A pc : [Idle EXCEPT !.pc = pc].outcome = "complete"
  /\ \A m, outcome : Ending(m, outcome).outcome = outcome
BY DEF Idle, Rest, At, AtStage, Ending

LEMMA OutcomeMoves ==
  ASSUME TypeInv, OutcomesJustified, NEW a \in Actor, NEW t, Goto(a, t),
         Justified(t) \/ t.outcome \in {"complete", task[a].outcome}
  PROVE  OutcomesJustified'
<1>1. task' = [task EXCEPT ![a] = t] /\ task \in [Actor -> Task]
  BY DEF Goto, TypeInv, TypeOK
<1>2. Justified(t)
  BY DEF OutcomesJustified, Justified
<1>3. ASSUME NEW b \in Actor PROVE Justified(task'[b])
  <2>1. CASE b = a
    BY <1>1, <1>2, <2>1
  <2>2. CASE b # a
    <3>1. task'[b] = task[b]
      BY <1>1, <2>2
    <3>. QED BY <3>1 DEF OutcomesJustified
  <2>. QED BY <2>1, <2>2
<1>. QED BY <1>3 DEF OutcomesJustified, Justified

LEMMA OutcomeStage ==
  ASSUME TypeInv, OutcomesJustified, NEW a \in Actor, StageStep(a)
  PROVE  OutcomesJustified'
<1>0. task[a] \in Task
  BY DEF TypeInv, TypeOK
<1>1. \A pc : [task[a] EXCEPT !.pc = pc].outcome = task[a].outcome
  BY <1>0 DEF Task
<1>2. CASE Claim(a) \/ Gate(a) \/ Audit(a)
  BY <1>2, Completes, OutcomeMoves DEF Claim, Gate, Audit, Return
<1>3. CASE LoadFanout(a)
  <2>1. CASE Return(a)
    BY <2>1, Completes, OutcomeMoves DEF Return
  <2>2. CASE ~Return(a)
    <3> DEFINE b == AtStage("fan", task[a].msg, task[a].stage)
    <3>1. PICK todo : Goto(a, [b EXCEPT !.todo = todo])
      BY <1>3, <2>2 DEF LoadFanout
    <3>2. [b EXCEPT !.todo = todo].outcome = "complete"
      BY DEF AtStage, At, Idle
    <3>. HIDE DEF b
    <3>. QED BY <3>1, <3>2, OutcomeMoves
  <2>. QED BY <2>1, <2>2
<1>4. CASE LoadChain(a)
  <2> DEFINE m == task[a].msg
             t == [AtStage("send", m, "in_process") EXCEPT !.mod = InModuleAt(index[m])]
  <2>1. t.outcome = "complete"
    BY DEF AtStage, At, Idle
  <2>2. \/ Return(a) \/ Goto(a, t) \/ Goto(a, At("bump", m))
        \/ Goto(a, AtStage("gate", m, "post_process"))
    BY <1>4 DEF LoadChain
  <2>. HIDE DEF t
  <2>. QED BY <2>1, <2>2, Completes, OutcomeMoves DEF Return
<1>5. CASE FanSend(a)
  <2>1. PICK x : Goto(a, [task[a] EXCEPT !.pc = "track", !.todo = @ \ {x},
                                         !.sent = TRUE, !.mod = x])
    BY <1>5 DEF FanSend
  <2> DEFINE t == [task[a] EXCEPT !.pc = "track", !.todo = @ \ {x}, !.sent = TRUE, !.mod = x]
  <2>2. t.outcome = task[a].outcome
    BY <1>0 DEF Task
  <2>3. Goto(a, t)
    BY <2>1
  <2>. HIDE DEF t
  <2>. QED BY <2>2, <2>3, OutcomeMoves
<1>6. CASE FanSkip(a)
  <2>1. PICK x : Goto(a, [task[a] EXCEPT !.todo = @ \ {x}])
    BY <1>6 DEF FanSkip
  <2>2. [task[a] EXCEPT !.todo = @ \ {x}].outcome = task[a].outcome
    BY <1>0 DEF Task
  <2>. QED BY <2>1, <2>2, OutcomeMoves
<1>7. CASE FanDone(a)
  BY <1>7, Completes, OutcomeMoves DEF FanDone, Return
<1>8. CASE SendInProcess(a)
  BY <1>1, <1>8, Completes, OutcomeMoves DEF SendInProcess
<1>9. CASE Track(a)
  <2>1. [task[a] EXCEPT !.pc = "fan", !.mod = NoModule].outcome = task[a].outcome
    BY <1>0 DEF Task
  <2>. QED BY <1>9, <2>1, Completes, OutcomeMoves DEF Track, Return
<1>10. CASE Bump(a)
  BY <1>10, Completes, OutcomeMoves DEF Bump, Return, AfterChain
<1>11. CASE Preserve(a) \/ Write(a)
  <2>1. PICK pc : Goto(a, [task[a] EXCEPT !.pc = pc])
    BY <1>11 DEF Preserve, Write
  <2>. QED BY <1>1, <2>1, OutcomeMoves
<1>12. CASE StoreHeld(a) \/ Clear(a)
  BY <1>12, Completes, OutcomeMoves DEF StoreHeld, Clear, Return
<1>13. CASE Take(a)
  <2> DEFINE t == [task[a] EXCEPT !.pc = "write", !.result = HasResult(task[a].msg)]
  <2>1. t.outcome = task[a].outcome
    BY <1>0 DEF Task
  <2>2. Return(a) \/ Goto(a, t)
    BY <1>13 DEF Take
  <2>. HIDE DEF t
  <2>. QED BY <2>1, <2>2, Completes, OutcomeMoves DEF Return
<1>. QED
  BY <1>2, <1>3, <1>4, <1>5, <1>6, <1>7, <1>8, <1>9, <1>10, <1>11, <1>12, <1>13
     DEF StageStep

LEMMA OutcomeSweep ==
  ASSUME TypeInv, OutcomesJustified, NEW s \in Sweeper, SweepStep(s)
  PROVE  OutcomesJustified'
<1>1. SweepTask(s) \in Actor
  BY ActorKinds
<1>2. CASE SweepDrain(s) \/ SweepEnd(s)
  BY <1>1, <1>2, Completes, OutcomeMoves DEF SweepDrain, SweepEnd, AfterSweep
<1>3. CASE Resend(s)
  <2>1. PICK d : Goto(SweepTask(s), [AtStage("retrack", d.msg, d.entry.stage) EXCEPT
                                       !.mod = d.entry.mod,
                                       !.resends = d.entry.resends])
    BY <1>3 DEF Resend
  <2> DEFINE t == [AtStage("retrack", d.msg, d.entry.stage) EXCEPT
                     !.mod = d.entry.mod, !.resends = d.entry.resends]
  <2>2. t.outcome = "complete"
    BY DEF AtStage, At, Idle
  <2>3. Goto(SweepTask(s), t)
    BY <2>1
  <2>. HIDE DEF t
  <2>. QED BY <1>1, <2>2, <2>3, OutcomeMoves
<1>4. CASE ReTrack(s)
  BY <1>1, <1>4, Completes, OutcomeMoves DEF ReTrack, Return
<1>5. CASE TimeOut(s)
  <2>1. PICK d \in pass[s].queue :
         \/ FailsMessage(s, d) /\ Goto(SweepTask(s), Ending(d.msg, "failed"))
         \/ Goto(SweepTask(s), AfterTimeout(d))
         \/ UNCHANGED task
    BY <1>5 DEF TimeOut
  <2>2. CASE FailsMessage(s, d) /\ Goto(SweepTask(s), Ending(d.msg, "failed"))
    <3>1. Justified(Ending(d.msg, "failed"))
      BY <2>2, Completes DEF Justified, FailsMessage
    <3>. QED BY <1>1, <2>2, <3>1, OutcomeMoves
  <2>3. CASE Goto(SweepTask(s), AfterTimeout(d))
    <3>1. d.entry.stage \in Stage
      BY PassFields
    <3>2. AfterTimeout(d).outcome = "complete"
      BY <3>1, Completes DEF AfterTimeout, Stage
    <3>. QED BY <1>1, <2>3, <3>2, OutcomeMoves
  <2>4. CASE UNCHANGED task
    BY <2>4 DEF OutcomesJustified
  <2>. QED BY <2>1, <2>2, <2>3, <2>4
<1>. QED BY <1>2, <1>3, <1>4, <1>5 DEF SweepStep

LEMMA OutcomeFrames ==
  ASSUME TypeInv, OutcomesJustified, NEW x \in Module,
         Ack(x) \/ \E m \in Msg : Echo(x, m) \/ Abandon(x, m)
  PROVE  OutcomesJustified'
<1>1. <<"conn", x>> \in Actor
  BY ActorKinds
<1>2. CASE Ack(x)
  BY <1>1, <1>2, AckMoves, Completes, OutcomeMoves DEF Return
<1>3. ASSUME NEW m \in Msg, Echo(x, m)
      PROVE  OutcomesJustified'
  BY <1>1, <1>3, Completes, OutcomeMoves DEF Echo
<1>4. ASSUME NEW m \in Msg, Abandon(x, m)
      PROVE  OutcomesJustified'
  <2>1. Justified(Ending(m, "dropped"))
    BY <1>4, Completes DEF Abandon, Justified
  <2>. QED BY <1>1, <1>4, <2>1, OutcomeMoves DEF Abandon
<1>. QED BY <1>2, <1>3, <1>4

LEMMA OutcomeResume ==
  ASSUME TypeInv, OutcomesJustified, NEW r \in Resumer,
         ResumeStep(r) \/ (r \in BlockedReason /\ DependencyUp(r))
  PROVE  OutcomesJustified'
<1>1. SweepTask(r) \in Actor
  BY ActorKinds
<1>2. CASE Resume(r) \/ RestartClocks(r) \/ ResumeSweep(r)
  BY <1>1, <1>2, Completes, OutcomeMoves DEF Resume, RestartClocks, ResumeSweep
<1>3. CASE DependencyUp(r)
  BY <1>1, <1>3, Completes, OutcomeMoves DEF DependencyUp
<1>4. CASE Spawn(r)
  BY <1>4, Completes DEF Spawn, OutcomesJustified, Justified
<1>. QED BY <1>2, <1>3, <1>4 DEF ResumeStep

LEMMA OutcomeElsewhere ==
  ASSUME TypeInv, OutcomesJustified,
         \/ \E m \in Msg : Ingest(m) \/ Recover(m)
         \/ SweepTick \/ PauseRequest \/ ResumeRequest \/ ControlStep \/ Crash
         \/ \E a \in Actor : DbFails(a)
  PROVE  OutcomesJustified'
<1>0. /\ \A m \in Msg : <<"ingest", m>> \in Actor
      /\ Drain \in Actor /\ SweepTask("timer") \in Actor /\ SweepTask("control") \in Actor
  BY ActorKinds DEF Sweeper, Resumer
<1>1. ASSUME NEW m \in Msg, Ingest(m) \/ Recover(m)
      PROVE  OutcomesJustified'
  <2>1. CASE UNCHANGED task
    BY <2>1 DEF OutcomesJustified
  <2>. QED BY <1>0, <1>1, <2>1, Completes, OutcomeMoves DEF Ingest, Recover
<1>2. CASE SweepTick \/ PauseRequest \/ ResumeRequest \/ ControlStep
  BY <1>0, <1>2, Completes, OutcomeMoves DEF SweepTick, PauseRequest, ResumeRequest,
     ControlStep, Pause, DeferPause, DeferResume
<1>3. CASE Crash
  BY <1>3, Completes DEF Crash, OutcomesJustified, Justified
<1>4. ASSUME NEW a \in Actor, DbFails(a)
      PROVE  OutcomesJustified'
  BY <1>4, Completes, OutcomeMoves DEF DbFails, AfterSweep
<1>. QED BY <1>1, <1>2, <1>3, <1>4

LEMMA OutcomeNext == TypeInv /\ OutcomesJustified /\ [Next]_vars => OutcomesJustified'
<1>. SUFFICES ASSUME TypeInv, OutcomesJustified, [Next]_vars PROVE OutcomesJustified'
  OBVIOUS
<1>1. CASE UNCHANGED task
  BY <1>1 DEF OutcomesJustified
<1>2. ASSUME NEW m \in Msg,
             \/ Ingest(m) \/ Recover(m) \/ RecoverFails(m) \/ Elapse(m)
             \/ \E approve \in BOOLEAN : release_audit(m, approve)
      PROVE  OutcomesJustified'
  BY <1>1, <1>2, OutcomeElsewhere DEF RecoverFails, Elapse, release_audit, taskVars
<1>3. ASSUME NEW a \in Actor, StageStep(a) \/ DbFails(a)
      PROVE  OutcomesJustified'
  BY <1>3, OutcomeStage, OutcomeElsewhere
<1>4. ASSUME NEW x \in Module, Ack(x)
      PROVE  OutcomesJustified'
  BY <1>4, OutcomeFrames
<1>5. ASSUME NEW x \in Module, NEW m \in Msg,
             Echo(x, m) \/ Abandon(x, m) \/ Receipt(x, m) \/ AuditFlag(x, m)
      PROVE  OutcomesJustified'
  BY <1>1, <1>5, OutcomeFrames DEF Receipt, AuditFlag, taskVars
<1>6. CASE DrainStart \/ SweepTick \/ PauseRequest \/ ResumeRequest \/ ControlStep \/ Crash
  BY <1>1, <1>6, OutcomeElsewhere DEF DrainStart, taskVars
<1>7. ASSUME NEW s \in Sweeper, SweepStep(s)
      PROVE  OutcomesJustified'
  BY <1>7, OutcomeSweep
<1>8. ASSUME NEW r \in Resumer, ResumeStep(r)
      PROVE  OutcomesJustified'
  BY <1>8, OutcomeResume
<1>9. ASSUME NEW r \in BlockedReason, DependencyDown(r) \/ DependencyUp(r)
      PROVE  OutcomesJustified'
  BY <1>1, <1>9, OutcomeResume DEF DependencyDown, taskVars, Resumer
<1>10. CASE UNCHANGED vars
  BY <1>1, <1>10 DEF vars, taskVars
<1>. QED
  BY <1>2, <1>3, <1>4, <1>5, <1>6, <1>7, <1>8, <1>9, <1>10 DEF Next

\* The steps that write a row.
RowStep ==
  \/ \E m \in Msg : Ingest(m) \/ \E approve \in BOOLEAN : release_audit(m, approve)
  \/ \E a \in Actor : Write(a)
  \/ \E x \in Module, m \in Msg : AuditFlag(x, m)

LEMMA RowStays == [Next]_vars => RowStep \/ UNCHANGED row
<1>. SUFFICES ASSUME [Next]_vars, ~RowStep PROVE UNCHANGED row
  OBVIOUS
<1>1. ASSUME NEW m \in Msg,
             \/ Ingest(m) \/ Recover(m) \/ RecoverFails(m) \/ Elapse(m)
             \/ \E approve \in BOOLEAN : release_audit(m, approve)
      PROVE  UNCHANGED row
  BY <1>1 DEF RowStep, Recover, RecoverFails, Elapse, rowVars
<1>2. ASSUME NEW a \in Actor, StageStep(a) \/ DbFails(a)
      PROVE  UNCHANGED row
  <2>1. ~Write(a)
    BY DEF RowStep
  <2>. QED
    BY <1>2, <2>1 DEF StageStep, DbFails, Claim, Gate, Audit, LoadFanout, LoadChain,
       FanSend, FanSkip, FanDone, SendInProcess, Track, Bump, Preserve, StoreHeld, Take,
       Clear, rowVars
<1>3. ASSUME NEW x \in Module,
             \/ Ack(x)
             \/ \E m \in Msg : Echo(x, m) \/ Abandon(x, m) \/ Receipt(x, m) \/ AuditFlag(x, m)
      PROVE  UNCHANGED row
  BY <1>3 DEF RowStep, Ack, Echo, Abandon, Receipt, rowVars
<1>4. CASE DrainStart \/ SweepTick \/ PauseRequest \/ ResumeRequest \/ ControlStep \/ Crash
  BY <1>4 DEF DrainStart, SweepTick, PauseRequest, ResumeRequest, ControlStep, Pause,
     DeferPause, DeferResume, Crash, rowVars
<1>5. ASSUME NEW s \in Sweeper, SweepStep(s)
      PROVE  UNCHANGED row
  BY <1>5 DEF SweepStep, SweepDrain, Resend, ReTrack, TimeOut, SweepEnd, rowVars
<1>6. ASSUME NEW r \in Resumer, ResumeStep(r)
      PROVE  UNCHANGED row
  BY <1>6 DEF ResumeStep, Resume, RestartClocks, ResumeSweep, Spawn, rowVars
<1>7. ASSUME NEW r \in BlockedReason, DependencyDown(r) \/ DependencyUp(r)
      PROVE  UNCHANGED row
  BY <1>7 DEF DependencyDown, DependencyUp, rowVars
<1>8. CASE UNCHANGED vars
  BY <1>8 DEF vars, rowVars
<1>. QED BY <1>1, <1>2, <1>3, <1>4, <1>5, <1>6, <1>7, <1>8 DEF Next

\* Beside the operator, only the writing of a failure or of a drop takes a row
\* out of its review.
LEMMA HoldEnds ==
  ASSUME TypeInv, [Next]_vars, NEW m \in Msg, row[m] = "audit", row'[m] # "audit"
  PROVE  \/ \E approve \in BOOLEAN : release_audit(m, approve)
         \/ \E a \in Actor : /\ Write(a) /\ task[a].msg = m
                             /\ task[a].outcome \in {"failed", "dropped"}
<1>0. row \in [Msg -> Status]
  BY DEF TypeInv, TypeOK
<1>1. ASSUME NEW n \in Msg, Ingest(n)
      PROVE  FALSE
  BY <1>0, <1>1 DEF Ingest
<1>2. ASSUME NEW n \in Msg, NEW approve \in BOOLEAN, release_audit(n, approve)
      PROVE  release_audit(m, approve)
  <2>1. n = m
    BY <1>0, <1>2 DEF release_audit
  <2>. QED BY <1>2, <2>1
<1>3. ASSUME NEW a \in Actor, Write(a)
      PROVE  task[a].msg = m /\ task[a].outcome \in {"failed", "dropped"}
  <2>1. task[a].outcome \in Outcome
    BY DEF TypeInv, TypeOK, Task
  <2>2. ~RefusedByHold(task[a].msg, task[a].outcome)
    BY <1>3 DEF Write, rowVars
  <2>3. row' = [row EXCEPT ![task[a].msg] = task[a].outcome]
    BY <1>3, <2>2 DEF Write
  <2>4. task[a].msg = m
    BY <1>0, <2>3
  <2>5. task[a].outcome # "complete"
    BY <2>2, <2>4 DEF RefusedByHold
  <2>. QED BY <2>1, <2>4, <2>5 DEF Outcome
<1>4. ASSUME NEW x \in Module, NEW n \in Msg, AuditFlag(x, n)
      PROVE  FALSE
  BY <1>0, <1>4 DEF AuditFlag
<1>. QED BY <1>1, <1>2, <1>3, <1>4, RowStays DEF RowStep

\* Whatever a terminal path that read the row before the hold landed goes on to
\* write, only the operator releases a held row: where no module is critical, as
\* in the production configuration, and none abandons a message.
THEOREM HoldKept ==
  ASSUME Critical = {}, Abandoning = {} PROVE Spec => HoldIsTheOperators
<1>1. Init => TypeInv /\ OutcomesJustified
  BY TypeInit, Completes DEF Init, OutcomesJustified, Justified
<1>2. TypeInv /\ OutcomesJustified /\ [Next]_vars => TypeInv' /\ OutcomesJustified'
  BY TypeNext, OutcomeNext
<1>3. TypeInv /\ OutcomesJustified /\ [Next]_vars =>
        [\A m \in Msg : row[m] = "audit" /\ row'[m] # "audit"
           => \E approve \in BOOLEAN : release_audit(m, approve)]_vars
  <2>. SUFFICES ASSUME TypeInv, OutcomesJustified, [Next]_vars,
                       NEW m \in Msg, row[m] = "audit", row'[m] # "audit"
                PROVE  \E approve \in BOOLEAN : release_audit(m, approve)
    OBVIOUS
  <2>1. \A a \in Actor : task[a].outcome \notin {"failed", "dropped"}
    BY DEF OutcomesJustified, Justified
  <2>. QED BY <2>1, HoldEnds
<1>. QED BY <1>1, <1>2, <1>3, PTL DEF Spec, HoldIsTheOperators

\* With critical or abandoning modules: the only other way out of a review is
\* the write of a failure or of a drop, never that of a completion.
HoldOutlastsCompletions ==
  [][\A m \in Msg : row[m] = "audit" /\ row'[m] # "audit"
       => \/ \E approve \in BOOLEAN : release_audit(m, approve)
          \/ row'[m] \in {"failed", "dropped"}]_vars

THEOREM HoldOutlasts == Spec => HoldOutlastsCompletions
<1>1. TypeInv /\ [Next]_vars =>
        [\A m \in Msg : row[m] = "audit" /\ row'[m] # "audit"
           => \/ \E approve \in BOOLEAN : release_audit(m, approve)
              \/ row'[m] \in {"failed", "dropped"}]_vars
  <2>. SUFFICES ASSUME TypeInv, [Next]_vars,
                       NEW m \in Msg, row[m] = "audit", row'[m] # "audit"
                PROVE  \/ \E approve \in BOOLEAN : release_audit(m, approve)
                       \/ row'[m] \in {"failed", "dropped"}
    OBVIOUS
  <2>1. ASSUME NEW a \in Actor, Write(a), task[a].msg = m,
               task[a].outcome \in {"failed", "dropped"}
        PROVE  row'[m] \in {"failed", "dropped"}
    <3>1. row' = [row EXCEPT ![m] = task[a].outcome]
      BY <2>1 DEF Write, RefusedByHold
    <3>. QED BY <2>1, <3>1 DEF TypeInv, TypeOK
  <2>. QED BY <2>1, HoldEnds
<1>. QED BY <1>1, TypeInit, TypeNext, PTL DEF Spec, HoldOutlastsCompletions
===============================================================================
