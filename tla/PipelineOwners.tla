----------------------------- MODULE PipelineOwners -----------------------------
(***************************************************************************)
(* Who owns a message: it never loses its last owner, and where each stage *)
(* has one recipient it never gets a second.                               *)
(*                                                                         *)
(* NoStuckMessage is not inductive: it needs to know that a sweep starts   *)
(* with empty hands, since it overwrites its locals, and that a task that  *)
(* drops what is still awaited for a message works on a finished row.      *)
(*                                                                         *)
(* The second half counts what may still move a message on, its tokens: a  *)
(* task, an awaited answer, the gate, a resume, a sweep.  With one         *)
(* recipient per stage there is at most one token, and it says how far the *)
(* message has come; so no stage is run twice or out of order, and the     *)
(* task that ends the message is the one that took its text.               *)
(***************************************************************************)
EXTENDS PipelineProofs

\* The steps of a sweeper outside the loop over the expired entries, and those
\* outside a resume.
OutsideLoop == {"idle", "pause", "defer_pause", "defer_resume", "resume",
                "restart", "check", "drain", "spawn"}
OutsideResume == {"idle", "pause", "defer_pause", "defer_resume", "resume"}

PassShape ==
  \A s \in Sweeper :
    /\ task[SweepTask(s)].pc \in OutsideLoop =>
         /\ pass[s].queue = {}
         /\ pass[s].resent = {}
         /\ pass[s].failed = {}
         /\ pass[s].advanced = {}
    /\ task[SweepTask(s)].pc \in OutsideResume => pass[s].taken = NothingTaken
    /\ s = "timer" => pass[s].taken = NothingTaken

ClearDone ==
  \A a \in Actor :
    task[a].pc = "clear" => row[task[a].msg] \notin {"none", "queued"}

Shape == PassShape /\ ClearDone

OwnedInv == TypeInv /\ Shape /\ NoStuckMessage

DrivePC == {"claim", "gate", "audit", "load", "track", "send", "bump",
            "preserve", "take", "write", "retrack"}

LEMMA DriveFacts ==
  ASSUME NEW t, NEW m
  PROVE  /\ t.msg = m /\ t.pc \in DrivePC => Drives(t, m)
         /\ t.msg = m /\ t.pc = "fan" /\ ~t.sent => Drives(t, m)
         /\ Drives(t, m) => t.msg = m /\ (t.pc \in DrivePC \/ (t.pc = "fan" /\ ~t.sent))
BY Zenon DEF Drives, DrivePC

\* The tasks a step starts drive their message.
LEMMA FreshDrives ==
  ASSUME NEW m \in Msg, NEW stage \in Stage, NEW outcome \in Outcome,
         NEW pc \in {"claim", "gate", "audit", "load", "fan", "bump"}
  PROVE  /\ Drives(At(pc, m), m)
         /\ Drives(AtStage(pc, m, stage), m)
         /\ Drives(Ending(m, outcome), m)
<1>1. /\ At(pc, m).sent = FALSE /\ AtStage(pc, m, stage).sent = FALSE
  BY DEF At, AtStage, Idle
<1>2. pc \in PC
  BY DEF PC
<1>3. (pc \in DrivePC \/ pc = "fan") /\ "preserve" \in DrivePC
  BY DEF DrivePC
<1>. QED BY <1>1, <1>2, <1>3, TaskFields, DriveFacts

\* A task of its own loop drives nothing.
LEMMA LoopDrivesNothing ==
  ASSUME NEW m \in Msg,
         NEW t, t.pc \in OutsideLoop \cup {"ack", "sweep", "store", "clear"}
  PROVE  ~Drives(t, m)
BY DEF Drives, OutsideLoop

LEMMA RestDrivesNothing ==
  ASSUME NEW a, NEW m \in Msg
  PROVE  ~Drives(Rest(a), m)
BY DEF Drives, Rest, Idle

\* One task moves and the sweeps keep what they hold.  Every queued message
\* must have got an owner, or have had one that this step did not touch.
LEMMA OneTaskMoves ==
  ASSUME TypeInv, NoStuckMessage, NEW a \in Actor, NEW t, Goto(a, t),
         UNCHANGED pass, faulted \subseteq faulted',
         \A m \in live' : row'[m] = "queued" =>
           \/ Drives(t, m) \/ pending'[m] # {} \/ held'[m] # NoPoint
           \/ /\ m \in live /\ row[m] = "queued"
              /\ pending[m] = {} /\ held[m] = NoPoint
              /\ ~Drives(task[a], m)
  PROVE  NoStuckMessage'
<1>. SUFFICES ASSUME NEW m \in live', row'[m] = "queued", m \notin faulted'
              PROVE  Owned(m)'
  BY DEF NoStuckMessage
<1>1. task' = [task EXCEPT ![a] = t] /\ task \in [Actor -> Task]
  BY DEF Goto, TypeInv, TypeOK
<1>2. CASE Drives(t, m)
  <2>1. task'[a] = t
    BY <1>1
  <2>2. Drives(task'[a], m)
    BY <1>2, <2>1
  <2>. QED BY <2>2 DEF Owned
<1>3. CASE pending'[m] # {} \/ held'[m] # NoPoint
  BY <1>3 DEF Owned
<1>4. CASE /\ m \in live /\ row[m] = "queued"
           /\ pending[m] = {} /\ held[m] = NoPoint
           /\ ~Drives(task[a], m)
  <2>1. Owned(m)
    BY <1>4 DEF NoStuckMessage
  <2>2. CASE \E b \in Actor : Drives(task[b], m)
    <3>1. PICK b \in Actor : Drives(task[b], m)
      BY <2>2
    <3>2. b # a
      BY <3>1, <1>4
    <3>3. task'[b] = task[b]
      BY <1>1, <3>2
    <3>4. Drives(task'[b], m)
      BY <3>1, <3>3
    <3>. QED BY <3>4 DEF Owned
  <2>3. CASE \E s \in Sweeper : Owes(pass[s], m) \/ pass[s].taken[m] # NoPoint
    <3>1. PICK s \in Sweeper : Owes(pass[s], m) \/ pass[s].taken[m] # NoPoint
      BY <2>3
    <3>2. Owes(pass'[s], m) \/ pass'[s].taken[m] # NoPoint
      BY <3>1
    <3>. QED BY <3>2 DEF Owned
  <2>. QED BY <1>4, <2>1, <2>2, <2>3 DEF Owned
<1>. QED BY <1>2, <1>3, <1>4

\* The usual case: nothing but tasks and states changes.
LEMMA OneTaskQuietly ==
  ASSUME TypeInv, NoStuckMessage, NEW a \in Actor, NEW t, Goto(a, t),
         UNCHANGED <<row, pending, held, pass, faulted>>,
         \A m \in live' : row[m] = "queued" =>
           Drives(t, m) \/ (m \in live /\ ~Drives(task[a], m))
  PROVE  NoStuckMessage'
<1>1. \A m \in live' : row'[m] = "queued" =>
        \/ Drives(t, m) \/ pending'[m] # {} \/ held'[m] # NoPoint
        \/ /\ m \in live /\ row[m] = "queued"
           /\ pending[m] = {} /\ held[m] = NoPoint
           /\ ~Drives(task[a], m)
  OBVIOUS
<1>. QED BY <1>1, OneTaskMoves

--------------------------------------------------------------------------------
(***************************************************************************)
(* The stages.                                                             *)
(***************************************************************************)
LEMMA ClaimOwned ==
  ASSUME TypeInv, NoStuckMessage, NEW a \in Actor, Claim(a)
  PROVE  NoStuckMessage'
<1> DEFINE m == task[a].msg
           t == AtStage("gate", m, "pre_process")
<1>1. m \in Msg
  BY WorkingMsg DEF Claim, Is, WorkPC
<1>2. Drives(t, m)
  <2>1. "pre_process" \in Stage /\ "complete" \in Outcome
    BY DEF Stage, Outcome
  <2>. QED BY <1>1, <2>1, FreshDrives
<1>3. /\ Goto(a, t) /\ live' = live \cup {m}
      /\ UNCHANGED <<row, pending, held, pass, faulted>>
  BY DEF Claim, rowVars, gateVars, historyVars
<1>4. \A n : Drives(task[a], n) => n = m
  BY DriveFacts
<1>. HIDE DEF t
<1>. QED BY <1>2, <1>3, <1>4, OneTaskQuietly

LEMMA GateOwned ==
  ASSUME TypeInv, NoStuckMessage, NEW a \in Actor, Gate(a)
  PROVE  NoStuckMessage'
<1> DEFINE m == task[a].msg
           stage == task[a].stage
<1>1. m \in Msg /\ stage \in Stage
  BY WorkingMsg DEF Gate, Is, WorkPC, Task
<1>2. \A n : Drives(task[a], n) => n = m
  BY DriveFacts
<1>3. CASE hold_if_gated(m, PointOf(stage)) /\ Return(a)
  <2>1. /\ held' = [held EXCEPT ![m] = PointOf(stage)]
        /\ UNCHANGED <<row, live, pending, pass, faulted>>
    BY <1>3 DEF Gate, hold_if_gated, rowVars, stateVars, historyVars
  <2>2. PointOf(stage) # NoPoint
    BY <1>1, PauseGateAssumption DEF PointOf, Stage, HoldPoint
  <2>3. held \in [Msg -> HoldPoint \cup {NoPoint}] /\ live \subseteq Msg
    BY DEF TypeInv, TypeOK, GateTypeOK
  <2>4. held'[m] # NoPoint /\ \A n \in Msg : n # m => held'[n] = held[n]
    BY <1>1, <2>1, <2>2, <2>3
  <2>. HIDE DEF m, stage
  <2>5. \A n \in live' : row'[n] = "queued" =>
          \/ Drives(Rest(a), n) \/ pending'[n] # {} \/ held'[n] # NoPoint
          \/ /\ n \in live /\ row[n] = "queued"
             /\ pending[n] = {} /\ held[n] = NoPoint
             /\ ~Drives(task[a], n)
    BY <1>2, <2>1, <2>3, <2>4
  <2>6. Goto(a, Rest(a))
    BY <1>3 DEF Return
  <2>. QED BY <2>1, <2>5, <2>6, OneTaskMoves
<1>4. CASE /\ ~is_gated
           /\ UNCHANGED gateVars
           /\ Goto(a, AtStage(IF stage = "pre_process" THEN "load" ELSE "audit",
                              m, stage))
  <2> DEFINE t == AtStage(IF stage = "pre_process" THEN "load" ELSE "audit", m, stage)
  <2>1. Drives(t, m)
    <3>1. "complete" \in Outcome
      BY DEF Outcome
    <3>. QED BY <1>1, <3>1, FreshDrives
  <2>2. Goto(a, t) /\ UNCHANGED <<row, live, pending, held, pass, faulted>>
    BY <1>4 DEF Gate, rowVars, stateVars, gateVars, historyVars
  <2>. HIDE DEF t, m, stage
  <2>. QED BY <1>2, <2>1, <2>2, OneTaskQuietly
<1>. QED BY <1>3, <1>4 DEF Gate

LEMMA AuditOwned ==
  ASSUME TypeInv, NoStuckMessage, NEW a \in Actor, Audit(a)
  PROVE  NoStuckMessage'
<1> DEFINE m == task[a].msg
           t == AtStage("load", m, task[a].stage)
<1>1. m \in Msg /\ task[a].stage \in Stage
  BY WorkingMsg DEF Audit, Is, WorkPC, Task
<1>2. \A n : Drives(task[a], n) => n = m
  BY DriveFacts
<1>3. UNCHANGED <<row, live, pending, held, pass, faulted>>
  BY DEF Audit, rowVars, stateVars, gateVars, historyVars
<1>4. CASE row[m] = "audit"
  <2>1. Goto(a, Rest(a))
    BY <1>4 DEF Audit, Return
  <2>. HIDE DEF m
  <2>. QED BY <1>2, <1>3, <1>4, <2>1, OneTaskQuietly
<1>5. CASE row[m] # "audit"
  <2>1. Goto(a, t)
    BY <1>5 DEF Audit
  <2>2. Drives(t, m)
    <3>1. "complete" \in Outcome
      BY DEF Outcome
    <3>. QED BY <1>1, <3>1, FreshDrives
  <2>. HIDE DEF t, m
  <2>. QED BY <1>2, <1>3, <2>1, <2>2, OneTaskQuietly
<1>. QED BY <1>4, <1>5

LEMMA LoadFanoutOwned ==
  ASSUME TypeInv, NoStuckMessage, NEW a \in Actor, LoadFanout(a)
  PROVE  NoStuckMessage'
<1> DEFINE m == task[a].msg
           fan == AtStage("fan", m, task[a].stage)
           todo == IF task[a].stage = "pre_process"
                     THEN command_recipients(owner_of(m), PreModules)
                     ELSE post_process_recipients(owner_of(m))
           t == [fan EXCEPT !.todo = todo]
<1>1. m \in Msg /\ task[a].stage \in Stage
  BY WorkingMsg DEF LoadFanout, Is, WorkPC, Task
<1>2. \A n : Drives(task[a], n) => n = m
  BY DriveFacts
<1>3. UNCHANGED <<row, live, pending, held, pass, faulted>>
  BY DEF LoadFanout, rowVars, stateVars, gateVars, historyVars
<1>4. CASE m \notin live
  <2>1. Goto(a, Rest(a))
    BY <1>4 DEF LoadFanout, Return
  <2>. HIDE DEF m
  <2>. QED BY <1>2, <1>3, <1>4, <2>1, OneTaskQuietly
<1>5. CASE m \in live
  <2>1. Goto(a, t)
    BY <1>5 DEF LoadFanout
  <2>2. Drives(t, m)
    <3>1. fan.pc = "fan" /\ fan.msg = m /\ fan.sent = FALSE
      BY DEF AtStage, At, Idle
    <3>2. fan \in Task
      <4>1. "fan" \in PC
        BY DEF PC
      <4>. QED BY <1>1, <4>1, FreshTasks
    <3>. HIDE DEF fan, todo
    <3>3. t.pc = "fan" /\ t.msg = m /\ t.sent = FALSE
      BY <3>1, <3>2 DEF Task
    <3>. QED BY <3>3, DriveFacts
  <2>. HIDE DEF t, m
  <2>. QED BY <1>2, <1>3, <2>1, <2>2, OneTaskQuietly
<1>. QED BY <1>4, <1>5

LEMMA LoadChainOwned ==
  ASSUME TypeInv, NoStuckMessage, NEW a \in Actor, LoadChain(a)
  PROVE  NoStuckMessage'
<1> DEFINE m == task[a].msg
           x == InModuleAt(index[m])
           send == AtStage("send", m, "in_process")
<1>1. m \in Msg
  BY WorkingMsg DEF LoadChain, Is, WorkPC
<1>2. \A n : Drives(task[a], n) => n = m
  BY DriveFacts
<1>3. UNCHANGED <<row, live, pending, held, pass, faulted>>
  BY DEF LoadChain, rowVars, stateVars, gateVars, historyVars
<1>4. /\ Drives(AtStage("gate", m, "post_process"), m)
      /\ Drives(At("bump", m), m)
  <2>1. "post_process" \in Stage /\ "complete" \in Outcome
    BY DEF Stage, Outcome
  <2>. QED BY <1>1, <2>1, FreshDrives
<1>5. Drives([send EXCEPT !.mod = x], m)
  <2>1. send.pc = "send" /\ send.msg = m
    BY DEF AtStage, At, Idle
  <2>2. send \in Task /\ "send" \in DrivePC
    <3>1. "send" \in PC /\ "in_process" \in Stage
      BY DEF PC, Stage
    <3>. QED BY <1>1, <3>1, FreshTasks DEF DrivePC
  <2>. HIDE DEF send, x
  <2>3. [send EXCEPT !.mod = x].pc = "send" /\ [send EXCEPT !.mod = x].msg = m
    BY <2>1, <2>2 DEF Task
  <2>. QED BY <2>2, <2>3, DriveFacts
<1>6. \/ m \notin live /\ Goto(a, Rest(a))
      \/ Goto(a, AtStage("gate", m, "post_process"))
      \/ Goto(a, [send EXCEPT !.mod = x])
      \/ Goto(a, At("bump", m))
  BY DEF LoadChain, Return
<1>7. CASE m \notin live /\ Goto(a, Rest(a))
  <2>. HIDE DEF m
  <2>. QED BY <1>2, <1>3, <1>7, OneTaskQuietly
<1>8. ASSUME NEW t, Goto(a, t), Drives(t, m)
      PROVE  NoStuckMessage'
  <2>. HIDE DEF m
  <2>. QED BY <1>2, <1>3, <1>8, OneTaskQuietly
<1>. HIDE DEF send, x
<1>. QED BY <1>4, <1>5, <1>6, <1>7, <1>8

LEMMA FanOwned ==
  ASSUME TypeInv, NoStuckMessage, NEW a \in Actor,
         FanSend(a) \/ FanSkip(a) \/ FanDone(a)
  PROVE  NoStuckMessage'
<1> DEFINE m == task[a].msg
<1>1. task[a] \in Task /\ m \in Msg
  BY WorkingMsg DEF FanSend, FanSkip, FanDone, Is, WorkPC
<1>2. \A n : Drives(task[a], n) => n = m /\ ~task[a].sent
  <2>1. "fan" \notin DrivePC
    BY DEF DrivePC
  <2>2. task[a].pc = "fan"
    BY DEF FanSend, FanSkip, FanDone, Is
  <2>. QED BY <2>1, <2>2, DriveFacts, Zenon
<1>3. UNCHANGED <<row, live, pending, held, pass, faulted>>
  BY DEF FanSend, FanSkip, FanDone, Dispatch, rowVars, stateVars, gateVars, historyVars
<1>4. ASSUME NEW t, Goto(a, t), Drives(t, m) \/ task[a].sent
      PROVE  NoStuckMessage'
  <2>. HIDE DEF m
  <2>. QED BY <1>2, <1>3, <1>4, OneTaskQuietly
<1>5. CASE FanSend(a)
  <2>1. PICK x \in task[a].todo :
          Goto(a, [task[a] EXCEPT !.pc = "track", !.todo = @ \ {x},
                                  !.sent = TRUE, !.mod = x])
    BY <1>5 DEF FanSend
  <2> DEFINE t == [task[a] EXCEPT !.pc = "track", !.todo = @ \ {x},
                                  !.sent = TRUE, !.mod = x]
  <2>2. t.pc = "track" /\ t.msg = m /\ "track" \in DrivePC
    BY <1>1 DEF Task, DrivePC
  <2>3. Goto(a, t)
    BY <2>1
  <2>. HIDE DEF t
  <2>4. Drives(t, m)
    BY <2>2, DriveFacts
  <2>. QED BY <1>4, <2>3, <2>4
<1>6. CASE FanSkip(a)
  <2>1. PICK x \in task[a].todo : Goto(a, [task[a] EXCEPT !.todo = @ \ {x}])
    BY <1>6 DEF FanSkip
  <2> DEFINE t == [task[a] EXCEPT !.todo = @ \ {x}]
  <2>2. t.pc = "fan" /\ t.msg = m /\ t.sent = task[a].sent
    BY <1>1, <1>6 DEF Task, FanSkip, Is
  <2>3. Goto(a, t)
    BY <2>1
  <2>. HIDE DEF t
  <2>4. Drives(t, m) \/ task[a].sent
    BY <2>2, DriveFacts
  <2>. QED BY <1>4, <2>3, <2>4
<1>7. CASE FanDone(a)
  <2>1. /\ Drives(AtStage("gate", m, "in_process"), m)
        /\ Drives(Ending(m, "complete"), m)
    <3>1. "in_process" \in Stage /\ "complete" \in Outcome
      BY DEF Stage, Outcome
    <3>. QED BY <1>1, <3>1, FreshDrives
  <2>2. \/ task[a].sent /\ Goto(a, Rest(a))
        \/ Goto(a, AtStage("gate", m, "in_process"))
        \/ Goto(a, Ending(m, "complete"))
    BY <1>7 DEF FanDone, Return
  <2>. QED BY <1>4, <2>1, <2>2
<1>. QED BY <1>5, <1>6, <1>7

LEMMA SendInProcessOwned ==
  ASSUME TypeInv, NoStuckMessage, NEW a \in Actor, SendInProcess(a)
  PROVE  NoStuckMessage'
<1> DEFINE m == task[a].msg
<1>1. task[a] \in Task /\ m \in Msg
  BY WorkingMsg DEF SendInProcess, Is, WorkPC
<1>2. \A n : Drives(task[a], n) => n = m
  BY DriveFacts
<1>3. UNCHANGED <<row, live, pending, held, pass, faulted>>
  BY DEF SendInProcess, Dispatch, rowVars, stateVars, gateVars, historyVars
<1>4. ASSUME NEW t, Goto(a, t), Drives(t, m)
      PROVE  NoStuckMessage'
  <2>. HIDE DEF m
  <2>. QED BY <1>2, <1>3, <1>4, OneTaskQuietly
<1>5. Drives([task[a] EXCEPT !.pc = "track"], m)
  <2> DEFINE t == [task[a] EXCEPT !.pc = "track"]
  <2>1. t.pc = "track" /\ t.msg = m /\ "track" \in DrivePC
    BY <1>1 DEF Task, DrivePC
  <2>. HIDE DEF t
  <2>2. Drives(t, m)
    BY <2>1, DriveFacts
  <2>. QED BY <2>2 DEF t
<1>6. Drives(At("bump", m), m)
  <2>1. "pre_process" \in Stage /\ "complete" \in Outcome
    BY DEF Stage, Outcome
  <2>. QED BY <1>1, <2>1, FreshDrives
<1>7. \/ Goto(a, [task[a] EXCEPT !.pc = "track"])
      \/ Goto(a, At("bump", m))
  BY DEF SendInProcess
<1>. QED BY <1>4, <1>5, <1>6, <1>7

LEMMA TrackOwned ==
  ASSUME TypeInv, NoStuckMessage, NEW a \in Actor, Track(a)
  PROVE  NoStuckMessage'
<1> DEFINE m == task[a].msg
<1>1. m \in Msg
  BY WorkingMsg DEF Track, Is, WorkPC
<1>2. \A n : Drives(task[a], n) => n = m
  BY DriveFacts
<1>3. UNCHANGED <<row, live, held, pass, faulted>>
  BY DEF Track, rowVars, stateVars, gateVars, historyVars
<1>4. pending'[m] # {} /\ \A n \in Msg : n # m => pending'[n] = pending[n]
  <2>1. pending' = [pending EXCEPT ![m] = @ \cup {NewEntry(task[a].stage, task[a].mod, 0)}]
    BY DEF Track, track
  <2>2. pending \in [Msg -> SUBSET Entry]
    BY DEF TypeInv, TypeOK, TrackerTypeOK
  <2>. HIDE DEF m
  <2>. QED BY <1>1, <2>1, <2>2
<1>5. PICK t : Goto(a, t)
  BY DEF Track, Return
<1>6. live \subseteq Msg
  BY DEF TypeInv, TypeOK
<1>. HIDE DEF m
<1>7. \A n \in live' : row'[n] = "queued" =>
        \/ Drives(t, n) \/ pending'[n] # {} \/ held'[n] # NoPoint
        \/ /\ n \in live /\ row[n] = "queued"
           /\ pending[n] = {} /\ held[n] = NoPoint
           /\ ~Drives(task[a], n)
  BY <1>2, <1>3, <1>4, <1>6
<1>. QED BY <1>3, <1>5, <1>7, OneTaskMoves

LEMMA BumpOwned ==
  ASSUME TypeInv, NoStuckMessage, NEW a \in Actor, Bump(a)
  PROVE  NoStuckMessage'
<1> DEFINE m == task[a].msg
<1>1. m \in Msg
  BY WorkingMsg DEF Bump, Is, WorkPC
<1>2. \A n : Drives(task[a], n) => n = m
  BY DriveFacts
<1>3. UNCHANGED <<row, live, pending, held, pass, faulted>>
  BY DEF Bump, rowVars, gateVars, historyVars
<1>4. CASE m \notin live
  <2>1. Goto(a, Rest(a))
    BY <1>4 DEF Bump, Return
  <2>. HIDE DEF m
  <2>. QED BY <1>2, <1>3, <1>4, <2>1, OneTaskQuietly
<1>5. CASE m \in live
  <2> DEFINE t == AfterChain(m, index[m] + 1)
  <2>1. Goto(a, t)
    BY <1>5 DEF Bump
  <2>2. Drives(t, m)
    <3>1. "in_process" \in Stage /\ "post_process" \in Stage /\ "complete" \in Outcome
      BY DEF Stage, Outcome
    <3>. QED BY <1>1, <3>1, FreshDrives DEF AfterChain
  <2>. HIDE DEF t, m
  <2>. QED BY <1>2, <1>3, <2>1, <2>2, OneTaskQuietly
<1>. QED BY <1>4, <1>5

--------------------------------------------------------------------------------
(***************************************************************************)
(* The endings.                                                            *)
(***************************************************************************)
LEMMA PreserveOwned ==
  ASSUME TypeInv, NoStuckMessage, NEW a \in Actor, Preserve(a)
  PROVE  NoStuckMessage'
<1> DEFINE m == task[a].msg
           t == [task[a] EXCEPT !.pc = IF row[m] = "audit" THEN "store" ELSE "take"]
<1>1. task[a] \in Task /\ m \in Msg
  BY WorkingMsg DEF Preserve, Is, WorkPC
<1>2. \A n : Drives(task[a], n) => n = m
  BY DriveFacts
<1>3. Goto(a, t) /\ UNCHANGED <<row, live, pending, held, pass, faulted>>
  BY DEF Preserve, rowVars, stateVars, gateVars, historyVars
<1>4. t.msg = m /\ (row[m] # "audit" => t.pc = "take") /\ "take" \in DrivePC
  BY <1>1 DEF Task, DrivePC
<1>. HIDE DEF t
<1>5. row[m] # "audit" => Drives(t, m)
  BY <1>4, DriveFacts
<1>. HIDE DEF m
<1>. QED BY <1>2, <1>3, <1>5, OneTaskQuietly

LEMMA StoreHeldOwned ==
  ASSUME TypeInv, NoStuckMessage, NEW a \in Actor, StoreHeld(a)
  PROVE  NoStuckMessage'
<1>1. \A n \in Msg : ~Drives(task[a], n)
  BY LoopDrivesNothing DEF StoreHeld, Is
<1>2. Goto(a, Rest(a)) /\ UNCHANGED <<row, live, pending, held, pass, faulted>>
  BY DEF StoreHeld, Return, stateVars, gateVars, historyVars
<1>3. live \subseteq Msg
  BY DEF TypeInv, TypeOK
<1>. QED BY <1>1, <1>2, <1>3, OneTaskQuietly

LEMMA TakeOwned ==
  ASSUME TypeInv, NoStuckMessage, NEW a \in Actor, Take(a)
  PROVE  NoStuckMessage'
<1> DEFINE m == task[a].msg
<1>1. \A n : Drives(task[a], n) => n = m
  BY DriveFacts
<1>2. live' = live \ {m} /\ UNCHANGED <<row, pending, held, pass, faulted>>
  BY DEF Take, rowVars, gateVars, historyVars
<1>3. PICK t : Goto(a, t)
  BY DEF Take, Return
<1>. HIDE DEF m
<1>. QED BY <1>1, <1>2, <1>3, OneTaskQuietly

LEMMA WriteOwned ==
  ASSUME TypeInv, NoStuckMessage, NEW a \in Actor, Write(a)
  PROVE  NoStuckMessage'
<1> DEFINE m == task[a].msg
<1>1. task[a] \in Task /\ m \in Msg /\ row \in [Msg -> Status] /\ live \subseteq Msg
  BY WorkingMsg DEF Write, Is, WorkPC, TypeInv, TypeOK
<1>2. \A n : Drives(task[a], n) => n = m
  BY DriveFacts
<1>3. UNCHANGED <<live, pending, held, pass, faulted>>
  BY DEF Write, stateVars, gateVars, historyVars
<1>4. row'[m] # "queued" /\ \A n \in Msg : n # m => row'[n] = row[n]
  <2>1. CASE RefusedByHold(m, task[a].outcome)
    BY <2>1 DEF Write, RefusedByHold, rowVars
  <2>2. CASE ~RefusedByHold(m, task[a].outcome)
    <3>1. row' = [row EXCEPT ![m] = task[a].outcome]
      BY <2>2 DEF Write
    <3>2. task[a].outcome # "queued"
      BY <1>1 DEF Task, Outcome
    <3>. HIDE DEF m
    <3>. QED BY <1>1, <3>1, <3>2
  <2>. QED BY <2>1, <2>2
<1>5. PICK t : Goto(a, t)
  BY DEF Write
<1>. HIDE DEF m
<1>6. \A n \in live' : row'[n] = "queued" =>
        \/ Drives(t, n) \/ pending'[n] # {} \/ held'[n] # NoPoint
        \/ /\ n \in live /\ row[n] = "queued"
           /\ pending[n] = {} /\ held[n] = NoPoint
           /\ ~Drives(task[a], n)
  BY <1>1, <1>2, <1>3, <1>4
<1>. QED BY <1>3, <1>5, <1>6, OneTaskMoves

LEMMA ClearOwned ==
  ASSUME TypeInv, Shape, NoStuckMessage, NEW a \in Actor, Clear(a)
  PROVE  NoStuckMessage'
<1> DEFINE m == task[a].msg
<1>1. m \in Msg /\ live \subseteq Msg /\ pending \in [Msg -> SUBSET Entry]
  BY WorkingMsg DEF Clear, Is, WorkPC, TypeInv, TypeOK, TrackerTypeOK
<1>2. \A n \in Msg : ~Drives(task[a], n)
  BY LoopDrivesNothing DEF Clear, Is
<1>3. Goto(a, Rest(a)) /\ UNCHANGED <<row, live, held, pass, faulted>>
  BY DEF Clear, Return, rowVars, stateVars, gateVars, historyVars
<1>4. row[m] # "queued"
  BY DEF Clear, Is, Shape, ClearDone
<1>5. pending' = [pending EXCEPT ![m] = {}]
  BY DEF Clear, ack
<1>. HIDE DEF m
<1>6. \A n \in live' : row'[n] = "queued" =>
        \/ Drives(Rest(a), n) \/ pending'[n] # {} \/ held'[n] # NoPoint
        \/ /\ n \in live /\ row[n] = "queued"
           /\ pending[n] = {} /\ held[n] = NoPoint
           /\ ~Drives(task[a], n)
  BY <1>1, <1>2, <1>3, <1>4, <1>5
<1>. QED BY <1>3, <1>6, OneTaskMoves

--------------------------------------------------------------------------------
(***************************************************************************)
(* Entering the pipeline, and the frames of the modules.                   *)
(***************************************************************************)
LEMMA IdleDrivesNothing == \A m \in Msg : ~Drives(Idle, m)
BY DEF Drives, Idle

LEMMA IngestOwned ==
  ASSUME TypeInv, NoStuckMessage, NEW m \in Msg, Ingest(m)
  PROVE  NoStuckMessage'
<1> DEFINE a == <<"ingest", m>>
           t == At("claim", m)
<1>1. /\ a \in Actor /\ row \in [Msg -> Status] /\ live \subseteq Msg
      /\ \A n \in Msg : ~Drives(task[a], n)
  BY ActorKinds, IdleDrivesNothing DEF Ingest, TypeInv, TypeOK
<1>2. /\ Goto(a, t) /\ row' = [row EXCEPT ![m] = "queued"]
      /\ UNCHANGED <<live, pending, held, pass, faulted>>
  BY DEF Ingest, stateVars, gateVars, historyVars
<1>3. Drives(t, m)
  <2>1. "pre_process" \in Stage /\ "complete" \in Outcome
    BY DEF Stage, Outcome
  <2>. QED BY <2>1, FreshDrives
<1>. HIDE DEF a, t
<1>4. \A n \in live' : row'[n] = "queued" =>
        \/ Drives(t, n) \/ pending'[n] # {} \/ held'[n] # NoPoint
        \/ /\ n \in live /\ row[n] = "queued"
           /\ pending[n] = {} /\ held[n] = NoPoint
           /\ ~Drives(task[a], n)
  BY <1>1, <1>2, <1>3
<1>. QED BY <1>1, <1>2, <1>4, OneTaskMoves

\* A step that leaves everything the owners are read from.
LEMMA NothingMoves ==
  ASSUME TypeInv, NoStuckMessage,
         UNCHANGED <<live, pending, held, task, pass>>,
         faulted \subseteq faulted',
         \A m \in live : row'[m] = "queued" => row[m] = "queued"
  PROVE  NoStuckMessage'
BY DEF NoStuckMessage, Owned

LEMMA RecoverOwned ==
  ASSUME TypeInv, NoStuckMessage, NEW m \in Msg, Recover(m) \/ RecoverFails(m)
  PROVE  NoStuckMessage'
<1>1. UNCHANGED <<row, live, pending, held, pass>> /\ faulted \subseteq faulted'
  BY DEF Recover, RecoverFails, rowVars, stateVars, gateVars, taskVars, historyVars
<1>2. CASE UNCHANGED task
  BY <1>1, <1>2, NothingMoves
<1>3. CASE Goto(Drain, At("claim", m)) /\ UNCHANGED faulted /\ task[Drain] = Idle
  <2>1. Drain \in Actor /\ live \subseteq Msg
    BY ActorKinds DEF TypeInv, TypeOK
  <2>2. \A n \in Msg : ~Drives(task[Drain], n)
    BY <1>3, IdleDrivesNothing
  <2>. QED BY <1>1, <1>3, <2>1, <2>2, OneTaskQuietly
<1>. QED BY <1>2, <1>3 DEF Recover, RecoverFails, taskVars, historyVars

LEMMA DrainStartOwned ==
  ASSUME TypeInv, NoStuckMessage, DrainStart
  PROVE  NoStuckMessage'
BY NothingMoves DEF DrainStart, rowVars, stateVars, gateVars, taskVars, historyVars

LEMMA FrameOwned ==
  ASSUME TypeInv, NoStuckMessage, NEW x \in Module, NEW m \in Msg,
         Echo(x, m) \/ Abandon(x, m)
  PROVE  NoStuckMessage'
<1> DEFINE a == <<"conn", x>>
<1>1. /\ a \in Actor /\ live \subseteq Msg
      /\ \A n \in Msg : ~Drives(task[a], n)
  BY ActorKinds, IdleDrivesNothing DEF Echo, Abandon, Ready, TypeInv, TypeOK
<1>2. UNCHANGED <<row, live, pending, held, pass, faulted>>
  BY DEF Echo, Abandon, rowVars, stateVars, gateVars, historyVars
<1>3. PICK t : Goto(a, t)
  BY DEF Echo, Abandon
<1>. HIDE DEF a
<1>. QED BY <1>1, <1>2, <1>3, OneTaskQuietly

LEMMA AckOwned ==
  ASSUME TypeInv, NoStuckMessage, NEW x \in Module, Ack(x)
  PROVE  NoStuckMessage'
<1> DEFINE a == <<"conn", x>>
           m == task[a].msg
           still == still_pending_after_ack(m, x)
<1>1. /\ a \in Actor /\ m \in Msg /\ live \subseteq Msg
      /\ pending \in [Msg -> SUBSET Entry]
  BY ActorKinds, WorkingMsg DEF Ack, Is, WorkPC, TypeInv, TypeOK, TrackerTypeOK
<1>2. \A n \in Msg : ~Drives(task[a], n)
  BY LoopDrivesNothing DEF Ack, Is
<1>3. UNCHANGED <<row, live, held, pass, faulted>>
  BY DEF Ack, rowVars, stateVars, gateVars, historyVars
<1>4. pending' = [pending EXCEPT ![m] = @ \ EntriesOf(m, x)]
  BY DEF Ack, ack_module
<1>5. EntriesOf(m, x) \subseteq pending[m]
  BY DEF EntriesOf
<1>6. /\ \A n \in Msg : n # m => pending'[n] = pending[n]
      /\ pending'[m] = pending[m] \ EntriesOf(m, x)
  BY <1>1, <1>4
<1>7. /\ Drives(At("bump", m), m)
      /\ Drives(AtStage("gate", m, "in_process"), m)
      /\ Drives(Ending(m, "complete"), m)
  <2>1. "in_process" \in Stage /\ "complete" \in Outcome
    BY DEF Stage, Outcome
  <2>. QED BY <1>1, <2>1, FreshDrives
<1>8. ASSUME NEW t, Goto(a, t),
             \/ Drives(t, m)
             \/ EntriesOf(m, x) = {}
             \/ still
      PROVE  NoStuckMessage'
  <2>1. still => pending[m] # EntriesOf(m, x)
    BY DEF still_pending_after_ack
  <2>. HIDE DEF m, a, still
  <2>2. \A n \in live' : row'[n] = "queued" =>
          \/ Drives(t, n) \/ pending'[n] # {} \/ held'[n] # NoPoint
          \/ /\ n \in live /\ row[n] = "queued"
             /\ pending[n] = {} /\ held[n] = NoPoint
             /\ ~Drives(task[a], n)
    BY <1>1, <1>2, <1>3, <1>5, <1>6, <1>8, <2>1
  <2>. QED BY <1>1, <1>3, <1>8, <2>2, OneTaskMoves
<1>9. CASE EntriesOf(m, x) = {} /\ Return(a)
  BY <1>8, <1>9 DEF Return
<1>10. ASSUME NEW e \in EntriesOf(m, x),
              CASE e.stage = "in_process" -> Goto(a, At("bump", m))
                [] e.stage # "in_process" /\ still -> Return(a)
                [] e.stage = "pre_process" /\ ~still ->
                     Goto(a, AtStage("gate", m, "in_process"))
                [] e.stage = "post_process" /\ ~still ->
                     Goto(a, Ending(m, "complete"))
       PROVE  NoStuckMessage'
  <2>1. e.stage \in {"pre_process", "in_process", "post_process"}
    BY <1>1, <1>5 DEF Entry, Stage
  <2>. HIDE DEF still
  <2>2. CASE e.stage = "in_process"
    <3>1. Goto(a, At("bump", m))
      BY <1>10, <2>2
    <3>. QED BY <1>7, <1>8, <3>1
  <2>3. CASE e.stage # "in_process" /\ still
    <3>1. Return(a)
      BY <1>10, <2>3
    <3>. QED BY <1>8, <2>3, <3>1 DEF Return
  <2>4. CASE e.stage = "pre_process" /\ ~still
    <3>1. Goto(a, AtStage("gate", m, "in_process"))
      BY <1>10, <2>4
    <3>. QED BY <1>7, <1>8, <3>1
  <2>5. CASE e.stage = "post_process" /\ ~still
    <3>1. Goto(a, Ending(m, "complete"))
      BY <1>10, <2>5
    <3>. QED BY <1>7, <1>8, <3>1
  <2>. QED BY <2>1, <2>2, <2>3, <2>4, <2>5
<1>. QED BY <1>9, <1>10 DEF Ack

\* Entries that change but do not go away.
LEMMA PendingStays ==
  ASSUME TypeInv, NoStuckMessage,
         UNCHANGED <<row, live, held, task, pass, faulted>>,
         \A m \in Msg : pending[m] # {} => pending'[m] # {}
  PROVE  NoStuckMessage'
<1>1. live \subseteq Msg
  BY DEF TypeInv, TypeOK
<1>. QED BY <1>1 DEF NoStuckMessage, Owned

LEMMA ReceiptOwned ==
  ASSUME TypeInv, NoStuckMessage, NEW x \in Module, NEW m \in Msg, Receipt(x, m)
  PROVE  NoStuckMessage'
<1>1. PICK e \in EntriesOf(m, x) :
        pending' = [pending EXCEPT ![m] = (@ \ {e}) \cup {[e EXCEPT !.receipt = TRUE]}]
  BY DEF Receipt, mark_receipt
<1>2. pending \in [Msg -> SUBSET Entry]
  BY DEF TypeInv, TypeOK, TrackerTypeOK
<1>3. \A n \in Msg : pending[n] # {} => pending'[n] # {}
  BY <1>1, <1>2
<1>. QED
  BY <1>3, PendingStays DEF Receipt, rowVars, stateVars, gateVars, taskVars, historyVars

LEMMA ElapseOwned ==
  ASSUME TypeInv, NoStuckMessage, NEW m \in Msg, Elapse(m)
  PROVE  NoStuckMessage'
<1>1. PICK e \in pending[m] :
        pending' = [pending EXCEPT ![m] = (@ \ {e}) \cup {[e EXCEPT !.clock = "expired"]}]
  BY DEF Elapse, RunOut
<1>2. pending \in [Msg -> SUBSET Entry]
  BY DEF TypeInv, TypeOK, TrackerTypeOK
<1>3. \A n \in Msg : pending[n] # {} => pending'[n] # {}
  BY <1>1, <1>2
<1>. QED
  BY <1>3, PendingStays DEF Elapse, rowVars, stateVars, gateVars, taskVars, historyVars

LEMMA AuditFlagOwned ==
  ASSUME TypeInv, NoStuckMessage, NEW x \in Module, NEW m \in Msg, AuditFlag(x, m)
  PROVE  NoStuckMessage'
<1>1. row \in [Msg -> Status] /\ row' = [row EXCEPT ![m] = "audit"] /\ live \subseteq Msg
  BY DEF AuditFlag, TypeInv, TypeOK
<1>2. \A n \in live : row'[n] = "queued" => row[n] = "queued"
  BY <1>1
<1>. QED
  BY <1>2, NothingMoves DEF AuditFlag, stateVars, gateVars, taskVars, historyVars

LEMMA ReleaseAuditOwned ==
  ASSUME TypeInv, NoStuckMessage, NEW m \in Msg, NEW approve \in BOOLEAN,
         release_audit(m, approve)
  PROVE  NoStuckMessage'
<1>1. /\ row \in [Msg -> Status] /\ live \subseteq Msg
      /\ row' = [row EXCEPT ![m] = IF approve THEN "complete" ELSE "failed"]
  BY DEF release_audit, TypeInv, TypeOK
<1>2. \A n \in live : row'[n] = "queued" => row[n] = "queued"
  BY <1>1
<1>. QED
  BY <1>2, NothingMoves DEF release_audit, stateVars, gateVars, taskVars

--------------------------------------------------------------------------------
(***************************************************************************)
(* The sweeps and the resumes.                                             *)
(***************************************************************************)
\* One sweeper moves and changes what it holds.
LEMMA OneSweeperMoves ==
  ASSUME TypeInv, NoStuckMessage, NEW s \in Sweeper, NEW t,
         Goto(SweepTask(s), t), UNCHANGED <<row, live>>,
         faulted \subseteq faulted',
         \A z \in Sweeper : z # s => pass'[z] = pass[z],
         \A m \in live : row[m] = "queued" =>
           \/ Drives(t, m) \/ pending'[m] # {} \/ held'[m] # NoPoint
           \/ Owes(pass'[s], m) \/ pass'[s].taken[m] # NoPoint
           \/ m \in faulted'
           \/ /\ pending[m] = {} /\ held[m] = NoPoint
              /\ ~Drives(task[SweepTask(s)], m)
              /\ ~Owes(pass[s], m) /\ pass[s].taken[m] = NoPoint
  PROVE  NoStuckMessage'
<1> DEFINE a == SweepTask(s)
<1>. SUFFICES ASSUME NEW m \in live, row[m] = "queued", m \notin faulted'
              PROVE  Owned(m)'
  BY DEF NoStuckMessage
<1>1. /\ a \in Actor /\ task' = [task EXCEPT ![a] = t] /\ task \in [Actor -> Task]
  BY ActorKinds DEF Goto, TypeInv, TypeOK
<1>2. CASE Drives(t, m)
  <2>1. task'[a] = t
    BY <1>1
  <2>2. Drives(task'[a], m)
    BY <1>2, <2>1
  <2>. QED BY <1>1, <2>2 DEF Owned
<1>3. CASE \/ pending'[m] # {} \/ held'[m] # NoPoint
           \/ Owes(pass'[s], m) \/ pass'[s].taken[m] # NoPoint
  BY <1>3 DEF Owned
<1>4. CASE /\ pending[m] = {} /\ held[m] = NoPoint
           /\ ~Drives(task[a], m)
           /\ ~Owes(pass[s], m) /\ pass[s].taken[m] = NoPoint
  <2>1. Owned(m)
    BY DEF NoStuckMessage
  <2>2. CASE \E b \in Actor : Drives(task[b], m)
    <3>1. PICK b \in Actor : Drives(task[b], m)
      BY <2>2
    <3>2. b # a
      BY <3>1, <1>4
    <3>3. task'[b] = task[b]
      BY <1>1, <3>2
    <3>4. Drives(task'[b], m)
      BY <3>1, <3>3
    <3>. QED BY <3>4 DEF Owned
  <2>3. CASE \E z \in Sweeper : Owes(pass[z], m) \/ pass[z].taken[m] # NoPoint
    <3>1. PICK z \in Sweeper : Owes(pass[z], m) \/ pass[z].taken[m] # NoPoint
      BY <2>3
    <3>2. z # s
      BY <1>4, <3>1
    <3>3. Owes(pass'[z], m) \/ pass'[z].taken[m] # NoPoint
      BY <3>1, <3>2
    <3>. QED BY <3>3 DEF Owned
  <2>. QED BY <1>4, <2>1, <2>2, <2>3 DEF Owned
<1>. QED BY <1>2, <1>3, <1>4

\* A sweeper moves without touching what it holds.
LEMMA SweeperQuietly ==
  ASSUME TypeInv, NoStuckMessage, NEW s \in Sweeper, NEW t,
         Goto(SweepTask(s), t), UNCHANGED <<row, live, pending, held, pass, faulted>>,
         task[SweepTask(s)].pc \in OutsideLoop \cup {"ack", "sweep", "store", "clear"}
  PROVE  NoStuckMessage'
<1>1. SweepTask(s) \in Actor /\ live \subseteq Msg
  BY ActorKinds DEF TypeInv, TypeOK
<1>2. \A m \in Msg : ~Drives(task[SweepTask(s)], m)
  BY LoopDrivesNothing
<1>. QED BY <1>1, <1>2, OneTaskQuietly

LEMMA SweepTickOwned ==
  ASSUME TypeInv, NoStuckMessage, SweepTick
  PROVE  NoStuckMessage'
<1>1. task[SweepTask("timer")].pc \in OutsideLoop /\ "timer" \in Sweeper
  BY ActorKinds DEF SweepTick, Idle, OutsideLoop
<1>2. UNCHANGED <<row, live, pending, held, pass, faulted>>
  BY DEF SweepTick, rowVars, stateVars, gateVars, historyVars
<1>. QED BY <1>1, <1>2, SweeperQuietly DEF SweepTick

LEMMA SweepDrainOwned ==
  ASSUME TypeInv, Shape, NoStuckMessage, NEW s \in Sweeper, SweepDrain(s)
  PROVE  NoStuckMessage'
<1> DEFINE critical == {d.msg : d \in {c \in ExpiredEntries : c.entry.mod \in Critical}}
<1>1. task[SweepTask(s)].pc = "drain" /\ pass[s] \in Pass /\ live \subseteq Msg
  BY PassFields DEF SweepDrain, Is, TypeInv, TypeOK
<1>2. /\ pass[s].queue = {} /\ pass[s].resent = {}
      /\ pass[s].failed = {} /\ pass[s].advanced = {}
  BY <1>1 DEF Shape, PassShape, OutsideLoop
<1>3. /\ Goto(SweepTask(s), [Idle EXCEPT !.pc = "sweep"])
      /\ UNCHANGED <<row, live, held, faulted>>
      /\ pending' = [m \in Msg |-> {e \in pending[m] : ~Expired(e)}]
  BY DEF SweepDrain, check_timeouts, rowVars, stateVars, gateVars, historyVars
<1>4. pass' = [pass EXCEPT ![s] = [@ EXCEPT !.queue = ExpiredEntries,
                                            !.critical = critical]]
  BY DEF SweepDrain, TypeInv, TypeOK, Pass
<1>. HIDE DEF critical
<1>5. /\ pass'[s].queue = ExpiredEntries /\ pass'[s].critical = critical
      /\ pass'[s].resent = {} /\ pass'[s].failed = {} /\ pass'[s].advanced = {}
      /\ pass'[s].taken = pass[s].taken
      /\ \A z \in Sweeper : z # s => pass'[z] = pass[z]
  <2>1. pass \in [Sweeper -> Pass]
    BY DEF TypeInv, TypeOK
  <2>. QED BY <1>1, <1>2, <1>4, <2>1 DEF Pass
<1>6. ASSUME NEW m \in Msg, pending[m] # {}, pending'[m] = {}
      PROVE  Owes(pass'[s], m)
  <2>1. \A e \in pending[m] : Expired(e)
    BY <1>3, <1>6
  <2>2. PICK e \in pending[m] : TRUE
    BY <1>6
  <2> DEFINE d == [msg |-> m, entry |-> e,
                   still |-> \E fresh \in pending[m] : ~Expired(fresh)]
  <2>3. d \in ExpiredEntries
    <3> DEFINE of(n) ==
          { [msg |-> n, entry |-> f,
             still |-> \E fresh \in pending[n] : ~Expired(fresh)]
            : f \in {c \in pending[n] : Expired(c)} }
    <3>1. d \in of(m)
      BY <2>1, <2>2
    <3>2. ExpiredEntries = UNION {of(n) : n \in Msg}
      BY DEF ExpiredEntries
    <3>. HIDE DEF d, of
    <3>. QED BY <3>1, <3>2
  <2>4. d.msg = m /\ ~d.still
    BY <2>1
  <2>. HIDE DEF d
  <2>5. CASE m \notin critical
    BY <1>5, <2>3, <2>4, <2>5 DEF Owes
  <2>6. CASE m \in critical
    <3>1. PICK c \in ExpiredEntries : c.msg = m /\ c.entry.mod \in Critical
      BY <2>6 DEF critical
    <3>. QED BY <1>5, <2>6, <3>1 DEF Owes
  <2>. QED BY <2>5, <2>6
<1>7. \A m \in Msg : ~Drives(task[SweepTask(s)], m) /\ ~Owes(pass[s], m)
  <2>1. \A m \in Msg : ~Drives(task[SweepTask(s)], m)
    BY <1>1, LoopDrivesNothing DEF OutsideLoop
  <2>. QED BY <1>2, <2>1 DEF Owes
<1>8. \A m \in live : row[m] = "queued" =>
           \/ pending'[m] # {} \/ held'[m] # NoPoint
           \/ Owes(pass'[s], m) \/ pass'[s].taken[m] # NoPoint
           \/ /\ pending[m] = {} /\ held[m] = NoPoint
              /\ ~Drives(task[SweepTask(s)], m)
              /\ ~Owes(pass[s], m) /\ pass[s].taken[m] = NoPoint
  BY <1>1, <1>3, <1>5, <1>6, <1>7
<1>. QED BY <1>3, <1>5, <1>8, OneSweeperMoves

LEMMA ResendOwned ==
  ASSUME TypeInv, NoStuckMessage, NEW s \in Sweeper, Resend(s)
  PROVE  NoStuckMessage'
<1>1. PICK d \in pass[s].queue :
        /\ pass' = [pass EXCEPT ![s].queue = @ \ {d}]
        /\ Goto(SweepTask(s), [AtStage("retrack", d.msg, d.entry.stage) EXCEPT
                                 !.mod = d.entry.mod,
                                 !.resends = d.entry.resends])
  BY DEF Resend
<1> DEFINE b == AtStage("retrack", d.msg, d.entry.stage)
           t == [b EXCEPT !.mod = d.entry.mod, !.resends = d.entry.resends]
<1>2. /\ d.msg \in Msg /\ d.entry.stage \in Stage /\ pass[s] \in Pass
      /\ pass \in [Sweeper -> Pass] /\ live \subseteq Msg
  BY PassFields DEF TypeInv, TypeOK
<1>3. Drives(t, d.msg)
  <2>1. b.pc = "retrack" /\ b.msg = d.msg
    BY DEF AtStage, At, Idle
  <2>2. b \in Task
    <3>1. "retrack" \in PC
      BY DEF PC
    <3>. QED BY <1>2, <3>1, FreshTasks
  <2>. HIDE DEF b
  <2>3. t.pc = "retrack" /\ t.msg = d.msg
    BY <2>1, <2>2 DEF Task
  <2>. HIDE DEF t
  <2>4. "retrack" \in DrivePC
    BY DEF DrivePC
  <2>. QED BY <2>3, <2>4, DriveFacts
<1>4. /\ pass'[s].queue = pass[s].queue \ {d}
      /\ pass'[s].critical = pass[s].critical /\ pass'[s].resent = pass[s].resent
      /\ pass'[s].failed = pass[s].failed /\ pass'[s].advanced = pass[s].advanced
      /\ pass'[s].taken = pass[s].taken
      /\ \A z \in Sweeper : z # s => pass'[z] = pass[z]
  BY <1>1, <1>2 DEF Pass
<1>5. \A m \in Msg : m # d.msg /\ Owes(pass[s], m) => Owes(pass'[s], m)
  BY <1>4 DEF Owes
<1>6. /\ Goto(SweepTask(s), t)
      /\ UNCHANGED <<row, live, pending, held, faulted>>
  BY <1>1 DEF Resend, rowVars, stateVars, gateVars, historyVars
<1>7. \A m \in Msg : ~Drives(task[SweepTask(s)], m)
  BY LoopDrivesNothing DEF Resend, Is
<1>. HIDE DEF t
<1>8. \A m \in live : row[m] = "queued" =>
           \/ Drives(t, m) \/ pending'[m] # {} \/ held'[m] # NoPoint
           \/ Owes(pass'[s], m) \/ pass'[s].taken[m] # NoPoint
           \/ /\ pending[m] = {} /\ held[m] = NoPoint
              /\ ~Drives(task[SweepTask(s)], m)
              /\ ~Owes(pass[s], m) /\ pass[s].taken[m] = NoPoint
  BY <1>2, <1>3, <1>4, <1>5, <1>6, <1>7
<1>. QED BY <1>4, <1>6, <1>8, OneSweeperMoves

LEMMA ReTrackOwned ==
  ASSUME TypeInv, NoStuckMessage, NEW s \in Sweeper, ReTrack(s)
  PROVE  NoStuckMessage'
<1> DEFINE a == SweepTask(s)
           n == task[a].msg
<1>1. /\ a \in Actor /\ n \in Msg /\ pass[s] \in Pass /\ live \subseteq Msg
      /\ pass \in [Sweeper -> Pass] /\ pending \in [Msg -> SUBSET Entry]
  BY ActorKinds, WorkingMsg, PassFields
     DEF ReTrack, Is, WorkPC, TypeInv, TypeOK, TrackerTypeOK
<1>2. \A m : Drives(task[a], m) => m = n
  BY DriveFacts
<1>3. /\ Goto(a, Rest(a)) /\ UNCHANGED <<row, live, held, faulted>>
      /\ pass' = [pass EXCEPT ![s].resent = @ \cup {n}]
  BY DEF ReTrack, Return, rowVars, stateVars, gateVars, historyVars
<1>4. pending' = [pending EXCEPT ![n] = @ \cup
                    {NewEntry(task[a].stage, task[a].mod, task[a].resends + 1)}]
  BY DEF ReTrack, re_track
<1>. HIDE DEF n
<1>5. pending'[n] # {} /\ \A m \in Msg : m # n => pending'[m] = pending[m]
  BY <1>1, <1>4
<1>6. /\ pass'[s].queue = pass[s].queue
      /\ pass'[s].critical = pass[s].critical
      /\ pass'[s].resent = pass[s].resent \cup {n}
      /\ pass'[s].failed = pass[s].failed /\ pass'[s].advanced = pass[s].advanced
      /\ pass'[s].taken = pass[s].taken
      /\ \A z \in Sweeper : z # s => pass'[z] = pass[z]
  BY <1>1, <1>3 DEF Pass
<1>7. \A m \in Msg : m # n /\ Owes(pass[s], m) => Owes(pass'[s], m)
  BY <1>6 DEF Owes
<1>8. \A m \in live : row[m] = "queued" =>
           \/ pending'[m] # {} \/ held'[m] # NoPoint
           \/ Owes(pass'[s], m) \/ pass'[s].taken[m] # NoPoint
           \/ /\ pending[m] = {} /\ held[m] = NoPoint
              /\ ~Drives(task[a], m)
              /\ ~Owes(pass[s], m) /\ pass[s].taken[m] = NoPoint
  BY <1>1, <1>2, <1>3, <1>5, <1>6, <1>7
<1>. QED BY <1>3, <1>6, <1>8, OneSweeperMoves

\* An entry that neither fails nor advances its message did not decide alone
\* what becomes of it.
LEMMA TimeOutOwned ==
  ASSUME TypeInv, NoStuckMessage, NEW s \in Sweeper, TimeOut(s)
  PROVE  NoStuckMessage'
<1> DEFINE a == SweepTask(s)
<1>1. PICK d \in pass[s].queue :
       \/ /\ pass' = [pass EXCEPT ![s].queue = @ \ {d},
                                  ![s].failed = @ \cup {d.msg}]
          /\ Goto(a, Ending(d.msg, "failed"))
       \/ /\ pass' = [pass EXCEPT ![s].queue = @ \ {d},
                                  ![s].advanced = @ \cup {d.msg}]
          /\ Goto(a, AfterTimeout(d))
       \/ /\ ~FailsMessage(s, d)
          /\ ~MayAdvance(s, d)
          /\ pass' = [pass EXCEPT ![s].queue = @ \ {d}]
          /\ UNCHANGED task
  BY DEF TimeOut
<1>2. /\ d.msg \in Msg /\ d.entry.stage \in Stage /\ pass[s] \in Pass
      /\ pass \in [Sweeper -> Pass] /\ live \subseteq Msg
      /\ a \in Actor /\ task \in [Actor -> Task]
  BY PassFields, ActorKinds DEF TypeInv, TypeOK
<1>3. /\ UNCHANGED <<row, live, pending, held, faulted>>
      /\ task[a].pc = "sweep"
  BY DEF TimeOut, Is, rowVars, stateVars, gateVars, historyVars
<1>4. \A m \in Msg : ~Drives(task[a], m)
  BY <1>3, LoopDrivesNothing
<1>5. Drives(Ending(d.msg, "failed"), d.msg) /\ Drives(AfterTimeout(d), d.msg)
  <2>1. /\ "failed" \in Outcome /\ "complete" \in Outcome
        /\ "pre_process" \in Stage /\ "in_process" \in Stage
    BY DEF Outcome, Stage
  <2>2. /\ Drives(Ending(d.msg, "failed"), d.msg)
        /\ Drives(Ending(d.msg, "complete"), d.msg)
        /\ Drives(At("bump", d.msg), d.msg)
        /\ Drives(AtStage("gate", d.msg, "in_process"), d.msg)
    BY <1>2, <2>1, FreshDrives
  <2>3. CASE d.entry.stage = "pre_process"
    BY <2>2, <2>3 DEF AfterTimeout
  <2>4. CASE d.entry.stage = "in_process"
    BY <2>2, <2>4 DEF AfterTimeout
  <2>5. CASE d.entry.stage = "post_process"
    BY <2>2, <2>5 DEF AfterTimeout
  <2>. QED BY <1>2, <2>2, <2>3, <2>4, <2>5 DEF Stage
<1>6. ASSUME NEW t, Goto(a, t),
             \A z \in Sweeper : z # s => pass'[z] = pass[z],
             pass'[s].taken = pass[s].taken,
             \A m \in Msg : Owes(pass[s], m) => Owes(pass'[s], m) \/ Drives(t, m)
      PROVE  NoStuckMessage'
  <2>1. \A m \in live : row[m] = "queued" =>
           \/ Drives(t, m) \/ pending'[m] # {} \/ held'[m] # NoPoint
           \/ Owes(pass'[s], m) \/ pass'[s].taken[m] # NoPoint
           \/ /\ pending[m] = {} /\ held[m] = NoPoint
              /\ ~Drives(task[a], m)
              /\ ~Owes(pass[s], m) /\ pass[s].taken[m] = NoPoint
    BY <1>2, <1>3, <1>4, <1>6
  <2>. QED BY <1>3, <1>6, <2>1, OneSweeperMoves
<1>7. CASE /\ pass' = [pass EXCEPT ![s].queue = @ \ {d}, ![s].failed = @ \cup {d.msg}]
           /\ Goto(a, Ending(d.msg, "failed"))
  <2>1. /\ pass'[s].queue = pass[s].queue \ {d}
        /\ pass'[s].critical = pass[s].critical /\ pass'[s].resent = pass[s].resent
        /\ pass'[s].failed = pass[s].failed \cup {d.msg}
        /\ pass'[s].advanced = pass[s].advanced /\ pass'[s].taken = pass[s].taken
        /\ \A z \in Sweeper : z # s => pass'[z] = pass[z]
    BY <1>2, <1>7 DEF Pass
  <2>2. \A m \in Msg : m # d.msg /\ Owes(pass[s], m) => Owes(pass'[s], m)
    BY <2>1 DEF Owes
  <2>. QED BY <1>5, <1>6, <1>7, <2>1, <2>2
<1>8. CASE /\ pass' = [pass EXCEPT ![s].queue = @ \ {d}, ![s].advanced = @ \cup {d.msg}]
           /\ Goto(a, AfterTimeout(d))
  <2>1. /\ pass'[s].queue = pass[s].queue \ {d}
        /\ pass'[s].critical = pass[s].critical /\ pass'[s].resent = pass[s].resent
        /\ pass'[s].advanced = pass[s].advanced \cup {d.msg}
        /\ pass'[s].failed = pass[s].failed /\ pass'[s].taken = pass[s].taken
        /\ \A z \in Sweeper : z # s => pass'[z] = pass[z]
    BY <1>2, <1>8 DEF Pass
  <2>2. \A m \in Msg : m # d.msg /\ Owes(pass[s], m) => Owes(pass'[s], m)
    BY <2>1 DEF Owes
  <2>. QED BY <1>5, <1>6, <1>8, <2>1, <2>2
<1>9. CASE /\ ~FailsMessage(s, d)
           /\ ~MayAdvance(s, d)
           /\ pass' = [pass EXCEPT ![s].queue = @ \ {d}]
           /\ UNCHANGED task
  <2>1. /\ pass'[s].queue = pass[s].queue \ {d}
        /\ pass'[s].critical = pass[s].critical /\ pass'[s].resent = pass[s].resent
        /\ pass'[s].failed = pass[s].failed /\ pass'[s].advanced = pass[s].advanced
        /\ pass'[s].taken = pass[s].taken
        /\ \A z \in Sweeper : z # s => pass'[z] = pass[z]
    BY <1>2, <1>9 DEF Pass
  <2>2. Goto(a, task[a])
    BY <1>2, <1>9 DEF Goto
  <2>3. \A m \in Msg : Owes(pass[s], m) => Owes(pass'[s], m)
    <3>. SUFFICES ASSUME NEW m \in Msg, Owes(pass[s], m) PROVE Owes(pass'[s], m)
      OBVIOUS
    <3>1. /\ m \notin pass[s].resent \cup pass[s].failed \cup pass[s].advanced
          /\ \E c \in pass[s].queue :
               /\ c.msg = m
               /\ IF m \in pass[s].critical THEN c.entry.mod \in Critical ELSE ~c.still
      BY DEF Owes
    <3>2. PICK c \in pass[s].queue :
            /\ c.msg = m
            /\ IF m \in pass[s].critical THEN c.entry.mod \in Critical ELSE ~c.still
      BY <3>1
    <3>3. c # d
      BY <1>9, <3>1, <3>2 DEF FailsMessage, MayAdvance
    <3>4. c \in pass'[s].queue
      BY <2>1, <3>3
    <3>. QED BY <2>1, <3>1, <3>2, <3>4 DEF Owes
  <2>. QED BY <1>6, <2>1, <2>2, <2>3
<1>. QED BY <1>1, <1>7, <1>8, <1>9

LEMMA SweepEndOwned ==
  ASSUME TypeInv, NoStuckMessage, NEW s \in Sweeper, SweepEnd(s)
  PROVE  NoStuckMessage'
<1>1. pass[s] \in Pass /\ pass \in [Sweeper -> Pass] /\ live \subseteq Msg
  BY PassFields DEF TypeInv, TypeOK
<1>2. /\ Goto(SweepTask(s), AfterSweep(s))
      /\ UNCHANGED <<row, live, pending, held, faulted>>
      /\ pass[s].queue = {} /\ task[SweepTask(s)].pc = "sweep"
      /\ pass' = [pass EXCEPT ![s] = [NoPass EXCEPT !.taken = pass[s].taken]]
  BY DEF SweepEnd, Is, rowVars, stateVars, gateVars, historyVars
<1>3. \A m \in Msg : ~Drives(task[SweepTask(s)], m) /\ ~Owes(pass[s], m)
  <2>1. \A m \in Msg : ~Drives(task[SweepTask(s)], m)
    BY <1>2, LoopDrivesNothing
  <2>. QED BY <1>2, <2>1 DEF Owes
<1>4. /\ pass'[s].taken = pass[s].taken
      /\ \A z \in Sweeper : z # s => pass'[z] = pass[z]
  BY <1>1, <1>2 DEF NoPass
<1>5. \A m \in live : row[m] = "queued" =>
           \/ pending'[m] # {} \/ held'[m] # NoPoint
           \/ pass'[s].taken[m] # NoPoint
           \/ /\ pending[m] = {} /\ held[m] = NoPoint
              /\ ~Drives(task[SweepTask(s)], m)
              /\ ~Owes(pass[s], m) /\ pass[s].taken[m] = NoPoint
  BY <1>1, <1>2, <1>3, <1>4
<1>. QED BY <1>2, <1>4, <1>5, OneSweeperMoves

LEMMA ControlOwned ==
  ASSUME TypeInv, NoStuckMessage, PauseRequest \/ ResumeRequest \/ ControlStep
  PROVE  NoStuckMessage'
<1>1. "control" \in Sweeper
  BY DEF Sweeper, Resumer
<1>2. UNCHANGED <<row, live, pending, held, pass, faulted>>
  BY DEF PauseRequest, ResumeRequest, ControlStep, Pause, DeferPause, DeferResume,
     pause, defer_pause, defer_resume, rowVars, stateVars, gateVars, historyVars
<1>3. task[SweepTask("control")].pc \in OutsideLoop
  BY DEF PauseRequest, ResumeRequest, ControlStep, Pause, DeferPause, DeferResume,
     Free, Is, Idle, OutsideLoop
<1>4. PICK t : Goto(SweepTask("control"), t)
  BY DEF PauseRequest, ResumeRequest, ControlStep, Pause, DeferPause, DeferResume
<1>. QED BY <1>1, <1>2, <1>3, <1>4, SweeperQuietly

LEMMA DependencyOwned ==
  ASSUME TypeInv, NoStuckMessage, NEW r \in BlockedReason,
         DependencyDown(r) \/ DependencyUp(r)
  PROVE  NoStuckMessage'
<1>1. CASE DependencyDown(r)
  BY <1>1, NothingMoves DEF DependencyDown, set_block, rowVars, stateVars,
     taskVars, historyVars
<1>2. CASE DependencyUp(r)
  <2>1. r \in Sweeper
    BY ActorKinds DEF Resumer
  <2>2. UNCHANGED <<row, live, pending, held, pass, faulted>>
    BY <1>2 DEF DependencyUp, clear_block, rowVars, stateVars, historyVars
  <2>3. task[SweepTask(r)].pc \in OutsideLoop
    BY <1>2 DEF DependencyUp, Free, Idle, OutsideLoop
  <2>4. PICK t : Goto(SweepTask(r), t)
    BY <1>2 DEF DependencyUp
  <2>. QED BY <2>1, <2>2, <2>3, <2>4, SweeperQuietly
<1>. QED BY <1>1, <1>2

LEMMA ResumeOwned ==
  ASSUME TypeInv, Shape, NoStuckMessage, NEW r \in Resumer, Resume(r)
  PROVE  NoStuckMessage'
<1>1. /\ r \in Sweeper /\ pass[r] \in Pass /\ pass \in [Sweeper -> Pass]
      /\ live \subseteq Msg
  BY ActorKinds, PassFields DEF TypeInv, TypeOK
<1>2. /\ Goto(SweepTask(r), [Idle EXCEPT !.pc = "restart"])
      /\ UNCHANGED <<row, live, pending, faulted>>
      /\ task[SweepTask(r)].pc = "resume"
      /\ pass' = [pass EXCEPT ![r].taken = held]
  BY DEF Resume, Is, rowVars, stateVars, historyVars
<1>3. pass[r].taken = NothingTaken /\ pass[r].queue = {}
  BY <1>1, <1>2 DEF Shape, PassShape, OutsideLoop, OutsideResume
<1>4. \A m \in Msg :
        /\ ~Drives(task[SweepTask(r)], m) /\ ~Owes(pass[r], m)
        /\ pass[r].taken[m] = NoPoint
  <2>1. \A m \in Msg : ~Drives(task[SweepTask(r)], m)
    BY <1>2, LoopDrivesNothing DEF OutsideLoop
  <2>2. \A m \in Msg : pass[r].taken[m] = NoPoint
    BY <1>3 DEF NothingTaken
  <2>. QED BY <1>3, <2>1, <2>2 DEF Owes
<1>5. /\ pass'[r].taken = held
      /\ \A z \in Sweeper : z # r => pass'[z] = pass[z]
  BY <1>1, <1>2 DEF Pass
<1>6. \A m \in live : row[m] = "queued" =>
           \/ pending'[m] # {} \/ pass'[r].taken[m] # NoPoint
           \/ /\ pending[m] = {} /\ held[m] = NoPoint
              /\ ~Drives(task[SweepTask(r)], m)
              /\ ~Owes(pass[r], m) /\ pass[r].taken[m] = NoPoint
  BY <1>1, <1>2, <1>4, <1>5
<1>. QED BY <1>1, <1>2, <1>5, <1>6, OneSweeperMoves

LEMMA RestartClocksOwned ==
  ASSUME TypeInv, NoStuckMessage, NEW r \in Resumer, RestartClocks(r)
  PROVE  NoStuckMessage'
<1> DEFINE a == SweepTask(r)
           t == [Idle EXCEPT !.pc = "check"]
<1>1. a \in Actor /\ live \subseteq Msg
  BY ActorKinds DEF TypeInv, TypeOK
<1>2. /\ Goto(a, t) /\ UNCHANGED <<row, live, held, pass, faulted>>
      /\ task[a].pc = "restart"
      /\ pending' = [m \in Msg |-> {[e EXCEPT !.clock = "live"] : e \in pending[m]}]
  BY DEF RestartClocks, restart_clocks, Is, rowVars, stateVars, gateVars, historyVars
<1>3. \A m \in Msg : ~Drives(task[a], m)
  BY <1>2, LoopDrivesNothing DEF OutsideLoop
<1>4. \A m \in Msg : pending[m] # {} => pending'[m] # {}
  BY <1>2
<1>. HIDE DEF a, t
<1>5. \A m \in live' : row'[m] = "queued" =>
        \/ pending'[m] # {} \/ held'[m] # NoPoint
        \/ /\ m \in live /\ row[m] = "queued"
           /\ pending[m] = {} /\ held[m] = NoPoint
           /\ ~Drives(task[a], m)
  BY <1>1, <1>2, <1>3, <1>4
<1>. QED BY <1>1, <1>2, <1>5, OneTaskMoves

LEMMA ResumeSweepOwned ==
  ASSUME TypeInv, NoStuckMessage, NEW r \in Resumer, ResumeSweep(r)
  PROVE  NoStuckMessage'
<1>1. r \in Sweeper /\ task[SweepTask(r)].pc \in OutsideLoop
  BY ActorKinds DEF ResumeSweep, Is, OutsideLoop
<1>2. UNCHANGED <<row, live, pending, held, pass, faulted>>
  BY DEF ResumeSweep, rowVars, stateVars, gateVars, historyVars
<1>3. PICK t : Goto(SweepTask(r), t)
  BY DEF ResumeSweep
<1>. QED BY <1>1, <1>2, <1>3, SweeperQuietly

\* Everything a resume took is owned by its replay.
LEMMA SpawnOwned ==
  ASSUME TypeInv, Shape, NoStuckMessage, NEW r \in Resumer, Spawn(r)
  PROVE  NoStuckMessage'
<1> DEFINE taken == pass[r].taken
<1>1. /\ r \in Sweeper /\ live \subseteq Msg /\ pass \in [Sweeper -> Pass]
      /\ taken \in [Msg -> HoldPoint \cup {NoPoint}]
  BY ActorKinds, PassFields DEF TypeInv, TypeOK, Pass
<1>2. /\ UNCHANGED <<row, live, pending, held, faulted>>
      /\ task[SweepTask(r)].pc = "spawn"
      /\ pass' = [pass EXCEPT ![r] = NoPass]
      /\ \A m \in Released(taken) : task[<<"replay", m>>] = Idle
  BY DEF Spawn, Is, rowVars, stateVars, gateVars, historyVars
<1>3. pass[r].queue = {}
  BY <1>1, <1>2 DEF Shape, PassShape, OutsideLoop
<1>. SUFFICES ASSUME NEW m \in live, row[m] = "queued", m \notin faulted
              PROVE  Owned(m)'
  BY <1>2 DEF NoStuckMessage
<1>4. Owned(m)
  BY DEF NoStuckMessage
<1>5. CASE pending[m] # {} \/ held[m] # NoPoint
  BY <1>2, <1>5 DEF Owned
<1>6. CASE m \in Released(taken)
  <2> DEFINE a == <<"replay", m>>
  <2>1. a \in Actor /\ a # SweepTask(r) /\ a[1] = "replay" /\ a[2] = m
    BY ActorKinds, <1>1 DEF SweepTask
  <2>2. task'[a] = AtStage("gate", m, StageOf(taken[m]))
    BY <1>6, <2>1 DEF Spawn
  <2>3. Drives(task'[a], m)
    <3>1. taken[m] \in HoldPoint
      BY <1>1, <1>6 DEF Released
    <3>2. StageOf(taken[m]) \in Stage /\ "complete" \in Outcome
      BY <3>1 DEF StageOf, HoldPoint, Stage, Outcome
    <3>. QED BY <1>1, <2>2, <3>2, FreshDrives
  <2>. HIDE DEF a
  <2>. QED BY <2>1, <2>3 DEF Owned
<1>7. CASE m \notin Released(taken) /\ \E b \in Actor : Drives(task[b], m)
  <2>1. PICK b \in Actor : Drives(task[b], m)
    BY <1>7
  <2>2. b # SweepTask(r)
    BY <1>1, <1>2, <2>1, LoopDrivesNothing DEF OutsideLoop
  <2>3. ~(b[1] = "replay" /\ b[2] \in Released(taken))
    <3>1. SUFFICES ASSUME b[1] = "replay", b[2] \in Released(taken) PROVE FALSE
      OBVIOUS
    <3>2. b = <<"replay", b[2]>>
      BY <3>1 DEF Actor, Drain
    <3>3. task[b] = Idle
      BY <1>2, <3>1, <3>2
    <3>. QED BY <1>1, <2>1, <3>3, IdleDrivesNothing
  <2>4. task'[b] = task[b]
    BY <2>2, <2>3 DEF Spawn
  <2>5. Drives(task'[b], m)
    BY <2>1, <2>4
  <2>. QED BY <2>5 DEF Owned
<1>8. CASE /\ m \notin Released(taken)
           /\ \E s \in Sweeper : Owes(pass[s], m) \/ pass[s].taken[m] # NoPoint
  <2>1. PICK s \in Sweeper : Owes(pass[s], m) \/ pass[s].taken[m] # NoPoint
    BY <1>8
  <2>2. s # r
    BY <1>1, <1>3, <1>8, <2>1 DEF Released, Owes
  <2>3. pass'[s] = pass[s]
    BY <1>1, <1>2, <2>2
  <2>4. Owes(pass'[s], m) \/ pass'[s].taken[m] # NoPoint
    BY <2>1, <2>3
  <2>. QED BY <2>4 DEF Owned
<1>. QED BY <1>4, <1>5, <1>6, <1>7, <1>8 DEF Owned

--------------------------------------------------------------------------------
(***************************************************************************)
(* Failures: what a failing database call leaves without an owner is what  *)
(* faulted records.                                                        *)
(***************************************************************************)
LEMMA DbFailsOwned ==
  ASSUME TypeInv, NoStuckMessage, NEW a \in Actor, DbFails(a)
  PROVE  NoStuckMessage'
<1>1. /\ live \subseteq Msg /\ pass \in [Sweeper -> Pass]
      /\ \A n : Drives(task[a], n) => n = task[a].msg
  BY DriveFacts DEF TypeInv, TypeOK
<1>2. UNCHANGED <<row, live, pending, held>>
  BY DEF DbFails, rowVars, stateVars, gateVars
<1>3. CASE a[1] = "sweep"
  <2> DEFINE s == a[2]
             lost == {d.msg : d \in pass[s].queue}
  <2>1. s \in Sweeper /\ a = SweepTask(s)
    BY <1>3, SweepActor
  <2>2. /\ Goto(a, AfterSweep(s))
        /\ pass' = [pass EXCEPT ![s] = [NoPass EXCEPT !.taken = pass[s].taken]]
        /\ faulted' = faulted \cup {task[a].msg} \cup lost
    BY <1>3 DEF DbFails
  <2>3. \A m \in Msg : Owes(pass[s], m) => m \in lost
    BY DEF Owes
  <2>. HIDE DEF s, lost
  <2>4. /\ pass'[s].taken = pass[s].taken
        /\ \A z \in Sweeper : z # s => pass'[z] = pass[z]
    BY <1>1, <2>1, <2>2 DEF NoPass
  <2>5. \A m \in live : row[m] = "queued" =>
             \/ pending'[m] # {} \/ held'[m] # NoPoint
             \/ pass'[s].taken[m] # NoPoint
             \/ m \in faulted'
             \/ /\ pending[m] = {} /\ held[m] = NoPoint
                /\ ~Drives(task[SweepTask(s)], m)
                /\ ~Owes(pass[s], m) /\ pass[s].taken[m] = NoPoint
    BY <1>1, <1>2, <2>1, <2>2, <2>3, <2>4
  <2>. QED BY <1>2, <2>1, <2>2, <2>4, <2>5, OneSweeperMoves
<1>4. CASE a[1] # "sweep"
  <2>1. /\ Goto(a, Idle) /\ UNCHANGED pass
        /\ faulted' = faulted \cup {task[a].msg}
    BY <1>4 DEF DbFails
  <2>. SUFFICES ASSUME NEW m \in live, row[m] = "queued", m \notin faulted'
                PROVE  Owned(m)'
    BY <1>2 DEF NoStuckMessage
  <2>2. Owned(m)
    BY <2>1 DEF NoStuckMessage
  <2>3. CASE \E b \in Actor : Drives(task[b], m)
    <3>1. PICK b \in Actor : Drives(task[b], m)
      BY <2>3
    <3>2. b # a
      BY <1>1, <2>1, <3>1
    <3>3. task'[b] = task[b]
      BY <2>1, <3>2 DEF Goto, TypeInv, TypeOK
    <3>4. Drives(task'[b], m)
      BY <3>1, <3>3
    <3>. QED BY <3>4 DEF Owned
  <2>4. CASE \E s \in Sweeper : Owes(pass[s], m) \/ pass[s].taken[m] # NoPoint
    <3>1. PICK s \in Sweeper : Owes(pass[s], m) \/ pass[s].taken[m] # NoPoint
      BY <2>4
    <3>2. Owes(pass'[s], m) \/ pass'[s].taken[m] # NoPoint
      BY <2>1, <3>1
    <3>. QED BY <3>2 DEF Owned
  <2>. QED BY <1>2, <2>2, <2>3, <2>4 DEF Owned
<1>. QED BY <1>3, <1>4

LEMMA CrashOwned ==
  ASSUME Crash
  PROVE  NoStuckMessage'
BY DEF Crash, NoStuckMessage

--------------------------------------------------------------------------------
(***************************************************************************)
(* The shape of the sweeps.                                                *)
(***************************************************************************)
\* The rows that are not finished and not on review.
Unsettled == {"none", "queued"}

LEMMA ShapeSweeper ==
  ASSUME TypeInv, Shape, NEW s \in Sweeper, NEW t, Goto(SweepTask(s), t),
         UNCHANGED row,
         \A z \in Sweeper : z # s => pass'[z] = pass[z],
         t.pc = "clear" => row[t.msg] \notin Unsettled,
         t.pc \in OutsideLoop =>
           /\ pass'[s].queue = {} /\ pass'[s].resent = {}
           /\ pass'[s].failed = {} /\ pass'[s].advanced = {},
         t.pc \in OutsideResume => pass'[s].taken = NothingTaken,
         s = "timer" => pass'[s].taken = NothingTaken
  PROVE  Shape'
<1> DEFINE a == SweepTask(s)
<1>1. /\ a \in Actor /\ task' = [task EXCEPT ![a] = t] /\ task \in [Actor -> Task]
      /\ task'[a] = t
  BY ActorKinds DEF Goto, TypeInv, TypeOK
<1>2. \A z \in Sweeper : z # s => task'[SweepTask(z)] = task[SweepTask(z)]
  <2>1. \A z \in Sweeper : z # s => SweepTask(z) # a /\ SweepTask(z) \in Actor
    BY ActorKinds DEF SweepTask
  <2>. HIDE DEF a
  <2>. QED BY <1>1, <2>1
<1>3. PassShape'
  <2>. SUFFICES ASSUME NEW z \in Sweeper
                PROVE  /\ task'[SweepTask(z)].pc \in OutsideLoop =>
                            /\ pass'[z].queue = {}
                            /\ pass'[z].resent = {}
                            /\ pass'[z].failed = {}
                            /\ pass'[z].advanced = {}
                       /\ task'[SweepTask(z)].pc \in OutsideResume =>
                            pass'[z].taken = NothingTaken
                       /\ z = "timer" => pass'[z].taken = NothingTaken
    BY DEF PassShape
  <2>1. CASE z = s
    BY <1>1, <2>1
  <2>2. CASE z # s
    BY <1>2, <2>2 DEF Shape, PassShape
  <2>. QED BY <2>1, <2>2
<1>4. ClearDone'
  <2>. SUFFICES ASSUME NEW b \in Actor, task'[b].pc = "clear"
                PROVE  row[task'[b].msg] \notin {"none", "queued"}
    BY DEF ClearDone
  <2>1. CASE b = a
    BY <1>1, <2>1 DEF Unsettled
  <2>2. CASE b # a
    <3>1. task'[b] = task[b]
      BY <1>1, <2>2
    <3>. QED BY <3>1 DEF Shape, ClearDone
  <2>. QED BY <2>1, <2>2
<1>. QED BY <1>3, <1>4 DEF Shape

LEMMA ShapeMoves ==
  ASSUME TypeInv, Shape, NEW a \in Actor, NEW t, Goto(a, t), UNCHANGED pass,
         a[1] = "sweep" => t.pc \notin OutsideLoop,
         t.pc = "clear" => row'[t.msg] \notin Unsettled,
         \A m \in Msg : row[m] \notin Unsettled => row'[m] \notin Unsettled
  PROVE  Shape'
<1>1. /\ task' = [task EXCEPT ![a] = t] /\ task \in [Actor -> Task]
      /\ task'[a] = t
  BY DEF Goto, TypeInv, TypeOK
<1>2. PassShape'
  <2>. SUFFICES ASSUME NEW z \in Sweeper
                PROVE  /\ task'[SweepTask(z)].pc \in OutsideLoop =>
                            /\ pass[z].queue = {}
                            /\ pass[z].resent = {}
                            /\ pass[z].failed = {}
                            /\ pass[z].advanced = {}
                       /\ task'[SweepTask(z)].pc \in OutsideResume =>
                            pass[z].taken = NothingTaken
                       /\ z = "timer" => pass[z].taken = NothingTaken
    BY DEF PassShape
  <2>1. CASE SweepTask(z) = a
    <3>1. t.pc \notin OutsideLoop
      BY <2>1 DEF SweepTask
    <3>2. t.pc \notin OutsideResume
      BY <3>1 DEF OutsideLoop, OutsideResume
    <3>. QED BY <1>1, <2>1, <3>1, <3>2 DEF Shape, PassShape
  <2>2. CASE SweepTask(z) # a
    <3>1. task'[SweepTask(z)] = task[SweepTask(z)]
      BY <1>1, <2>2, ActorKinds
    <3>. QED BY <3>1 DEF Shape, PassShape
  <2>. QED BY <2>1, <2>2
<1>3. ClearDone'
  <2>. SUFFICES ASSUME NEW b \in Actor, task'[b].pc = "clear"
                PROVE  row'[task'[b].msg] \notin Unsettled
    BY DEF ClearDone, Unsettled
  <2>1. CASE b = a
    BY <1>1, <2>1
  <2>2. CASE b # a
    <3>1. task'[b] = task[b]
      BY <1>1, <2>2
    <3>2. row[task[b].msg] \notin Unsettled
      BY <3>1 DEF Shape, ClearDone, Unsettled
    <3>3. task[b].msg \in Msg
      <4>1. "clear" \in WorkPC
        BY DEF WorkPC
      <4>. QED BY <3>1, <4>1, WorkingMsg
    <3>. QED BY <3>1, <3>2, <3>3
  <2>. QED BY <2>1, <2>2
<1>. QED BY <1>2, <1>3 DEF Shape

LEMMA ShapeStays ==
  ASSUME TypeInv, Shape, UNCHANGED <<task, pass>>,
         \A m \in Msg : row[m] \notin Unsettled => row'[m] \notin Unsettled
  PROVE  Shape'
<1>1. PassShape'
  BY DEF Shape, PassShape
<1>2. ClearDone'
  <2>. SUFFICES ASSUME NEW b \in Actor, task[b].pc = "clear"
                PROVE  row'[task[b].msg] \notin {"none", "queued"}
    BY DEF ClearDone
  <2>1. task[b].msg \in Msg
    <3>1. "clear" \in WorkPC
      BY DEF WorkPC
    <3>. QED BY <3>1, WorkingMsg
  <2>. QED BY <2>1 DEF Shape, ClearDone, Unsettled
<1>. QED BY <1>1, <1>2 DEF Shape

\* Where a stage step leaves its task: outside the steps of a sweeper's loop,
\* and about to drop what is awaited only after the terminal write.
StageTarget(a, t) ==
  /\ t = Rest(a) \/ t.pc \notin OutsideLoop
  /\ t.pc = "clear" => Write(a) /\ t.msg = task[a].msg

LEMMA StageTargets ==
  ASSUME TypeInv, NEW a \in Actor, StageStep(a)
  PROVE  \E t : Goto(a, t) /\ StageTarget(a, t)
<1> DEFINE m == task[a].msg
<1>1. task[a].pc \in WorkPC
  BY DEF StageStep, Claim, Gate, Audit, LoadFanout, LoadChain, FanSend, FanSkip,
     FanDone, SendInProcess, Track, Bump, Preserve, StoreHeld, Take, Write, Clear,
     Is, WorkPC
<1>2. task[a] \in Task /\ m \in Msg /\ task[a].stage \in Stage
  BY <1>1, WorkingMsg DEF Task
<1>3. StageTarget(a, Rest(a))
  BY DEF StageTarget, Rest, Idle
<1>4. \A pc \in PC, stage \in Stage :
        pc \notin OutsideLoop \cup {"clear"} =>
          /\ StageTarget(a, At(pc, m)) /\ StageTarget(a, AtStage(pc, m, stage))
          /\ AtStage(pc, m, stage).pc = pc
  BY DEF StageTarget, At, AtStage, Idle
<1>5. \A outcome \in Outcome : StageTarget(a, Ending(m, outcome))
  BY DEF StageTarget, Ending, At, Idle, OutsideLoop
<1>6. /\ {"gate", "load", "audit", "fan", "send", "bump", "track", "store", "take"}
           \subseteq PC \ (OutsideLoop \cup {"clear"})
      /\ {"pre_process", "in_process", "post_process"} \subseteq Stage
      /\ "complete" \in Outcome /\ "write" \notin OutsideLoop
      /\ "clear" \notin OutsideLoop
  BY DEF PC, OutsideLoop, Stage, Outcome
<1>7. CASE Claim(a)
  <2>1. Goto(a, AtStage("gate", m, "pre_process"))
    BY <1>7 DEF Claim
  <2>. QED BY <1>4, <1>6, <2>1
<1>8. CASE Gate(a)
  <2>1. \/ Goto(a, Rest(a))
        \/ Goto(a, AtStage("load", m, task[a].stage))
        \/ Goto(a, AtStage("audit", m, task[a].stage))
    BY <1>8 DEF Gate, Return
  <2>. QED BY <1>2, <1>3, <1>4, <1>6, <2>1
<1>9. CASE Audit(a)
  <2>1. Goto(a, Rest(a)) \/ Goto(a, AtStage("load", m, task[a].stage))
    BY <1>9 DEF Audit, Return
  <2>. QED BY <1>2, <1>3, <1>4, <1>6, <2>1
<1>10. CASE LoadFanout(a)
  <2> DEFINE fan == AtStage("fan", m, task[a].stage)
             todo == IF task[a].stage = "pre_process"
                       THEN command_recipients(owner_of(m), PreModules)
                       ELSE post_process_recipients(owner_of(m))
             t == [fan EXCEPT !.todo = todo]
  <2>1. Goto(a, Rest(a)) \/ Goto(a, t)
    BY <1>10 DEF LoadFanout, Return
  <2>2. fan \in Task /\ fan.pc = "fan"
    BY <1>2, <1>4, <1>6, FreshTasks
  <2>. HIDE DEF fan, todo
  <2>3. t.pc = "fan"
    BY <2>2 DEF Task
  <2>. HIDE DEF t
  <2>4. StageTarget(a, t)
    BY <1>6, <2>3 DEF StageTarget
  <2>. QED BY <1>3, <2>1, <2>4
<1>11. CASE LoadChain(a)
  <2> DEFINE x == InModuleAt(index[m])
             send == AtStage("send", m, "in_process")
             t == [send EXCEPT !.mod = x]
  <2>1. \/ Goto(a, Rest(a)) \/ Goto(a, AtStage("gate", m, "post_process"))
        \/ Goto(a, t) \/ Goto(a, At("bump", m))
    BY <1>11 DEF LoadChain, Return
  <2>2. send \in Task /\ send.pc = "send"
    BY <1>2, <1>4, <1>6, FreshTasks
  <2>. HIDE DEF send, x
  <2>3. t.pc = "send"
    BY <2>2 DEF Task
  <2>. HIDE DEF t
  <2>4. StageTarget(a, t)
    BY <1>6, <2>3 DEF StageTarget
  <2>. QED BY <1>3, <1>4, <1>6, <2>1, <2>4
<1>12. CASE FanSend(a)
  <2>1. PICK x \in task[a].todo :
          Goto(a, [task[a] EXCEPT !.pc = "track", !.todo = @ \ {x},
                                  !.sent = TRUE, !.mod = x])
    BY <1>12 DEF FanSend
  <2> DEFINE t == [task[a] EXCEPT !.pc = "track", !.todo = @ \ {x},
                                  !.sent = TRUE, !.mod = x]
  <2>2. t.pc = "track"
    BY <1>2 DEF Task
  <2>3. Goto(a, t)
    BY <2>1
  <2>. HIDE DEF t
  <2>4. StageTarget(a, t)
    BY <1>6, <2>2 DEF StageTarget
  <2>. QED BY <2>3, <2>4
<1>13. CASE FanSkip(a)
  <2>1. PICK x \in task[a].todo : Goto(a, [task[a] EXCEPT !.todo = @ \ {x}])
    BY <1>13 DEF FanSkip
  <2> DEFINE t == [task[a] EXCEPT !.todo = @ \ {x}]
  <2>2. t.pc = "fan"
    BY <1>2, <1>13 DEF Task, FanSkip, Is
  <2>3. Goto(a, t)
    BY <2>1
  <2>. HIDE DEF t
  <2>4. StageTarget(a, t)
    BY <1>6, <2>2 DEF StageTarget
  <2>. QED BY <2>3, <2>4
<1>14. CASE FanDone(a)
  <2>1. \/ Goto(a, Rest(a)) \/ Goto(a, AtStage("gate", m, "in_process"))
        \/ Goto(a, Ending(m, "complete"))
    BY <1>14 DEF FanDone, Return
  <2>. QED BY <1>3, <1>4, <1>5, <1>6, <2>1
<1>15. CASE SendInProcess(a)
  <2> DEFINE t == [task[a] EXCEPT !.pc = "track"]
  <2>1. Goto(a, t) \/ Goto(a, At("bump", m))
    BY <1>15 DEF SendInProcess
  <2>2. t.pc = "track"
    BY <1>2 DEF Task
  <2>. HIDE DEF t
  <2>3. StageTarget(a, t)
    BY <1>6, <2>2 DEF StageTarget
  <2>. QED BY <1>4, <1>6, <2>1, <2>3
<1>16. CASE Track(a)
  <2> DEFINE t == [task[a] EXCEPT !.pc = "fan", !.mod = NoModule]
  <2>1. Goto(a, Rest(a)) \/ Goto(a, t)
    BY <1>16 DEF Track, Return
  <2>2. t.pc = "fan"
    BY <1>2 DEF Task
  <2>. HIDE DEF t
  <2>3. StageTarget(a, t)
    BY <1>6, <2>2 DEF StageTarget
  <2>. QED BY <1>3, <2>1, <2>3
<1>17. CASE Bump(a)
  <2>1. \/ Goto(a, Rest(a)) \/ Goto(a, AtStage("gate", m, "post_process"))
        \/ Goto(a, AtStage("gate", m, "in_process"))
    BY <1>17 DEF Bump, Return, AfterChain
  <2>. QED BY <1>3, <1>4, <1>6, <2>1
<1>18. CASE Preserve(a)
  <2> DEFINE pc == IF row[m] = "audit" THEN "store" ELSE "take"
             t == [task[a] EXCEPT !.pc = pc]
  <2>1. Goto(a, t)
    BY <1>18 DEF Preserve
  <2>2. t.pc \in {"store", "take"}
    BY <1>2 DEF Task
  <2>. HIDE DEF t
  <2>3. StageTarget(a, t)
    BY <1>6, <2>2 DEF StageTarget
  <2>. QED BY <2>1, <2>3
<1>19. CASE StoreHeld(a) \/ Clear(a)
  <2>1. Goto(a, Rest(a))
    BY <1>19 DEF StoreHeld, Clear, Return
  <2>. QED BY <1>3, <2>1
<1>20. CASE Take(a)
  <2> DEFINE t == [task[a] EXCEPT !.pc = "write", !.result = HasResult(m)]
  <2>1. Goto(a, Rest(a)) \/ Goto(a, t)
    BY <1>20 DEF Take, Return
  <2>2. t.pc = "write"
    BY <1>2 DEF Task
  <2>. HIDE DEF t
  <2>3. StageTarget(a, t)
    BY <1>6, <2>2 DEF StageTarget
  <2>. QED BY <1>3, <2>1, <2>3
<1>21. CASE Write(a)
  <2> DEFINE t == [task[a] EXCEPT !.pc = "clear"]
  <2>1. Goto(a, t)
    BY <1>21 DEF Write
  <2>2. t.pc = "clear" /\ t.msg = m
    BY <1>2 DEF Task
  <2>. HIDE DEF t
  <2>3. StageTarget(a, t)
    BY <1>6, <1>21, <2>2 DEF StageTarget
  <2>. QED BY <2>1, <2>3
<1>. QED
  BY <1>7, <1>8, <1>9, <1>10, <1>11, <1>12, <1>13, <1>14, <1>15, <1>16, <1>17,
     <1>18, <1>19, <1>20, <1>21 DEF StageStep

LEMMA StageShape ==
  ASSUME TypeInv, Shape, NEW a \in Actor, StageStep(a)
  PROVE  Shape'
<1>1. PICK t : /\ Goto(a, t)
               /\ t = Rest(a) \/ t.pc \notin OutsideLoop
               /\ t.pc = "clear" => Write(a) /\ t.msg = task[a].msg
  BY StageTargets DEF StageTarget
<1>2. a[1] = "sweep" => t.pc \notin OutsideLoop
  <2>1. a[1] = "sweep" => Rest(a).pc = "sweep"
    BY DEF Rest, Idle
  <2>. QED BY <1>1, <2>1 DEF OutsideLoop
<1>3. UNCHANGED pass
  BY DEF StageStep, Claim, Gate, Audit, LoadFanout, LoadChain, FanSend, FanSkip,
     FanDone, SendInProcess, Track, Bump, Preserve, StoreHeld, Take, Write, Clear
<1>4. CASE Write(a)
  <2> DEFINE m == task[a].msg
             outcome == task[a].outcome
  <2>1. m \in Msg /\ outcome \in Outcome /\ row \in [Msg -> Status]
    BY <1>4, WorkingMsg DEF Write, Is, WorkPC, Task, TypeInv, TypeOK
  <2>2. /\ row'[m] \notin Unsettled
        /\ \A n \in Msg : row[n] \notin Unsettled => row'[n] \notin Unsettled
    <3>1. CASE RefusedByHold(m, outcome)
      BY <1>4, <3>1 DEF Write, RefusedByHold, rowVars, Unsettled
    <3>2. CASE ~RefusedByHold(m, outcome)
      <4>1. row' = [row EXCEPT ![m] = outcome]
        BY <1>4, <3>2 DEF Write
      <4>. HIDE DEF m, outcome
      <4>. QED BY <2>1, <4>1 DEF Outcome, Unsettled
    <3>. QED BY <3>1, <3>2
  <2>3. t.pc = "clear" => row'[t.msg] \notin Unsettled
    BY <1>1, <2>2
  <2>. QED BY <1>1, <1>2, <1>3, <2>2, <2>3, ShapeMoves
<1>5. CASE ~Write(a)
  <2>1. UNCHANGED row
    BY <1>5 DEF StageStep, Claim, Gate, Audit, LoadFanout, LoadChain, FanSend,
       FanSkip, FanDone, SendInProcess, Track, Bump, Preserve, StoreHeld, Take,
       Clear, rowVars
  <2>. QED BY <1>1, <1>2, <1>3, <1>5, <2>1, ShapeMoves
<1>. QED BY <1>4, <1>5

\* The steps of the ingest tasks, the module connections and the recovery pass.
LEMMA OtherTaskShape ==
  ASSUME TypeInv, Shape,
         \/ \E m \in Msg : Ingest(m) \/ Recover(m)
         \/ \E x \in Module : Ack(x)
         \/ \E x \in Module, m \in Msg : Echo(x, m) \/ Abandon(x, m)
  PROVE  Shape'
<1>1. ASSUME NEW a \in Actor, NEW t, Goto(a, t), UNCHANGED pass, a[1] # "sweep",
             t.pc # "clear",
             \A m \in Msg : row[m] \notin Unsettled => row'[m] \notin Unsettled
      PROVE  Shape'
  BY <1>1, ShapeMoves
<1>2. /\ \A m : At("claim", m).pc = "claim" /\ At("ack", m).pc = "ack"
                /\ At("bump", m).pc = "bump"
                /\ AtStage("gate", m, "in_process").pc = "gate"
      /\ \A m, outcome : Ending(m, outcome).pc = "preserve"
  BY DEF At, AtStage, Ending, Idle
<1>3. ASSUME NEW m \in Msg, Ingest(m)
      PROVE  Shape'
  <2> DEFINE a == <<"ingest", m>>
  <2>1. a \in Actor /\ a[1] = "ingest" /\ row \in [Msg -> Status]
    BY ActorKinds DEF TypeInv, TypeOK
  <2>2. /\ Goto(a, At("claim", m)) /\ UNCHANGED pass
        /\ row' = [row EXCEPT ![m] = "queued"] /\ row[m] = "none"
    BY <1>3 DEF Ingest
  <2>3. \A n \in Msg : row[n] \notin Unsettled => row'[n] \notin Unsettled
    BY <2>1, <2>2 DEF Unsettled
  <2>. HIDE DEF a
  <2>. QED BY <1>1, <1>2, <2>1, <2>2, <2>3
<1>4. ASSUME NEW m \in Msg, Recover(m)
      PROVE  Shape'
  <2>1. UNCHANGED <<row, pass>> /\ Drain \in Actor /\ Drain[1] # "sweep"
    BY <1>4, ActorKinds DEF Recover, rowVars, Drain
  <2>2. CASE IsStranded(m)
    <3>1. Goto(Drain, At("claim", m))
      BY <1>4, <2>2 DEF Recover
    <3>. QED BY <1>1, <1>2, <2>1, <3>1
  <2>3. CASE ~IsStranded(m)
    <3>1. UNCHANGED task
      BY <1>4, <2>3 DEF Recover
    <3>. QED BY <2>1, <3>1, ShapeStays
  <2>. QED BY <2>2, <2>3
<1>5. ASSUME NEW x \in Module, NEW m \in Msg, Echo(x, m) \/ Abandon(x, m)
      PROVE  Shape'
  <2> DEFINE a == <<"conn", x>>
  <2>1. a \in Actor /\ a[1] = "conn" /\ UNCHANGED <<row, pass>>
    BY <1>5, ActorKinds DEF Echo, Abandon, rowVars
  <2>2. Goto(a, At("ack", m)) \/ Goto(a, Ending(m, "dropped"))
    BY <1>5 DEF Echo, Abandon
  <2>. HIDE DEF a
  <2>. QED BY <1>1, <1>2, <2>1, <2>2
<1>6. ASSUME NEW x \in Module, Ack(x)
      PROVE  Shape'
  <2> DEFINE a == <<"conn", x>>
             m == task[a].msg
             still == still_pending_after_ack(m, x)
  <2>1. a \in Actor /\ a[1] = "conn" /\ UNCHANGED <<row, pass>> /\ m \in Msg
    BY <1>6, ActorKinds, WorkingMsg DEF Ack, Is, WorkPC, rowVars
  <2>2. Rest(a).pc = "idle"
    BY DEF Rest, Idle
  <2>3. \/ Goto(a, Rest(a)) \/ Goto(a, At("bump", m))
        \/ Goto(a, AtStage("gate", m, "in_process"))
        \/ Goto(a, Ending(m, "complete"))
    <3>1. CASE EntriesOf(m, x) = {} /\ Return(a)
      BY <3>1 DEF Return
    <3>2. ASSUME NEW e \in EntriesOf(m, x),
                 CASE e.stage = "in_process" -> Goto(a, At("bump", m))
                   [] e.stage # "in_process" /\ still -> Return(a)
                   [] e.stage = "pre_process" /\ ~still ->
                        Goto(a, AtStage("gate", m, "in_process"))
                   [] e.stage = "post_process" /\ ~still ->
                        Goto(a, Ending(m, "complete"))
          PROVE  \/ Goto(a, Rest(a)) \/ Goto(a, At("bump", m))
                 \/ Goto(a, AtStage("gate", m, "in_process"))
                 \/ Goto(a, Ending(m, "complete"))
      <4>1. e.stage \in {"pre_process", "in_process", "post_process"}
        BY <2>1 DEF EntriesOf, TypeInv, TypeOK, TrackerTypeOK, Entry, Stage
      <4>. HIDE DEF still
      <4>2. CASE e.stage = "in_process"
        BY <3>2, <4>2
      <4>3. CASE e.stage # "in_process" /\ still
        BY <3>2, <4>3 DEF Return
      <4>4. CASE e.stage = "pre_process" /\ ~still
        BY <3>2, <4>4
      <4>5. CASE e.stage = "post_process" /\ ~still
        BY <3>2, <4>5
      <4>. QED BY <4>1, <4>2, <4>3, <4>4, <4>5
    <3>. QED BY <1>6, <3>1, <3>2 DEF Ack
  <2>. HIDE DEF a, m
  <2>. QED BY <1>1, <1>2, <2>1, <2>2, <2>3
<1>. QED BY <1>3, <1>4, <1>5, <1>6

\* The steps that move no task.
LEMMA StillShape ==
  ASSUME TypeInv, Shape,
         \/ DrainStart
         \/ \E m \in Msg : RecoverFails(m) \/ Elapse(m)
         \/ \E x \in Module, m \in Msg : Receipt(x, m) \/ AuditFlag(x, m)
         \/ \E m \in Msg, approve \in BOOLEAN : release_audit(m, approve)
         \/ \E r \in BlockedReason : DependencyDown(r)
  PROVE  Shape'
<1>1. UNCHANGED <<task, pass>>
  BY DEF DrainStart, RecoverFails, Elapse, Receipt, AuditFlag, release_audit,
     DependencyDown, taskVars
<1>2. row \in [Msg -> Status]
  BY DEF TypeInv, TypeOK
<1>3. \A n \in Msg : row[n] \notin Unsettled => row'[n] \notin Unsettled
  <2>1. ASSUME NEW m \in Msg, NEW status \in {"audit", "complete", "failed"},
               row' = [row EXCEPT ![m] = status]
        PROVE  \A n \in Msg : row[n] \notin Unsettled => row'[n] \notin Unsettled
    BY <1>2, <2>1 DEF Unsettled
  <2>2. CASE UNCHANGED row
    BY <2>2
  <2>3. \/ UNCHANGED row
        \/ \E m \in Msg, status \in {"audit", "complete", "failed"} :
             row' = [row EXCEPT ![m] = status]
    BY DEF DrainStart, RecoverFails, Elapse, Receipt, AuditFlag, release_audit,
       DependencyDown, rowVars
  <2>. QED BY <2>1, <2>2, <2>3
<1>. QED BY <1>1, <1>3, ShapeStays

\* The steps of a sweeper.  One that ends a pass leaves it with empty hands.
LEMMA SweepShape ==
  ASSUME TypeInv, Shape, NEW s \in Sweeper,
         SweepStep(s) \/ (s = "timer" /\ SweepTick)
  PROVE  Shape'
<1>1. /\ UNCHANGED row /\ pass \in [Sweeper -> Pass] /\ pass[s] \in Pass
      /\ s = "timer" => pass[s].taken = NothingTaken
  BY DEF SweepStep, SweepDrain, Resend, ReTrack, TimeOut, SweepEnd, SweepTick,
     rowVars, TypeInv, TypeOK, Shape, PassShape
<1>2. ASSUME NEW t, Goto(SweepTask(s), t), t.pc # "clear", t.pc \notin OutsideLoop,
             \A z \in Sweeper : z # s => pass'[z] = pass[z],
             pass'[s].taken = pass[s].taken
      PROVE  Shape'
  <2>1. t.pc \notin OutsideResume
    BY <1>2 DEF OutsideLoop, OutsideResume
  <2>. QED BY <1>1, <1>2, <2>1, ShapeSweeper
<1>3. CASE s = "timer" /\ SweepTick
  <2> DEFINE t == [Idle EXCEPT !.pc = "drain"]
  <2>1. /\ Goto(SweepTask(s), t) /\ UNCHANGED pass
        /\ task[SweepTask(s)].pc \in OutsideLoop
    BY <1>3 DEF SweepTick, Idle, OutsideLoop
  <2>2. t.pc = "drain" /\ "drain" \notin OutsideResume
    BY DEF Idle, OutsideResume
  <2>3. /\ pass[s].queue = {} /\ pass[s].resent = {}
        /\ pass[s].failed = {} /\ pass[s].advanced = {}
    BY <2>1 DEF Shape, PassShape
  <2>. HIDE DEF t
  <2>. QED BY <1>1, <2>1, <2>2, <2>3, ShapeSweeper
<1>4. CASE SweepDrain(s)
  <2> DEFINE t == [Idle EXCEPT !.pc = "sweep"]
             critical == {d.msg : d \in {c \in ExpiredEntries : c.entry.mod \in Critical}}
  <2>1. /\ Goto(SweepTask(s), t)
        /\ pass' = [pass EXCEPT ![s] = [@ EXCEPT !.queue = ExpiredEntries,
                                                 !.critical = critical]]
    BY <1>1, <1>4 DEF SweepDrain, Pass
  <2>2. t.pc = "sweep" /\ "sweep" \notin OutsideLoop
    BY DEF Idle, OutsideLoop
  <2>. HIDE DEF t, critical
  <2>3. /\ \A z \in Sweeper : z # s => pass'[z] = pass[z]
        /\ pass'[s].taken = pass[s].taken
    BY <1>1, <2>1 DEF Pass
  <2>. QED BY <1>2, <2>1, <2>2, <2>3
<1>5. CASE Resend(s)
  <2>1. PICK d \in pass[s].queue :
          /\ pass' = [pass EXCEPT ![s].queue = @ \ {d}]
          /\ Goto(SweepTask(s), [AtStage("retrack", d.msg, d.entry.stage) EXCEPT
                                   !.mod = d.entry.mod,
                                   !.resends = d.entry.resends])
    BY <1>5 DEF Resend
  <2> DEFINE b == AtStage("retrack", d.msg, d.entry.stage)
             t == [b EXCEPT !.mod = d.entry.mod, !.resends = d.entry.resends]
  <2>2. Goto(SweepTask(s), t)
    BY <2>1
  <2>3. b.pc = "retrack" /\ b \in Task
    <3>1. "retrack" \in PC /\ d.msg \in Msg /\ d.entry.stage \in Stage
      BY PassFields DEF PC
    <3>. QED BY <3>1, FreshTasks DEF AtStage, At, Idle
  <2>. HIDE DEF b
  <2>4. t.pc = "retrack" /\ "retrack" \notin OutsideLoop
    BY <2>3 DEF Task, OutsideLoop
  <2>. HIDE DEF t
  <2>5. /\ \A z \in Sweeper : z # s => pass'[z] = pass[z]
        /\ pass'[s].taken = pass[s].taken
    BY <1>1, <2>1 DEF Pass
  <2>. QED BY <1>2, <2>2, <2>4, <2>5
<1>6. CASE ReTrack(s)
  <2> DEFINE n == task[SweepTask(s)].msg
  <2>1. /\ Goto(SweepTask(s), Rest(SweepTask(s)))
        /\ pass' = [pass EXCEPT ![s].resent = @ \cup {n}]
    BY <1>6 DEF ReTrack, Return
  <2>2. Rest(SweepTask(s)).pc = "sweep" /\ "sweep" \notin OutsideLoop
    BY DEF Rest, SweepTask, Idle, OutsideLoop
  <2>. HIDE DEF n
  <2>3. /\ \A z \in Sweeper : z # s => pass'[z] = pass[z]
        /\ pass'[s].taken = pass[s].taken
    BY <1>1, <2>1 DEF Pass
  <2>. QED BY <1>2, <2>1, <2>2, <2>3
<1>7. CASE TimeOut(s)
  <2>1. PICK d \in pass[s].queue :
       \/ /\ pass' = [pass EXCEPT ![s].queue = @ \ {d},
                                  ![s].failed = @ \cup {d.msg}]
          /\ Goto(SweepTask(s), Ending(d.msg, "failed"))
       \/ /\ pass' = [pass EXCEPT ![s].queue = @ \ {d},
                                  ![s].advanced = @ \cup {d.msg}]
          /\ Goto(SweepTask(s), AfterTimeout(d))
       \/ /\ pass' = [pass EXCEPT ![s].queue = @ \ {d}]
          /\ UNCHANGED task
    BY <1>7 DEF TimeOut
  <2>2. /\ \A z \in Sweeper : z # s => pass'[z] = pass[z]
        /\ pass'[s].taken = pass[s].taken
    BY <1>1, <2>1 DEF Pass
  <2>3. /\ Ending(d.msg, "failed").pc = "preserve"
        /\ AfterTimeout(d).pc \in {"gate", "bump", "preserve"}
    BY PassFields DEF AfterTimeout, Ending, AtStage, At, Idle, Stage
  <2>4. PICK t : Goto(SweepTask(s), t) /\ t.pc \in {"gate", "bump", "preserve", "sweep"}
    <3>1. CASE UNCHANGED task
      <4>1. Goto(SweepTask(s), task[SweepTask(s)])
        BY <3>1, ActorKinds DEF Goto, TypeInv, TypeOK
      <4>2. task[SweepTask(s)].pc = "sweep"
        BY <1>7 DEF TimeOut, Is
      <4>. QED BY <4>1, <4>2
    <3>. QED BY <2>1, <2>3, <3>1
  <2>. QED BY <1>2, <2>2, <2>4 DEF OutsideLoop
<1>8. CASE SweepEnd(s)
  <2>1. /\ Goto(SweepTask(s), AfterSweep(s))
        /\ pass' = [pass EXCEPT ![s] = [NoPass EXCEPT !.taken = pass[s].taken]]
    BY <1>8 DEF SweepEnd
  <2>2. /\ pass'[s].queue = {} /\ pass'[s].resent = {}
        /\ pass'[s].failed = {} /\ pass'[s].advanced = {}
        /\ pass'[s].taken = pass[s].taken
        /\ \A z \in Sweeper : z # s => pass'[z] = pass[z]
    BY <1>1, <2>1 DEF NoPass
  <2>3. AfterSweep(s).pc = IF s = "timer" THEN "idle" ELSE "spawn"
    BY DEF AfterSweep, Idle
  <2>4. "spawn" \notin OutsideResume
    BY DEF OutsideResume
  <2>. QED BY <1>1, <2>1, <2>2, <2>3, <2>4, ShapeSweeper
<1>. QED BY <1>3, <1>4, <1>5, <1>6, <1>7, <1>8 DEF SweepStep

\* The steps of the control surface, the pollers and the resumes.
LEMMA ResumeShape ==
  ASSUME TypeInv, Shape,
         \/ PauseRequest \/ ResumeRequest \/ ControlStep
         \/ \E r \in BlockedReason : DependencyUp(r)
         \/ \E r \in Resumer : Resume(r) \/ RestartClocks(r) \/ ResumeSweep(r)
  PROVE  Shape'
<1>1. UNCHANGED row /\ pass \in [Sweeper -> Pass]
  BY DEF PauseRequest, ResumeRequest, ControlStep, Pause, DeferPause, DeferResume,
     DependencyUp, Resume, RestartClocks, ResumeSweep, rowVars, TypeInv, TypeOK
<1>2. \A pc : [Idle EXCEPT !.pc = pc].pc = pc
  BY DEF Idle
<1>3. ASSUME NEW s \in Sweeper, s # "timer",
             NEW t, t.pc \in OutsideLoop, Goto(SweepTask(s), t),
             task[SweepTask(s)].pc \in OutsideLoop,
             \A z \in Sweeper : z # s => pass'[z] = pass[z],
             pass'[s].queue = pass[s].queue, pass'[s].resent = pass[s].resent,
             pass'[s].failed = pass[s].failed, pass'[s].advanced = pass[s].advanced,
             t.pc \in OutsideResume => task[SweepTask(s)].pc \in OutsideResume
                                         /\ pass'[s].taken = pass[s].taken
      PROVE  Shape'
  <2>1. /\ pass[s].queue = {} /\ pass[s].resent = {}
        /\ pass[s].failed = {} /\ pass[s].advanced = {}
        /\ t.pc \in OutsideResume => pass'[s].taken = NothingTaken
    BY <1>3 DEF Shape, PassShape
  <2>2. t.pc # "clear"
    BY <1>3 DEF OutsideLoop
  <2>. QED BY <1>1, <1>3, <2>1, <2>2, ShapeSweeper
<1>4. /\ "control" \in Sweeper /\ "control" # "timer"
      /\ Resumer \subseteq Sweeper \ {"timer"} /\ BlockedReason \subseteq Resumer
  BY DEF Sweeper, Resumer, BlockedReason
<1>5. /\ {"idle", "pause", "defer_pause", "resume", "defer_resume"}
           \subseteq OutsideLoop \cap OutsideResume
      /\ {"restart", "check", "drain", "spawn"} \subseteq OutsideLoop \ OutsideResume
      /\ Idle.pc = "idle"
  BY DEF OutsideLoop, OutsideResume, Idle
<1>6. CASE PauseRequest \/ ResumeRequest \/ ControlStep
  <2>1. PICK t : t.pc \in OutsideLoop \cap OutsideResume /\ Goto(SweepTask("control"), t)
    BY <1>2, <1>5, <1>6 DEF PauseRequest, ResumeRequest, ControlStep, Pause, DeferPause,
       DeferResume
  <2>2. /\ UNCHANGED pass
        /\ task[SweepTask("control")].pc \in OutsideLoop \cap OutsideResume
    BY <1>5, <1>6 DEF PauseRequest, ResumeRequest, ControlStep, Pause, DeferPause,
       DeferResume, Free, Is
  <2>. QED BY <1>3, <1>4, <2>1, <2>2
<1>7. ASSUME NEW r \in BlockedReason, DependencyUp(r)
      PROVE  Shape'
  <2>1. PICK t : t.pc \in OutsideLoop \cap OutsideResume /\ Goto(SweepTask(r), t)
    BY <1>2, <1>5, <1>7 DEF DependencyUp
  <2>2. UNCHANGED pass /\ task[SweepTask(r)].pc \in OutsideLoop \cap OutsideResume
    BY <1>5, <1>7 DEF DependencyUp, Free
  <2>. QED BY <1>3, <1>4, <2>1, <2>2
<1>8. ASSUME NEW r \in Resumer, Resume(r)
      PROVE  Shape'
  <2>1. /\ Goto(SweepTask(r), [Idle EXCEPT !.pc = "restart"])
        /\ task[SweepTask(r)].pc = "resume"
        /\ pass' = [pass EXCEPT ![r].taken = held]
    BY <1>8 DEF Resume, Is
  <2>2. /\ \A z \in Sweeper : z # r => pass'[z] = pass[z]
        /\ pass'[r].queue = pass[r].queue /\ pass'[r].resent = pass[r].resent
        /\ pass'[r].failed = pass[r].failed /\ pass'[r].advanced = pass[r].advanced
    BY <1>1, <1>4, <2>1 DEF Pass
  <2>. DEFINE t == [Idle EXCEPT !.pc = "restart"]
  <2>3. t.pc \in OutsideLoop \ OutsideResume /\ Goto(SweepTask(r), t)
    BY <1>2, <1>5, <2>1
  <2>4. task[SweepTask(r)].pc \in OutsideLoop
    BY <1>5, <2>1
  <2>. HIDE DEF t
  <2>. QED BY <1>3, <1>4, <2>2, <2>3, <2>4
<1>9. ASSUME NEW r \in Resumer, RestartClocks(r) \/ ResumeSweep(r)
      PROVE  Shape'
  <2>1. PICK t : t.pc \in OutsideLoop \ OutsideResume /\ Goto(SweepTask(r), t)
    BY <1>2, <1>5, <1>9 DEF RestartClocks, ResumeSweep
  <2>2. UNCHANGED pass /\ task[SweepTask(r)].pc \in OutsideLoop
    BY <1>5, <1>9 DEF RestartClocks, ResumeSweep, Is
  <2>. QED BY <1>3, <1>4, <1>5, <2>1, <2>2
<1>. QED BY <1>6, <1>7, <1>8, <1>9

LEMMA SpawnShape ==
  ASSUME TypeInv, Shape, NEW r \in Resumer, Spawn(r)
  PROVE  Shape'
<1> DEFINE taken == pass[r].taken
<1>1. /\ r \in Sweeper /\ r # "timer" /\ SweepTask(r) \in Actor
      /\ pass \in [Sweeper -> Pass]
  BY ActorKinds DEF Resumer, BlockedReason, TypeInv, TypeOK
<1>2. UNCHANGED row /\ pass' = [pass EXCEPT ![r] = NoPass]
  BY DEF Spawn, rowVars
<1>3. task'[SweepTask(r)] = Idle
  BY <1>1 DEF Spawn
<1>4. \A b \in Actor :
        b # SweepTask(r) => \/ task'[b] = task[b]
                            \/ b[1] = "replay" /\ task'[b].pc = "gate"
  <2>1. \A m, stage : AtStage("gate", m, stage).pc = "gate"
    BY DEF AtStage, At, Idle
  <2>. QED BY <2>1 DEF Spawn
<1>5. PassShape'
  <2>. SUFFICES ASSUME NEW z \in Sweeper
                PROVE  /\ task'[SweepTask(z)].pc \in OutsideLoop =>
                            /\ pass'[z].queue = {}
                            /\ pass'[z].resent = {}
                            /\ pass'[z].failed = {}
                            /\ pass'[z].advanced = {}
                       /\ task'[SweepTask(z)].pc \in OutsideResume =>
                            pass'[z].taken = NothingTaken
                       /\ z = "timer" => pass'[z].taken = NothingTaken
    BY DEF PassShape
  <2>1. CASE z = r
    BY <1>1, <1>2, <2>1 DEF NoPass
  <2>2. CASE z # r
    <3>1. SweepTask(z) # SweepTask(r) /\ SweepTask(z)[1] = "sweep" /\ SweepTask(z) \in Actor
      BY <2>2, ActorKinds DEF SweepTask
    <3>2. task'[SweepTask(z)] = task[SweepTask(z)] /\ pass'[z] = pass[z]
      BY <1>1, <1>2, <1>4, <2>2, <3>1
    <3>. QED BY <3>2 DEF Shape, PassShape
  <2>. QED BY <2>1, <2>2
<1>6. ClearDone'
  <2>. SUFFICES ASSUME NEW b \in Actor, task'[b].pc = "clear"
                PROVE  row[task'[b].msg] \notin {"none", "queued"}
    BY <1>2 DEF ClearDone
  <2>1. task'[b] = task[b]
    BY <1>3, <1>4 DEF Idle
  <2>. QED BY <2>1 DEF Shape, ClearDone
<1>. QED BY <1>5, <1>6 DEF Shape

LEMMA DbFailsShape ==
  ASSUME TypeInv, Shape, NEW a \in Actor, DbFails(a)
  PROVE  Shape'
<1>1. UNCHANGED row /\ pass \in [Sweeper -> Pass]
  BY DEF DbFails, rowVars, TypeInv, TypeOK
<1>2. CASE a[1] = "sweep"
  <2> DEFINE s == a[2]
  <2>1. s \in Sweeper /\ a = SweepTask(s)
    BY <1>2, SweepActor
  <2>2. /\ Goto(a, AfterSweep(s))
        /\ pass' = [pass EXCEPT ![s] = [NoPass EXCEPT !.taken = pass[s].taken]]
    BY <1>2 DEF DbFails
  <2>. HIDE DEF s
  <2>3. /\ pass'[s].queue = {} /\ pass'[s].resent = {}
        /\ pass'[s].failed = {} /\ pass'[s].advanced = {}
        /\ pass'[s].taken = pass[s].taken
        /\ \A z \in Sweeper : z # s => pass'[z] = pass[z]
    BY <1>1, <2>1, <2>2 DEF NoPass
  <2>4. /\ AfterSweep(s).pc = IF s = "timer" THEN "idle" ELSE "spawn"
        /\ "spawn" \notin OutsideResume
        /\ s = "timer" => pass[s].taken = NothingTaken
    BY <2>1 DEF AfterSweep, Idle, OutsideResume, Shape, PassShape
  <2>. QED BY <1>1, <2>1, <2>2, <2>3, <2>4, ShapeSweeper
<1>3. CASE a[1] # "sweep"
  <2>1. Goto(a, Idle) /\ UNCHANGED pass /\ Idle.pc = "idle"
    BY <1>3 DEF DbFails, Idle
  <2>. QED BY <1>1, <1>3, <2>1, ShapeMoves
<1>. QED BY <1>2, <1>3

LEMMA EmptyShape ==
  ASSUME task = [a \in Actor |-> Idle], pass = [s \in Sweeper |-> NoPass]
  PROVE  Shape
<1>1. \A s \in Sweeper : pass[s] = NoPass
  OBVIOUS
<1>2. \A a \in Actor : task[a].pc = "idle"
  BY DEF Idle
<1>3. PassShape
  BY <1>1 DEF PassShape, NoPass
<1>4. ClearDone
  BY <1>2 DEF ClearDone
<1>. QED BY <1>3, <1>4 DEF Shape

LEMMA CrashShape ==
  ASSUME Crash
  PROVE  Shape'
<1>1. task' = [a \in Actor |-> Idle] /\ pass' = [s \in Sweeper |-> NoPass]
  BY DEF Crash
<1>2. \A s \in Sweeper : pass'[s] = NoPass
  BY <1>1
<1>3. \A a \in Actor : task'[a].pc = "idle"
  BY <1>1 DEF Idle
<1>4. PassShape'
  BY <1>2 DEF PassShape, NoPass
<1>5. ClearDone'
  BY <1>3 DEF ClearDone
<1>. QED BY <1>4, <1>5 DEF Shape

--------------------------------------------------------------------------------
LEMMA OwnedInit == Init => OwnedInv
<1>. SUFFICES ASSUME Init PROVE OwnedInv
  OBVIOUS
<1>1. TypeInv
  BY TypeInit
<1>2. Shape
  BY EmptyShape DEF Init
<1>3. NoStuckMessage
  BY DEF Init, NoStuckMessage
<1>. QED BY <1>1, <1>2, <1>3 DEF OwnedInv

LEMMA OwnedStage ==
  ASSUME TypeInv, Shape, NoStuckMessage, NEW a \in Actor, StageStep(a)
  PROVE  NoStuckMessage'
BY ClaimOwned, GateOwned, AuditOwned, LoadFanoutOwned, LoadChainOwned, FanOwned,
   SendInProcessOwned, TrackOwned, BumpOwned, PreserveOwned, StoreHeldOwned,
   TakeOwned, WriteOwned, ClearOwned DEF StageStep

LEMMA OwnedNext == OwnedInv /\ [Next]_vars => OwnedInv'
<1>. SUFFICES ASSUME OwnedInv, [Next]_vars PROVE OwnedInv'
  OBVIOUS
<1>1. TypeInv /\ Shape /\ NoStuckMessage /\ TypeInv'
  BY TypeNext DEF OwnedInv
<1>2. ASSUME NEW m \in Msg, Ingest(m) \/ Recover(m) \/ RecoverFails(m) \/ Elapse(m)
      PROVE  Shape' /\ NoStuckMessage'
  <2>1. NoStuckMessage'
    BY <1>1, <1>2, IngestOwned, RecoverOwned, ElapseOwned
  <2>2. Shape'
    BY <1>1, <1>2, OtherTaskShape, StillShape
  <2>. QED BY <2>1, <2>2
<1>3. ASSUME NEW a \in Actor, StageStep(a) \/ DbFails(a)
      PROVE  Shape' /\ NoStuckMessage'
  BY <1>1, <1>3, OwnedStage, DbFailsOwned, StageShape, DbFailsShape
<1>4. ASSUME NEW x \in Module, Ack(x)
      PROVE  Shape' /\ NoStuckMessage'
  BY <1>1, <1>4, AckOwned, OtherTaskShape
<1>5. ASSUME NEW x \in Module, NEW m \in Msg,
             Echo(x, m) \/ Abandon(x, m) \/ Receipt(x, m) \/ AuditFlag(x, m)
      PROVE  Shape' /\ NoStuckMessage'
  <2>1. NoStuckMessage'
    BY <1>1, <1>5, FrameOwned, ReceiptOwned, AuditFlagOwned
  <2>2. Shape'
    BY <1>1, <1>5, OtherTaskShape, StillShape
  <2>. QED BY <2>1, <2>2
<1>6. ASSUME NEW m \in Msg, NEW approve \in BOOLEAN, release_audit(m, approve)
      PROVE  Shape' /\ NoStuckMessage'
  BY <1>1, <1>6, ReleaseAuditOwned, StillShape
<1>7. ASSUME DrainStart
     PROVE  Shape' /\ NoStuckMessage'
  <2>1. NoStuckMessage'
    BY <1>1, <1>7, DrainStartOwned
  <2>2. Shape'
    BY <1>1, <1>7, StillShape
  <2>. QED BY <2>1, <2>2
<1>8. ASSUME SweepTick
     PROVE  Shape' /\ NoStuckMessage'
  <2>1. NoStuckMessage'
    BY <1>1, <1>8, SweepTickOwned
  <2>2. "timer" \in Sweeper
    BY ActorKinds
  <2>3. Shape'
    BY <1>1, <1>8, <2>2, SweepShape
  <2>. QED BY <2>1, <2>3
<1>9. ASSUME NEW s \in Sweeper, SweepStep(s)
      PROVE  Shape' /\ NoStuckMessage'
  <2>1. NoStuckMessage'
    BY <1>1, <1>9, SweepDrainOwned, ResendOwned, ReTrackOwned, TimeOutOwned,
       SweepEndOwned DEF SweepStep
  <2>2. Shape'
    BY <1>1, <1>9, SweepShape
  <2>. QED BY <2>1, <2>2
<1>10. ASSUME NEW r \in Resumer, ResumeStep(r)
       PROVE  Shape' /\ NoStuckMessage'
  <2>1. NoStuckMessage'
    BY <1>1, <1>10, ResumeOwned, RestartClocksOwned, ResumeSweepOwned, SpawnOwned
       DEF ResumeStep
  <2>2. Shape'
    BY <1>1, <1>10, ResumeShape, SpawnShape DEF ResumeStep
  <2>. QED BY <2>1, <2>2
<1>11. ASSUME NEW r \in BlockedReason, DependencyDown(r) \/ DependencyUp(r)
       PROVE  Shape' /\ NoStuckMessage'
  <2>1. NoStuckMessage'
    BY <1>1, <1>11, DependencyOwned
  <2>2. Shape'
    BY <1>1, <1>11, StillShape, ResumeShape
  <2>. QED BY <2>1, <2>2
<1>12. ASSUME PauseRequest \/ ResumeRequest \/ ControlStep
      PROVE  Shape' /\ NoStuckMessage'
  <2>1. NoStuckMessage'
    BY <1>1, <1>12, ControlOwned
  <2>2. Shape'
    BY <1>1, <1>12, ResumeShape
  <2>. QED BY <2>1, <2>2
<1>13. ASSUME Crash
      PROVE  Shape' /\ NoStuckMessage'
  <2>1. NoStuckMessage'
    BY <1>13, CrashOwned
  <2>2. Shape'
    BY <1>13, CrashShape
  <2>. QED BY <2>1, <2>2
<1>14. ASSUME UNCHANGED vars
      PROVE  Shape' /\ NoStuckMessage'
  <2>1. UNCHANGED <<row, live, pending, held, task, pass, faulted>>
    BY <1>14 DEF vars, rowVars, stateVars, gateVars, taskVars, historyVars
  <2>2. NoStuckMessage'
    BY <1>1, <2>1, NothingMoves
  <2>3. Shape'
    BY <1>1, <2>1, ShapeStays
  <2>. QED BY <2>2, <2>3
<1>15. Shape' /\ NoStuckMessage'
  BY <1>2, <1>3, <1>4, <1>5, <1>6, <1>7, <1>8, <1>9, <1>10, <1>11, <1>12, <1>13,
     <1>14 DEF Next
<1>. QED BY <1>1, <1>15 DEF OwnedInv

\* A message in memory whose row is still queued always has an owner: whatever
\* modules, clocks, sweeps, resumes, audits and failures interleave, no answer
\* or timeout that ends a wait is lost without somebody to act on it, except
\* for the messages a failing database call abandoned.
THEOREM NeverStuck == Spec => []NoStuckMessage
<1>1. OwnedInv => NoStuckMessage
  BY DEF OwnedInv
<1>. QED
  BY <1>1, OwnedInit, OwnedNext, PTL DEF Spec

--------------------------------------------------------------------------------
(***************************************************************************)
(* One recipient per stage.                                                *)
(***************************************************************************)
AtMostOne(S) == \A x, y \in S : x = y

(***************************************************************************)
(* Each stage of a message has at most one recipient, no module abandons a *)
(* message, and the recovery pass finds no row in a moment its grace is    *)
(* there to avoid.                                                         *)
(***************************************************************************)
SingleFile ==
  /\ \A m \in Msg : \A owner \in {NoModule, CommandOwner[m]} :
       /\ AtMostOne(command_recipients(owner, PreModules))
       /\ AtMostOne(post_process_recipients(owner))
  /\ Abandoning = {}
  /\ DrainWindows = {}

\* No module is in the chain twice.
DistinctChain ==
  \A i, j \in 1..Len(InModules) : InModules[i] = InModules[j] => i = j

\* How far task t has brought its message: a stage is due, answers to it are
\* awaited, or the message is about to be claimed, ended or written.
StepOf(t) ==
  CASE t.pc = "claim" -> "claim"
    [] t.pc \in {"gate", "audit", "load", "fan", "send"} -> "due"
    [] t.pc \in {"track", "retrack", "bump"} -> "awaited"
    [] t.pc \in {"preserve", "take"} -> "ending"
    [] t.pc = "write" -> "write"

StageReached(t) == IF t.pc = "bump" THEN "in_process" ELSE t.stage

\* Everything that may still move m on, with how far m has come: a task, an
\* awaited answer, the gate, a resume, a sweep.  It is stated of values, so that
\* it can be asked of the state after a step too.
TokensIn(m, tasks, entries, point, passes) ==
  {<<"task", a, StepOf(tasks[a]), StageReached(tasks[a])>>
     : a \in {b \in Actor : Drives(tasks[b], m)}}
  \cup {<<"entry", e, "awaited", e.stage>> : e \in entries}
  \cup {<<"held", p, "due", StageOf(p)>> : p \in {point} \ {NoPoint}}
  \cup {<<"taken", s, "due", StageOf(passes[s].taken[m])>>
          : s \in {r \in Sweeper : passes[r].taken[m] # NoPoint}}
  \cup UNION {{<<"queue", <<s, d>>, "awaited", d.entry.stage>>
                 : d \in {c \in passes[s].queue : c.msg = m}} : s \in Sweeper}

Tokens(m) == TokensIn(m, task, pending[m], held[m], pass)

SentTo(m, stage) == {x \in Module : <<m, stage, x>> \in dispatched}

\* Of the chain, m was sent to none but the first n modules, and it was not
\* sent to a post-process module.
ChainUpTo(m, n) ==
  /\ \A x \in SentTo(m, "in_process") : \E i \in 1..Len(InModules) : i <= n /\ x = InModules[i]
  /\ SentTo(m, "post_process") = {}

\* The stage is still to be run ...
Before(m, stage) ==
  CASE stage = "pre_process"  -> \A st \in Stage : SentTo(m, st) = {}
    [] stage = "in_process"   -> ChainUpTo(m, index[m])
    [] stage = "post_process" -> SentTo(m, "post_process") = {}

\* ... or has been sent to its module.
Through(m, stage) ==
  CASE stage = "pre_process"  -> SentTo(m, "in_process") = {} /\ SentTo(m, "post_process") = {}
    [] stage = "in_process"   -> ChainUpTo(m, index[m] + 1)
    [] stage = "post_process" -> TRUE

\* How far m has come at a token: its row and its state exist, and unless a fault
\* dropped it half-way it was sent to nobody beyond this point.  Where nothing is
\* ever put on review the row is still queued.
Reached(m, step, stage) ==
  /\ row[m] # "none"
  /\ MaxFlags = 0 => row[m] = "queued"
  /\ step \in {"claim", "write"} \/ m \in live
  /\ m \notin faulted /\ step = "claim" => Before(m, "pre_process")
  /\ m \notin faulted /\ step = "due" => Before(m, stage)
  /\ m \notin faulted /\ step = "awaited" => Through(m, stage)

TokenOK(m) ==
  /\ AtMostOne(Tokens(m))
  /\ \A k \in Tokens(m) : Reached(m, k[3], k[4])

TokenInv == \A m \in Msg : TokenOK(m)

\* What a task knows of its fan-out, of the module it is about to send to and of
\* the result it is about to write.
LocalOK(t, position) ==
  /\ t.pc = "fan" =>
       /\ t.stage # "in_process"
       /\ AtMostOne(t.todo)
       /\ t.sent => t.todo = {}
       /\ t.todo \subseteq IF t.stage = "pre_process" THEN PreModules ELSE PostModules
  /\ t.pc = "track" /\ t.stage # "in_process" => t.sent /\ t.todo = {}
  /\ t.pc = "send" =>
       /\ t.stage = "in_process"
       /\ position[t.msg] < Len(InModules)
       /\ t.mod = InModuleAt(position[t.msg])
  /\ t.pc = "write" => t.result

LocalsOK == \A a \in Actor : LocalOK(task[a], index)

\* A message that was sent to somebody in this boot has a state, or is being or
\* was finished.
WasSent(m) == \E stage \in Stage : SentTo(m, stage) # {}

SentIsKept ==
  \A m \in Msg :
    /\ row[m] = "none" => m \notin live
    /\ WasSent(m) /\ m \notin faulted =>
         \/ m \in live \/ row[m] \notin {"none", "queued"}
         \/ \E a \in Actor : task[a].msg = m /\ task[a].pc = "write"

SingleInv == TokenInv /\ LocalsOK /\ SentIsKept

\* A stage sends a message to a module twice only when a failing database call
\* had dropped the message in between.
RedispatchIsFault == \A d \in redispatched : d[1] \in faulted

--------------------------------------------------------------------------------
(***************************************************************************)
(* Where the tokens of a message are, and how they move.                   *)
(***************************************************************************)
LEMMA TokenKinds ==
  ASSUME NEW m, NEW tasks, NEW entries, NEW point, NEW passes, NEW k
  PROVE  k \in TokensIn(m, tasks, entries, point, passes) <=>
           \/ \E a \in Actor :
                Drives(tasks[a], m) /\ k = <<"task", a, StepOf(tasks[a]), StageReached(tasks[a])>>
           \/ \E e \in entries : k = <<"entry", e, "awaited", e.stage>>
           \/ point # NoPoint /\ k = <<"held", point, "due", StageOf(point)>>
           \/ \E s \in Sweeper :
                /\ passes[s].taken[m] # NoPoint
                /\ k = <<"taken", s, "due", StageOf(passes[s].taken[m])>>
           \/ \E s \in Sweeper : \E d \in passes[s].queue :
                d.msg = m /\ k = <<"queue", <<s, d>>, "awaited", d.entry.stage>>
BY DEF TokensIn

\* What is known of m is not disturbed.
Kept(m) ==
  /\ row[m] # "none" => row'[m] # "none"
  /\ MaxFlags = 0 /\ row[m] = "queued" => row'[m] = "queued"
  /\ m \in live => m \in live'
  /\ index'[m] = index[m]
  /\ \A stage \in Stage : SentTo(m, stage)' = SentTo(m, stage)
  /\ faulted \subseteq faulted'

LEMMA ReachedKept ==
  ASSUME NEW m, Kept(m), NEW step, NEW stage \in Stage, Reached(m, step, stage)
  PROVE  Reached(m, step, stage)'
<1>1. /\ SentTo(m, "pre_process")' = SentTo(m, "pre_process")
      /\ SentTo(m, "in_process")' = SentTo(m, "in_process")
      /\ SentTo(m, "post_process")' = SentTo(m, "post_process")
  BY DEF Kept, Stage
<1>2. Before(m, stage) => Before(m, stage)'
  BY <1>1 DEF Kept, Before, ChainUpTo, Stage
<1>3. Through(m, stage) => Through(m, stage)'
  BY <1>1 DEF Kept, Through, ChainUpTo, Stage
<1>4. Before(m, "pre_process") => Before(m, "pre_process")'
  BY <1>1 DEF Before, Stage
<1>. QED BY <1>2, <1>3, <1>4 DEF Reached, Kept

\* Every token stands for a stage.
LEMMA TokenStage ==
  ASSUME TypeInv, NEW m \in Msg, NEW k \in Tokens(m)
  PROVE  k[4] \in Stage
<1>1. CASE \E a \in Actor : k = <<"task", a, StepOf(task[a]), StageReached(task[a])>>
  BY <1>1 DEF StageReached, TypeInv, TypeOK, Task, Stage
<1>2. CASE \E e \in pending[m] : k = <<"entry", e, "awaited", e.stage>>
  BY <1>2 DEF TypeInv, TypeOK, TrackerTypeOK, Entry
<1>3. CASE held[m] # NoPoint /\ k = <<"held", held[m], "due", StageOf(held[m])>>
  <2>1. held[m] \in HoldPoint
    BY <1>3 DEF TypeInv, TypeOK, GateTypeOK
  <2>. QED BY <1>3, <2>1 DEF StageOf, HoldPoint, Stage
<1>4. CASE \E s \in Sweeper :
             /\ pass[s].taken[m] # NoPoint
             /\ k = <<"taken", s, "due", StageOf(pass[s].taken[m])>>
  <2>1. PICK s \in Sweeper : /\ pass[s].taken[m] # NoPoint
                             /\ k = <<"taken", s, "due", StageOf(pass[s].taken[m])>>
    BY <1>4
  <2>2. pass[s].taken[m] \in HoldPoint
    BY <2>1, PassFields DEF Pass
  <2>. QED BY <2>1, <2>2 DEF StageOf, HoldPoint, Stage
<1>5. CASE \E s \in Sweeper : \E d \in pass[s].queue :
             k = <<"queue", <<s, d>>, "awaited", d.entry.stage>>
  <2>1. PICK s \in Sweeper : \E d \in pass[s].queue :
               k = <<"queue", <<s, d>>, "awaited", d.entry.stage>>
    BY <1>5
  <2>2. PICK d \in pass[s].queue : k = <<"queue", <<s, d>>, "awaited", d.entry.stage>>
    BY <2>1
  <2>. QED BY <2>2, PassFields
<1>. QED BY <1>1, <1>2, <1>3, <1>4, <1>5, TokenKinds DEF Tokens

\* No new token.
LEMMA TokensStay ==
  ASSUME TypeInv, NEW m \in Msg, TokenOK(m), Tokens(m)' \subseteq Tokens(m), Kept(m)
  PROVE  TokenOK(m)'
<1>1. AtMostOne(Tokens(m)')
  BY DEF TokenOK, AtMostOne
<1>2. ASSUME NEW k \in Tokens(m)' PROVE Reached(m, k[3], k[4])'
  BY TokenStage, ReachedKept DEF TokenOK
<1>. QED BY <1>1, <1>2 DEF TokenOK, AtMostOne

\* The one token is replaced by another, or lost.
LEMMA TokenMoves ==
  ASSUME NEW m \in Msg, TokenOK(m), NEW old \in Tokens(m), NEW new,
         \A k \in Tokens(m)' : k = new \/ (k \in Tokens(m) /\ k # old),
         new \in Tokens(m)' => Reached(m, new[3], new[4])'
  PROVE  TokenOK(m)'
<1>1. \A k \in Tokens(m)' : k = new
  BY DEF TokenOK, AtMostOne
<1>. QED BY <1>1 DEF TokenOK, AtMostOne

\* Nothing is new that could move m on.
Unmoved(m) ==
  /\ \A a \in Actor : Drives(task'[a], m) => task'[a] = task[a]
  /\ pending'[m] \subseteq pending[m]
  /\ held'[m] \in {held[m], NoPoint}
  /\ \A s \in Sweeper : /\ pass'[s].taken[m] \in {pass[s].taken[m], NoPoint}
                        /\ \A d \in pass'[s].queue : d.msg = m => d \in pass[s].queue

LEMMA TokensUnmoved ==
  ASSUME TypeInv, NEW m \in Msg, TokenOK(m), Unmoved(m), Kept(m)
  PROVE  TokenOK(m)'
<1>1. \A k : k \in Tokens(m)' <=> k \in TokensIn(m, task', pending'[m], held'[m], pass')
  BY DEF Tokens
<1>2. \A k : k \in TokensIn(m, task', pending'[m], held'[m], pass') =>
        k \in TokensIn(m, task, pending[m], held[m], pass)
  <2>. TAKE k
  <2>. HAVE k \in TokensIn(m, task', pending'[m], held'[m], pass')
  <2>1. \/ \E a \in Actor :
             /\ Drives(task'[a], m)
             /\ k = <<"task", a, StepOf(task'[a]), StageReached(task'[a])>>
        \/ \E e \in pending'[m] : k = <<"entry", e, "awaited", e.stage>>
        \/ held'[m] # NoPoint /\ k = <<"held", held'[m], "due", StageOf(held'[m])>>
        \/ \E s \in Sweeper : /\ pass'[s].taken[m] # NoPoint
                             /\ k = <<"taken", s, "due", StageOf(pass'[s].taken[m])>>
        \/ \E s \in Sweeper : \E d \in pass'[s].queue :
             d.msg = m /\ k = <<"queue", <<s, d>>, "awaited", d.entry.stage>>
    BY TokenKinds
  <2>2. CASE \E a \in Actor :
             /\ Drives(task'[a], m)
             /\ k = <<"task", a, StepOf(task'[a]), StageReached(task'[a])>>
    <3>1. PICK a \in Actor :
             /\ Drives(task'[a], m)
             /\ k = <<"task", a, StepOf(task'[a]), StageReached(task'[a])>>
      BY <2>2
    <3>2. Drives(task[a], m) /\ k = <<"task", a, StepOf(task[a]), StageReached(task[a])>>
      BY <3>1 DEF Unmoved
    <3>. QED BY <3>2, TokenKinds
  <2>3. CASE \E e \in pending'[m] : k = <<"entry", e, "awaited", e.stage>>
    BY <2>3, TokenKinds DEF Unmoved
  <2>4. CASE held'[m] # NoPoint /\ k = <<"held", held'[m], "due", StageOf(held'[m])>>
    <3>1. held[m] # NoPoint /\ k = <<"held", held[m], "due", StageOf(held[m])>>
      BY <2>4 DEF Unmoved
    <3>. QED BY <3>1, TokenKinds
  <2>5. CASE \E s \in Sweeper : /\ pass'[s].taken[m] # NoPoint
                              /\ k = <<"taken", s, "due", StageOf(pass'[s].taken[m])>>
    <3>1. PICK s \in Sweeper : /\ pass'[s].taken[m] # NoPoint
                              /\ k = <<"taken", s, "due", StageOf(pass'[s].taken[m])>>
      BY <2>5
    <3>2. pass[s].taken[m] # NoPoint /\ k = <<"taken", s, "due", StageOf(pass[s].taken[m])>>
      BY <3>1 DEF Unmoved
    <3>. QED BY <3>2, TokenKinds
  <2>6. CASE \E s \in Sweeper : \E d \in pass'[s].queue :
             d.msg = m /\ k = <<"queue", <<s, d>>, "awaited", d.entry.stage>>
    <3>1. \E s \in Sweeper : \E d \in pass[s].queue :
             d.msg = m /\ k = <<"queue", <<s, d>>, "awaited", d.entry.stage>>
      BY <2>6 DEF Unmoved
    <3>. QED BY <3>1, TokenKinds
  <2>. QED BY <2>1, <2>2, <2>3, <2>4, <2>5, <2>6
<1>3. Tokens(m)' \subseteq Tokens(m)
  BY <1>1, <1>2 DEF Tokens
<1>. QED BY <1>3, TokensStay

\* The one token of m, whatever it is.
LEMMA SoleToken ==
  ASSUME NEW m \in Msg, TokenOK(m), NEW k \in Tokens(m)
  PROVE  /\ Reached(m, k[3], k[4])
         /\ \A a \in Actor : Drives(task[a], m) =>
              k = <<"task", a, StepOf(task[a]), StageReached(task[a])>>
         /\ \A e \in pending[m] : k = <<"entry", e, "awaited", e.stage>>
         /\ held[m] # NoPoint => k = <<"held", held[m], "due", StageOf(held[m])>>
         /\ \A s \in Sweeper :
              /\ pass[s].taken[m] # NoPoint =>
                   k = <<"taken", s, "due", StageOf(pass[s].taken[m])>>
              /\ \A d \in pass[s].queue :
                   d.msg = m => k = <<"queue", <<s, d>>, "awaited", d.entry.stage>>
<1>1. \A l \in Tokens(m) : l = k
  BY DEF TokenOK, AtMostOne
<1>2. ASSUME NEW a \in Actor, Drives(task[a], m)
      PROVE  k = <<"task", a, StepOf(task[a]), StageReached(task[a])>>
  <2>1. <<"task", a, StepOf(task[a]), StageReached(task[a])>> \in Tokens(m)
    BY <1>2, TokenKinds DEF Tokens
  <2>. QED BY <1>1, <2>1
<1>3. ASSUME NEW e \in pending[m] PROVE k = <<"entry", e, "awaited", e.stage>>
  <2>1. <<"entry", e, "awaited", e.stage>> \in Tokens(m)
    BY TokenKinds DEF Tokens
  <2>. QED BY <1>1, <2>1
<1>4. ASSUME held[m] # NoPoint PROVE k = <<"held", held[m], "due", StageOf(held[m])>>
  <2>1. <<"held", held[m], "due", StageOf(held[m])>> \in Tokens(m)
    BY <1>4, TokenKinds DEF Tokens
  <2>. QED BY <1>1, <2>1
<1>5. ASSUME NEW s \in Sweeper, pass[s].taken[m] # NoPoint
      PROVE  k = <<"taken", s, "due", StageOf(pass[s].taken[m])>>
  <2>1. <<"taken", s, "due", StageOf(pass[s].taken[m])>> \in Tokens(m)
    BY <1>5, TokenKinds DEF Tokens
  <2>. QED BY <1>1, <2>1
<1>6. ASSUME NEW s \in Sweeper, NEW d \in pass[s].queue, d.msg = m
      PROVE  k = <<"queue", <<s, d>>, "awaited", d.entry.stage>>
  <2>1. <<"queue", <<s, d>>, "awaited", d.entry.stage>> \in Tokens(m)
    BY <1>6, TokenKinds DEF Tokens
  <2>. QED BY <1>1, <2>1
<1>7. Reached(m, k[3], k[4])
  BY DEF TokenOK
<1>. QED BY <1>2, <1>3, <1>4, <1>5, <1>6, <1>7

\* After the step new is the only token m can have.
LEMMA OnlyToken ==
  ASSUME NEW m \in Msg, NEW new, Reached(m, new[3], new[4])',
         \A a \in Actor : Drives(task'[a], m) =>
           new = <<"task", a, StepOf(task'[a]), StageReached(task'[a])>>,
         \A e \in pending'[m] : new = <<"entry", e, "awaited", e.stage>>,
         held'[m] # NoPoint => new = <<"held", held'[m], "due", StageOf(held'[m])>>,
         \A s \in Sweeper :
           /\ pass'[s].taken[m] # NoPoint =>
                new = <<"taken", s, "due", StageOf(pass'[s].taken[m])>>
           /\ \A d \in pass'[s].queue :
                d.msg = m => new = <<"queue", <<s, d>>, "awaited", d.entry.stage>>
  PROVE  TokenOK(m)'
<1>1. \A k : k \in Tokens(m)' => k \in TokensIn(m, task', pending'[m], held'[m], pass')
  BY DEF Tokens
<1>2. \A k : k \in TokensIn(m, task', pending'[m], held'[m], pass') => k = new
  BY TokenKinds
<1>. QED BY <1>1, <1>2 DEF TokenOK, AtMostOne

\* A task that drives m is its only token.
LEMMA DriverAlone ==
  ASSUME NEW m \in Msg, TokenOK(m), NEW a \in Actor, Drives(task[a], m)
  PROVE  /\ <<"task", a, StepOf(task[a]), StageReached(task[a])>> \in Tokens(m)
         /\ Reached(m, StepOf(task[a]), StageReached(task[a]))
         /\ \A b \in Actor : Drives(task[b], m) => b = a
         /\ pending[m] = {}
         /\ held[m] = NoPoint
         /\ \A s \in Sweeper : /\ pass[s].taken[m] = NoPoint
                               /\ \A d \in pass[s].queue : d.msg # m
<1> DEFINE k == <<"task", a, StepOf(task[a]), StageReached(task[a])>>
<1>1. k \in Tokens(m)
  BY TokenKinds DEF Tokens
<1>2. /\ Reached(m, k[3], k[4])
      /\ \A b \in Actor : Drives(task[b], m) =>
           k = <<"task", b, StepOf(task[b]), StageReached(task[b])>>
      /\ \A e \in pending[m] : k = <<"entry", e, "awaited", e.stage>>
      /\ held[m] # NoPoint => k = <<"held", held[m], "due", StageOf(held[m])>>
      /\ \A s \in Sweeper :
           /\ pass[s].taken[m] # NoPoint =>
                k = <<"taken", s, "due", StageOf(pass[s].taken[m])>>
           /\ \A d \in pass[s].queue :
                d.msg = m => k = <<"queue", <<s, d>>, "awaited", d.entry.stage>>
  BY <1>1, SoleToken
<1>. QED BY <1>1, <1>2

\* One task moves; the other places of a token are left alone.
LEMMA TaskMoves ==
  ASSUME TypeInv, TokenInv, NEW a \in Actor, NEW t, Goto(a, t),
         UNCHANGED <<pending, held, pass>>,
         \A m \in Msg : Drives(t, m) =>
           Drives(task[a], m) /\ Reached(m, StepOf(t), StageReached(t))',
         \A m \in Msg : ~Drives(task[a], m) => Kept(m)
  PROVE  TokenInv'
<1>. SUFFICES ASSUME NEW m \in Msg PROVE TokenOK(m)'
  BY DEF TokenInv
<1>0. TokenOK(m) /\ task' = [task EXCEPT ![a] = t] /\ task \in [Actor -> Task]
  BY DEF TokenInv, Goto, TypeInv, TypeOK
<1> DEFINE old == <<"task", a, StepOf(task[a]), StageReached(task[a])>>
           new == <<"task", a, StepOf(t), StageReached(t)>>
<1>1. ASSUME NEW k \in Tokens(m)'
      PROVE  (k = new /\ Drives(t, m)) \/ (k \in Tokens(m) /\ k # old)
  <2>1. k \in TokensIn(m, task', pending[m], held[m], pass)
    BY DEF Tokens
  <2>2. CASE \E b \in Actor : /\ Drives(task'[b], m)
                              /\ k = <<"task", b, StepOf(task'[b]), StageReached(task'[b])>>
    <3>1. PICK b \in Actor : /\ Drives(task'[b], m)
                             /\ k = <<"task", b, StepOf(task'[b]), StageReached(task'[b])>>
      BY <2>2
    <3>2. CASE b = a
      <4>1. task'[b] = t
        BY <1>0, <3>2
      <4>. QED BY <3>1, <3>2, <4>1
    <3>3. CASE b # a
      <4>1. task'[b] = task[b]
        BY <1>0, <3>3
      <4>2. k \in Tokens(m)
        BY <3>1, <4>1, TokenKinds DEF Tokens
      <4>. QED BY <3>1, <3>3, <4>2
    <3>. QED BY <3>2, <3>3
  <2>3. CASE ~\E b \in Actor : /\ Drives(task'[b], m)
                               /\ k = <<"task", b, StepOf(task'[b]), StageReached(task'[b])>>
    <3>1. k \in Tokens(m)
      BY <2>1, <2>3, TokenKinds DEF Tokens
    <3>2. k[1] # "task"
      BY <2>1, <2>3, TokenKinds
    <3>. QED BY <3>1, <3>2
  <2>. QED BY <2>2, <2>3
<1>2. CASE Drives(task[a], m)
  <2>1. old \in Tokens(m)
    BY <1>0, <1>2, DriverAlone
  <2>2. new \in Tokens(m)' => Reached(m, new[3], new[4])'
    <3>1. CASE Drives(t, m)
      BY <3>1
    <3>2. CASE ~Drives(t, m)
      <4>1. new \notin Tokens(m)'
        <5>1. \A k \in Tokens(m)' : k \in Tokens(m) /\ k # old
          BY <1>1, <3>2
        <5>2. Tokens(m)' = {}
          BY <1>0, <2>1, <5>1 DEF TokenOK, AtMostOne
        <5>. QED BY <5>2
      <4>. QED BY <4>1
    <3>. QED BY <3>1, <3>2
  <2>. HIDE DEF old, new
  <2>3. \A k \in Tokens(m)' : k = new \/ (k \in Tokens(m) /\ k # old)
    BY <1>1
  <2>. QED BY <1>0, <2>1, <2>2, <2>3, TokenMoves
<1>3. CASE ~Drives(task[a], m)
  <2>1. ~Drives(t, m)
    BY <1>3
  <2>2. Tokens(m)' \subseteq Tokens(m)
    BY <1>1, <2>1
  <2>. QED BY <1>0, <1>3, <2>2, TokensStay
<1>. QED BY <1>2, <1>3

\* Only the task that drives a message moves its index.
LEMMA LocalMoves ==
  ASSUME TypeInv, TokenInv, LocalsOK, NEW a \in Actor, NEW t, Goto(a, t), LocalOK(t, index'),
         \A m \in Msg : index'[m] # index[m] => Drives(task[a], m)
  PROVE  LocalsOK'
<1>. SUFFICES ASSUME NEW b \in Actor PROVE LocalOK(task'[b], index')
  BY DEF LocalsOK
<1>0. task' = [task EXCEPT ![a] = t] /\ task \in [Actor -> Task]
  BY DEF Goto, TypeInv, TypeOK
<1>1. CASE b = a
  <2>1. task'[b] = t
    BY <1>0, <1>1
  <2>. QED BY <2>1
<1>2. CASE b # a
  <2>1. task'[b] = task[b] /\ LocalOK(task[b], index)
    BY <1>0, <1>2 DEF LocalsOK
  <2>2. CASE task[b].pc = "send"
    <3>1. task[b].msg \in Msg
      BY <2>2, WorkingMsg DEF WorkPC
    <3>2. Drives(task[b], task[b].msg)
      BY <2>2 DEF Drives
    <3>3. index'[task[b].msg] = index[task[b].msg]
      BY <1>2, <3>1, <3>2, DriverAlone DEF TokenInv
    <3>. QED BY <2>1, <2>2, <3>3 DEF LocalOK
  <2>3. CASE task[b].pc # "send"
    BY <2>1, <2>3 DEF LocalOK
  <2>. QED BY <2>2, <2>3
<1>. QED BY <1>1, <1>2

\* A step that leaves rows, states and sends alone.
LEMMA SentStays ==
  ASSUME SentIsKept, UNCHANGED <<row, live, dispatched>>, faulted \subseteq faulted',
         \A m \in Msg : m \notin faulted' =>
           \A b \in Actor : task[b].msg = m /\ task[b].pc = "write" => task'[b] = task[b]
  PROVE  SentIsKept'
BY DEF SentIsKept, WasSent, SentTo

LEMMA ReachedSame ==
  ASSUME UNCHANGED <<row, live, index, dispatched, faulted>>
  PROVE  /\ \A m : Kept(m)
         /\ \A m, step : \A stage \in Stage :
              Reached(m, step, stage) => Reached(m, step, stage)'
<1>1. \A m : Kept(m)
  BY DEF SentTo, Kept
<1>. QED BY <1>1, ReachedKept

\* A step of one task that changes nothing else that matters here.
LEMMA QuietMoves ==
  ASSUME TypeInv, TypeInv', SingleInv, NEW a \in Actor, NEW t, Goto(a, t),
         UNCHANGED <<row, live, index, dispatched, faulted, pending, held, pass>>,
         task[a].pc # "write", LocalOK(t, index),
         \A m \in Msg : Drives(t, m) =>
           Drives(task[a], m) /\ Reached(m, StepOf(t), StageReached(t))
  PROVE  SingleInv'
<1>0. t \in Task
  <2>1. task'[a] = t
    BY DEF Goto, TypeInv, TypeOK
  <2>. QED BY <2>1 DEF TypeInv, TypeOK
<1>1. TokenInv'
  <2>1. StageReached(t) \in Stage
    BY <1>0 DEF StageReached, Task, Stage
  <2>. QED BY <2>1, ReachedSame, TaskMoves DEF SingleInv
<1>2. LocalsOK'
  BY LocalMoves DEF SingleInv
<1>3. SentIsKept'
  <2>1. \A b \in Actor : task[b].pc = "write" => task'[b] = task[b]
    BY DEF Goto, TypeInv, TypeOK
  <2>. QED BY <2>1, SentStays DEF SingleInv
<1>. QED BY <1>1, <1>2, <1>3 DEF SingleInv

--------------------------------------------------------------------------------
(***************************************************************************)
(* The stages.                                                             *)
(***************************************************************************)
\* Nothing of this concerns a task at another step.
LEMMA LocalTrivially ==
  ASSUME NEW t, t.pc \notin {"fan", "track", "send", "write"}, NEW position
  PROVE  LocalOK(t, position)
BY DEF LocalOK

\* The step and the stage of the tasks that a step starts.
LEMMA StartedSteps ==
  /\ \A m, stage : \A pc \in {"gate", "audit", "load"} :
       /\ StepOf(AtStage(pc, m, stage)) = "due"
       /\ StageReached(AtStage(pc, m, stage)) = stage
       /\ AtStage(pc, m, stage).msg = m
       /\ AtStage(pc, m, stage).pc = pc
  /\ \A m : /\ StepOf(At("bump", m)) = "awaited"
            /\ StageReached(At("bump", m)) = "in_process"
            /\ At("bump", m).msg = m
            /\ At("bump", m).pc = "bump"
            /\ StepOf(At("claim", m)) = "claim"
            /\ StageReached(At("claim", m)) = "pre_process"
            /\ At("claim", m).msg = m
            /\ At("claim", m).pc = "claim"
  /\ \A m, outcome : /\ StepOf(Ending(m, outcome)) = "ending"
                     /\ StageReached(Ending(m, outcome)) = "pre_process"
                     /\ Ending(m, outcome).msg = m
                     /\ Ending(m, outcome).pc = "preserve"
BY DEF StepOf, StageReached, AtStage, At, Ending, Idle

LEMMA DrivesItsOwn == ASSUME NEW t, NEW m, Drives(t, m) PROVE t.msg = m
BY DEF Drives

\* A task goes to its rest.
LEMMA QuietRest ==
  ASSUME TypeInv, TypeInv', SingleInv, NEW a \in Actor, NEW t, Goto(a, t),
         UNCHANGED <<row, live, index, dispatched, faulted, pending, held, pass>>,
         task[a].pc # "write",
         t.pc \in OutsideLoop \cup {"ack", "sweep", "store", "clear"}
  PROVE  SingleInv'
<1>1. \A m \in Msg : ~Drives(t, m)
  BY LoopDrivesNothing
<1>2. LocalOK(t, index)
  BY LocalTrivially DEF OutsideLoop
<1>. QED BY <1>1, <1>2, QuietMoves

LEMMA QuietReturn ==
  ASSUME TypeInv, TypeInv', SingleInv, NEW a \in Actor, Return(a),
         UNCHANGED <<row, live, index, dispatched, faulted, pending, held, pass>>,
         task[a].pc # "write"
  PROVE  SingleInv'
<1>1. Rest(a).pc \in OutsideLoop \cup {"ack", "sweep", "store", "clear"}
  BY DEF Rest, Idle, OutsideLoop
<1>2. PICK t : t = Rest(a)
  OBVIOUS
<1>. QED BY <1>1, <1>2, QuietRest DEF Return

\* A task brings its message on.
LEMMA QuietTo ==
  ASSUME TypeInv, TypeInv', SingleInv, NEW a \in Actor, NEW t, Goto(a, t),
         UNCHANGED <<row, live, index, dispatched, faulted, pending, held, pass>>,
         task[a].msg \in Msg, task[a].pc \in DrivePC \cup {"fan"}, task[a].pc # "write",
         task[a].pc = "fan" => ~task[a].sent,
         t.msg = task[a].msg, LocalOK(t, index),
         Drives(task[a], task[a].msg) => Reached(t.msg, StepOf(t), StageReached(t))
  PROVE  SingleInv'
<1>1. Drives(task[a], task[a].msg)
  BY DriveFacts
<1>2. \A m \in Msg : Drives(t, m) => m = task[a].msg
  BY DrivesItsOwn
<1>. QED BY <1>1, <1>2, QuietMoves

\* Where the driver of a message is.
LEMMA DriverReached ==
  ASSUME TypeInv, SingleInv, NEW a \in Actor, task[a].msg \in Msg, Drives(task[a], task[a].msg)
  PROVE  /\ row[task[a].msg] # "none"
         /\ task[a].pc \notin {"claim", "write"} => task[a].msg \in live
         /\ Reached(task[a].msg, StepOf(task[a]), StageReached(task[a]))
         /\ task[a].pc \in {"gate", "audit", "load", "fan", "send"} =>
              Reached(task[a].msg, "due", task[a].stage)
         /\ task[a].pc \in {"track", "retrack"} =>
              Reached(task[a].msg, "awaited", task[a].stage)
         /\ task[a].pc = "bump" => Reached(task[a].msg, "awaited", "in_process")
         /\ task[a].pc = "claim" => Reached(task[a].msg, "claim", task[a].stage)
<1>1. Reached(task[a].msg, StepOf(task[a]), StageReached(task[a]))
  BY DriverAlone DEF SingleInv, TokenInv
<1>2. task[a].pc \notin {"claim", "write"} => StepOf(task[a]) \notin {"claim", "write"}
  BY DriveFacts DEF StepOf, DrivePC
<1>3. /\ task[a].pc \in {"gate", "audit", "load", "fan", "send"} =>
            StepOf(task[a]) = "due" /\ StageReached(task[a]) = task[a].stage
      /\ task[a].pc \in {"track", "retrack"} =>
            StepOf(task[a]) = "awaited" /\ StageReached(task[a]) = task[a].stage
      /\ task[a].pc = "bump" =>
            StepOf(task[a]) = "awaited" /\ StageReached(task[a]) = "in_process"
      /\ task[a].pc = "claim" =>
            StepOf(task[a]) = "claim" /\ StageReached(task[a]) = task[a].stage
  BY DEF StepOf, StageReached
<1>. QED BY <1>1, <1>2, <1>3 DEF Reached

\* How what was reached carries over to the next place.
LEMMA ReachedNext ==
  ASSUME NEW m, index[m] \in Nat
  PROVE  /\ Reached(m, "due", "pre_process") => Reached(m, "due", "in_process")
         /\ Reached(m, "due", "in_process") =>
              Reached(m, "due", "post_process") /\ Reached(m, "awaited", "in_process")
         /\ Reached(m, "awaited", "pre_process") => Reached(m, "due", "in_process")
         /\ \A step, stage, other :
              Reached(m, step, stage) /\ step \notin {"claim", "write"}
                => Reached(m, "ending", other)
<1>1. Before(m, "pre_process") => Before(m, "in_process")
  BY DEF Before, ChainUpTo, Stage
<1>2. Before(m, "in_process") => Before(m, "post_process") /\ Through(m, "in_process")
  BY DEF Before, Through, ChainUpTo
<1>3. Through(m, "pre_process") => Before(m, "in_process")
  BY DEF Before, Through, ChainUpTo
<1>. QED BY <1>1, <1>2, <1>3 DEF Reached

LEMMA GateSingle ==
  ASSUME TypeInv, TypeInv', SingleInv, NEW a \in Actor, Gate(a)
  PROVE  SingleInv'
<1>0. task[a].msg \in Msg /\ task[a].stage \in Stage
  BY WorkingMsg DEF Gate, Is, WorkPC, TypeInv, TypeOK, Task
<1>. PICK m \in Msg : m = task[a].msg
  BY <1>0
<1>. PICK stage \in Stage : stage = task[a].stage
  BY <1>0
<1>1. m = task[a].msg /\ stage = task[a].stage /\ Drives(task[a], m) /\ task[a].pc = "gate"
  BY DriveFacts DEF Gate, Is, DrivePC
<1>2. Reached(m, "due", stage)
  BY <1>1, DriverReached
<1>3. UNCHANGED <<row, live, index, dispatched, faulted, pending, pass>>
  BY DEF Gate, rowVars, stateVars, historyVars
<1>4. CASE hold_if_gated(m, PointOf(stage)) /\ Return(a)
  <2> DEFINE p == PointOf(stage)
             t == Rest(a)
  <2> DEFINE new == <<"held", p, "due", stage>>
  <2>0. /\ p \in HoldPoint /\ StageOf(p) = stage
        /\ held' = [held EXCEPT ![m] = p] /\ held \in [Msg -> HoldPoint \cup {NoPoint}]
        /\ task' = [task EXCEPT ![a] = t] /\ task \in [Actor -> Task]
        /\ \A n \in Msg : ~Drives(t, n)
    BY <1>1, <1>4, RestDrivesNothing DEF PointOf, StageOf, HoldPoint, Stage, hold_if_gated,
       Return, Goto, TypeInv, TypeOK, GateTypeOK
  <2>1. TokenOK(m)'
    <3>1. new[3] = "due" /\ new[4] = stage
      OBVIOUS
    <3>2. Reached(m, "due", stage)'
      BY <1>1, <1>2, <1>3, ReachedSame
    <3>3. \A b \in Actor : ~Drives(task'[b], m)
      BY <1>1, <2>0, DriverAlone DEF SingleInv, TokenInv
    <3>4. /\ pending'[m] = {}
          /\ \A s \in Sweeper : /\ pass'[s].taken[m] = NoPoint
                                /\ \A d \in pass'[s].queue : d.msg # m
      BY <1>1, <1>3, DriverAlone DEF SingleInv, TokenInv
    <3>5. new = <<"held", held'[m], "due", StageOf(held'[m])>>
      BY <1>1, <2>0
    <3>. HIDE DEF new
    <3>. QED BY <1>1, <3>1, <3>2, <3>3, <3>4, <3>5, OnlyToken
  <2>2. ASSUME NEW n \in Msg, n # m
        PROVE  TokenOK(n)'
    <3>1. Unmoved(n)
      BY <1>3, <2>0, <2>2 DEF Unmoved
    <3>. QED BY <1>3, <3>1, ReachedSame, TokensUnmoved DEF SingleInv, TokenInv
  <2>3. LocalsOK'
    <3>1. \A position : LocalOK(t, position)
      BY LocalTrivially DEF Rest, Idle
    <3>. QED BY <1>3, <1>4, <3>1, LocalMoves DEF SingleInv, Return
  <2>4. SentIsKept'
    <3>1. \A b \in Actor : task[b].pc = "write" => task'[b] = task[b]
      BY <1>1, <2>0
    <3>. QED BY <1>3, <3>1, SentStays DEF SingleInv
  <2>5. TokenInv'
    BY <2>1, <2>2 DEF TokenInv
  <2>. QED BY <2>3, <2>4, <2>5 DEF SingleInv
<1>5. CASE /\ UNCHANGED gateVars
           /\ Goto(a, AtStage(IF stage = "pre_process" THEN "load" ELSE "audit", m, stage))
  <2>1. PICK pc \in {"load", "audit"} : Goto(a, AtStage(pc, m, stage))
    BY <1>5
  <2>2. PICK t : t = AtStage(pc, m, stage)
    OBVIOUS
  <2>3. /\ t.msg = m /\ t.pc = pc /\ StepOf(t) = "due" /\ StageReached(t) = stage
    BY <2>2, StartedSteps
  <2>4. LocalOK(t, index)
    BY <2>3, LocalTrivially
  <2>. QED BY <1>1, <1>2, <1>3, <1>5, <2>1, <2>2, <2>3, <2>4, QuietTo DEF gateVars, DrivePC
<1>. QED BY <1>1, <1>4, <1>5 DEF Gate

\* The task at work on a message, its message and its stage.
LEMMA AtWork ==
  ASSUME TypeInv, NEW a \in Actor, task[a].pc \in DrivePC \cup {"fan", "store", "clear"}
  PROVE  /\ task[a] \in Task /\ task[a].msg \in Msg /\ task[a].stage \in Stage
         /\ index[task[a].msg] \in Nat
         /\ task[a].pc \in DrivePC => Drives(task[a], task[a].msg)
         /\ task[a].pc = "fan" /\ ~task[a].sent => Drives(task[a], task[a].msg)
<1>1. task[a].pc \in WorkPC
  BY DEF DrivePC, WorkPC
<1>. QED BY <1>1, WorkingMsg, DriveFacts DEF Task, TypeInv, TypeOK

LEMMA ClaimSingle ==
  ASSUME TypeInv, TypeInv', SingleInv, NEW a \in Actor, Claim(a)
  PROVE  SingleInv'
<1>0. task[a].pc = "claim"
  BY DEF Claim, Is
<1>. PICK m \in Msg : m = task[a].msg
  BY <1>0, AtWork DEF DrivePC
<1>. PICK t : t = AtStage("gate", m, "pre_process")
  OBVIOUS
<1>1. /\ m = task[a].msg /\ Drives(task[a], m) /\ Goto(a, t)
      /\ t.msg = m /\ t.pc = "gate" /\ StepOf(t) = "due" /\ StageReached(t) = "pre_process"
  BY <1>0, AtWork, StartedSteps DEF Claim, DrivePC
<1>2. /\ live' = live \cup {m} /\ index' = [index EXCEPT ![m] = 0]
      /\ UNCHANGED <<row, dispatched, faulted, pending, held, pass>>
  BY <1>1 DEF Claim, rowVars, gateVars, historyVars
<1>3. Reached(m, "claim", task[a].stage)
  BY <1>0, <1>1, DriverReached
<1>4. TokenInv'
  <2>1. Reached(m, "due", "pre_process")'
    <3>1. Before(m, "pre_process") => Before(m, "pre_process")'
      BY <1>2 DEF Before, SentTo
    <3>. QED BY <1>2, <1>3, <3>1 DEF Reached
  <2>2. \A n \in Msg : n # m => Kept(n)
    BY <1>2 DEF Kept, SentTo, TypeInv, TypeOK
  <2>3. \A n \in Msg : ~Drives(task[a], n) => Kept(n)
    BY <1>1, <2>2
  <2>4. \A n \in Msg : Drives(t, n) =>
          Drives(task[a], n) /\ Reached(n, StepOf(t), StageReached(t))'
    BY <1>1, <2>1, DrivesItsOwn
  <2>. QED BY <1>1, <1>2, <2>3, <2>4, TaskMoves DEF SingleInv
<1>5. LocalsOK'
  <2>1. LocalOK(t, index')
    BY <1>1, LocalTrivially
  <2>2. \A n \in Msg : index'[n] # index[n] => Drives(task[a], n)
    BY <1>1, <1>2 DEF TypeInv, TypeOK
  <2>. QED BY <1>1, <2>1, <2>2, LocalMoves DEF SingleInv
<1>6. SentIsKept'
  <2>1. \A b \in Actor : task[b].pc = "write" => task'[b] = task[b]
    BY <1>0, <1>1 DEF Goto, TypeInv, TypeOK
  <2>2. row[m] # "none"
    BY <1>3 DEF Reached
  <2>. QED BY <1>2, <2>1, <2>2 DEF SingleInv, SentIsKept, WasSent, SentTo
<1>. QED BY <1>4, <1>5, <1>6 DEF SingleInv

LEMMA AuditSingle ==
  ASSUME TypeInv, TypeInv', SingleInv, NEW a \in Actor, Audit(a)
  PROVE  SingleInv'
<1>0. task[a].pc = "audit"
  BY DEF Audit, Is
<1>1. UNCHANGED <<row, live, index, dispatched, faulted, pending, held, pass>>
  BY DEF Audit, rowVars, stateVars, gateVars, historyVars
<1>2. CASE Return(a)
  BY <1>0, <1>1, <1>2, QuietReturn
<1>3. CASE Goto(a, AtStage("load", task[a].msg, task[a].stage))
  <2>. PICK m \in Msg, stage \in Stage : m = task[a].msg /\ stage = task[a].stage
    BY <1>0, AtWork DEF DrivePC
  <2>. PICK t : t = AtStage("load", m, stage)
    OBVIOUS
  <2>1. /\ m = task[a].msg /\ stage = task[a].stage /\ Drives(task[a], m) /\ Goto(a, t)
        /\ t.msg = m /\ t.pc = "load" /\ StepOf(t) = "due" /\ StageReached(t) = stage
    BY <1>0, <1>3, AtWork, StartedSteps DEF DrivePC
  <2>2. Reached(m, "due", stage) /\ LocalOK(t, index)
    BY <1>0, <2>1, DriverReached, LocalTrivially
  <2>. QED BY <1>0, <1>1, <2>1, <2>2, QuietTo DEF DrivePC
<1>. QED BY <1>2, <1>3 DEF Audit

LEMMA FanSkipSingle ==
  ASSUME TypeInv, TypeInv', SingleInv, NEW a \in Actor, FanSkip(a)
  PROVE  SingleInv'
<1>0. task[a].pc = "fan" /\ task[a].todo # {}
  BY DEF FanSkip, Is
<1>1. UNCHANGED <<row, live, index, dispatched, faulted, pending, held, pass>>
  BY DEF FanSkip, rowVars, stateVars, gateVars, historyVars
<1>. PICK x \in task[a].todo : Goto(a, [task[a] EXCEPT !.todo = @ \ {x}])
  BY DEF FanSkip
<1>. PICK m \in Msg, stage \in Stage : m = task[a].msg /\ stage = task[a].stage
  BY <1>0, AtWork
<1>. PICK t : t = [task[a] EXCEPT !.todo = @ \ {x}]
  OBVIOUS
<1>2. LocalOK(task[a], index) /\ task[a] \in Task
  BY <1>0, AtWork DEF SingleInv, LocalsOK
<1>3. /\ t.msg = m /\ t.pc = "fan" /\ t.stage = stage /\ t.sent = task[a].sent
      /\ t.todo = task[a].todo \ {x}
  BY <1>0, <1>2 DEF Task
<1>4. ~task[a].sent
  BY <1>0, <1>2 DEF LocalOK
<1>5. LocalOK(t, index)
  BY <1>0, <1>2, <1>3 DEF LocalOK, AtMostOne
<1>6. Reached(m, "due", stage)
  BY <1>0, <1>4, AtWork, DriverReached
<1>7. StepOf(t) = "due" /\ StageReached(t) = stage
  BY <1>3 DEF StepOf, StageReached
<1>. QED BY <1>0, <1>1, <1>3, <1>4, <1>5, <1>6, <1>7, QuietTo

LEMMA FanDoneSingle ==
  ASSUME TypeInv, TypeInv', SingleInv, NEW a \in Actor, FanDone(a)
  PROVE  SingleInv'
<1>0. task[a].pc = "fan"
  BY DEF FanDone, Is
<1>1. UNCHANGED <<row, live, index, dispatched, faulted, pending, held, pass>>
  BY DEF FanDone, rowVars, stateVars, gateVars, historyVars
<1>2. CASE Return(a)
  BY <1>0, <1>1, <1>2, QuietReturn
<1>3. CASE ~Return(a)
  <2>. PICK m \in Msg, stage \in Stage : m = task[a].msg /\ stage = task[a].stage
    BY <1>0, AtWork
  <2>1. ~task[a].sent
    BY <1>3 DEF FanDone
  <2>2. Reached(m, "due", stage) /\ index[m] \in Nat
    BY <1>0, <2>1, AtWork, DriverReached
  <2>3. CASE stage = "pre_process"
    <3>. PICK t : t = AtStage("gate", m, "in_process")
      OBVIOUS
    <3>1. /\ Goto(a, t) /\ t.msg = m /\ t.pc = "gate"
          /\ StepOf(t) = "due" /\ StageReached(t) = "in_process"
      BY <1>3, <2>3, StartedSteps DEF FanDone
    <3>2. Reached(m, "due", "in_process") /\ LocalOK(t, index)
      BY <2>2, <2>3, <3>1, ReachedNext, LocalTrivially
    <3>. QED BY <1>0, <1>1, <2>1, <3>1, <3>2, QuietTo
  <2>4. CASE stage # "pre_process"
    <3>. PICK t : t = Ending(m, "complete")
      OBVIOUS
    <3>1. /\ Goto(a, t) /\ t.msg = m /\ t.pc = "preserve"
          /\ StepOf(t) = "ending" /\ StageReached(t) = "pre_process"
      BY <1>3, <2>4, StartedSteps DEF FanDone
    <3>2. Reached(m, "ending", "pre_process") /\ LocalOK(t, index)
      BY <2>2, <3>1, ReachedNext, LocalTrivially
    <3>. QED BY <1>0, <1>1, <2>1, <3>1, <3>2, QuietTo
  <2>. QED BY <2>3, <2>4
<1>. QED BY <1>2, <1>3

LEMMA LoadFanoutSingle ==
  ASSUME TypeInv, TypeInv', SingleInv, SingleFile, NEW a \in Actor, LoadFanout(a)
  PROVE  SingleInv'
<1>0. task[a].pc = "load" /\ task[a].stage # "in_process"
  BY DEF LoadFanout, Is
<1>1. UNCHANGED <<row, live, index, dispatched, faulted, pending, held, pass>>
  BY DEF LoadFanout, rowVars, stateVars, gateVars, historyVars
<1>2. CASE Return(a)
  BY <1>0, <1>1, <1>2, QuietReturn
<1>3. CASE ~Return(a)
  <2>. PICK m \in Msg, stage \in Stage : m = task[a].msg /\ stage = task[a].stage
    BY <1>0, AtWork DEF DrivePC
  <2>. PICK owner \in {NoModule, CommandOwner[m]} : owner = owner_of(m)
    BY DEF owner_of
  <2>. PICK todo : todo = IF stage = "pre_process" THEN command_recipients(owner, PreModules)
                                                   ELSE post_process_recipients(owner)
    OBVIOUS
  <2>. PICK fan : fan = AtStage("fan", m, stage)
    OBVIOUS
  <2>. PICK t : t = [fan EXCEPT !.todo = todo]
    OBVIOUS
  <2>1. Goto(a, t)
    BY <1>3 DEF LoadFanout
  <2>2. /\ t.msg = m /\ t.pc = "fan" /\ t.stage = stage /\ t.sent = FALSE /\ t.todo = todo
    BY DEF AtStage, At, Idle
  <2>3. AtMostOne(todo)
    BY DEF SingleFile
  <2>4. todo \subseteq IF stage = "pre_process" THEN PreModules ELSE PostModules
    BY DEF command_recipients, post_process_recipients
  <2>5. LocalOK(t, index)
    BY <1>0, <2>2, <2>3, <2>4 DEF LocalOK
  <2>6. StepOf(t) = "due" /\ StageReached(t) = stage
    BY <2>2 DEF StepOf, StageReached
  <2>7. Reached(m, "due", stage)
    BY <1>0, AtWork, DriverReached DEF DrivePC
  <2>. QED BY <1>0, <1>1, <2>1, <2>2, <2>5, <2>6, <2>7, QuietTo DEF DrivePC
<1>. QED BY <1>2, <1>3

LEMMA LoadChainSingle ==
  ASSUME TypeInv, TypeInv', SingleInv, NEW a \in Actor, LoadChain(a)
  PROVE  SingleInv'
<1>0. task[a].pc = "load" /\ task[a].stage = "in_process"
  BY DEF LoadChain, Is
<1>1. UNCHANGED <<row, live, index, dispatched, faulted, pending, held, pass>>
  BY DEF LoadChain, rowVars, stateVars, gateVars, historyVars
<1>. PICK m \in Msg : m = task[a].msg
  BY <1>0, AtWork DEF DrivePC
<1>2. Reached(m, "due", "in_process") /\ index[m] \in Nat
  BY <1>0, AtWork, DriverReached DEF DrivePC
<1>3. CASE Return(a)
  BY <1>0, <1>1, <1>3, QuietReturn
<1>4. CASE m \in live /\ index[m] >= Len(InModules)
  <2>. PICK t : t = AtStage("gate", m, "post_process")
    OBVIOUS
  <2>1. /\ Goto(a, t) /\ t.msg = m /\ t.pc = "gate"
        /\ StepOf(t) = "due" /\ StageReached(t) = "post_process"
    BY <1>4, StartedSteps DEF LoadChain
  <2>2. Reached(m, "due", "post_process") /\ LocalOK(t, index)
    BY <1>2, <2>1, ReachedNext, LocalTrivially
  <2>. QED BY <1>0, <1>1, <2>1, <2>2, QuietTo DEF DrivePC
<1>5. CASE /\ m \in live /\ ~(index[m] >= Len(InModules))
           /\ ~is_in_recipient(owner_of(m), InModuleAt(index[m]))
  <2>. PICK t : t = At("bump", m)
    OBVIOUS
  <2>1. /\ Goto(a, t) /\ t.msg = m /\ t.pc = "bump"
        /\ StepOf(t) = "awaited" /\ StageReached(t) = "in_process"
    BY <1>5, StartedSteps DEF LoadChain
  <2>2. Reached(m, "awaited", "in_process") /\ LocalOK(t, index)
    BY <1>2, <2>1, ReachedNext, LocalTrivially
  <2>. QED BY <1>0, <1>1, <2>1, <2>2, QuietTo DEF DrivePC
<1>6. CASE /\ m \in live /\ ~(index[m] >= Len(InModules))
           /\ is_in_recipient(owner_of(m), InModuleAt(index[m]))
  <2>. PICK x : x = InModuleAt(index[m])
    OBVIOUS
  <2>. PICK t0 : t0 = AtStage("send", m, "in_process")
    OBVIOUS
  <2>. PICK t : t = [t0 EXCEPT !.mod = x]
    OBVIOUS
  <2>1. Goto(a, t)
    BY <1>6 DEF LoadChain
  <2>2. t.msg = m /\ t.pc = "send" /\ t.stage = "in_process" /\ t.mod = x
    BY DEF AtStage, At, Idle
  <2>3. index[m] < Len(InModules)
    <3>1. Len(InModules) \in Nat
      BY RoutingAssumption
    <3>. QED BY <1>2, <1>6, <3>1
  <2>4. LocalOK(t, index)
    BY <2>2, <2>3 DEF LocalOK
  <2>5. StepOf(t) = "due" /\ StageReached(t) = "in_process"
    BY <2>2 DEF StepOf, StageReached
  <2>. QED BY <1>0, <1>1, <1>2, <2>1, <2>2, <2>4, <2>5, QuietTo DEF DrivePC
<1>. QED BY <1>3, <1>4, <1>5, <1>6 DEF LoadChain

\* A task that drives m sends it to x: how sends are recorded.
LEMMA DispatchSends ==
  ASSUME NEW m \in Msg, NEW stage \in Stage, NEW x \in Module, Dispatch(m, stage, x)
  PROVE  /\ faulted' = faulted
         /\ \A n \in Msg, st \in Stage :
              ~(n = m /\ st = stage) => SentTo(n, st)' = SentTo(n, st)
         /\ SentTo(m, stage)' = SentTo(m, stage) \cup {x}
BY DEF Dispatch, SentTo

\* The send itself, to a pre- or post-process module or down the chain.
LEMMA SendSingle ==
  ASSUME TypeInv, TypeInv', SingleInv, NEW a \in Actor, NEW t, Goto(a, t),
         NEW m \in Msg, NEW stage \in Stage, NEW x \in Module, Dispatch(m, stage, x),
         UNCHANGED <<row, live, index, pending, held, pass>>,
         task[a].msg = m, task[a].stage = stage, Drives(task[a], m),
         task[a].pc \in {"fan", "send"}, LocalOK(t, index),
         t.msg = m, t.stage = stage, t.pc = "track",
         stage = "in_process" => index[m] < Len(InModules) /\ x = InModuleAt(index[m])
  PROVE  SingleInv'
<1>1. Reached(m, "due", stage) /\ index[m] \in Nat
  BY DriverReached DEF TypeInv, TypeOK
<1>2. StepOf(t) = "awaited" /\ StageReached(t) = stage
  BY DEF StepOf, StageReached
<1>3. /\ faulted' = faulted
      /\ \A n \in Msg, st \in Stage :
           ~(n = m /\ st = stage) => SentTo(n, st)' = SentTo(n, st)
      /\ SentTo(m, stage)' = SentTo(m, stage) \cup {x}
  BY DispatchSends
<1>4. \A n \in Msg : n # m => Kept(n)
  BY <1>3 DEF Kept
<1>5. Reached(m, "awaited", stage)'
  <2>1. Before(m, stage) => Through(m, stage)'
    <3>1. CASE stage = "pre_process"
      BY <1>3, <3>1 DEF Before, Through, Stage
    <3>2. CASE stage = "in_process"
      <4>1. SentTo(m, "post_process")' = SentTo(m, "post_process")
        BY <1>3, <3>2 DEF Stage
      <4>2. index[m] + 1 \in 1..Len(InModules) /\ x = InModules[index[m] + 1]
        BY <1>1, <3>2, RoutingAssumption DEF InModuleAt
      <4>3. ChainUpTo(m, index[m]) => ChainUpTo(m, index[m] + 1)'
        <5>. HAVE ChainUpTo(m, index[m])
        <5>1. ASSUME NEW y \in SentTo(m, "in_process")'
              PROVE  \E i \in 1..Len(InModules) : i <= index[m] + 1 /\ y = InModules[i]
          <6>1. CASE y = x
            BY <1>1, <4>2, <6>1
          <6>2. CASE y # x
            <7>1. y \in SentTo(m, "in_process")
              BY <1>3, <3>2, <6>2
            <7>2. PICK i \in 1..Len(InModules) : i <= index[m] /\ y = InModules[i]
              BY <7>1 DEF ChainUpTo
            <7>. QED BY <1>1, <7>2
          <6>. QED BY <6>1, <6>2
        <5>. QED BY <4>1, <5>1 DEF ChainUpTo
      <4>. QED BY <3>2, <4>3 DEF Before, Through
    <3>3. CASE stage = "post_process"
      BY <3>3 DEF Through
    <3>. QED BY <3>1, <3>2, <3>3 DEF Stage
  <2>. QED BY <1>1, <1>3, <2>1 DEF Reached
<1>6. TokenInv'
  <2>1. \A n \in Msg : ~Drives(task[a], n) => Kept(n)
    BY <1>4
  <2>2. \A n \in Msg : Drives(t, n) =>
          Drives(task[a], n) /\ Reached(n, StepOf(t), StageReached(t))'
    BY <1>2, <1>5, DrivesItsOwn
  <2>. QED BY <2>1, <2>2, TaskMoves DEF SingleInv
<1>7. LocalsOK'
  BY LocalMoves DEF SingleInv
<1>8. SentIsKept'
  <2>1. \A b \in Actor : task[b].pc = "write" => task'[b] = task[b]
    BY DEF Goto, TypeInv, TypeOK
  <2>2. m \in live
    BY <1>1 DEF Reached
  <2>3. \A n \in Msg : n # m => (WasSent(n)' <=> WasSent(n))
    BY <1>3 DEF WasSent
  <2>. QED BY <1>3, <2>1, <2>2, <2>3 DEF SingleInv, SentIsKept
<1>. QED BY <1>6, <1>7, <1>8 DEF SingleInv

LEMMA FanSendSingle ==
  ASSUME TypeInv, TypeInv', SingleInv, NEW a \in Actor, FanSend(a)
  PROVE  SingleInv'
<1>0. task[a].pc = "fan" /\ task[a].todo # {}
  BY DEF FanSend, Is
<1>1. UNCHANGED <<row, live, index, pending, held, pass>>
  BY DEF FanSend, rowVars, stateVars, gateVars
<1>2. task[a] \in Task /\ LocalOK(task[a], index)
  BY <1>0, AtWork DEF SingleInv, LocalsOK
<1>3. PICK x \in task[a].todo :
        /\ Goto(a, [task[a] EXCEPT !.pc = "track", !.todo = @ \ {x},
                                   !.sent = TRUE, !.mod = x])
        /\ Dispatch(task[a].msg, task[a].stage, x)
  BY DEF FanSend
<1>. PICK m \in Msg, stage \in Stage : m = task[a].msg /\ stage = task[a].stage
  BY <1>0, AtWork
<1>. PICK t : t = [task[a] EXCEPT !.pc = "track", !.todo = @ \ {x}, !.sent = TRUE, !.mod = x]
  OBVIOUS
<1>4. /\ t.pc = "track" /\ t.msg = m /\ t.stage = stage /\ t.sent = TRUE
      /\ t.todo = task[a].todo \ {x} /\ x \in Module
  BY <1>2 DEF Task
<1>5. ~task[a].sent /\ stage # "in_process" /\ t.todo = {}
  BY <1>0, <1>2, <1>3, <1>4 DEF LocalOK, AtMostOne
<1>6. LocalOK(t, index)
  BY <1>4, <1>5 DEF LocalOK
<1>7. Drives(task[a], m)
  BY <1>0, <1>5, AtWork
<1>8. Goto(a, t) /\ Dispatch(m, stage, x)
  BY <1>3
<1>. QED BY <1>0, <1>1, <1>4, <1>5, <1>6, <1>7, <1>8, SendSingle

LEMMA SendInProcessSingle ==
  ASSUME TypeInv, TypeInv', SingleInv, NEW a \in Actor, SendInProcess(a)
  PROVE  SingleInv'
<1>0. task[a].pc = "send"
  BY DEF SendInProcess, Is
<1>1. UNCHANGED <<row, live, index, pending, held, pass>>
  BY DEF SendInProcess, rowVars, stateVars, gateVars
<1>. PICK m \in Msg : m = task[a].msg
  BY <1>0, AtWork DEF DrivePC
<1>2. /\ task[a] \in Task /\ LocalOK(task[a], index) /\ task[a].mod \in Module
      /\ Drives(task[a], m) /\ index[m] \in Nat
  BY <1>0, AtWork DEF SingleInv, LocalsOK, DrivePC, TypeInv, TasksOK, TaskOK
<1>3. /\ task[a].stage = "in_process" /\ index[m] < Len(InModules)
      /\ task[a].mod = InModuleAt(index[m])
  BY <1>0, <1>2 DEF LocalOK
<1>4. CASE Goto(a, [task[a] EXCEPT !.pc = "track"])
           /\ Dispatch(task[a].msg, "in_process", task[a].mod)
  <2>. PICK x \in Module : x = task[a].mod
    BY <1>2
  <2>. PICK t : t = [task[a] EXCEPT !.pc = "track"]
    OBVIOUS
  <2>1. t.pc = "track" /\ t.msg = m /\ t.stage = "in_process"
    BY <1>2, <1>3 DEF Task
  <2>2. LocalOK(t, index)
    BY <2>1 DEF LocalOK
  <2>3. "in_process" \in Stage
    BY DEF Stage
  <2>. QED BY <1>0, <1>1, <1>2, <1>3, <1>4, <2>1, <2>2, <2>3, SendSingle
<1>5. CASE Goto(a, At("bump", task[a].msg)) /\ UNCHANGED historyVars
  <2>. PICK t : t = At("bump", m)
    OBVIOUS
  <2>1. /\ Goto(a, t) /\ t.msg = m /\ t.pc = "bump"
        /\ StepOf(t) = "awaited" /\ StageReached(t) = "in_process"
    BY <1>5, StartedSteps
  <2>2. Reached(m, "due", "in_process")
    BY <1>0, <1>2, <1>3, DriverReached
  <2>3. Reached(m, "awaited", "in_process") /\ LocalOK(t, index)
    BY <1>2, <2>1, <2>2, ReachedNext, LocalTrivially
  <2>. QED BY <1>0, <1>1, <1>5, <2>1, <2>3, QuietTo DEF DrivePC, historyVars
<1>. QED BY <1>4, <1>5 DEF SendInProcess

\* Nothing new can move any message on.
LEMMA UnmovedSingle ==
  ASSUME TypeInv, SingleInv, UNCHANGED <<row, live, index, dispatched>>, faulted \subseteq faulted',
         \A n \in Msg : Unmoved(n), LocalsOK',
         \A n \in Msg : n \notin faulted' =>
           \A b \in Actor : task[b].msg = n /\ task[b].pc = "write" => task'[b] = task[b]
  PROVE  SingleInv'
<1>1. \A n \in Msg : Kept(n)
  BY DEF Kept, SentTo
<1>2. TokenInv'
  BY <1>1, TokensUnmoved DEF SingleInv, TokenInv
<1>3. SentIsKept'
  BY SentStays DEF SingleInv
<1>. QED BY <1>2, <1>3 DEF SingleInv

\* The driver of a message hands it to the tracker.
LEMMA EntrySingle ==
  ASSUME TypeInv, TypeInv', SingleInv, NEW a \in Actor, NEW t, Goto(a, t),
         NEW m \in Msg, NEW e, e.stage \in Stage, Drives(task[a], m),
         Reached(m, "awaited", e.stage), task[a].pc # "write",
         UNCHANGED <<row, live, index, dispatched, faulted, held>>,
         pending' = [pending EXCEPT ![m] = @ \cup {e}],
         \A s \in Sweeper : pass'[s].queue = pass[s].queue /\ pass'[s].taken = pass[s].taken,
         \A n \in Msg : ~Drives(t, n), LocalOK(t, index)
  PROVE  SingleInv'
<1>0. /\ task' = [task EXCEPT ![a] = t] /\ task \in [Actor -> Task]
      /\ pending \in [Msg -> SUBSET Entry]
  BY DEF Goto, TypeInv, TypeOK, TrackerTypeOK
<1>1. TokenOK(m)'
  <2>. PICK new : new = <<"entry", e, "awaited", e.stage>>
    OBVIOUS
  <2>1. Reached(m, new[3], new[4])'
    <3>1. Reached(m, "awaited", e.stage)'
      BY ReachedSame
    <3>. QED BY <3>1
  <2>2. \A b \in Actor : ~Drives(task'[b], m)
    BY <1>0, DriverAlone DEF SingleInv, TokenInv
  <2>3. pending'[m] = {e}
    BY <1>0, DriverAlone DEF SingleInv, TokenInv
  <2>4. /\ held'[m] = NoPoint
        /\ \A s \in Sweeper : /\ pass'[s].taken[m] = NoPoint
                              /\ \A d \in pass'[s].queue : d.msg # m
    <3>1. /\ held[m] = NoPoint
          /\ \A s \in Sweeper : /\ pass[s].taken[m] = NoPoint
                                /\ \A d \in pass[s].queue : d.msg # m
      BY DriverAlone DEF SingleInv, TokenInv
    <3>. QED BY <3>1
  <2>. QED BY <2>1, <2>2, <2>3, <2>4, OnlyToken
<1>2. ASSUME NEW n \in Msg, n # m PROVE TokenOK(n)'
  <2>1. Unmoved(n)
    BY <1>0, <1>2 DEF Unmoved
  <2>. QED BY <2>1, ReachedSame, TokensUnmoved DEF SingleInv, TokenInv
<1>3. TokenInv'
  BY <1>1, <1>2 DEF TokenInv
<1>4. LocalsOK'
  BY LocalMoves DEF SingleInv
<1>5. SentIsKept'
  <2>1. \A b \in Actor : task[b].pc = "write" => task'[b] = task[b]
    BY <1>0
  <2>. QED BY <2>1, SentStays DEF SingleInv
<1>. QED BY <1>3, <1>4, <1>5 DEF SingleInv

LEMMA TrackSingle ==
  ASSUME TypeInv, TypeInv', SingleInv, NEW a \in Actor, Track(a)
  PROVE  SingleInv'
<1>0. task[a].pc = "track"
  BY DEF Track, Is
<1>1. UNCHANGED <<row, live, index, dispatched, faulted, held, pass>>
  BY DEF Track, rowVars, stateVars, gateVars, historyVars
<1>. PICK m \in Msg, stage \in Stage : m = task[a].msg /\ stage = task[a].stage
  BY <1>0, AtWork DEF DrivePC
<1>. PICK e : e = NewEntry(stage, task[a].mod, 0)
  OBVIOUS
<1>2. e.stage = stage /\ pending' = [pending EXCEPT ![m] = @ \cup {e}]
  BY DEF Track, track, NewEntry
<1>3. Drives(task[a], m) /\ Reached(m, "awaited", stage) /\ LocalOK(task[a], index)
  BY <1>0, AtWork, DriverReached DEF SingleInv, LocalsOK, DrivePC
<1>4. \A s \in Sweeper : pass'[s].queue = pass[s].queue /\ pass'[s].taken = pass[s].taken
  BY <1>1
<1>5. CASE stage = "in_process"
  <2>. PICK t : t = Rest(a)
    OBVIOUS
  <2>1. Goto(a, t)
    BY <1>5 DEF Track, Return
  <2>2. (\A n \in Msg : ~Drives(t, n)) /\ LocalOK(t, index)
    BY RestDrivesNothing, LocalTrivially DEF Rest, Idle
  <2>. QED BY <1>0, <1>1, <1>2, <1>3, <1>4, <2>1, <2>2, EntrySingle
<1>6. CASE stage # "in_process"
  <2>. PICK t : t = [task[a] EXCEPT !.pc = "fan", !.mod = NoModule]
    OBVIOUS
  <2>1. Goto(a, t)
    BY <1>6 DEF Track
  <2>2. task[a] \in Task /\ task[a].sent /\ task[a].todo = {}
    BY <1>0, <1>3, <1>6, AtWork DEF LocalOK, DrivePC
  <2>3. t.pc = "fan" /\ t.sent = task[a].sent /\ t.todo = {} /\ t.stage = stage
    BY <2>2 DEF Task
  <2>4. (\A n \in Msg : ~Drives(t, n)) /\ LocalOK(t, index)
    BY <1>6, <2>2, <2>3 DEF Drives, LocalOK, AtMostOne
  <2>. QED BY <1>0, <1>1, <1>2, <1>3, <1>4, <2>1, <2>4, EntrySingle
<1>. QED BY <1>5, <1>6

LEMMA BumpSingle ==
  ASSUME TypeInv, TypeInv', SingleInv, NEW a \in Actor, Bump(a)
  PROVE  SingleInv'
<1>0. task[a].pc = "bump"
  BY DEF Bump, Is
<1>. PICK m \in Msg : m = task[a].msg
  BY <1>0, AtWork DEF DrivePC
<1>1. Drives(task[a], m) /\ Reached(m, "awaited", "in_process") /\ index[m] \in Nat
  BY <1>0, AtWork, DriverReached DEF DrivePC
<1>2. m \in live
  BY <1>1 DEF Reached
<1>. PICK stage \in {"in_process", "post_process"} :
       stage = IF index[m] + 1 >= Len(InModules) THEN "post_process" ELSE "in_process"
  OBVIOUS
<1>. PICK t : t = AtStage("gate", m, stage)
  OBVIOUS
<1>3. /\ Goto(a, t) /\ t.msg = m /\ t.pc = "gate" /\ StepOf(t) = "due" /\ StageReached(t) = stage
  <2>1. Goto(a, t)
    BY <1>2 DEF Bump, AfterChain
  <2>. QED BY <2>1, StartedSteps
<1>4. /\ index' = [index EXCEPT ![m] = @ + 1]
      /\ UNCHANGED <<row, live, dispatched, faulted, pending, held, pass>>
  BY <1>2 DEF Bump, rowVars, gateVars, historyVars
<1>5. Reached(m, "due", stage)'
  <2>1. Through(m, "in_process") => Before(m, stage)'
    <3>1. index'[m] = index[m] + 1
      BY <1>4 DEF TypeInv, TypeOK
    <3>. QED BY <1>4, <3>1 DEF Through, Before, ChainUpTo, SentTo
  <2>. QED BY <1>1, <1>4, <2>1 DEF Reached
<1>6. TokenInv'
  <2>1. \A n \in Msg : n # m => Kept(n)
    BY <1>4 DEF Kept, SentTo, TypeInv, TypeOK
  <2>2. \A n \in Msg : ~Drives(task[a], n) => Kept(n)
    BY <1>1, <2>1
  <2>3. \A n \in Msg : Drives(t, n) =>
          Drives(task[a], n) /\ Reached(n, StepOf(t), StageReached(t))'
    BY <1>1, <1>3, <1>5, DrivesItsOwn
  <2>. QED BY <1>3, <1>4, <2>2, <2>3, TaskMoves DEF SingleInv
<1>7. LocalsOK'
  <2>1. LocalOK(t, index')
    BY <1>3, LocalTrivially
  <2>2. \A n \in Msg : index'[n] # index[n] => Drives(task[a], n)
    BY <1>1, <1>4 DEF TypeInv, TypeOK
  <2>. QED BY <1>3, <2>1, <2>2, LocalMoves DEF SingleInv
<1>8. SentIsKept'
  <2>1. \A b \in Actor : task[b].pc = "write" => task'[b] = task[b]
    BY <1>0, <1>3 DEF Goto, TypeInv, TypeOK
  <2>. QED BY <1>4, <2>1, SentStays DEF SingleInv
<1>. QED BY <1>6, <1>7, <1>8 DEF SingleInv

LEMMA PreserveSingle ==
  ASSUME TypeInv, TypeInv', SingleInv, NEW a \in Actor, Preserve(a)
  PROVE  SingleInv'
<1>0. task[a].pc = "preserve"
  BY DEF Preserve, Is
<1>1. UNCHANGED <<row, live, index, dispatched, faulted, pending, held, pass>>
  BY DEF Preserve, rowVars, stateVars, gateVars, historyVars
<1>. PICK m \in Msg : m = task[a].msg
  BY <1>0, AtWork DEF DrivePC
<1>. PICK pc \in {"store", "take"} : pc = IF row[task[a].msg] = "audit" THEN "store" ELSE "take"
  OBVIOUS
<1>. PICK t : t = [task[a] EXCEPT !.pc = pc]
  OBVIOUS
<1>2. Goto(a, t) /\ t.pc = pc /\ t.msg = m
  BY <1>0, AtWork DEF Preserve, DrivePC, Task
<1>3. CASE pc = "store"
  BY <1>0, <1>1, <1>2, <1>3, QuietRest
<1>4. CASE pc = "take"
  <2>1. StepOf(task[a]) = "ending" /\ StepOf(t) = "ending"
    BY <1>0, <1>2, <1>4 DEF StepOf
  <2>2. Reached(m, "ending", StageReached(t))
    <3>1. Reached(m, StepOf(task[a]), StageReached(task[a]))
      BY <1>0, AtWork, DriverReached DEF DrivePC
    <3>. QED BY <2>1, <3>1 DEF Reached
  <2>3. LocalOK(t, index)
    BY <1>2, <1>4, LocalTrivially
  <2>. QED BY <1>0, <1>1, <1>2, <2>1, <2>2, <2>3, QuietTo DEF DrivePC
<1>. QED BY <1>3, <1>4

LEMMA StoreHeldSingle ==
  ASSUME TypeInv, TypeInv', SingleInv, NEW a \in Actor, StoreHeld(a)
  PROVE  SingleInv'
<1>1. /\ UNCHANGED <<row, live, index, dispatched, faulted, pending, held, pass>>
      /\ task[a].pc = "store" /\ Return(a)
  BY DEF StoreHeld, Is, stateVars, gateVars, historyVars
<1>. QED BY <1>1, QuietReturn

LEMMA TakeSingle ==
  ASSUME TypeInv, TypeInv', SingleInv, NEW a \in Actor, Take(a)
  PROVE  SingleInv'
<1>0. task[a].pc = "take"
  BY DEF Take, Is
<1>. PICK m \in Msg : m = task[a].msg
  BY <1>0, AtWork DEF DrivePC
<1>1. Drives(task[a], m) /\ m \in live /\ row[m] # "none" /\ task[a] \in Task
  BY <1>0, AtWork, DriverReached DEF DrivePC
<1>. PICK t : t = [task[a] EXCEPT !.pc = "write", !.result = HasResult(m)]
  OBVIOUS
<1>2. Goto(a, t) /\ t.pc = "write" /\ t.msg = m /\ t.result = TRUE
  BY <1>1 DEF Take, Task, HasResult
<1>3. StepOf(t) = "write" /\ LocalOK(t, index')
  BY <1>2 DEF StepOf, LocalOK
<1>4. /\ live' = live \ {m} /\ index' = [index EXCEPT ![m] = 0]
      /\ UNCHANGED <<row, dispatched, faulted, pending, held, pass>>
  BY DEF Take, rowVars, gateVars, historyVars
<1>5. TokenInv'
  <2>0. Reached(m, StepOf(task[a]), StageReached(task[a]))
    BY <1>1, DriverReached
  <2>1. Reached(m, "write", StageReached(t))'
    BY <1>1, <1>4, <2>0 DEF Reached
  <2>2. \A n \in Msg : n # m => Kept(n)
    BY <1>4 DEF Kept, SentTo, TypeInv, TypeOK
  <2>3. \A n \in Msg : ~Drives(task[a], n) => Kept(n)
    BY <1>1, <2>2
  <2>4. \A n \in Msg : Drives(t, n) =>
          Drives(task[a], n) /\ Reached(n, StepOf(t), StageReached(t))'
    BY <1>1, <1>2, <1>3, <2>1, DrivesItsOwn
  <2>. QED BY <1>2, <1>4, <2>3, <2>4, TaskMoves DEF SingleInv
<1>6. LocalsOK'
  <2>1. \A n \in Msg : index'[n] # index[n] => Drives(task[a], n)
    BY <1>1, <1>4 DEF TypeInv, TypeOK
  <2>. QED BY <1>2, <1>3, <2>1, LocalMoves DEF SingleInv
<1>7. SentIsKept'
  <2>1. \A b \in Actor : task[b].pc = "write" => task'[b] = task[b]
    BY <1>0, <1>2 DEF Goto, TypeInv, TypeOK
  <2>2. task'[a].msg = m /\ task'[a].pc = "write"
    BY <1>2 DEF Goto, TypeInv, TypeOK
  <2>. QED BY <1>4, <2>1, <2>2 DEF SingleInv, SentIsKept, WasSent, SentTo
<1>. QED BY <1>5, <1>6, <1>7 DEF SingleInv

LEMMA WriteSingle ==
  ASSUME TypeInv, TypeInv', SingleInv, NEW a \in Actor, Write(a)
  PROVE  SingleInv'
<1>0. task[a].pc = "write"
  BY DEF Write, Is
<1>. PICK m \in Msg : m = task[a].msg
  BY <1>0, AtWork DEF DrivePC
<1>. PICK t : t = [task[a] EXCEPT !.pc = "clear"]
  OBVIOUS
<1>1. Drives(task[a], m) /\ task[a] \in Task /\ row[m] # "none"
  BY <1>0, AtWork, DriverReached DEF DrivePC
<1>2. Goto(a, t) /\ t.pc = "clear"
  BY <1>1 DEF Write, Task
<1>3. (\A n \in Msg : ~Drives(t, n)) /\ LocalOK(t, index)
  BY <1>2, LoopDrivesNothing, LocalTrivially
<1>4. UNCHANGED <<live, index, dispatched, faulted, pending, held, pass>>
  BY DEF Write, stateVars, gateVars, historyVars
<1>5. /\ row'[m] \notin {"none", "queued"}
      /\ \A n \in Msg : n # m => row'[n] = row[n]
  BY <1>1 DEF Write, RefusedByHold, rowVars, TypeInv, TypeOK, Task, Outcome
<1>6. TokenInv'
  <2>1. \A n \in Msg : ~Drives(task[a], n) => Kept(n)
    BY <1>1, <1>4, <1>5 DEF Kept, SentTo
  <2>. QED BY <1>2, <1>3, <1>4, <2>1, TaskMoves DEF SingleInv
<1>7. LocalsOK'
  BY <1>2, <1>3, <1>4, LocalMoves DEF SingleInv
<1>8. SentIsKept'
  <2>1. \A b \in Actor : b # a => task'[b] = task[b]
    BY <1>2 DEF Goto, TypeInv, TypeOK
  <2>2. ASSUME NEW n \in Msg, n # m
        PROVE  \A b \in Actor : task[b].msg = n => task'[b] = task[b]
    BY <2>1, <2>2
  <2>3. \A n \in Msg : row'[n] = "none" => n \notin live'
    BY <1>4, <1>5 DEF SingleInv, SentIsKept
  <2>4. ASSUME NEW n \in Msg, WasSent(n)', n \notin faulted'
        PROVE  \/ n \in live' \/ row'[n] \notin {"none", "queued"}
               \/ \E b \in Actor : task'[b].msg = n /\ task'[b].pc = "write"
    <3>1. CASE n = m
      BY <1>5, <3>1
    <3>2. CASE n # m
      BY <1>4, <1>5, <2>2, <2>4, <3>2 DEF SingleInv, SentIsKept, WasSent, SentTo
    <3>. QED BY <3>1, <3>2
  <2>. QED BY <2>3, <2>4 DEF SentIsKept
<1>. QED BY <1>6, <1>7, <1>8 DEF SingleInv

LEMMA ClearSingle ==
  ASSUME TypeInv, TypeInv', SingleInv, NEW a \in Actor, Clear(a)
  PROVE  SingleInv'
<1>1. /\ task[a].pc = "clear" /\ UNCHANGED <<row, live, index, dispatched, faulted, held, pass>>
      /\ \A n \in Msg : pending'[n] \subseteq pending[n]
  BY DEF Clear, Is, ack, rowVars, stateVars, gateVars, historyVars, TypeInv, TypeOK,
     TrackerTypeOK
<1>. PICK t : t = Rest(a)
  OBVIOUS
<1>2. Goto(a, t)
  BY DEF Clear, Return
<1>3. (\A n \in Msg : ~Drives(t, n)) /\ LocalOK(t, index)
  BY RestDrivesNothing, LocalTrivially DEF Rest, Idle
<1>4. LocalsOK'
  BY <1>1, <1>2, <1>3, LocalMoves DEF SingleInv
<1>5. /\ \A b \in Actor : task[b].pc = "write" => task'[b] = task[b]
      /\ \A n \in Msg, b \in Actor : Drives(task'[b], n) => task'[b] = task[b]
  BY <1>1, <1>2, <1>3 DEF Goto, TypeInv, TypeOK
<1>6. \A n \in Msg : Unmoved(n)
  BY <1>1, <1>5 DEF Unmoved
<1>. QED BY <1>1, <1>4, <1>5, <1>6, UnmovedSingle

LEMMA StageSingle ==
  ASSUME TypeInv, TypeInv', SingleInv, SingleFile, NEW a \in Actor, StageStep(a)
  PROVE  SingleInv'
BY ClaimSingle, GateSingle, AuditSingle, LoadFanoutSingle, LoadChainSingle, FanSendSingle,
   FanSkipSingle, FanDoneSingle, SendInProcessSingle, TrackSingle, BumpSingle, PreserveSingle,
   StoreHeldSingle, TakeSingle, WriteSingle, ClearSingle DEF StageStep

--------------------------------------------------------------------------------
(***************************************************************************)
(* Entering, recovering, answering.                                        *)
(***************************************************************************)
\* A message that is in no way on the move.
LEMMA NoTokens ==
  ASSUME NEW m \in Msg, Tokens(m) = {}
  PROVE  /\ \A a \in Actor : ~Drives(task[a], m)
         /\ pending[m] = {} /\ held[m] = NoPoint
         /\ \A s \in Sweeper : /\ pass[s].taken[m] = NoPoint
                               /\ \A d \in pass[s].queue : d.msg # m
<1>0. \A k : k \notin TokensIn(m, task, pending[m], held[m], pass)
  BY DEF Tokens
<1>1. \A a \in Actor : ~Drives(task[a], m)
  <2>. SUFFICES ASSUME NEW a \in Actor, Drives(task[a], m) PROVE FALSE
    OBVIOUS
  <2>1. <<"task", a, StepOf(task[a]), StageReached(task[a])>>
         \in TokensIn(m, task, pending[m], held[m], pass)
    BY TokenKinds
  <2>. QED BY <1>0, <2>1
<1>2. pending[m] = {}
  <2>. SUFFICES ASSUME NEW e \in pending[m] PROVE FALSE
    OBVIOUS
  <2>1. <<"entry", e, "awaited", e.stage>> \in TokensIn(m, task, pending[m], held[m], pass)
    BY TokenKinds
  <2>. QED BY <1>0, <2>1
<1>3. held[m] = NoPoint
  <2>. SUFFICES ASSUME held[m] # NoPoint PROVE FALSE
    OBVIOUS
  <2>1. <<"held", held[m], "due", StageOf(held[m])>>
         \in TokensIn(m, task, pending[m], held[m], pass)
    BY TokenKinds
  <2>. QED BY <1>0, <2>1
<1>4. \A s \in Sweeper : pass[s].taken[m] = NoPoint
  <2>. SUFFICES ASSUME NEW s \in Sweeper, pass[s].taken[m] # NoPoint PROVE FALSE
    OBVIOUS
  <2>1. <<"taken", s, "due", StageOf(pass[s].taken[m])>>
         \in TokensIn(m, task, pending[m], held[m], pass)
    BY TokenKinds
  <2>. QED BY <1>0, <2>1
<1>5. \A s \in Sweeper : \A d \in pass[s].queue : d.msg # m
  <2>. SUFFICES ASSUME NEW s \in Sweeper, NEW d \in pass[s].queue, d.msg = m PROVE FALSE
    OBVIOUS
  <2>1. <<"queue", <<s, d>>, "awaited", d.entry.stage>>
         \in TokensIn(m, task, pending[m], held[m], pass)
    BY TokenKinds
  <2>. QED BY <1>0, <2>1
<1>. QED BY <1>1, <1>2, <1>3, <1>4, <1>5

\* Out of memory, only a claim or a terminal write can still move a message.
LEMMA OutOfMemory ==
  ASSUME NEW m \in Msg, TokenOK(m), m \notin live,
         row[m] = "none" \/ \A a \in Actor : task[a].msg = m => task[a].pc \notin {"claim", "write"}
  PROVE  Tokens(m) = {}
<1>. SUFFICES ASSUME NEW k \in Tokens(m) PROVE FALSE
  OBVIOUS
<1>1. Reached(m, k[3], k[4])
  BY DEF TokenOK
<1>2. row[m] # "none" /\ k[3] \in {"claim", "write"}
  BY <1>1 DEF Reached
<1>3. PICK a \in Actor :
        Drives(task[a], m) /\ k = <<"task", a, StepOf(task[a]), StageReached(task[a])>>
  BY <1>2, TokenKinds DEF Tokens
<1>4. StepOf(task[a]) \in {"claim", "write"} /\ task[a].msg = m
        /\ (task[a].pc \in DrivePC \/ task[a].pc = "fan")
  BY <1>2, <1>3, DriveFacts
<1>5. task[a].pc \in {"claim", "write"}
  BY <1>4 DEF StepOf, DrivePC
<1>. QED BY <1>2, <1>4, <1>5

\* A task starts to claim a row nobody is at work on.
LEMMA ClaimStarts ==
  ASSUME TypeInv, TypeInv', SingleInv, NEW m \in Msg, m \notin live,
         row[m] # "none" => /\ row[m] = "queued"
                            /\ \A b \in Actor :
                                 task[b].msg = m => task[b].pc \notin {"claim", "write"},
         NEW a \in Actor, task[a] = Idle, Goto(a, At("claim", m)),
         row'[m] = "queued", \A n \in Msg : n # m => row'[n] = row[n],
         UNCHANGED <<live, index, dispatched, faulted, pending, held, pass>>
  PROVE  SingleInv'
<1>. PICK t : t = At("claim", m)
  OBVIOUS
<1>1. /\ Goto(a, t) /\ t.msg = m /\ t.pc = "claim"
      /\ StepOf(t) = "claim" /\ StageReached(t) = "pre_process" /\ LocalOK(t, index)
  BY StartedSteps, LocalTrivially
<1>2. task' = [task EXCEPT ![a] = t] /\ task \in [Actor -> Task]
  BY <1>1 DEF Goto, TypeInv, TypeOK
<1>3. Tokens(m) = {}
  BY OutOfMemory DEF SingleInv, TokenInv
<1>4. m \notin faulted => ~WasSent(m)
  <2>1. ASSUME NEW b \in Actor, task[b].msg = m, task[b].pc = "write" PROVE FALSE
    <3>1. Drives(task[b], m)
      BY <2>1 DEF Drives
    <3>. QED BY <1>3, <3>1, NoTokens
  <2>. QED BY <2>1 DEF SingleInv, SentIsKept
<1>5. TokenOK(m)'
  <2>. PICK new : new = <<"task", a, "claim", "pre_process">>
    OBVIOUS
  <2>1. Reached(m, new[3], new[4])'
    <3>1. m \notin faulted => Before(m, "pre_process")'
      BY <1>4 DEF WasSent, Before, SentTo
    <3>2. Reached(m, "claim", "pre_process")'
      BY <3>1 DEF Reached
    <3>. QED BY <3>2
  <2>2. \A b \in Actor : Drives(task'[b], m) =>
          new = <<"task", b, StepOf(task'[b]), StageReached(task'[b])>>
    <3>. SUFFICES ASSUME NEW b \in Actor, Drives(task'[b], m)
                  PROVE  new = <<"task", b, StepOf(task'[b]), StageReached(task'[b])>>
      OBVIOUS
    <3>1. b = a
      BY <1>2, <1>3, NoTokens
    <3>2. task'[b] = t
      BY <1>2, <3>1
    <3>. QED BY <1>1, <3>1, <3>2
  <2>3. /\ pending[m] = {} /\ held[m] = NoPoint
        /\ \A s \in Sweeper : /\ pass[s].taken[m] = NoPoint
                              /\ \A d \in pass[s].queue : d.msg # m
    BY <1>3, NoTokens
  <2>4. /\ pending'[m] = {} /\ held'[m] = NoPoint
        /\ \A s \in Sweeper : /\ pass'[s].taken[m] = NoPoint
                              /\ \A d \in pass'[s].queue : d.msg # m
    BY <2>3
  <2>. QED BY <2>1, <2>2, <2>4, OnlyToken
<1>6. ASSUME NEW n \in Msg, n # m PROVE TokenOK(n)'
  <2>1. \A b \in Actor : Drives(task'[b], n) => task'[b] = task[b]
    BY <1>1, <1>2, <1>6, DrivesItsOwn
  <2>2. Unmoved(n) /\ Kept(n)
    BY <1>6, <2>1 DEF Unmoved, Kept, SentTo
  <2>. QED BY <2>2, TokensUnmoved DEF SingleInv, TokenInv
<1>7. TokenInv'
  BY <1>5, <1>6 DEF TokenInv
<1>8. LocalsOK'
  BY <1>1, LocalMoves DEF SingleInv
<1>9. SentIsKept'
  <2>1. \A b \in Actor : task[b].pc = "write" => task'[b] = task[b]
    BY <1>2 DEF Idle
  <2>. QED BY <1>4, <2>1 DEF SingleInv, SentIsKept, WasSent, SentTo
<1>. QED BY <1>7, <1>8, <1>9 DEF SingleInv

LEMMA IngestSingle ==
  ASSUME TypeInv, TypeInv', SingleInv, NEW m \in Msg, Ingest(m)
  PROVE  SingleInv'
<1>. PICK a \in Actor : a = <<"ingest", m>>
  BY ActorKinds
<1>1. /\ row[m] = "none" /\ task[a] = Idle /\ Goto(a, At("claim", m))
      /\ row' = [row EXCEPT ![m] = "queued"] /\ row \in [Msg -> Status]
      /\ UNCHANGED <<live, index, dispatched, faulted, pending, held, pass>>
  BY DEF Ingest, stateVars, gateVars, historyVars, TypeInv, TypeOK
<1>2. m \notin live
  BY <1>1 DEF SingleInv, SentIsKept
<1>3. row'[m] = "queued" /\ \A n \in Msg : n # m => row'[n] = row[n]
  BY <1>1
<1>. QED BY <1>1, <1>2, <1>3, ClaimStarts

LEMMA UnchangedSingle ==
  ASSUME TypeInv, SingleInv,
         UNCHANGED <<row, live, index, dispatched, faulted, pending, held, pass, task>>
  PROVE  SingleInv'
<1>1. \A n \in Msg : Unmoved(n)
  BY DEF Unmoved
<1>2. LocalsOK'
  BY DEF SingleInv, LocalsOK
<1>. QED BY <1>1, <1>2, UnmovedSingle

LEMMA RecoverSingle ==
  ASSUME TypeInv, TypeInv', SingleInv, SingleFile, NEW m \in Msg, Recover(m)
  PROVE  SingleInv'
<1>1. UNCHANGED <<row, live, index, dispatched, faulted, pending, held, pass>>
  BY DEF Recover, rowVars, stateVars, gateVars, historyVars
<1>2. CASE UNCHANGED task
  BY <1>1, <1>2, UnchangedSingle
<1>3. CASE IsStranded(m) /\ Goto(Drain, At("claim", m))
  <2>1. /\ m \notin live /\ row[m] = "queued" /\ Drain \in Actor /\ task[Drain] = Idle
        /\ \A a \in Actor : task[a].msg = m => task[a].pc \notin {"claim", "write"}
    BY <1>3, ActorKinds DEF IsStranded, Recover, SingleFile
  <2>. PICK a \in Actor : a = Drain
    BY <2>1
  <2>. QED BY <1>1, <1>3, <2>1, ClaimStarts
<1>. QED BY <1>2, <1>3 DEF Recover

LEMMA RecoverFailsSingle ==
  ASSUME TypeInv, SingleInv, NEW m \in Msg, RecoverFails(m)
  PROVE  SingleInv'
<1>1. /\ UNCHANGED <<row, live, index, dispatched, pending, held, pass, task>>
      /\ faulted \subseteq faulted'
  BY DEF RecoverFails, rowVars, stateVars, gateVars, taskVars
<1>2. \A n \in Msg : Unmoved(n)
  BY <1>1 DEF Unmoved
<1>3. LocalsOK'
  BY <1>1 DEF SingleInv, LocalsOK
<1>. QED BY <1>1, <1>2, <1>3, UnmovedSingle

\* The entry of m changes, but not its stage.
LEMMA EntryChanges ==
  ASSUME TypeInv, TokenInv, NEW m \in Msg, Kept(m), UNCHANGED <<held, pass>>,
         \A a \in Actor : Drives(task'[a], m) => task'[a] = task[a],
         AtMostOne(pending[m]) => AtMostOne(pending'[m]),
         \A e \in pending'[m] : \E d \in pending[m] : e.stage = d.stage
  PROVE  TokenOK(m)'
<1>1. CASE pending'[m] = {}
  <2>1. Unmoved(m)
    BY <1>1 DEF Unmoved
  <2>. QED BY <2>1, TokensUnmoved DEF TokenInv
<1>2. ASSUME NEW e \in pending'[m] PROVE TokenOK(m)'
  <2>1. PICK d \in pending[m] : e.stage = d.stage
    BY <1>2
  <2>2. d.stage \in Stage
    BY <2>1 DEF TypeInv, TypeOK, TrackerTypeOK, Entry
  <2>. PICK old : old = <<"entry", d, "awaited", d.stage>>
    OBVIOUS
  <2>. PICK new : new = <<"entry", e, "awaited", e.stage>>
    OBVIOUS
  <2>3. old \in Tokens(m)
    BY TokenKinds DEF Tokens
  <2>4. /\ Reached(m, old[3], old[4])
        /\ \A a \in Actor : ~Drives(task[a], m)
        /\ \A f \in pending[m] : f = d
        /\ held[m] = NoPoint
        /\ \A s \in Sweeper : /\ pass[s].taken[m] = NoPoint
                              /\ \A c \in pass[s].queue : c.msg # m
    BY <2>3, SoleToken DEF TokenInv
  <2>5. \A a \in Actor : ~Drives(task'[a], m)
    BY <2>4
  <2>6. \A f \in pending'[m] : f = e
    BY <1>2, <2>4 DEF AtMostOne
  <2>7. Reached(m, new[3], new[4])'
    <3>1. Reached(m, "awaited", d.stage)
      BY <2>4
    <3>2. Reached(m, "awaited", d.stage)'
      BY <2>2, <3>1, ReachedKept
    <3>. QED BY <2>1, <3>2
  <2>8. /\ held'[m] = NoPoint
        /\ \A s \in Sweeper : /\ pass'[s].taken[m] = NoPoint
                              /\ \A c \in pass'[s].queue : c.msg # m
    BY <2>4
  <2>. QED BY <2>5, <2>6, <2>7, <2>8, OnlyToken
<1>. QED BY <1>1, <1>2

LEMMA EntrySingleChange ==
  ASSUME TypeInv, TypeInv', SingleInv, NEW m \in Msg, NEW e \in pending[m], NEW f,
         f.stage = e.stage, pending' = [pending EXCEPT ![m] = (@ \ {e}) \cup {f}],
         UNCHANGED <<row, live, index, dispatched, faulted, held, pass, task>>
  PROVE  SingleInv'
<1>0. pending \in [Msg -> SUBSET Entry]
  BY DEF TypeInv, TypeOK, TrackerTypeOK
<1>1. TokenOK(m)'
  <2>1. pending'[m] = (pending[m] \ {e}) \cup {f}
    BY <1>0
  <2>2. AtMostOne(pending[m]) => AtMostOne(pending'[m])
    BY <2>1 DEF AtMostOne
  <2>3. \A g \in pending'[m] : \E d \in pending[m] : g.stage = d.stage
    BY <2>1
  <2>. QED BY <2>2, <2>3, ReachedSame, EntryChanges DEF SingleInv
<1>2. ASSUME NEW n \in Msg, n # m PROVE TokenOK(n)'
  <2>1. Unmoved(n)
    BY <1>0, <1>2 DEF Unmoved
  <2>. QED BY <2>1, ReachedSame, TokensUnmoved DEF SingleInv, TokenInv
<1>3. TokenInv'
  BY <1>1, <1>2 DEF TokenInv
<1>4. LocalsOK' /\ SentIsKept'
  BY DEF SingleInv, LocalsOK, SentIsKept, WasSent, SentTo
<1>. QED BY <1>3, <1>4 DEF SingleInv

LEMMA ElapseSingle ==
  ASSUME TypeInv, TypeInv', SingleInv, NEW m \in Msg, Elapse(m)
  PROVE  SingleInv'
<1>1. UNCHANGED <<row, live, index, dispatched, faulted, held, pass, task>>
  BY DEF Elapse, rowVars, stateVars, gateVars, taskVars, historyVars
<1>2. PICK e \in pending[m] : RunOut(m, e)
  BY DEF Elapse
<1>. PICK f : f = [e EXCEPT !.clock = "expired"]
  OBVIOUS
<1>3. e \in Entry
  BY DEF TypeInv, TypeOK, TrackerTypeOK
<1>4. f.stage = e.stage
  BY <1>3 DEF Entry
<1>. QED BY <1>1, <1>2, <1>4, EntrySingleChange DEF RunOut

LEMMA ReceiptSingle ==
  ASSUME TypeInv, TypeInv', SingleInv, NEW x \in Module, NEW m \in Msg, Receipt(x, m)
  PROVE  SingleInv'
<1>1. UNCHANGED <<row, live, index, dispatched, faulted, held, pass, task>>
  BY DEF Receipt, rowVars, stateVars, gateVars, taskVars, historyVars
<1>2. PICK e \in EntriesOf(m, x) :
        pending' = [pending EXCEPT ![m] = (@ \ {e}) \cup {[e EXCEPT !.receipt = TRUE]}]
  BY DEF Receipt, mark_receipt
<1>3. e \in pending[m]
  BY DEF EntriesOf
<1>. PICK f : f = [e EXCEPT !.receipt = TRUE]
  OBVIOUS
<1>4. e \in Entry
  BY <1>3 DEF TypeInv, TypeOK, TrackerTypeOK
<1>5. f.stage = e.stage
  BY <1>4 DEF Entry
<1>. QED BY <1>1, <1>2, <1>3, <1>5, EntrySingleChange

LEMMA EchoSingle ==
  ASSUME TypeInv, TypeInv', SingleInv, NEW x \in Module, NEW m \in Msg, Echo(x, m)
  PROVE  SingleInv'
<1>. PICK a \in Actor : a = <<"conn", x>>
  BY ActorKinds
<1>. PICK t : t = At("ack", m)
  OBVIOUS
<1>1. /\ task[a] = Idle /\ Goto(a, t) /\ t.pc = "ack" /\ task[a].pc # "write"
      /\ UNCHANGED <<row, live, index, dispatched, faulted, pending, held, pass>>
  BY DEF Echo, Ready, At, Idle, rowVars, stateVars, gateVars, historyVars
<1>. QED BY <1>1, QuietRest

\* The task that takes the last entry of m runs what comes next.
LEMMA AckRuns ==
  ASSUME TypeInv, TypeInv', SingleInv, NEW a \in Actor, NEW t, Goto(a, t),
         NEW m \in Msg, NEW e \in pending[m], task[a].pc = "ack",
         pending' = [pending EXCEPT ![m] = {}],
         UNCHANGED <<row, live, index, dispatched, faulted, held, pass>>,
         t.msg = m, LocalOK(t, index),
         Reached(m, "awaited", e.stage) => Reached(m, StepOf(t), StageReached(t))
  PROVE  SingleInv'
<1>0. /\ task' = [task EXCEPT ![a] = t] /\ task \in [Actor -> Task]
      /\ pending \in [Msg -> SUBSET Entry]
  BY DEF Goto, TypeInv, TypeOK, TrackerTypeOK
<1>1. TokenOK(m)'
  <2>. PICK old : old = <<"entry", e, "awaited", e.stage>>
    OBVIOUS
  <2>. PICK new : new = <<"task", a, StepOf(t), StageReached(t)>>
    OBVIOUS
  <2>1. old \in Tokens(m)
    BY TokenKinds DEF Tokens
  <2>2. /\ Reached(m, old[3], old[4])
        /\ \A b \in Actor : ~Drives(task[b], m)
        /\ held[m] = NoPoint
        /\ \A s \in Sweeper : /\ pass[s].taken[m] = NoPoint
                              /\ \A d \in pass[s].queue : d.msg # m
    BY <2>1, SoleToken DEF SingleInv, TokenInv
  <2>3. Reached(m, new[3], new[4])'
    <3>1. Reached(m, "awaited", e.stage)
      BY <2>2
    <3>2. StageReached(t) \in Stage
      <4>1. t \in Task
        <5>1. task'[a] = t
          BY <1>0
        <5>. QED BY <5>1 DEF TypeInv, TypeOK
      <4>. QED BY <4>1 DEF StageReached, Task, Stage
    <3>3. Reached(m, StepOf(t), StageReached(t))'
      BY <3>1, <3>2, ReachedSame
    <3>. QED BY <3>3
  <2>4. \A b \in Actor : Drives(task'[b], m) =>
          new = <<"task", b, StepOf(task'[b]), StageReached(task'[b])>>
    <3>. SUFFICES ASSUME NEW b \in Actor, Drives(task'[b], m)
                  PROVE  new = <<"task", b, StepOf(task'[b]), StageReached(task'[b])>>
      OBVIOUS
    <3>1. b = a /\ task'[b] = t
      BY <1>0, <2>2
    <3>. QED BY <3>1
  <2>5. /\ pending'[m] = {} /\ held'[m] = NoPoint
        /\ \A s \in Sweeper : /\ pass'[s].taken[m] = NoPoint
                              /\ \A d \in pass'[s].queue : d.msg # m
    BY <1>0, <2>2
  <2>. QED BY <2>3, <2>4, <2>5, OnlyToken
<1>2. ASSUME NEW n \in Msg, n # m PROVE TokenOK(n)'
  <2>1. \A b \in Actor : Drives(task'[b], n) => task'[b] = task[b]
    BY <1>0, <1>2, DrivesItsOwn
  <2>2. Unmoved(n)
    BY <1>0, <1>2, <2>1 DEF Unmoved
  <2>. QED BY <2>2, ReachedSame, TokensUnmoved DEF SingleInv, TokenInv
<1>3. TokenInv'
  BY <1>1, <1>2 DEF TokenInv
<1>4. LocalsOK'
  BY LocalMoves DEF SingleInv
<1>5. SentIsKept'
  <2>1. \A b \in Actor : task[b].pc = "write" => task'[b] = task[b]
    BY <1>0
  <2>. QED BY <2>1, SentStays DEF SingleInv
<1>. QED BY <1>3, <1>4, <1>5 DEF SingleInv

LEMMA AckSingle ==
  ASSUME TypeInv, TypeInv', SingleInv, NEW x \in Module, Ack(x)
  PROVE  SingleInv'
<1>. PICK a \in Actor : a = <<"conn", x>>
  BY ActorKinds
<1>0. task[a].pc = "ack" /\ task[a].msg \in Msg
  BY WorkingMsg DEF Ack, Is, WorkPC
<1>. PICK m \in Msg : m = task[a].msg
  BY <1>0
<1>1. /\ UNCHANGED <<row, live, index, dispatched, faulted, held, pass>>
      /\ pending' = [pending EXCEPT ![m] = @ \ EntriesOf(m, x)]
      /\ pending \in [Msg -> SUBSET Entry]
  BY DEF Ack, ack_module, rowVars, stateVars, gateVars, historyVars, TypeInv, TypeOK,
     TrackerTypeOK
<1>2. CASE Return(a)
  <2>. PICK t : t = Rest(a)
    OBVIOUS
  <2>1. Goto(a, t)
    BY <1>2 DEF Return
  <2>2. (\A n \in Msg : ~Drives(t, n)) /\ LocalOK(t, index)
    BY RestDrivesNothing, LocalTrivially DEF Rest, Idle
  <2>3. LocalsOK'
    BY <1>1, <2>1, <2>2, LocalMoves DEF SingleInv
  <2>4. /\ \A b \in Actor : task[b].pc = "write" => task'[b] = task[b]
        /\ \A n \in Msg, b \in Actor : Drives(task'[b], n) => task'[b] = task[b]
    BY <1>0, <2>1, <2>2 DEF Goto, TypeInv, TypeOK
  <2>5. \A n \in Msg : Unmoved(n)
    BY <1>1, <2>4 DEF Unmoved
  <2>. QED BY <1>1, <2>3, <2>4, <2>5, UnmovedSingle
<1>3. ASSUME NEW e \in EntriesOf(m, x),
             \/ e.stage = "in_process" /\ Goto(a, At("bump", m))
             \/ e.stage = "pre_process" /\ Goto(a, AtStage("gate", m, "in_process"))
             \/ e.stage = "post_process" /\ Goto(a, Ending(m, "complete"))
      PROVE  SingleInv'
  <2>1. e \in pending[m] /\ e.mod = x
    BY <1>3 DEF EntriesOf
  <2>2. pending' = [pending EXCEPT ![m] = {}]
    <3>1. AtMostOne(pending[m])
      <4>. SUFFICES ASSUME NEW f \in pending[m], NEW g \in pending[m] PROVE f = g
        BY DEF AtMostOne
      <4>. PICK k : k = <<"entry", f, "awaited", f.stage>>
        OBVIOUS
      <4>1. k \in Tokens(m)
        BY TokenKinds DEF Tokens
      <4>2. k = <<"entry", g, "awaited", g.stage>>
        BY <4>1, SoleToken DEF SingleInv, TokenInv
      <4>. QED BY <4>2
    <3>2. pending[m] \ EntriesOf(m, x) = {}
      BY <1>3, <2>1, <3>1 DEF AtMostOne
    <3>. QED BY <1>1, <3>2
  <2>3. index[m] \in Nat
    BY DEF TypeInv, TypeOK
  <2>4. CASE e.stage = "in_process" /\ Goto(a, At("bump", m))
    <3>. PICK t : t = At("bump", m)
      OBVIOUS
    <3>1. /\ Goto(a, t) /\ t.msg = m /\ StepOf(t) = "awaited"
          /\ StageReached(t) = "in_process" /\ LocalOK(t, index)
      BY <2>4, StartedSteps, LocalTrivially
    <3>2. Reached(m, "awaited", e.stage) => Reached(m, StepOf(t), StageReached(t))
      BY <2>4, <3>1
    <3>. QED BY <1>0, <1>1, <2>1, <2>2, <3>1, <3>2, AckRuns
  <2>5. CASE e.stage = "pre_process" /\ Goto(a, AtStage("gate", m, "in_process"))
    <3>. PICK t : t = AtStage("gate", m, "in_process")
      OBVIOUS
    <3>1. /\ Goto(a, t) /\ t.msg = m /\ StepOf(t) = "due"
          /\ StageReached(t) = "in_process" /\ LocalOK(t, index)
      BY <2>5, StartedSteps, LocalTrivially
    <3>2. Reached(m, "awaited", e.stage) => Reached(m, StepOf(t), StageReached(t))
      BY <2>3, <2>5, <3>1, ReachedNext
    <3>. QED BY <1>0, <1>1, <2>1, <2>2, <3>1, <3>2, AckRuns
  <2>6. CASE e.stage = "post_process" /\ Goto(a, Ending(m, "complete"))
    <3>. PICK t : t = Ending(m, "complete")
      OBVIOUS
    <3>1. /\ Goto(a, t) /\ t.msg = m /\ StepOf(t) = "ending"
          /\ StageReached(t) = "pre_process" /\ LocalOK(t, index)
      BY <2>6, StartedSteps, LocalTrivially
    <3>2. Reached(m, "awaited", e.stage) => Reached(m, StepOf(t), StageReached(t))
      BY <2>3, <3>1, ReachedNext
    <3>. QED BY <1>0, <1>1, <2>1, <2>2, <3>1, <3>2, AckRuns
  <2>. QED BY <1>3, <2>4, <2>5, <2>6
<1>. QED BY <1>2, <1>3, AckMoves

\* The row of m is put on review, or is taken out of it.
LEMMA ReviewSingle ==
  ASSUME TypeInv, SingleInv, NEW m \in Msg, NEW status \in Status \ {"none", "queued"},
         MaxFlags = 0 => row[m] = "audit",
         row' = [row EXCEPT ![m] = status],
         UNCHANGED <<live, index, dispatched, faulted, pending, held, pass, task>>
  PROVE  SingleInv'
<1>0. row \in [Msg -> Status]
  BY DEF TypeInv, TypeOK
<1>1. \A n \in Msg : Unmoved(n) /\ Kept(n)
  BY <1>0 DEF Unmoved, Kept, SentTo
<1>2. TokenInv'
  BY <1>1, TokensUnmoved DEF SingleInv, TokenInv
<1>3. LocalsOK'
  BY DEF SingleInv, LocalsOK
<1>4. SentIsKept'
  BY <1>0 DEF SingleInv, SentIsKept, WasSent, SentTo
<1>. QED BY <1>2, <1>3, <1>4 DEF SingleInv

LEMMA AuditFlagSingle ==
  ASSUME TypeInv, SingleInv, NEW x \in Module, NEW m \in Msg, AuditFlag(x, m)
  PROVE  SingleInv'
<1>1. MaxFlags # 0
  BY DEF AuditFlag, TypeInv, TypeOK
<1>. QED
  BY <1>1, ReviewSingle DEF AuditFlag, Status, stateVars, gateVars, taskVars, historyVars

LEMMA ReleaseAuditSingle ==
  ASSUME TypeInv, SingleInv, NEW m \in Msg, NEW approve \in BOOLEAN, release_audit(m, approve)
  PROVE  SingleInv'
BY ReviewSingle DEF release_audit, Status, stateVars, gateVars, taskVars

--------------------------------------------------------------------------------
(***************************************************************************)
(* The sweeps.                                                             *)
(***************************************************************************)
\* An expired entry goes from the tracker to the sweep.
LEMMA ExpiredOf ==
  ASSUME NEW d \in ExpiredEntries
  PROVE  /\ d.msg \in Msg
         /\ \E e \in pending[d.msg] : Expired(e) /\ d = [msg |-> d.msg, entry |-> e,
              still |-> \E f \in pending[d.msg] : ~Expired(f)]
<1>1. PICK n \in Msg : \E e \in {c \in pending[n] : Expired(c)} :
        d = [msg |-> n, entry |-> e, still |-> \E f \in pending[n] : ~Expired(f)]
  BY DEF ExpiredEntries
<1>2. PICK e \in {c \in pending[n] : Expired(c)} :
        d = [msg |-> n, entry |-> e, still |-> \E f \in pending[n] : ~Expired(f)]
  BY <1>1
<1>. PICK still : still = (\E f \in pending[n] : ~Expired(f))
  OBVIOUS
<1>3. d = [msg |-> n, entry |-> e, still |-> still]
  BY <1>2
<1>4. d.msg = n
  BY <1>3
<1>. QED BY <1>2, <1>4

LEMMA SweepDrainSingle ==
  ASSUME TypeInv, TypeInv', SingleInv, PassShape, NEW s \in Sweeper, SweepDrain(s)
  PROVE  SingleInv'
<1>. PICK a \in Actor : a = SweepTask(s)
  BY ActorKinds DEF SweepTask
<1>. PICK t : t = [Idle EXCEPT !.pc = "sweep"]
  OBVIOUS
<1>1. /\ task[a].pc = "drain" /\ Goto(a, t) /\ t.pc = "sweep"
      /\ UNCHANGED <<row, live, index, dispatched, faulted, held>>
      /\ pending' = [m \in Msg |-> {e \in pending[m] : ~Expired(e)}]
      /\ pending \in [Msg -> SUBSET Entry]
  BY DEF SweepDrain, Is, Idle, rowVars, stateVars, gateVars, historyVars, check_timeouts,
     TypeInv, TypeOK, TrackerTypeOK
<1>2. /\ \A z \in Sweeper : pass'[z].taken = pass[z].taken
      /\ \A z \in Sweeper : z # s => pass'[z].queue = pass[z].queue
      /\ pass'[s].queue = ExpiredEntries /\ pass[s].queue = {}
  <2>1. pass[s].queue = {}
    BY <1>1 DEF PassShape, OutsideLoop
  <2>2. /\ \A z \in Sweeper : pass'[z].taken = pass[z].taken
        /\ \A z \in Sweeper : z # s => pass'[z].queue = pass[z].queue
        /\ pass'[s].queue = ExpiredEntries
    <3>. PICK critical : pass' = [pass EXCEPT ![s].queue = ExpiredEntries, ![s].critical = critical]
      BY DEF SweepDrain
    <3>1. pass \in [Sweeper -> Pass] /\ pass[s] \in Pass
      BY DEF TypeInv, TypeOK
    <3>. QED BY <3>1 DEF Pass
  <2>. QED BY <2>1, <2>2
<1>3. (\A n \in Msg : ~Drives(t, n)) /\ LocalOK(t, index)
  BY <1>1, LoopDrivesNothing, LocalTrivially
<1>4. /\ \A b \in Actor : task[b].pc = "write" => task'[b] = task[b]
      /\ \A n \in Msg, b \in Actor : Drives(task'[b], n) => task'[b] = task[b]
  BY <1>1, <1>3 DEF Goto, TypeInv, TypeOK
<1>5. ASSUME NEW m \in Msg PROVE TokenOK(m)'
  <2>1. CASE \A e \in pending[m] : ~Expired(e)
    <3>1. \A d \in ExpiredEntries : d.msg # m
      BY <2>1, ExpiredOf
    <3>2. Unmoved(m)
      BY <1>1, <1>2, <1>4, <3>1 DEF Unmoved
    <3>. QED BY <1>1, <3>2, ReachedSame, TokensUnmoved DEF SingleInv, TokenInv
  <2>2. ASSUME NEW e \in pending[m], Expired(e) PROVE TokenOK(m)'
    <3>. PICK old : old = <<"entry", e, "awaited", e.stage>>
      OBVIOUS
    <3>. PICK still : still = (\E f \in pending[m] : ~Expired(f))
      OBVIOUS
    <3>. PICK d : d = [msg |-> m, entry |-> e, still |-> still]
      OBVIOUS
    <3>. PICK new : new = <<"queue", <<s, d>>, "awaited", e.stage>>
      OBVIOUS
    <3>1. old \in Tokens(m)
      BY TokenKinds DEF Tokens
    <3>2. /\ Reached(m, old[3], old[4])
          /\ \A b \in Actor : ~Drives(task[b], m)
          /\ \A f \in pending[m] : f = e
          /\ held[m] = NoPoint
          /\ \A z \in Sweeper : /\ pass[z].taken[m] = NoPoint
                                /\ \A c \in pass[z].queue : c.msg # m
      BY <3>1, SoleToken DEF SingleInv, TokenInv
    <3>3. Reached(m, new[3], new[4])'
      <4>1. Reached(m, "awaited", e.stage)
        BY <3>2
      <4>2. e.stage \in Stage
        BY <1>1 DEF Entry
      <4>3. Reached(m, "awaited", e.stage)'
        BY <1>1, <4>1, <4>2, ReachedSame
      <4>. QED BY <4>3
    <3>4. \A b \in Actor : ~Drives(task'[b], m)
      BY <1>4, <3>2
    <3>5. pending'[m] = {}
      BY <1>1, <2>2, <3>2
    <3>6. ASSUME NEW z \in Sweeper, NEW c \in pass'[z].queue, c.msg = m
          PROVE  new = <<"queue", <<z, c>>, "awaited", c.entry.stage>>
      <4>1. z = s /\ c \in ExpiredEntries
        BY <1>2, <3>2, <3>6
      <4>2. PICK f \in pending[m] :
              c = [msg |-> m, entry |-> f, still |-> \E g \in pending[m] : ~Expired(g)]
        BY <3>6, <4>1, ExpiredOf
      <4>3. c = d
        BY <3>2, <4>2
      <4>. QED BY <4>1, <4>3
    <3>7. /\ held'[m] = NoPoint
          /\ \A z \in Sweeper : pass'[z].taken[m] = NoPoint
      BY <1>1, <1>2, <3>2
    <3>. QED BY <3>3, <3>4, <3>5, <3>6, <3>7, OnlyToken
  <2>. QED BY <2>1, <2>2
<1>6. TokenInv'
  BY <1>5 DEF TokenInv
<1>7. LocalsOK'
  BY <1>1, <1>3, LocalMoves DEF SingleInv
<1>8. SentIsKept'
  BY <1>1, <1>4, SentStays DEF SingleInv
<1>. QED BY <1>6, <1>7, <1>8 DEF SingleInv

\* A sweep decides about one of its entries.
LEMMA QueueMoves ==
  ASSUME TypeInv, TypeInv', SingleInv, NEW s \in Sweeper, NEW d \in pass[s].queue, NEW t,
         task[SweepTask(s)].pc = "sweep", Goto(SweepTask(s), t),
         pass'[s].queue = pass[s].queue \ {d}, pass'[s].taken = pass[s].taken,
         \A z \in Sweeper : z # s => pass'[z] = pass[z],
         UNCHANGED <<row, live, index, dispatched, faulted, pending, held>>, LocalOK(t, index),
         t.pc = "sweep" \/ t.msg = d.msg,
         t.pc # "sweep" /\ Reached(d.msg, "awaited", d.entry.stage) =>
           Reached(d.msg, StepOf(t), StageReached(t))
  PROVE  SingleInv'
<1>. PICK a \in Actor : a = SweepTask(s)
  BY ActorKinds DEF SweepTask
<1>0. /\ task' = [task EXCEPT ![a] = t] /\ task \in [Actor -> Task]
      /\ d.msg \in Msg /\ d.entry.stage \in Stage
  BY PassFields DEF Goto, TypeInv, TypeOK
<1>. PICK m \in Msg : m = d.msg
  BY <1>0
<1>. PICK old : old = <<"queue", <<s, d>>, "awaited", d.entry.stage>>
  OBVIOUS
<1>1. old \in Tokens(m)
  BY TokenKinds DEF Tokens
<1>2. /\ Reached(m, old[3], old[4])
      /\ \A b \in Actor : ~Drives(task[b], m)
      /\ pending[m] = {}
      /\ held[m] = NoPoint
      /\ \A z \in Sweeper : /\ pass[z].taken[m] = NoPoint
                            /\ \A c \in pass[z].queue : c.msg = m => z = s /\ c = d
  BY <1>1, SoleToken DEF SingleInv, TokenInv
<1>3. /\ \A z \in Sweeper : pass'[z].taken = pass[z].taken
      /\ \A z \in Sweeper : \A c \in pass'[z].queue : c \in pass[z].queue
      /\ \A z \in Sweeper : \A c \in pass'[z].queue : c.msg # m
  BY <1>2
<1>4. CASE t.pc = "sweep"
  <2>1. \A n \in Msg : ~Drives(t, n)
    BY <1>4, LoopDrivesNothing
  <2>2. /\ \A b \in Actor : task[b].pc = "write" => task'[b] = task[b]
        /\ \A n \in Msg, b \in Actor : Drives(task'[b], n) => task'[b] = task[b]
    BY <1>0, <2>1
  <2>3. \A n \in Msg : Unmoved(n)
    BY <1>3, <2>2 DEF Unmoved
  <2>4. LocalsOK'
    BY LocalMoves DEF SingleInv
  <2>. QED BY <2>2, <2>3, <2>4, UnmovedSingle
<1>5. CASE t.pc # "sweep"
  <2>1. TokenOK(m)'
    <3>. PICK new : new = <<"task", a, StepOf(t), StageReached(t)>>
      OBVIOUS
    <3>1. Reached(m, new[3], new[4])'
      <4>1. Reached(m, StepOf(t), StageReached(t))
        BY <1>2, <1>5
      <4>2. StageReached(t) \in Stage
        <5>1. t \in Task
          <6>1. task'[a] = t
            BY <1>0
          <6>. QED BY <6>1 DEF TypeInv, TypeOK
        <5>. QED BY <5>1 DEF StageReached, Task, Stage
      <4>3. Reached(m, StepOf(t), StageReached(t))'
        BY <4>1, <4>2, ReachedSame
      <4>. QED BY <4>3
    <3>2. \A b \in Actor : Drives(task'[b], m) =>
            new = <<"task", b, StepOf(task'[b]), StageReached(task'[b])>>
      <4>. SUFFICES ASSUME NEW b \in Actor, Drives(task'[b], m)
                    PROVE  new = <<"task", b, StepOf(task'[b]), StageReached(task'[b])>>
        OBVIOUS
      <4>1. b = a /\ task'[b] = t
        BY <1>0, <1>2
      <4>. QED BY <4>1
    <3>3. /\ pending'[m] = {} /\ held'[m] = NoPoint
          /\ \A z \in Sweeper : /\ pass'[z].taken[m] = NoPoint
                                /\ \A c \in pass'[z].queue : c.msg # m
      BY <1>2, <1>3
    <3>. QED BY <3>1, <3>2, <3>3, OnlyToken
  <2>2. ASSUME NEW n \in Msg, n # m PROVE TokenOK(n)'
    <3>1. \A b \in Actor : Drives(task'[b], n) => task'[b] = task[b]
      BY <1>0, <1>5, <2>2, DrivesItsOwn
    <3>2. Unmoved(n)
      BY <1>3, <3>1 DEF Unmoved
    <3>. QED BY <3>2, ReachedSame, TokensUnmoved DEF SingleInv, TokenInv
  <2>3. TokenInv'
    BY <2>1, <2>2 DEF TokenInv
  <2>4. LocalsOK'
    BY LocalMoves DEF SingleInv
  <2>5. SentIsKept'
    <3>1. \A b \in Actor : task[b].pc = "write" => task'[b] = task[b]
      BY <1>0
    <3>. QED BY <3>1, SentStays DEF SingleInv
  <2>. QED BY <2>3, <2>4, <2>5 DEF SingleInv
<1>. QED BY <1>4, <1>5

LEMMA ResendSingle ==
  ASSUME TypeInv, TypeInv', SingleInv, NEW s \in Sweeper, Resend(s)
  PROVE  SingleInv'
<1>1. PICK d \in pass[s].queue :
        /\ pass' = [pass EXCEPT ![s].queue = @ \ {d}]
        /\ Goto(SweepTask(s), [AtStage("retrack", d.msg, d.entry.stage) EXCEPT
                                 !.mod = d.entry.mod,
                                 !.resends = d.entry.resends])
  BY DEF Resend
<1>. PICK t0 : t0 = AtStage("retrack", d.msg, d.entry.stage)
  OBVIOUS
<1>. PICK t : t = [t0 EXCEPT !.mod = d.entry.mod, !.resends = d.entry.resends]
  OBVIOUS
<1>2. t.pc = "retrack" /\ t.msg = d.msg /\ t.stage = d.entry.stage
  BY DEF AtStage, At, Idle
<1>3. /\ Goto(SweepTask(s), t) /\ task[SweepTask(s)].pc = "sweep" /\ LocalOK(t, index)
      /\ StepOf(t) = "awaited" /\ StageReached(t) = d.entry.stage
      /\ UNCHANGED <<row, live, index, dispatched, faulted, pending, held>>
  BY <1>1, <1>2, LocalTrivially
     DEF Resend, Is, StepOf, StageReached, rowVars, stateVars, gateVars, historyVars
<1>4. /\ pass'[s].queue = pass[s].queue \ {d} /\ pass'[s].taken = pass[s].taken
      /\ \A z \in Sweeper : z # s => pass'[z] = pass[z]
  BY <1>1 DEF TypeInv, TypeOK, Pass
<1>. QED BY <1>2, <1>3, <1>4, QueueMoves

LEMMA TimeOutSingle ==
  ASSUME TypeInv, TypeInv', SingleInv, NEW s \in Sweeper, TimeOut(s)
  PROVE  SingleInv'
<1>1. PICK d \in pass[s].queue :
       \/ /\ pass' = [pass EXCEPT ![s].queue = @ \ {d}, ![s].failed = @ \cup {d.msg}]
          /\ Goto(SweepTask(s), Ending(d.msg, "failed"))
       \/ /\ pass' = [pass EXCEPT ![s].queue = @ \ {d}, ![s].advanced = @ \cup {d.msg}]
          /\ Goto(SweepTask(s), AfterTimeout(d))
       \/ /\ pass' = [pass EXCEPT ![s].queue = @ \ {d}]
          /\ UNCHANGED task
  BY DEF TimeOut
<1>2. /\ task[SweepTask(s)].pc = "sweep" /\ SweepTask(s) \in Actor
      /\ UNCHANGED <<row, live, index, dispatched, faulted, pending, held>>
      /\ d.msg \in Msg /\ d.entry.stage \in Stage /\ index[d.msg] \in Nat
  BY ActorKinds, PassFields
     DEF TimeOut, Is, rowVars, stateVars, gateVars, historyVars, TypeInv, TypeOK
<1>3. /\ pass'[s].queue = pass[s].queue \ {d} /\ pass'[s].taken = pass[s].taken
      /\ \A z \in Sweeper : z # s => pass'[z] = pass[z]
  BY <1>1 DEF TypeInv, TypeOK, Pass
<1>4. ASSUME NEW t, Goto(SweepTask(s), t), LocalOK(t, index), t.pc = "sweep" \/ t.msg = d.msg,
             t.pc # "sweep" /\ Reached(d.msg, "awaited", d.entry.stage) =>
               Reached(d.msg, StepOf(t), StageReached(t))
      PROVE  SingleInv'
  BY <1>2, <1>3, <1>4, QueueMoves
<1>5. ASSUME NEW outcome, Goto(SweepTask(s), Ending(d.msg, outcome))
      PROVE  SingleInv'
  <2>. PICK t : t = Ending(d.msg, outcome)
    OBVIOUS
  <2>1. /\ Goto(SweepTask(s), t) /\ t.msg = d.msg /\ LocalOK(t, index)
        /\ StepOf(t) = "ending" /\ StageReached(t) = "pre_process"
    BY <1>5, StartedSteps, LocalTrivially
  <2>2. Reached(d.msg, "awaited", d.entry.stage) => Reached(d.msg, "ending", "pre_process")
    BY <1>2, ReachedNext
  <2>. QED BY <1>4, <2>1, <2>2
<1>6. CASE Goto(SweepTask(s), AfterTimeout(d))
  <2>1. CASE d.entry.stage = "pre_process"
    <3>. PICK t : t = AtStage("gate", d.msg, "in_process")
      OBVIOUS
    <3>1. /\ Goto(SweepTask(s), t) /\ t.msg = d.msg /\ LocalOK(t, index)
          /\ StepOf(t) = "due" /\ StageReached(t) = "in_process"
      BY <1>6, <2>1, StartedSteps, LocalTrivially DEF AfterTimeout
    <3>2. Reached(d.msg, "awaited", d.entry.stage) => Reached(d.msg, "due", "in_process")
      BY <1>2, <2>1, ReachedNext
    <3>. QED BY <1>4, <3>1, <3>2
  <2>2. CASE d.entry.stage = "in_process"
    <3>. PICK t : t = At("bump", d.msg)
      OBVIOUS
    <3>1. /\ Goto(SweepTask(s), t) /\ t.msg = d.msg /\ LocalOK(t, index)
          /\ StepOf(t) = "awaited" /\ StageReached(t) = "in_process"
      BY <1>6, <2>2, StartedSteps, LocalTrivially DEF AfterTimeout
    <3>2. Reached(d.msg, "awaited", d.entry.stage) => Reached(d.msg, "awaited", "in_process")
      BY <2>2
    <3>. QED BY <1>4, <3>1, <3>2
  <2>3. CASE d.entry.stage = "post_process"
    <3>1. Goto(SweepTask(s), Ending(d.msg, "complete"))
      BY <1>6, <2>3 DEF AfterTimeout
    <3>. QED BY <1>5, <3>1
  <2>. QED BY <1>2, <2>1, <2>2, <2>3 DEF Stage
<1>7. CASE UNCHANGED task
  <2>. PICK t : t = task[SweepTask(s)]
    OBVIOUS
  <2>1. Goto(SweepTask(s), t) /\ t.pc = "sweep" /\ LocalOK(t, index)
    BY <1>2, <1>7, LocalTrivially DEF Goto, TypeInv, TypeOK
  <2>. QED BY <1>4, <2>1
<1>. QED BY <1>1, <1>5, <1>6, <1>7

LEMMA ReTrackSingle ==
  ASSUME TypeInv, TypeInv', SingleInv, NEW s \in Sweeper, ReTrack(s)
  PROVE  SingleInv'
<1>. PICK a \in Actor : a = SweepTask(s)
  BY ActorKinds DEF SweepTask
<1>0. task[a].pc = "retrack"
  BY DEF ReTrack, Is
<1>. PICK m \in Msg, stage \in Stage : m = task[a].msg /\ stage = task[a].stage
  BY <1>0, AtWork DEF DrivePC
<1>. PICK e : e = NewEntry(stage, task[a].mod, task[a].resends + 1)
  OBVIOUS
<1>. PICK t : t = Rest(a)
  OBVIOUS
<1>1. /\ e.stage = stage /\ pending' = [pending EXCEPT ![m] = @ \cup {e}]
      /\ UNCHANGED <<row, live, index, dispatched, faulted, held>> /\ Goto(a, t)
  BY DEF ReTrack, re_track, NewEntry, Return, rowVars, stateVars, gateVars, historyVars
<1>2. Drives(task[a], m) /\ Reached(m, "awaited", stage)
  BY <1>0, AtWork, DriverReached DEF DrivePC
<1>3. \A z \in Sweeper : pass'[z].queue = pass[z].queue /\ pass'[z].taken = pass[z].taken
  <2>1. pass' = [pass EXCEPT ![s].resent = @ \cup {m}]
    BY DEF ReTrack
  <2>. QED BY <2>1 DEF TypeInv, TypeOK, Pass
<1>4. (\A n \in Msg : ~Drives(t, n)) /\ LocalOK(t, index)
  BY RestDrivesNothing, LocalTrivially DEF Rest, Idle
<1>. QED BY <1>0, <1>1, <1>2, <1>3, <1>4, EntrySingle

\* A task that drives nothing goes on to drive nothing; what a sweep holds may
\* be dropped.
LEMMA IdleMoves ==
  ASSUME TypeInv, TypeInv', SingleInv, NEW a \in Actor, NEW t, Goto(a, t),
         t.pc \in OutsideLoop \cup {"ack", "sweep", "store", "clear"},
         \A n \in Msg : n \notin faulted' => ~(task[a].msg = n /\ task[a].pc = "write"),
         UNCHANGED <<row, live, index, dispatched, pending, held>>, faulted \subseteq faulted',
         \A s \in Sweeper : /\ pass'[s].taken = pass[s].taken
                            /\ pass'[s].queue \subseteq pass[s].queue
  PROVE  SingleInv'
<1>1. (\A n \in Msg : ~Drives(t, n)) /\ LocalOK(t, index)
  BY LoopDrivesNothing, LocalTrivially DEF OutsideLoop
<1>2. /\ task' = [task EXCEPT ![a] = t] /\ task \in [Actor -> Task]
  BY DEF Goto, TypeInv, TypeOK
<1>3. \A n \in Msg : Unmoved(n)
  BY <1>1, <1>2 DEF Unmoved
<1>4. LocalsOK'
  BY <1>1, LocalMoves DEF SingleInv
<1>5. \A n \in Msg : n \notin faulted' =>
        \A b \in Actor : task[b].msg = n /\ task[b].pc = "write" => task'[b] = task[b]
  BY <1>2
<1>. QED BY <1>3, <1>4, <1>5, UnmovedSingle

LEMMA SweepEndSingle ==
  ASSUME TypeInv, TypeInv', SingleInv, NEW s \in Sweeper, SweepEnd(s)
  PROVE  SingleInv'
<1>. PICK a \in Actor : a = SweepTask(s)
  BY ActorKinds DEF SweepTask
<1>. PICK t : t = AfterSweep(s)
  OBVIOUS
<1>1. /\ Goto(a, t) /\ task[a].pc = "sweep" /\ t.pc \in OutsideLoop
      /\ UNCHANGED <<row, live, index, dispatched, faulted, pending, held>>
  BY DEF SweepEnd, Is, AfterSweep, Idle, OutsideLoop, rowVars, stateVars, gateVars, historyVars
<1>2. \A z \in Sweeper : /\ pass'[z].taken = pass[z].taken
                         /\ pass'[z].queue \subseteq pass[z].queue
  <2>1. pass' = [pass EXCEPT ![s] = [NoPass EXCEPT !.taken = pass[s].taken]]
    BY DEF SweepEnd
  <2>2. pass \in [Sweeper -> Pass]
    BY DEF TypeInv, TypeOK
  <2>3. pass'[s].taken = pass[s].taken /\ pass'[s].queue = {}
    BY <2>1, <2>2 DEF NoPass
  <2>. QED BY <2>1, <2>2, <2>3
<1>. QED BY <1>1, <1>2, IdleMoves

LEMMA SweepStepSingle ==
  ASSUME TypeInv, TypeInv', SingleInv, PassShape, NEW s \in Sweeper, SweepStep(s)
  PROVE  SingleInv'
BY SweepDrainSingle, ResendSingle, ReTrackSingle, TimeOutSingle, SweepEndSingle DEF SweepStep

--------------------------------------------------------------------------------
(***************************************************************************)
(* The control surface, the dependencies, the resumes and the failures.    *)
(***************************************************************************)
\* A sweeper goes from one of its steps between two messages to another.
LEMMA SweeperRests ==
  ASSUME TypeInv, TypeInv', SingleInv, NEW s \in Sweeper,
         NEW t, t.pc \in OutsideLoop, Goto(SweepTask(s), t),
         task[SweepTask(s)].pc \in OutsideLoop,
         UNCHANGED <<row, live, index, dispatched, faulted, pending, held, pass>>
  PROVE  SingleInv'
<1>. PICK a \in Actor : a = SweepTask(s)
  BY ActorKinds DEF SweepTask
<1>1. Goto(a, t) /\ task[a].pc # "write"
  BY DEF OutsideLoop
<1>. QED BY <1>1, QuietRest

LEMMA ControlSingle ==
  ASSUME TypeInv, TypeInv', SingleInv, PauseRequest \/ ResumeRequest \/ ControlStep \/ SweepTick
  PROVE  SingleInv'
<1>1. {"control", "timer"} \subseteq Sweeper
  BY DEF Sweeper, Resumer
<1>2. UNCHANGED <<row, live, index, dispatched, faulted, pending, held, pass>>
  BY DEF PauseRequest, ResumeRequest, ControlStep, Pause, DeferPause, DeferResume, SweepTick,
     pause, defer_pause, defer_resume, rowVars, stateVars, gateVars, historyVars
<1>3. \A pc \in OutsideLoop : [Idle EXCEPT !.pc = pc].pc \in OutsideLoop
  BY DEF Idle
<1>4. Idle.pc = "idle" /\ Idle.pc \in OutsideLoop
  BY DEF Idle, OutsideLoop
<1>5. ASSUME PauseRequest \/ ResumeRequest
      PROVE  \E t : t.pc \in OutsideLoop /\ Goto(SweepTask("control"), t)
  <2>1. \E pc \in OutsideLoop : Goto(SweepTask("control"), [Idle EXCEPT !.pc = pc])
    BY <1>5 DEF PauseRequest, ResumeRequest, OutsideLoop
  <2>. QED BY <1>3, <2>1
<1>6. ASSUME ControlStep
      PROVE  \E t : t.pc \in OutsideLoop /\ Goto(SweepTask("control"), t)
  BY <1>4, <1>6 DEF ControlStep, Pause, DeferPause, DeferResume
<1>7. ASSUME SweepTick
      PROVE  \E t : t.pc \in OutsideLoop /\ Goto(SweepTask("timer"), t)
  <2>1. \E pc \in OutsideLoop : Goto(SweepTask("timer"), [Idle EXCEPT !.pc = pc])
    BY <1>7 DEF SweepTick, OutsideLoop
  <2>. QED BY <1>3, <2>1
<1>8. /\ PauseRequest \/ ResumeRequest \/ ControlStep =>
           task[SweepTask("control")].pc \in OutsideLoop
      /\ SweepTick => task[SweepTask("timer")].pc \in OutsideLoop
  BY <1>4 DEF PauseRequest, ResumeRequest, Free, ControlStep, Pause, DeferPause, DeferResume,
     SweepTick, Is, OutsideLoop
<1>. QED BY <1>1, <1>2, <1>5, <1>6, <1>7, <1>8, SweeperRests

LEMMA DependencySingle ==
  ASSUME TypeInv, TypeInv', SingleInv, NEW r \in BlockedReason,
         DependencyDown(r) \/ DependencyUp(r)
  PROVE  SingleInv'
<1>1. CASE DependencyDown(r)
  BY <1>1, UnchangedSingle
     DEF DependencyDown, set_block, rowVars, stateVars, taskVars, historyVars
<1>2. CASE DependencyUp(r)
  <2>1. r \in Sweeper
    BY ActorKinds DEF Resumer
  <2>2. /\ UNCHANGED <<row, live, index, dispatched, faulted, pending, held, pass>>
        /\ task[SweepTask(r)].pc \in OutsideLoop
    BY <1>2 DEF DependencyUp, clear_block, Free, Idle, OutsideLoop, rowVars, stateVars,
       historyVars
  <2>3. Idle.pc \in OutsideLoop /\ [Idle EXCEPT !.pc = "resume"].pc \in OutsideLoop
    BY DEF Idle, OutsideLoop
  <2>4. \E t : t.pc \in OutsideLoop /\ Goto(SweepTask(r), t)
    BY <1>2, <2>3 DEF DependencyUp
  <2>. QED BY <2>1, <2>2, <2>4, SweeperRests
<1>. QED BY <1>1, <1>2

LEMMA ResumeSingle ==
  ASSUME TypeInv, TypeInv', SingleInv, PassShape, NEW r \in Resumer, Resume(r)
  PROVE  SingleInv'
<1>. PICK a \in Actor : a = SweepTask(r)
  BY ActorKinds DEF SweepTask
<1>. PICK t : t = [Idle EXCEPT !.pc = "restart"]
  OBVIOUS
<1>1. /\ Goto(a, t) /\ t.pc = "restart" /\ task[a].pc = "resume" /\ r \in Sweeper
      /\ UNCHANGED <<row, live, index, dispatched, faulted, pending>>
      /\ held' = [m \in Msg |-> NoPoint] /\ held \in [Msg -> HoldPoint \cup {NoPoint}]
  BY ActorKinds DEF Resume, Is, Idle, release_held, rowVars, stateVars, historyVars, TypeInv,
     TypeOK, GateTypeOK
<1>2. /\ \A z \in Sweeper : pass'[z].queue = pass[z].queue
      /\ \A z \in Sweeper : z # r => pass'[z].taken = pass[z].taken
      /\ pass'[r].taken = held /\ pass[r].taken = NothingTaken
  <2>1. pass[r].taken = NothingTaken
    BY <1>1 DEF PassShape, OutsideResume
  <2>2. pass' = [pass EXCEPT ![r].taken = held]
    BY DEF Resume
  <2>. QED BY <1>1, <2>1, <2>2 DEF TypeInv, TypeOK, Pass
<1>3. (\A n \in Msg : ~Drives(t, n)) /\ LocalOK(t, index)
  BY <1>1, LoopDrivesNothing, LocalTrivially DEF OutsideLoop
<1>4. /\ \A b \in Actor : task[b].pc = "write" => task'[b] = task[b]
      /\ \A n \in Msg, b \in Actor : Drives(task'[b], n) => task'[b] = task[b]
  BY <1>1, <1>3 DEF Goto, TypeInv, TypeOK
<1>5. ASSUME NEW m \in Msg PROVE TokenOK(m)'
  <2>1. CASE held[m] = NoPoint
    <3>1. \A z \in Sweeper : pass'[z].taken[m] \in {pass[z].taken[m], NoPoint}
      BY <1>2, <2>1
    <3>2. Unmoved(m)
      BY <1>1, <1>2, <1>4, <3>1 DEF Unmoved
    <3>. QED BY <1>1, <3>2, ReachedSame, TokensUnmoved DEF SingleInv, TokenInv
  <2>2. CASE held[m] # NoPoint
    <3>. PICK p : p = held[m]
      OBVIOUS
    <3>. PICK old : old = <<"held", p, "due", StageOf(p)>>
      OBVIOUS
    <3>. PICK new : new = <<"taken", r, "due", StageOf(p)>>
      OBVIOUS
    <3>1. old \in Tokens(m)
      BY <2>2, TokenKinds DEF Tokens
    <3>2. /\ Reached(m, old[3], old[4])
          /\ \A b \in Actor : ~Drives(task[b], m)
          /\ pending[m] = {}
          /\ \A z \in Sweeper : /\ pass[z].taken[m] = NoPoint
                                /\ \A c \in pass[z].queue : c.msg # m
      BY <3>1, SoleToken DEF SingleInv, TokenInv
    <3>3. Reached(m, new[3], new[4])'
      <4>1. Reached(m, "due", StageOf(p))
        BY <3>2
      <4>2. StageOf(p) \in Stage
        BY <1>1, <2>2 DEF StageOf, HoldPoint, Stage
      <4>3. Reached(m, "due", StageOf(p))'
        BY <1>1, <4>1, <4>2, ReachedSame
      <4>. QED BY <4>3
    <3>4. \A b \in Actor : ~Drives(task'[b], m)
      BY <1>4, <3>2
    <3>5. pending'[m] = {} /\ held'[m] = NoPoint
      BY <1>1, <3>2
    <3>6. \A z \in Sweeper :
            /\ pass'[z].taken[m] # NoPoint =>
                 new = <<"taken", z, "due", StageOf(pass'[z].taken[m])>>
            /\ \A c \in pass'[z].queue : c.msg # m
      BY <1>1, <1>2, <3>2
    <3>. QED BY <3>3, <3>4, <3>5, <3>6, OnlyToken
  <2>. QED BY <2>1, <2>2
<1>6. TokenInv'
  BY <1>5 DEF TokenInv
<1>7. LocalsOK'
  BY <1>1, <1>3, LocalMoves DEF SingleInv
<1>8. SentIsKept'
  BY <1>1, <1>4, SentStays DEF SingleInv
<1>. QED BY <1>6, <1>7, <1>8 DEF SingleInv

LEMMA RestartClocksSingle ==
  ASSUME TypeInv, TypeInv', SingleInv, NEW r \in Resumer, RestartClocks(r)
  PROVE  SingleInv'
<1>. PICK a \in Actor : a = SweepTask(r)
  BY ActorKinds DEF SweepTask
<1>. PICK t : t = [Idle EXCEPT !.pc = "check"]
  OBVIOUS
<1>1. /\ Goto(a, t) /\ t.pc = "check" /\ task[a].pc = "restart"
      /\ UNCHANGED <<row, live, index, dispatched, faulted, held, pass>>
      /\ pending' = [m \in Msg |-> {[e EXCEPT !.clock = "live"] : e \in pending[m]}]
      /\ pending \in [Msg -> SUBSET Entry]
  BY DEF RestartClocks, restart_clocks, Is, Idle, rowVars, stateVars, gateVars, historyVars,
     TypeInv, TypeOK, TrackerTypeOK
<1>2. (\A n \in Msg : ~Drives(t, n)) /\ LocalOK(t, index)
  BY <1>1, LoopDrivesNothing, LocalTrivially DEF OutsideLoop
<1>3. /\ \A b \in Actor : task[b].pc = "write" => task'[b] = task[b]
      /\ \A n \in Msg, b \in Actor : Drives(task'[b], n) => task'[b] = task[b]
  BY <1>1, <1>2 DEF Goto, TypeInv, TypeOK
<1>4. ASSUME NEW m \in Msg PROVE TokenOK(m)'
  <2>1. AtMostOne(pending[m]) => AtMostOne(pending'[m])
    BY <1>1 DEF AtMostOne
  <2>2. \A f \in pending'[m] : \E e \in pending[m] : f.stage = e.stage
    <3>. SUFFICES ASSUME NEW f \in pending'[m] PROVE \E e \in pending[m] : f.stage = e.stage
      OBVIOUS
    <3>1. PICK e \in pending[m] : f = [e EXCEPT !.clock = "live"]
      BY <1>1
    <3>2. e \in Entry
      BY <1>1
    <3>3. f.stage = e.stage
      BY <3>1, <3>2 DEF Entry
    <3>. QED BY <3>3
  <2>. QED BY <1>1, <1>3, <2>1, <2>2, ReachedSame, EntryChanges DEF SingleInv
<1>5. TokenInv'
  BY <1>4 DEF TokenInv
<1>6. LocalsOK'
  BY <1>1, <1>2, LocalMoves DEF SingleInv
<1>7. SentIsKept'
  BY <1>1, <1>3, SentStays DEF SingleInv
<1>. QED BY <1>5, <1>6, <1>7 DEF SingleInv

LEMMA ResumeSweepSingle ==
  ASSUME TypeInv, TypeInv', SingleInv, NEW r \in Resumer, ResumeSweep(r)
  PROVE  SingleInv'
<1>1. r \in Sweeper
  BY ActorKinds
<1>2. /\ UNCHANGED <<row, live, index, dispatched, faulted, pending, held, pass>>
      /\ task[SweepTask(r)].pc \in OutsideLoop
  BY DEF ResumeSweep, Is, OutsideLoop, rowVars, stateVars, gateVars, historyVars
<1>3. \E t : t.pc \in OutsideLoop /\ Goto(SweepTask(r), t)
  <2>1. \A pc \in OutsideLoop : [Idle EXCEPT !.pc = pc].pc \in OutsideLoop
    BY DEF Idle
  <2>2. \E pc \in OutsideLoop : Goto(SweepTask(r), [Idle EXCEPT !.pc = pc])
    BY DEF ResumeSweep, OutsideLoop
  <2>. QED BY <2>1, <2>2
<1>. QED BY <1>1, <1>2, <1>3, SweeperRests

LEMMA SpawnSingle ==
  ASSUME TypeInv, TypeInv', SingleInv, NEW r \in Resumer, Spawn(r)
  PROVE  SingleInv'
<1>. PICK taken : taken = pass[r].taken
  OBVIOUS
<1>1. /\ r \in Sweeper /\ pass \in [Sweeper -> Pass] /\ SweepTask(r) \in Actor
      /\ taken \in [Msg -> HoldPoint \cup {NoPoint}]
  BY ActorKinds, PassFields DEF TypeInv, TypeOK, Pass
<1>2. /\ UNCHANGED <<row, live, index, dispatched, faulted, pending, held>>
      /\ task[SweepTask(r)].pc = "spawn"
      /\ pass' = [pass EXCEPT ![r] = NoPass]
      /\ \A m \in Released(taken) : task[<<"replay", m>>] = Idle
      /\ task' = [a \in Actor |->
                    IF a = SweepTask(r) THEN Idle
                    ELSE IF a[1] = "replay" /\ a[2] \in Released(taken)
                           THEN AtStage("gate", a[2], StageOf(taken[a[2]]))
                           ELSE task[a]]
  BY DEF Spawn, Is, rowVars, stateVars, gateVars, historyVars
<1>3. /\ pass'[r].queue = {} /\ \A m \in Msg : pass'[r].taken[m] = NoPoint
      /\ \A z \in Sweeper : z # r => pass'[z] = pass[z]
  BY <1>1, <1>2 DEF NoPass, NothingTaken
<1>4. ASSUME NEW b \in Actor
      PROVE  \/ b = SweepTask(r) /\ task'[b] = Idle
             \/ \E m \in Released(taken) :
                  /\ b = <<"replay", m>> /\ task[b] = Idle
                  /\ task'[b] = AtStage("gate", m, StageOf(taken[m]))
             \/ task'[b] = task[b]
  <2>1. CASE b = SweepTask(r)
    BY <1>2, <2>1
  <2>2. CASE b # SweepTask(r) /\ b[1] = "replay" /\ b[2] \in Released(taken)
    <3>1. b = <<"replay", b[2]>>
      BY <2>2 DEF Actor, Drain
    <3>. QED BY <1>2, <2>2, <3>1
  <2>3. CASE b # SweepTask(r) /\ ~(b[1] = "replay" /\ b[2] \in Released(taken))
    BY <1>2, <2>3
  <2>. QED BY <2>1, <2>2, <2>3
<1>5. ASSUME NEW m \in Msg PROVE TokenOK(m)'
  <2>1. CASE m \notin Released(taken)
    <3>1. \A b \in Actor : Drives(task'[b], m) => task'[b] = task[b]
      <4>. SUFFICES ASSUME NEW b \in Actor, Drives(task'[b], m) PROVE task'[b] = task[b]
        OBVIOUS
      <4>1. ~Drives(Idle, m)
        BY IdleDrivesNothing
      <4>2. \A n \in Released(taken) : ~Drives(AtStage("gate", n, StageOf(taken[n])), m)
        BY <2>1, StartedSteps, DrivesItsOwn
      <4>. QED BY <1>4, <4>1, <4>2
    <3>2. Unmoved(m)
      BY <1>2, <1>3, <3>1 DEF Unmoved
    <3>. QED BY <1>2, <3>2, ReachedSame, TokensUnmoved DEF SingleInv, TokenInv
  <2>2. CASE m \in Released(taken)
    <3>. PICK p : p = taken[m]
      OBVIOUS
    <3>. PICK stage : stage = StageOf(p)
      OBVIOUS
    <3>. PICK a \in Actor : a = <<"replay", m>>
      BY ActorKinds
    <3>. PICK old : old = <<"taken", r, "due", stage>>
      OBVIOUS
    <3>. PICK new : new = <<"task", a, "due", stage>>
      OBVIOUS
    <3>0. stage \in Stage /\ pass[r].taken[m] # NoPoint
      BY <1>1, <2>2 DEF Released, StageOf, HoldPoint, Stage
    <3>1. old \in Tokens(m)
      BY <1>1, <3>0, TokenKinds DEF Tokens
    <3>2. /\ Reached(m, old[3], old[4])
          /\ \A b \in Actor : ~Drives(task[b], m)
          /\ pending[m] = {} /\ held[m] = NoPoint
          /\ \A z \in Sweeper : /\ pass[z].taken[m] # NoPoint => z = r
                                /\ \A c \in pass[z].queue : c.msg # m
      BY <3>1, SoleToken DEF SingleInv, TokenInv
    <3>3. Reached(m, new[3], new[4])'
      <4>1. Reached(m, "due", stage)
        BY <3>2
      <4>2. Reached(m, "due", stage)'
        BY <1>2, <3>0, <4>1, ReachedSame
      <4>. QED BY <4>2
    <3>4. \A b \in Actor : Drives(task'[b], m) =>
            new = <<"task", b, StepOf(task'[b]), StageReached(task'[b])>>
      <4>. SUFFICES ASSUME NEW b \in Actor, Drives(task'[b], m)
                    PROVE  new = <<"task", b, StepOf(task'[b]), StageReached(task'[b])>>
        OBVIOUS
      <4>1. ~Drives(Idle, m)
        BY IdleDrivesNothing
      <4>2. PICK n \in Released(taken) :
              b = <<"replay", n>> /\ task'[b] = AtStage("gate", n, StageOf(taken[n]))
        BY <1>4, <3>2, <4>1
      <4>3. n = m
        BY <4>2, StartedSteps, DrivesItsOwn
      <4>4. b = a /\ task'[b] = AtStage("gate", m, stage)
        BY <4>2, <4>3
      <4>5. StepOf(task'[b]) = "due" /\ StageReached(task'[b]) = stage
        BY <4>4, StartedSteps
      <4>. QED BY <4>4, <4>5
    <3>5. /\ pending'[m] = {} /\ held'[m] = NoPoint
          /\ \A z \in Sweeper : /\ pass'[z].taken[m] = NoPoint
                                /\ \A c \in pass'[z].queue : c.msg # m
      BY <1>2, <1>3, <3>2
    <3>. QED BY <3>3, <3>4, <3>5, OnlyToken
  <2>. QED BY <2>1, <2>2
<1>6. TokenInv'
  BY <1>5 DEF TokenInv
<1>7. LocalsOK'
  <2>. SUFFICES ASSUME NEW b \in Actor PROVE LocalOK(task'[b], index)
    BY <1>2 DEF LocalsOK
  <2>1. LocalOK(Idle, index) /\ LocalOK(task[b], index)
    BY LocalTrivially DEF Idle, SingleInv, LocalsOK
  <2>2. \A n, stage : LocalOK(AtStage("gate", n, stage), index)
    BY StartedSteps, LocalTrivially
  <2>. QED BY <1>4, <2>1, <2>2
<1>8. SentIsKept'
  <2>1. \A b \in Actor : task[b].pc = "write" => task'[b] = task[b]
    BY <1>2, <1>4 DEF Idle
  <2>. QED BY <1>2, <2>1, SentStays DEF SingleInv
<1>. QED BY <1>6, <1>7, <1>8 DEF SingleInv

LEMMA ResumeStepSingle ==
  ASSUME TypeInv, TypeInv', SingleInv, PassShape, NEW r \in Resumer, ResumeStep(r)
  PROVE  SingleInv'
BY ResumeSingle, RestartClocksSingle, ResumeSweepSingle, SpawnSingle DEF ResumeStep

LEMMA DbFailsSingle ==
  ASSUME TypeInv, TypeInv', SingleInv, NEW a \in Actor, DbFails(a)
  PROVE  SingleInv'
<1>1. /\ UNCHANGED <<row, live, index, dispatched, pending, held>> /\ faulted \subseteq faulted'
      /\ task[a].msg \in faulted'
  BY DEF DbFails, rowVars, stateVars, gateVars
<1>2. \A n \in Msg : n \notin faulted' => ~(task[a].msg = n /\ task[a].pc = "write")
  BY <1>1
<1>3. CASE a[1] = "sweep"
  <2>. PICK s \in Sweeper : s = a[2]
    BY <1>3, SweepActor
  <2>. PICK t : t = AfterSweep(s)
    OBVIOUS
  <2>1. Goto(a, t) /\ t.pc \in OutsideLoop
    BY <1>3 DEF DbFails, AfterSweep, Idle, OutsideLoop
  <2>2. \A z \in Sweeper : /\ pass'[z].taken = pass[z].taken
                           /\ pass'[z].queue \subseteq pass[z].queue
    <3>1. pass' = [pass EXCEPT ![s] = [NoPass EXCEPT !.taken = pass[s].taken]]
      BY <1>3 DEF DbFails
    <3>2. pass \in [Sweeper -> Pass]
      BY DEF TypeInv, TypeOK
    <3>3. pass'[s].taken = pass[s].taken /\ pass'[s].queue = {}
      BY <3>1, <3>2 DEF NoPass
    <3>. QED BY <3>1, <3>2, <3>3
  <2>. QED BY <1>1, <1>2, <2>1, <2>2, IdleMoves
<1>4. CASE a[1] # "sweep"
  <2>. PICK t : t = Idle
    OBVIOUS
  <2>1. Goto(a, t) /\ t.pc \in OutsideLoop /\ UNCHANGED pass
    BY <1>4 DEF DbFails, Idle, OutsideLoop
  <2>. QED BY <1>1, <1>2, <2>1, IdleMoves
<1>. QED BY <1>3, <1>4

\* Nothing is on the move when the process starts.
LEMMA FreshTokens ==
  ASSUME NEW m \in Msg
  PROVE  TokensIn(m, [a \in Actor |-> Idle], {}, NoPoint, [s \in Sweeper |-> NoPass]) = {}
<1>. PICK tasks : tasks = [a \in Actor |-> Idle]
  OBVIOUS
<1>. PICK passes : passes = [s \in Sweeper |-> NoPass]
  OBVIOUS
<1>1. \A a \in Actor : ~Drives(tasks[a], m)
  BY IdleDrivesNothing
<1>2. \A s \in Sweeper : passes[s].taken[m] = NoPoint /\ passes[s].queue = {}
  BY DEF NoPass, NothingTaken
<1>3. \A k : k \notin TokensIn(m, tasks, {}, NoPoint, passes)
  BY <1>1, <1>2, TokenKinds
<1>. QED BY <1>3

LEMMA SingleInit == Init => SingleInv
<1>. SUFFICES ASSUME Init PROVE SingleInv
  OBVIOUS
<1>1. \A m \in Msg : Tokens(m) = {}
  BY FreshTokens DEF Init, Tokens
<1>2. TokenInv
  BY <1>1 DEF TokenInv, TokenOK, AtMostOne
<1>3. LocalsOK
  BY LocalTrivially DEF Init, LocalsOK, Idle
<1>4. SentIsKept
  BY DEF Init, SentIsKept, WasSent, SentTo
<1>. QED BY <1>2, <1>3, <1>4 DEF SingleInv

LEMMA CrashSingle == ASSUME Crash PROVE SingleInv'
<1>1. \A m \in Msg : Tokens(m)' = {}
  <2>1. /\ task' = [a \in Actor |-> Idle] /\ pass' = [s \in Sweeper |-> NoPass]
        /\ \A m \in Msg : pending'[m] = {} /\ held'[m] = NoPoint
    BY DEF Crash
  <2>. QED BY <2>1, FreshTokens DEF Tokens
<1>2. TokenInv'
  BY <1>1 DEF TokenInv, TokenOK, AtMostOne
<1>3. LocalsOK'
  <2>1. \A a \in Actor : task'[a] = Idle
    BY DEF Crash
  <2>2. LocalOK(Idle, index')
    BY LocalTrivially DEF Idle
  <2>. QED BY <2>1, <2>2 DEF LocalsOK
<1>4. SentIsKept'
  BY DEF Crash, SentIsKept, WasSent, SentTo
<1>. QED BY <1>2, <1>3, <1>4 DEF SingleInv

LEMMA SingleNext ==
  ASSUME SingleFile
  PROVE  OwnedInv /\ SingleInv /\ [Next]_vars => SingleInv'
<1>. SUFFICES ASSUME OwnedInv, SingleInv, [Next]_vars PROVE SingleInv'
  OBVIOUS
<1>1. TypeInv /\ PassShape /\ TypeInv'
  BY TypeNext DEF OwnedInv, Shape
<1>2. ASSUME NEW m \in Msg, Ingest(m) \/ Recover(m) \/ RecoverFails(m) \/ Elapse(m)
      PROVE  SingleInv'
  BY <1>1, <1>2, IngestSingle, RecoverSingle, RecoverFailsSingle, ElapseSingle
<1>3. ASSUME NEW a \in Actor, StageStep(a) \/ DbFails(a)
      PROVE  SingleInv'
  BY <1>1, <1>3, StageSingle, DbFailsSingle
<1>4. ASSUME NEW x \in Module, Ack(x)
      PROVE  SingleInv'
  BY <1>1, <1>4, AckSingle
<1>5. ASSUME NEW x \in Module, NEW m \in Msg,
             Echo(x, m) \/ Abandon(x, m) \/ Receipt(x, m) \/ AuditFlag(x, m)
      PROVE  SingleInv'
  <2>1. ~Abandon(x, m)
    BY DEF Abandon, SingleFile
  <2>. QED BY <1>1, <1>5, <2>1, EchoSingle, ReceiptSingle, AuditFlagSingle
<1>6. ASSUME NEW m \in Msg, NEW approve \in BOOLEAN, release_audit(m, approve)
      PROVE  SingleInv'
  BY <1>1, <1>6, ReleaseAuditSingle
<1>7. ASSUME DrainStart
      PROVE  SingleInv'
  BY <1>1, <1>7, UnchangedSingle
     DEF DrainStart, rowVars, stateVars, gateVars, taskVars, historyVars
<1>8. ASSUME NEW s \in Sweeper, SweepStep(s)
      PROVE  SingleInv'
  BY <1>1, <1>8, SweepStepSingle
<1>9. ASSUME NEW r \in Resumer, ResumeStep(r)
      PROVE  SingleInv'
  BY <1>1, <1>9, ResumeStepSingle
<1>10. ASSUME NEW r \in BlockedReason, DependencyDown(r) \/ DependencyUp(r)
       PROVE  SingleInv'
  BY <1>1, <1>10, DependencySingle
<1>11. ASSUME PauseRequest \/ ResumeRequest \/ ControlStep \/ SweepTick
       PROVE  SingleInv'
  BY <1>1, <1>11, ControlSingle
<1>12. ASSUME Crash
       PROVE  SingleInv'
  BY <1>12, CrashSingle
<1>13. ASSUME UNCHANGED vars
       PROVE  SingleInv'
  BY <1>1, <1>13, UnchangedSingle DEF vars, rowVars, stateVars, gateVars, taskVars, historyVars
<1>. QED
  BY <1>2, <1>3, <1>4, <1>5, <1>6, <1>7, <1>8, <1>9, <1>10, <1>11, <1>12, <1>13 DEF Next

--------------------------------------------------------------------------------
(***************************************************************************)
(* What a single file gives: a stage sends a message to a module once, in  *)
(* the order of the stages, and the task that ends a message has its text. *)
(***************************************************************************)
\* A step that writes no status and sends nothing in a stage.
Aside ==
  /\ UNCHANGED <<row, dispatched, redispatched>>
  /\ saved \subseteq saved'
  /\ faulted \subseteq faulted'
  /\ MaxFaults = 0 => faulted' = faulted

LEMMA StageKinds ==
  ASSUME NEW a \in Actor, StageStep(a)
  PROVE  FanSend(a) \/ SendInProcess(a) \/ Write(a) \/ Aside
<1>1. CASE Claim(a) \/ Gate(a) \/ Audit(a) \/ LoadFanout(a) \/ LoadChain(a)
  BY <1>1 DEF Claim, Gate, Audit, LoadFanout, LoadChain, Aside, rowVars, historyVars
<1>2. CASE FanSkip(a) \/ FanDone(a) \/ Track(a) \/ Bump(a)
  BY <1>2 DEF FanSkip, FanDone, Track, Bump, Aside, rowVars, historyVars
<1>3. CASE Preserve(a) \/ StoreHeld(a) \/ Take(a) \/ Clear(a)
  BY <1>3 DEF Preserve, StoreHeld, Take, Clear, Aside, rowVars, historyVars
<1>. QED BY <1>1, <1>2, <1>3 DEF StageStep

LEMMA StepKinds ==
  ASSUME TypeInv, [Next]_vars
  PROVE  \/ Aside \/ Crash
         \/ \E m \in Msg : Ingest(m)
         \/ \E a \in Actor : FanSend(a) \/ SendInProcess(a) \/ Write(a)
         \/ \E x \in Module, m \in Msg : AuditFlag(x, m)
         \/ \E m \in Msg, approve \in BOOLEAN : release_audit(m, approve)
<1>0. used.faults \in Nat
  BY DEF TypeInv, TypeOK
<1>1. ASSUME NEW m \in Msg, Recover(m) \/ Elapse(m) PROVE Aside
  BY <1>1 DEF Recover, Elapse, Aside, rowVars, historyVars
<1>2. ASSUME NEW m \in Msg, RecoverFails(m) PROVE Aside
  BY <1>0, <1>2 DEF RecoverFails, Aside, rowVars
<1>3. ASSUME NEW a \in Actor, DbFails(a) PROVE Aside
  <2>1. faulted \subseteq faulted' /\ MaxFaults # 0
    BY <1>0, <1>3 DEF DbFails
  <2>. QED BY <1>3, <2>1 DEF DbFails, Aside, rowVars
<1>4. ASSUME NEW x \in Module, Ack(x) PROVE Aside
  BY <1>4 DEF Ack, Aside, rowVars, historyVars
<1>5. ASSUME NEW x \in Module, NEW m \in Msg, Echo(x, m) \/ Abandon(x, m) \/ Receipt(x, m)
      PROVE  Aside
  BY <1>5 DEF Echo, Abandon, Receipt, Aside, rowVars, historyVars
<1>6. ASSUME DrainStart \/ SweepTick PROVE Aside
  BY <1>6 DEF DrainStart, SweepTick, Aside, rowVars, historyVars
<1>7. ASSUME NEW s \in Sweeper, SweepStep(s) PROVE Aside
  BY <1>7 DEF SweepStep, SweepDrain, Resend, ReTrack, TimeOut, SweepEnd, Aside, rowVars,
     historyVars
<1>8. ASSUME NEW r \in Resumer, ResumeStep(r) PROVE Aside
  BY <1>8 DEF ResumeStep, Resume, RestartClocks, ResumeSweep, Spawn, Aside, rowVars,
     historyVars
<1>9. ASSUME NEW r \in BlockedReason, DependencyDown(r) \/ DependencyUp(r) PROVE Aside
  BY <1>9 DEF DependencyDown, DependencyUp, Aside, rowVars, historyVars
<1>10. ASSUME PauseRequest \/ ResumeRequest \/ ControlStep PROVE Aside
  BY <1>10 DEF PauseRequest, ResumeRequest, ControlStep, Pause, DeferPause, DeferResume,
     Aside, rowVars, historyVars
<1>11. ASSUME UNCHANGED vars PROVE Aside
  BY <1>11 DEF vars, Aside, rowVars, historyVars
<1>. QED
  BY <1>1, <1>2, <1>3, <1>4, <1>5, <1>6, <1>7, <1>8, <1>9, <1>10, <1>11, StageKinds DEF Next

\* The place of a module in the chain.
LEMMA ChainPlace ==
  ASSUME DistinctChain, NEW i \in 1..Len(InModules)
  PROVE  Lifecycle!ChainPosition(InModules[i]) = i
BY DEF DistinctChain, Lifecycle!ChainPosition

\* A message goes only to modules that come after those it was sent to.
Follows(m, stage, x) ==
  \A earlier \in Stage : \A y \in SentTo(m, earlier) :
    Lifecycle!Precedes(<<earlier, y>>, <<stage, x>>)

LEMMA NothingFollowsItself ==
  ASSUME DistinctChain, NEW m \in Msg, NEW stage \in Stage,
         NEW x \in Lifecycle!ModulesOf(stage), Follows(m, stage, x)
  PROVE  <<m, stage, x>> \notin dispatched
<1>1. x \in Module
  BY RoutingAssumption DEF Lifecycle!ModulesOf, Lifecycle!InModuleSet, Stage
<1>. SUFFICES ASSUME <<m, stage, x>> \in dispatched PROVE FALSE
  OBVIOUS
<1>2. Lifecycle!Precedes(<<stage, x>>, <<stage, x>>)
  BY <1>1 DEF Follows, SentTo
<1>3. CASE stage = "in_process"
  <2>1. PICK i \in 1..Len(InModules) : x = InModules[i]
    BY <1>3 DEF Lifecycle!ModulesOf, Lifecycle!InModuleSet
  <2>2. Lifecycle!ChainPosition(x) = i
    BY <2>1, ChainPlace
  <2>. QED BY <1>2, <1>3, <2>2 DEF Lifecycle!Precedes, Lifecycle!Rank
<1>4. CASE stage # "in_process"
  BY <1>2, <1>4 DEF Lifecycle!Precedes, Lifecycle!Rank, Stage
<1>. QED BY <1>3, <1>4

LEMMA FanFollows ==
  ASSUME TypeInv, SingleInv, NEW a \in Actor, FanSend(a)
  PROVE  \E m \in Msg, stage \in Stage : \E x \in Lifecycle!ModulesOf(stage) :
           /\ Dispatch(m, stage, x)
           /\ MaxFlags = 0 => row[m] = "queued"
           /\ m \notin faulted => Follows(m, stage, x)
<1>0. task[a].pc = "fan" /\ task[a].todo # {}
  BY DEF FanSend, Is
<1>1. LocalOK(task[a], index)
  BY DEF SingleInv, LocalsOK
<1>2. PICK x \in task[a].todo : Dispatch(task[a].msg, task[a].stage, x)
  BY DEF FanSend
<1>. PICK m \in Msg, stage \in Stage : m = task[a].msg /\ stage = task[a].stage
  BY <1>0, AtWork
<1>3. /\ ~task[a].sent /\ stage # "in_process"
      /\ x \in IF stage = "pre_process" THEN PreModules ELSE PostModules
  BY <1>0, <1>1 DEF LocalOK
<1>4. x \in Lifecycle!ModulesOf(stage)
  BY <1>3 DEF Lifecycle!ModulesOf, Stage
<1>5. Reached(m, "due", stage)
  <2>1. Drives(task[a], m)
    BY <1>0, <1>3, AtWork
  <2>. QED BY <1>0, <2>1, DriverReached
<1>6. m \notin faulted => Follows(m, stage, x)
  <2>. SUFFICES ASSUME m \notin faulted PROVE Follows(m, stage, x)
    OBVIOUS
  <2>1. Before(m, stage)
    BY <1>5 DEF Reached
  <2>2. CASE stage = "pre_process"
    BY <2>1, <2>2 DEF Before, Follows
  <2>3. CASE stage = "post_process"
    <3>1. SentTo(m, "post_process") = {}
      BY <2>1, <2>3 DEF Before
    <3>2. ASSUME NEW earlier \in Stage, NEW y \in SentTo(m, earlier)
          PROVE  Lifecycle!Precedes(<<earlier, y>>, <<stage, x>>)
      <4>1. earlier \in {"pre_process", "in_process"}
        BY <3>1 DEF Stage
      <4>2. Lifecycle!Rank(earlier) < Lifecycle!Rank(stage)
        BY <2>3, <4>1 DEF Lifecycle!Rank
      <4>. QED BY <4>2 DEF Lifecycle!Precedes
    <3>. QED BY <3>2 DEF Follows
  <2>. QED BY <1>3, <2>2, <2>3 DEF Stage
<1>. QED BY <1>2, <1>4, <1>5, <1>6 DEF Reached

LEMMA ChainFollows ==
  ASSUME TypeInv, SingleInv, DistinctChain, NEW a \in Actor, SendInProcess(a)
  PROVE  \/ UNCHANGED historyVars
         \/ \E m \in Msg, stage \in Stage : \E x \in Lifecycle!ModulesOf(stage) :
              /\ Dispatch(m, stage, x)
              /\ MaxFlags = 0 => row[m] = "queued"
              /\ m \notin faulted => Follows(m, stage, x)
<1>0. task[a].pc = "send"
  BY DEF SendInProcess, Is
<1>1. LocalOK(task[a], index)
  BY DEF SingleInv, LocalsOK
<1>. PICK m \in Msg : m = task[a].msg
  BY <1>0, AtWork DEF DrivePC
<1>2. /\ task[a].stage = "in_process" /\ index[m] < Len(InModules) /\ index[m] \in Nat
      /\ task[a].mod = InModuleAt(index[m])
  BY <1>0, <1>1 DEF LocalOK, TypeInv, TypeOK
<1>. PICK n \in 1..Len(InModules) : n = index[m] + 1
  BY <1>2, RoutingAssumption
<1>. PICK x : x = InModules[n]
  OBVIOUS
<1>3. x \in Lifecycle!ModulesOf("in_process") /\ x = task[a].mod
  BY <1>2 DEF Lifecycle!ModulesOf, Lifecycle!InModuleSet, InModuleAt
<1>4. Reached(m, "due", "in_process")
  <2>1. Drives(task[a], m)
    BY <1>0, AtWork DEF DrivePC
  <2>. QED BY <1>0, <1>2, <2>1, DriverReached
<1>5. m \notin faulted => Follows(m, "in_process", x)
  <2>. SUFFICES ASSUME m \notin faulted PROVE Follows(m, "in_process", x)
    OBVIOUS
  <2>1. ChainUpTo(m, index[m])
    BY <1>4 DEF Reached, Before
  <2>2. ASSUME NEW earlier \in Stage, NEW y \in SentTo(m, earlier)
        PROVE  Lifecycle!Precedes(<<earlier, y>>, <<"in_process", x>>)
    <3>1. CASE earlier = "pre_process"
      <4>1. Lifecycle!Rank(earlier) < Lifecycle!Rank("in_process")
        BY <3>1 DEF Lifecycle!Rank
      <4>. QED BY <4>1 DEF Lifecycle!Precedes
    <3>2. CASE earlier = "in_process"
      <4>1. PICK i \in 1..Len(InModules) : i <= index[m] /\ y = InModules[i]
        BY <2>1, <3>2 DEF ChainUpTo
      <4>2. Lifecycle!ChainPosition(y) = i /\ Lifecycle!ChainPosition(x) = n
        BY <4>1, ChainPlace
      <4>3. i < n
        BY <1>2, <4>1
      <4>. QED BY <3>2, <4>2, <4>3 DEF Lifecycle!Precedes
    <3>3. earlier # "post_process"
      BY <2>1 DEF ChainUpTo
    <3>. QED BY <3>1, <3>2, <3>3 DEF Stage
  <2>. QED BY <2>2 DEF Follows
<1>6. "in_process" \in Stage
  BY DEF Stage
<1>7. UNCHANGED historyVars \/ Dispatch(m, "in_process", x)
  BY <1>3 DEF SendInProcess
<1>. QED BY <1>3, <1>4, <1>5, <1>6, <1>7 DEF Reached

--------------------------------------------------------------------------------
LEMMA RedispatchNext ==
  ASSUME DistinctChain, TypeInv, SingleInv, RedispatchIsFault, [Next]_vars
  PROVE  RedispatchIsFault'
<1>1. CASE Aside
  BY <1>1 DEF Aside, RedispatchIsFault
<1>2. CASE Crash
  BY <1>2 DEF Crash, RedispatchIsFault
<1>3. CASE UNCHANGED historyVars
  BY <1>3 DEF historyVars, RedispatchIsFault
<1>4. CASE \E m \in Msg, stage \in Stage : \E x \in Lifecycle!ModulesOf(stage) :
             Dispatch(m, stage, x) /\ (m \notin faulted => Follows(m, stage, x))
  <2>1. PICK m \in Msg, stage \in Stage :
          \E x \in Lifecycle!ModulesOf(stage) :
            Dispatch(m, stage, x) /\ (m \notin faulted => Follows(m, stage, x))
    BY <1>4
  <2>2. PICK x \in Lifecycle!ModulesOf(stage) :
          Dispatch(m, stage, x) /\ (m \notin faulted => Follows(m, stage, x))
    BY <2>1
  <2>3. m \notin faulted => <<m, stage, x>> \notin dispatched
    BY <2>2, NothingFollowsItself
  <2>. QED BY <2>2, <2>3 DEF Dispatch, RedispatchIsFault
<1>5. ASSUME NEW m \in Msg, Ingest(m) PROVE UNCHANGED historyVars
  BY <1>5 DEF Ingest
<1>6. ASSUME NEW a \in Actor, Write(a) PROVE UNCHANGED historyVars
  BY <1>6 DEF Write
<1>7. ASSUME NEW x \in Module, NEW m \in Msg, AuditFlag(x, m) PROVE UNCHANGED historyVars
  BY <1>7 DEF AuditFlag
<1>8. ASSUME NEW m \in Msg, NEW approve \in BOOLEAN, release_audit(m, approve)
      PROVE  RedispatchIsFault'
  BY <1>8 DEF release_audit, RedispatchIsFault
<1>. QED
  BY <1>1, <1>2, <1>3, <1>4, <1>5, <1>6, <1>7, <1>8, StepKinds, FanFollows, ChainFollows

\* A message has one owner at a time: never do two tasks, answers, holds or sweeps
\* stand to run its next stage.
OneOwner == \A m \in Msg : AtMostOne(Tokens(m))

\* Whatever interleaves, faults and reviews included, a message of a single-file
\* pipeline has at most one owner; NeverStuck says that it has one.
THEOREM NeverTwoOwners ==
  ASSUME SingleFile
  PROVE  Spec => []OneOwner
<1>1. SingleInv => OneOwner
  BY DEF SingleInv, TokenInv, TokenOK, OneOwner
<1>. QED
  BY <1>1, OwnedInit, OwnedNext, SingleInit, SingleNext, PTL DEF Spec

\* A stage sends a message a second time only after a failing database call
\* dropped the message half-way: without one, each module of a stage gets it
\* once per boot, whatever timeouts, resends, pauses, resumes and recoveries
\* come in between (pipeline.rs, broadcast_pre_process to start_post_process).
THEOREM OnlyFaultsRepeat ==
  ASSUME SingleFile, DistinctChain
  PROVE  Spec => []RedispatchIsFault
<1>1. Init => RedispatchIsFault
  BY DEF Init, RedispatchIsFault
<1>2. OwnedInv /\ SingleInv /\ RedispatchIsFault /\ [Next]_vars => RedispatchIsFault'
  BY RedispatchNext DEF OwnedInv
<1>. QED
  BY <1>1, <1>2, OwnedInit, OwnedNext, SingleInit, SingleNext, PTL DEF Spec

\* No failing call, no message that one dropped.
Faultless == faulted = {}

LEMMA FaultlessNext ==
  ASSUME MaxFaults = 0, TypeInv, Faultless, [Next]_vars
  PROVE  Faultless'
<1>1. CASE Aside
  BY <1>1 DEF Aside, Faultless
<1>2. CASE Crash
  BY <1>2 DEF Crash, Faultless
<1>3. ASSUME NEW m \in Msg, Ingest(m) PROVE UNCHANGED faulted
  BY <1>3 DEF Ingest, historyVars
<1>4. ASSUME NEW a \in Actor, FanSend(a) \/ SendInProcess(a) \/ Write(a)
      PROVE  UNCHANGED faulted
  BY <1>4 DEF FanSend, SendInProcess, Write, Dispatch, historyVars
<1>5. ASSUME NEW x \in Module, NEW m \in Msg, AuditFlag(x, m) PROVE UNCHANGED faulted
  BY <1>5 DEF AuditFlag, historyVars
<1>6. ASSUME NEW m \in Msg, NEW approve \in BOOLEAN, release_audit(m, approve)
      PROVE  UNCHANGED faulted
  BY <1>6 DEF release_audit
<1>. QED BY <1>1, <1>2, <1>3, <1>4, <1>5, <1>6, StepKinds DEF Faultless

\* No stage sends a message to a module twice while the database answers.
THEOREM SentOnce ==
  ASSUME SingleFile, DistinctChain, MaxFaults = 0
  PROVE  Spec => []NoDoubleDispatch
<1>1. Init => RedispatchIsFault /\ Faultless
  BY DEF Init, RedispatchIsFault, Faultless
<1>2. OwnedInv /\ SingleInv /\ RedispatchIsFault /\ Faultless /\ [Next]_vars
        => RedispatchIsFault' /\ Faultless'
  BY RedispatchNext, FaultlessNext DEF OwnedInv
<1>3. RedispatchIsFault /\ Faultless => NoDoubleDispatch
  BY DEF RedispatchIsFault, NoDoubleDispatch, Faultless
<1>. QED
  BY <1>1, <1>2, <1>3, OwnedInit, OwnedNext, SingleInit, SingleNext, PTL DEF Spec

\* No module flags anything: no row is on review.
NoReview == \A m \in Msg : row[m] # "audit"

LEMMA ReviewlessNext ==
  ASSUME MaxFlags = 0, TypeInv, NoReview, [Next]_vars
  PROVE  NoReview'
<1>0. row \in [Msg -> Status] /\ used.flags \in Nat /\ task \in [Actor -> Task]
  BY DEF TypeInv, TypeOK
<1>1. CASE Aside \/ Crash
  BY <1>1 DEF Aside, Crash, rowVars, NoReview
<1>2. ASSUME NEW m \in Msg, Ingest(m) PROVE NoReview'
  BY <1>0, <1>2 DEF Ingest, NoReview
<1>3. ASSUME NEW a \in Actor, FanSend(a) \/ SendInProcess(a) PROVE NoReview'
  BY <1>3 DEF FanSend, SendInProcess, rowVars, NoReview
<1>4. ASSUME NEW a \in Actor, Write(a) PROVE NoReview'
  <2>1. task[a].outcome # "audit"
    BY <1>0 DEF Task, Outcome
  <2>. QED BY <1>0, <1>4, <2>1 DEF Write, rowVars, NoReview
<1>5. ASSUME NEW x \in Module, NEW m \in Msg, AuditFlag(x, m) PROVE FALSE
  BY <1>0, <1>5 DEF AuditFlag
<1>6. ASSUME NEW m \in Msg, NEW approve \in BOOLEAN, release_audit(m, approve) PROVE FALSE
  BY <1>6 DEF release_audit, NoReview
<1>. QED BY <1>1, <1>2, <1>3, <1>4, <1>5, <1>6, StepKinds

LEMMA TextNext ==
  ASSUME TypeInv, SingleInv, NoReview, NoReview', CompleteHasText, [Next]_vars
  PROVE  CompleteHasText'
<1>0. row \in [Msg -> Status]
  BY DEF TypeInv, TypeOK
<1>1. CASE Aside \/ Crash
  BY <1>1 DEF Aside, Crash, rowVars, CompleteHasText
<1>2. ASSUME NEW m \in Msg, Ingest(m) PROVE CompleteHasText'
  BY <1>0, <1>2 DEF Ingest, CompleteHasText
<1>3. ASSUME NEW a \in Actor, FanSend(a) \/ SendInProcess(a) PROVE CompleteHasText'
  BY <1>3 DEF FanSend, SendInProcess, rowVars, CompleteHasText
<1>4. ASSUME NEW a \in Actor, Write(a) PROVE CompleteHasText'
  <2>1. task[a].result
    BY <1>4 DEF Write, Is, SingleInv, LocalsOK, LocalOK
  <2>. QED BY <1>0, <1>4, <2>1 DEF Write, rowVars, CompleteHasText
<1>5. ASSUME NEW x \in Module, NEW m \in Msg, AuditFlag(x, m) PROVE FALSE
  BY <1>0, <1>5 DEF AuditFlag, NoReview
<1>6. ASSUME NEW m \in Msg, NEW approve \in BOOLEAN, release_audit(m, approve) PROVE FALSE
  BY <1>6 DEF release_audit, NoReview
<1>. QED BY <1>1, <1>2, <1>3, <1>4, <1>5, <1>6, StepKinds

\* A completed row holds the text of its run: the task that writes it is the one
\* that took the state, and there is no second one (take_result and
\* write_terminal_outcome).
THEOREM CompletedWithText ==
  ASSUME SingleFile, MaxFlags = 0
  PROVE  Spec => []CompleteHasText
<1>1. Init => NoReview /\ CompleteHasText
  BY DEF Init, NoReview, CompleteHasText
<1>2. OwnedInv /\ NoReview /\ [Next]_vars => NoReview'
  BY ReviewlessNext DEF OwnedInv
<1>3. OwnedInv /\ SingleInv /\ NoReview /\ NoReview' /\ CompleteHasText /\ [Next]_vars
        => CompleteHasText'
  BY TextNext DEF OwnedInv
<1>. QED
  BY <1>1, <1>2, <1>3, OwnedInit, OwnedNext, SingleInit, SingleNext, PTL DEF Spec

--------------------------------------------------------------------------------
\* The sends of m, as the abstract specification sees them.
Sends(m) == {<<d[2], d[3]>> : d \in {e \in dispatched : e[1] = m}}
SendsOf == [m \in Msg |-> Sends(m)]

LEMMA SendsAre ==
  ASSUME TypeInv, NEW m \in Msg, NEW p
  PROVE  p \in Sends(m) <=> \E stage \in Stage : \E x \in SentTo(m, stage) : p = <<stage, x>>
<1>1. \A d \in dispatched : d \in Msg \X Stage \X Module
  BY DEF TypeInv, TypeOK
<1>2. ASSUME p \in Sends(m)
      PROVE  \E stage \in Stage : \E x \in SentTo(m, stage) : p = <<stage, x>>
  <2>1. PICK d \in dispatched : d[1] = m /\ p = <<d[2], d[3]>>
    BY <1>2 DEF Sends
  <2>2. d = <<m, d[2], d[3]>> /\ d[2] \in Stage /\ d[3] \in Module
    BY <1>1, <2>1
  <2>. QED BY <2>1, <2>2 DEF SentTo
<1>3. ASSUME NEW stage \in Stage, NEW x \in SentTo(m, stage), p = <<stage, x>>
      PROVE  p \in Sends(m)
  <2>. PICK d : d = <<m, stage, x>>
    OBVIOUS
  <2>1. d \in dispatched /\ d[1] = m /\ p = <<d[2], d[3]>>
    BY <1>3 DEF SentTo
  <2>. QED BY <2>1 DEF Sends
<1>. QED BY <1>2, <1>3

\* A send of the pipeline is a send of the abstract specification.
LEMMA SendMaps ==
  ASSUME TypeInv, UNCHANGED row, NEW m \in Msg, NEW stage \in Stage,
         NEW x \in Lifecycle!ModulesOf(stage), Dispatch(m, stage, x),
         row[m] = "queued", Follows(m, stage, x)
  PROVE  Lifecycle!Send(m, stage, x)
<1>1. \A p \in Sends(m) : Lifecycle!Precedes(p, <<stage, x>>)
  BY SendsAre DEF Follows
<1>. PICK d : d = <<m, stage, x>>
  OBVIOUS
<1>0. dispatched' = dispatched \cup {d} /\ d[1] = m /\ d[2] = stage /\ d[3] = x
  BY DEF Dispatch
<1>2. Sends(m)' = Sends(m) \cup {<<stage, x>>}
  BY <1>0 DEF Sends
<1>3. \A n \in Msg : n # m => Sends(n)' = Sends(n)
  BY <1>0 DEF Sends
<1>4. SendsOf' = [SendsOf EXCEPT ![m] = @ \cup {<<stage, x>>}]
  BY <1>2, <1>3 DEF SendsOf
<1>5. SendsOf[m] = Sends(m)
  BY DEF SendsOf
<1>6. /\ \A p \in SendsOf[m] : Lifecycle!Precedes(p, <<stage, x>>)
      /\ SendsOf' = [SendsOf EXCEPT ![m] = @ \cup {<<stage, x>>}]
  BY <1>1, <1>4, <1>5
<1>. QED BY <1>6 DEF Lifecycle!Send, SendsOf, Sends

LEMMA SendsStay ==
  ASSUME UNCHANGED <<row, dispatched>>
  PROVE  UNCHANGED Lifecycle!lifecycleVars
BY DEF Lifecycle!lifecycleVars

LEMMA SendMapsNext ==
  ASSUME TypeInv, UNCHANGED row, MaxFlags = 0, Faultless,
         \E m \in Msg, stage \in Stage : \E x \in Lifecycle!ModulesOf(stage) :
           /\ Dispatch(m, stage, x)
           /\ MaxFlags = 0 => row[m] = "queued"
           /\ m \notin faulted => Follows(m, stage, x)
  PROVE  Lifecycle!LifecycleNext
<1>1. PICK m \in Msg, stage \in Stage :
        \E x \in Lifecycle!ModulesOf(stage) :
          /\ Dispatch(m, stage, x)
          /\ MaxFlags = 0 => row[m] = "queued"
          /\ m \notin faulted => Follows(m, stage, x)
  OBVIOUS
<1>2. PICK x \in Lifecycle!ModulesOf(stage) :
        /\ Dispatch(m, stage, x)
        /\ MaxFlags = 0 => row[m] = "queued"
        /\ m \notin faulted => Follows(m, stage, x)
  BY <1>1
<1>3. x \in Module
  BY RoutingAssumption DEF Lifecycle!ModulesOf, Lifecycle!InModuleSet, Stage
<1>4. Lifecycle!Send(m, stage, x)
  BY <1>2, SendMaps DEF Faultless
<1>. QED BY <1>3, <1>4 DEF Lifecycle!LifecycleNext, Lifecycle!Stage, Stage

LEMMA LifecycleStep ==
  ASSUME DistinctChain, MaxFlags = 0, TypeInv, SingleInv, NoReview, Faultless, [Next]_vars
  PROVE  Lifecycle!LifecycleNext \/ UNCHANGED Lifecycle!lifecycleVars
<1>0. row \in [Msg -> Status] /\ used.flags \in Nat /\ task \in [Actor -> Task]
  BY DEF TypeInv, TypeOK
<1>1. CASE Aside
  BY <1>1, SendsStay DEF Aside
<1>2. CASE Crash
  <2>1. \A m \in Msg : Sends(m)' = {}
    BY <1>2 DEF Crash, Sends
  <2>2. SendsOf' = [m \in Msg |-> {}] /\ UNCHANGED row
    BY <1>2, <2>1 DEF SendsOf, Crash, rowVars
  <2>3. Lifecycle!Reboot
    BY <2>2 DEF Lifecycle!Reboot, SendsOf, Sends
  <2>. QED BY <2>3 DEF Lifecycle!LifecycleNext
<1>3. ASSUME NEW m \in Msg, Ingest(m) PROVE Lifecycle!LifecycleNext
  <2>1. UNCHANGED dispatched /\ row[m] = "none" /\ row' = [row EXCEPT ![m] = "queued"]
    BY <1>3 DEF Ingest, historyVars
  <2>2. Lifecycle!Insert(m)
    BY <2>1 DEF Lifecycle!Insert
  <2>. QED BY <2>2 DEF Lifecycle!LifecycleNext
<1>4. ASSUME NEW a \in Actor, FanSend(a) PROVE Lifecycle!LifecycleNext
  <2>1. UNCHANGED row
    BY <1>4 DEF FanSend, rowVars
  <2>. QED BY <1>4, <2>1, FanFollows, SendMapsNext
<1>5. ASSUME NEW a \in Actor, SendInProcess(a)
      PROVE  Lifecycle!LifecycleNext \/ UNCHANGED Lifecycle!lifecycleVars
  <2>1. UNCHANGED row
    BY <1>5 DEF SendInProcess, rowVars
  <2>2. CASE UNCHANGED historyVars
    BY <2>1, <2>2, SendsStay DEF historyVars
  <2>. QED BY <1>5, <2>1, <2>2, ChainFollows, SendMapsNext
<1>6. ASSUME NEW a \in Actor, Write(a) PROVE Lifecycle!LifecycleNext
  <2>0. task[a].pc = "write"
    BY <1>6 DEF Write, Is
  <2>. PICK m \in Msg : m = task[a].msg
    BY <2>0, AtWork DEF DrivePC
  <2>1. Reached(m, StepOf(task[a]), StageReached(task[a]))
    BY <2>0, AtWork, DriverReached DEF DrivePC
  <2>2. row[m] = "queued"
    BY <2>1 DEF Reached
  <2>. PICK outcome \in Outcome : outcome = task[a].outcome
    BY <1>0 DEF Task
  <2>3. row' = [row EXCEPT ![m] = outcome] /\ UNCHANGED dispatched
    BY <1>6, <2>2 DEF Write, RefusedByHold, historyVars
  <2>4. Lifecycle!Finish(m, outcome)
    BY <2>2, <2>3 DEF Lifecycle!Finish
  <2>. QED BY <2>4 DEF Lifecycle!LifecycleNext, Outcome
<1>7. ASSUME NEW x \in Module, NEW m \in Msg, AuditFlag(x, m) PROVE FALSE
  BY <1>0, <1>7 DEF AuditFlag
<1>8. ASSUME NEW m \in Msg, NEW approve \in BOOLEAN, release_audit(m, approve) PROVE FALSE
  BY <1>8 DEF release_audit, NoReview
<1>. QED BY <1>1, <1>2, <1>3, <1>4, <1>5, <1>6, <1>7, <1>8, StepKinds

\* The pipeline implements the abstract lifecycle: a queued message visits the
\* stages in their order and the chain in its order, each module once per boot,
\* nothing visits a finished message, and a row is finished once.
THEOREM LifecycleKept ==
  ASSUME SingleFile, DistinctChain, MaxFaults = 0, MaxFlags = 0
  PROVE  Spec => KeepsLifecycle
<1>1. Init => NoReview /\ Faultless /\ Lifecycle!LifecycleInit
  <2>. SUFFICES ASSUME Init PROVE NoReview /\ Faultless /\ Lifecycle!LifecycleInit
    OBVIOUS
  <2>1. NoReview /\ Faultless
    BY DEF Init, NoReview, Faultless
  <2>2. SendsOf = [m \in Msg |-> {}] /\ row = [m \in Msg |-> "none"]
    BY DEF Init, SendsOf, Sends
  <2>3. Lifecycle!LifecycleInit
    BY <2>2 DEF Lifecycle!LifecycleInit, SendsOf, Sends
  <2>. QED BY <2>1, <2>3
<1>2. OwnedInv /\ NoReview /\ Faultless /\ [Next]_vars => NoReview' /\ Faultless'
  BY ReviewlessNext, FaultlessNext DEF OwnedInv
<1>3. OwnedInv /\ SingleInv /\ NoReview /\ Faultless /\ [Next]_vars
        => [Lifecycle!LifecycleNext]_(Lifecycle!lifecycleVars)
  BY LifecycleStep DEF OwnedInv
<1>. QED
  BY <1>1, <1>2, <1>3, OwnedInit, OwnedNext, SingleInit, SingleNext, PTL
     DEF Spec, KeepsLifecycle, Lifecycle!LifecycleSpec
===============================================================================
